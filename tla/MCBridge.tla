------------------------------ MODULE MCBridge ------------------------------
EXTENDS Bridge

CONSTANTS a1, b1, c1, A, B, C, s1, s2

MCNameOf == [h \in Conns |-> IF h = a1 THEN A ELSE IF h = b1 THEN B ELSE C]
=============================================================================
