----------------------------- MODULE MCScheduler -----------------------------
EXTENDS Scheduler

CONSTANTS a1, a2, b1, A, B, s1, s2

MCNameOf == [h \in Conns |-> IF h = b1 THEN B ELSE A]
Req(s, p, j, banned) == [id |-> s, prio |-> p, judge_id |-> j, banned |-> banned]

NormalAndRejudge == {Req(s1, 1, None, {}), Req(s2, 2, None, {})}
Directed == {Req(s1, 1, A, {}), Req(s1, 3, None, {B}), Req(s2, 0, None, {})}
AllProblems == {{s1, s2}}
SomeProblems == {{s1}, {s1, s2}}
=============================================================================
