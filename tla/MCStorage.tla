----------------------------- MODULE MCStorage -----------------------------
(* StorageSync with leases that may run out while their holder waits for the   *)
(* storage service.                                                            *)
EXTENDS StorageSync, TLC

MCFeed == (1 :> "p") @@ (2 :> "none") @@ (3 :> "q") @@ (4 :> "p")
=============================================================================
