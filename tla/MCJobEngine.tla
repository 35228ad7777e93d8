---------------------------- MODULE MCJobEngine ----------------------------
(* JobEngine on small instances: two tips, so that a reorg can come back to *)
(* the first, and enough job ids that a fresh one always exists.            *)
EXTENDS JobEngine

CONSTANTS A1, A2, T1, T2, D1, D2

MCTips == {T1, T2}
MCAddrs1 == {A1}
MCAddrs2 == {A1, A2}
MCNoDash == {}
MCOneDash == {D1}
MCTwoDash == {D1, D2}
MCJobIds == 1..(Depth + 5)

(* Tips and addresses are interchangeable and nothing reads the persisted   *)
(* address while the process runs, so one initial tip and one initial       *)
(* address lose no behaviour up to renaming.                                *)
MCInit == Init /\ nodeTip = T1 /\ address \in {A1, BadAddr} /\ saved = BadAddr
MCSpec == MCInit /\ [][Next]_vars
MCFairSpec == MCSpec /\ Fairness
=============================================================================
