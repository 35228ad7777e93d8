--------------------------- MODULE MCMinerSession ---------------------------
(* MinerSession on small instances: two tips, one address, no dashboard     *)
(* request, one session that connects, closes and connects again.           *)
EXTENDS MinerSession

CONSTANTS A1, T1, T2, M1

MCTips == {T1, T2}
MCAddrs == {A1}
MCNoDash == {}
MCJobIds == 1..MaxJobs
MCMiners == {M1}

(* The address is valid from the start: MCJobEngine covers the gate. *)
MCInit == PoolInit /\ nodeTip = T1 /\ address = A1 /\ saved = BadAddr
MCSpec == MCInit /\ [][PoolNext]_poolVars
=============================================================================
