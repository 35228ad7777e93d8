---------------------------- MODULE MCSv2Channel ----------------------------
(* Sv2Channel on a small instance: two tips, one address, no dashboard      *)
(* request, one device that connects, re-opens its channel and comes back.  *)
EXTENDS Sv2Channel, TLC

CONSTANTS A1, T1, T2, N1, N2

MCTips == {T1, T2}
MCAddrs == {A1}
MCNoDash == {}
MCNames == {N1, N2}
MCSymmetry == Permutations(MCNames)
MCJobIds == 1..MaxJobs

(* The address is valid from the start: MCJobEngine covers the gate. *)
MCInit == ChannelInit /\ nodeTip = T1 /\ address = A1 /\ saved = BadAddr
MCSpec == MCInit /\ [][ChannelNext]_allVars
=============================================================================
