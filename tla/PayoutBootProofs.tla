-------------------------- MODULE PayoutBootProofs --------------------------
(***************************************************************************)
(* The payout address is one of the node's chain, over any number of       *)
(* boots, saves and changes of the installation.                           *)
(***************************************************************************)
EXTENDS PayoutBoot, TLAPS

LEMMA PayoutInit == BootInit => PayoutTrue
BY DEF BootInit, PayoutTrue, PaysOnChain, PausedForCause

(* Every chain, every address and every row a step can meet. *)
LEMMA PayoutNext == PayoutTrue /\ [BootNext]_bootVars => PayoutTrue'
<1> SUFFICES ASSUME PayoutTrue, [BootNext]_bootVars PROVE PayoutTrue'
  OBVIOUS
<1> USE DEF PayoutTrue, PaysOnChain, PausedForCause
<1>1. CASE Boot
  <2> DEFINE net == network_of(node_chain)
             state == apply_persisted(config.address, net)
  <2>1. state.valid => validate(state.address, net)
    BY DEF apply_persisted
  <2>2. ~state.valid => ~validate(config.address, net)
    BY DEF apply_persisted
  <2>3. ~state.valid /\ row # Nowhere => ~validate(row, net)
    BY DEF apply_persisted
  <2>4. row = Nowhere => ~validate(row, net)
    <3>1. Belongs(Nowhere) = {}
      BY NowhereAssumption DEF Belongs, Addresses
    <3> QED
      BY <3>1 DEF validate
  <2>5. /\ network' = net /\ address' = state.address /\ valid' = state.valid
        /\ row' = row /\ config' = config
    BY <1>1 DEF Boot
  <2> HIDE DEF net, state
  <2>6. valid' => validate(address', network')
    BY <2>1, <2>5
  <2>7. ~valid' => ~validate(row', network') /\ ~validate(config'.address, network')
    BY <2>2, <2>3, <2>4, <2>5
  <2> QED
    BY <2>6, <2>7 DEF validate
<1>2. ASSUME NEW a \in Addresses, update(a) PROVE PayoutTrue'
  BY <1>2 DEF update, Edit, validate
<1>3. CASE Shutdown
  BY <1>3 DEF Shutdown
<1>4. CASE Reinstall
  BY <1>4 DEF Reinstall
<1>5. CASE UNCHANGED bootVars
  BY <1>5 DEF bootVars, validate
<1> QED
  BY <1>1, <1>2, <1>3, <1>4, <1>5 DEF BootNext

(* settings.rs and the boot: a valid address is valid on the chain the pool *)
(* booted on, and mining is paused only if neither the saved address nor    *)
(* the configured one is.                                                   *)
THEOREM PaidOnChain == BootSpec => []PayoutTrue
BY PayoutInit, PayoutNext, PTL DEF BootSpec
=============================================================================
