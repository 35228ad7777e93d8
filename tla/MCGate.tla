------------------------------- MODULE MCGate -------------------------------
(***************************************************************************)
(* Who is let in and what is kept about them, for TLC: connection          *)
(* admission, the registry of the workers, and the records of the pool and *)
(* of the workers.  The four share no state, so a behaviour exercises one  *)
(* of them and leaves the others at their start.                           *)
(***************************************************************************)
EXTENDS Admission, WorkerRegistry, Watermark, TLC

CONSTANTS T1, T2, W1, W2

VARIABLE part

(* One task under two names in turn; two tasks under one name. *)
OneMiner == [names |-> (T1 :> {W1, W2} @@ T2 :> {}), shares |-> 1]
TwoMiners == [names |-> (T1 :> {W1} @@ T2 :> {W1}), shares |-> 2]
SmallFleets == {OneMiner, TwoMiners}

Symmetry == Permutations(Conns) \cup Permutations(Ips)

GateInit ==
  /\ part \in {"gate", "registry", "mark", "board"}
  /\ Init /\ RegInit /\ MarkInit
  /\ part # "registry" => fleet = OneMiner

GateNext ==
  /\ UNCHANGED part
  /\ \/ part = "gate" /\ Next /\ UNCHANGED <<regVars, markVars>>
     \/ part = "registry" /\ RegNext /\ UNCHANGED <<vars, markVars>>
     \/ part = "mark" /\ MarkNext /\ UNCHANGED <<vars, regVars>>
     \/ part = "board" /\ BoardNext /\ UNCHANGED <<vars, regVars>>

GateSpec == GateInit /\ [][GateNext]_<<part, vars, regVars, markVars>>

(* The variables of the four parts have their types, and the queues, maps   *)
(* and lists their bounds.                                                  *)
GateTypeOK == AdmissionTypeOK /\ RegTypeOK /\ MarkTypeOK

=============================================================================
