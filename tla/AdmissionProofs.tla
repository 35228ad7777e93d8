-------------------------- MODULE AdmissionProofs --------------------------
(***************************************************************************)
(* The connection counters are exact, for any number of connections and    *)
(* addresses and any limits.                                               *)
(***************************************************************************)
EXTENDS Admission, FiniteSetTheorems, TLAPS

(* The counts with what they are counts of. *)
CountInv ==
  /\ phase \in [Conns -> Phases]
  /\ panics \in Nat
  /\ CountsExact

LEMMA CountsFinite ==
  /\ IsFiniteSet(Holders) /\ Cardinality(Holders) \in Nat
  /\ IsFiniteSet(Sessions) /\ Cardinality(Sessions) \in Nat
<1>1. Holders \subseteq Conns /\ Sessions \subseteq Conns
  BY DEF Holders, Sessions
<1> QED
  BY <1>1, ConnsAssumption, FS_Subset, FS_CardinalityType

(* How the two sets follow the phase of one task. *)
LEMMA PhaseMoves ==
  ASSUME phase \in [Conns -> Phases], NEW c \in Conns, NEW p \in Phases,
         phase' = [phase EXCEPT ![c] = p]
  PROVE  /\ phase' \in [Conns -> Phases]
         /\ Holders' = IF p = "free" THEN Holders \ {c} ELSE Holders \cup {c}
         /\ Sessions' = IF p \in {"open", "auth"} THEN Sessions \cup {c} ELSE Sessions \ {c}
BY DEF Holders, Sessions, InLoop

(* A task takes a slot and is in no session yet. *)
LEMMA TakesSlot ==
  ASSUME CountInv, NEW c \in Conns, phase[c] = "free",
         phase' = [phase EXCEPT ![c] = "reserved"],
         active' = active + 1, connected' = connected, panics' = panics
  PROVE  CountInv'
<1>1. /\ phase' \in [Conns -> Phases] /\ Holders' = Holders \cup {c}
      /\ Sessions' = Sessions \ {c}
  BY PhaseMoves DEF CountInv, Phases
<1>2. c \notin Holders /\ Sessions' = Sessions
  BY <1>1 DEF Holders, Sessions, InLoop
<1>3. Cardinality(Holders') = Cardinality(Holders) + 1
  BY <1>1, <1>2, CountsFinite, FS_AddElement
<1> QED
  BY <1>1, <1>2, <1>3 DEF CountInv, CountsExact, SlotsExact, ConnectedExact

(* A task that is in no session gives its slot back. *)
LEMMA GivesSlot ==
  ASSUME CountInv, NEW c \in Conns, phase[c] \in {"reserved", "detect", "noise"},
         phase' = [phase EXCEPT ![c] = "free"],
         active' = active - 1, connected' = connected, panics' = panics
  PROVE  CountInv'
<1>1. /\ phase' \in [Conns -> Phases] /\ Holders' = Holders \ {c}
      /\ Sessions' = Sessions \ {c}
  BY PhaseMoves DEF CountInv, Phases
<1>2. c \in Holders /\ Sessions' = Sessions
  BY <1>1 DEF Holders, Sessions, InLoop
<1>3. Cardinality(Holders') = Cardinality(Holders) - 1
  BY <1>1, <1>2, CountsFinite, FS_RemoveElement
<1> QED
  BY <1>1, <1>2, <1>3 DEF CountInv, CountsExact, SlotsExact, ConnectedExact

(* A task moves on and keeps its slot, inside a session or outside. *)
LEMMA MovesOn ==
  ASSUME CountInv, NEW c \in Conns, NEW p \in Phases, phase[c] # "free", p # "free",
         phase[c] \in {"open", "auth"} <=> p \in {"open", "auth"},
         phase' = [phase EXCEPT ![c] = p],
         active' = active, connected' = connected, panics' = panics
  PROVE  CountInv'
<1>1. phase' \in [Conns -> Phases] /\ Holders' = Holders /\ Sessions' = Sessions
  BY PhaseMoves DEF CountInv, Holders, Sessions, InLoop
<1> QED
  BY <1>1 DEF CountInv, CountsExact, SlotsExact, ConnectedExact

(* A task enters its session loop. *)
LEMMA EntersLoop ==
  ASSUME CountInv, NEW c \in Conns, phase[c] \in {"detect", "noise"},
         EnterLoop(c), active' = active, panics' = panics
  PROVE  CountInv'
<1>1. /\ phase' \in [Conns -> Phases] /\ Holders' = Holders \cup {c}
      /\ Sessions' = Sessions \cup {c}
  BY PhaseMoves DEF CountInv, Phases, EnterLoop
<1>2. Holders' = Holders /\ c \notin Sessions
  BY <1>1 DEF Holders, Sessions, InLoop
<1>3. Cardinality(Sessions') = Cardinality(Sessions) + 1
  BY <1>1, <1>2, CountsFinite, FS_AddElement
<1>4. connected' = connected + 1
  BY DEF EnterLoop
<1>5. SlotsExact'
  BY <1>2 DEF CountInv, CountsExact, SlotsExact
<1>6. ConnectedExact'
  BY <1>3, <1>4, CountsFinite DEF CountInv, CountsExact, ConnectedExact
<1> QED
  BY <1>1, <1>5, <1>6 DEF CountInv, CountsExact

(* A session ends, and is taken off the count or, in a panic, is not. *)
LEMMA LeavesLoop ==
  ASSUME CountInv, NEW c \in Conns, InLoop(c), phase' = [phase EXCEPT ![c] = "free"],
         active' = active - 1,
         \/ connected' = connected - 1 /\ panics' = panics
         \/ connected' = connected /\ panics' = panics + 1
  PROVE  CountInv'
<1>1. /\ phase' \in [Conns -> Phases] /\ Holders' = Holders \ {c}
      /\ Sessions' = Sessions \ {c}
  BY PhaseMoves DEF CountInv, Phases
<1>2. c \in Holders /\ c \in Sessions
  BY DEF Holders, Sessions, InLoop
<1>3. /\ Cardinality(Holders') = Cardinality(Holders) - 1
      /\ Cardinality(Sessions') = Cardinality(Sessions) - 1
  BY <1>1, <1>2, CountsFinite, FS_RemoveElement
<1> QED
  BY <1>1, <1>3, CountsFinite DEF CountInv, CountsExact, SlotsExact, ConnectedExact

LEMMA CountInvInit == Init => CountInv
<1> SUFFICES ASSUME Init PROVE CountInv
  OBVIOUS
<1>1. Holders = {} /\ Sessions = {}
  BY DEF Init, Holders, Sessions, InLoop
<1> QED
  BY <1>1, FS_EmptySet DEF Init, CountInv, CountsExact, SlotsExact, ConnectedExact, Phases

LEMMA CountInvNext == CountInv /\ [Next]_vars => CountInv'
<1> SUFFICES ASSUME CountInv, [Next]_vars PROVE CountInv'
  OBVIOUS
<1>1. ASSUME UNCHANGED <<slotVars, phase>> PROVE CountInv'
  BY <1>1 DEF slotVars, CountInv, CountsExact, SlotsExact, ConnectedExact,
              Holders, Sessions, InLoop
<1>2. CASE Tick
  BY <1>1, <1>2 DEF Tick
<1>3. CASE Prune
  BY <1>1, <1>3 DEF Prune, connVars
<1>4. ASSUME NEW c \in Conns, NEW i \in Ips, Reserve(c, i) PROVE CountInv'
  BY <1>4, TakesSlot DEF Reserve
<1>5. ASSUME NEW c \in Conns, RefuseBanned(c) PROVE CountInv'
  BY <1>5, GivesSlot DEF RefuseBanned, Release
<1>6. ASSUME NEW c \in Conns, RefuseRate(c) PROVE CountInv'
  BY <1>6, GivesSlot DEF RefuseRate, Release
<1>7. ASSUME NEW c \in Conns, Abandon(c) PROVE CountInv'
  BY <1>7, GivesSlot DEF Abandon, Release
<1>8. ASSUME NEW c \in Conns, Spawn(c) PROVE CountInv'
  BY <1>8, MovesOn DEF Spawn, slotVars, Phases
<1>9. ASSUME NEW c \in Conns, DetectSv2(c) PROVE CountInv'
  BY <1>9, MovesOn DEF DetectSv2, slotVars, Phases
<1>10. ASSUME NEW c \in Conns, NEW p \in {"open", "auth"}, Inbound(c, p) PROVE CountInv'
  BY <1>10, MovesOn DEF Inbound, Reading, InLoop, slotVars, Phases
<1>11. ASSUME NEW c \in Conns, DetectSv1(c) PROVE CountInv'
  BY <1>11, EntersLoop DEF DetectSv1
<1>12. ASSUME NEW c \in Conns, NoiseDone(c) PROVE CountInv'
  BY <1>12, EntersLoop DEF NoiseDone
<1>13. ASSUME NEW c \in Conns, Leave(c) PROVE CountInv'
  BY <1>13, LeavesLoop DEF Leave, Release
<1>14. ASSUME NEW c \in Conns, Panic(c) PROVE CountInv'
  BY <1>14, LeavesLoop DEF Panic, Reading, Release
<1>15. ASSUME NEW c \in Conns, OtherArm(c) \/ Oversize(c) \/ InsertBan(c) PROVE CountInv'
  BY <1>1, <1>15 DEF OtherArm, Oversize, InsertBan, connVars
<1>16. CASE UNCHANGED vars
  BY <1>1, <1>16 DEF vars, connVars
<1> QED
  BY <1>2, <1>3, <1>4, <1>5, <1>6, <1>7, <1>8, <1>9, <1>10, <1>11, <1>12, <1>13,
     <1>14, <1>15, <1>16 DEF Next

(* No path of the accept loop or of a session task leaks a slot or gives    *)
(* one back twice, and the miners shown are the sessions there are and      *)
(* those that panicked (server.rs, session.rs, sv2/mod.rs).                 *)
THEOREM CountsAreExact == Spec => []CountsExact
<1>1. CountInv => CountsExact
  BY DEF CountInv
<1> QED
  BY <1>1, CountInvInit, CountInvNext, PTL DEF Spec
=============================================================================
