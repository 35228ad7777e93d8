-------------------------- MODULE WatermarkProofs --------------------------
(***************************************************************************)
(* The all-time record of the pool in the database, for any number of      *)
(* tasks that raise it, of values and of resets.                           *)
(***************************************************************************)
EXTENDS Watermark, TLAPS

(* What makes MarkKept inductive.  With no reset about, nothing in flight   *)
(* is above the record in memory, and if the database is behind it, the     *)
(* task that raised it has still to write.  A reset that overlaps no update *)
(* runs alone.                                                              *)
MarkInv ==
  /\ mark \in Nat /\ dbMark \in Nat
  /\ doing \in [Updaters -> {"idle", "persist", "session"}]
  /\ value \in [Updaters -> Nat]
  /\ reset \in {"no", "session", "force"} /\ overtaken \in BOOLEAN
  /\ ~overtaken /\ reset # "no" =>
       mark = 0 /\ \A u \in Updaters : doing[u] = "idle"
  /\ ~overtaken /\ reset = "no" =>
       /\ dbMark <= mark
       /\ \A u \in Updaters : doing[u] = "persist" => value[u] <= mark
       /\ dbMark = mark \/ \E u \in Updaters : doing[u] = "persist" /\ value[u] = mark

LEMMA MarkInvInit == MarkInit => MarkInv
<1> SUFFICES ASSUME MarkInit PROVE MarkInv
  OBVIOUS
<1>1. /\ doing \in [Updaters -> {"idle", "persist", "session"}]
      /\ value \in [Updaters -> Nat] /\ \A u \in Updaters : doing[u] = "idle"
  BY DEF MarkInit
<1>2. mark \in Nat /\ dbMark \in Nat /\ dbMark = mark /\ dbMark <= mark
  BY DEF MarkInit
<1>3. reset = "no" /\ overtaken \in BOOLEAN
  BY DEF MarkInit
<1>4. \A u \in Updaters : doing[u] # "persist"
  BY <1>1
<1> QED
  BY <1>1, <1>2, <1>3, <1>4, Zenon DEF MarkInv

LEMMA LargerBounds ==
  ASSUME NEW a \in Nat, NEW b \in Nat
  PROVE  /\ Larger(a, b) \in {a, b} /\ Larger(a, b) \in Nat
         /\ Larger(a, b) >= a /\ Larger(a, b) >= b
BY DEF Larger

LEMMA RaiseMark ==
  ASSUME MarkInv, NEW u \in Updaters, NEW v \in 1..MaxValue, Raise(u, v)
  PROVE  MarkInv'
<1>1. v \in Nat
  BY MarkAssumption
<1>2. /\ mark' = Larger(mark, v) /\ dbMark' = dbMark /\ reset' = reset
      /\ value' = [value EXCEPT ![u] = v] /\ doing[u] = "idle"
      /\ doing' = [doing EXCEPT ![u] = IF v > mark THEN "persist" ELSE "session"]
      /\ overtaken' = (overtaken \/ reset # "no")
  BY DEF Raise
<1>3. /\ mark' \in Nat /\ dbMark' \in Nat /\ mark' >= mark /\ mark' >= v
      /\ v > mark => mark' = v
      /\ ~(v > mark) => mark' = mark
  BY <1>1, <1>2 DEF MarkInv, Larger
<1>4. /\ value' \in [Updaters -> Nat]
      /\ doing' \in [Updaters -> {"idle", "persist", "session"}]
      /\ reset' \in {"no", "session", "force"} /\ overtaken' \in BOOLEAN
  BY <1>1, <1>2 DEF MarkInv
<1>5. ASSUME ~overtaken', reset' = "no"
      PROVE  /\ dbMark' <= mark'
             /\ \A w \in Updaters : doing'[w] = "persist" => value'[w] <= mark'
             /\ \/ dbMark' = mark'
                \/ \E w \in Updaters : doing'[w] = "persist" /\ value'[w] = mark'
  <2>1. ~overtaken /\ reset = "no"
    BY <1>2, <1>5
  <2>2. dbMark' <= mark'
    BY <1>2, <1>3, <2>1 DEF MarkInv
  <2>3. ASSUME NEW w \in Updaters, doing'[w] = "persist" PROVE value'[w] <= mark'
    <3>1. CASE w = u
      BY <1>2, <1>3, <3>1 DEF MarkInv
    <3>2. CASE w # u
      <4>1. doing[w] = "persist" /\ value'[w] = value[w] /\ value[w] \in Nat
        BY <1>2, <2>3, <3>2 DEF MarkInv
      <4>2. value[w] <= mark
        BY <2>1, <4>1 DEF MarkInv
      <4> QED
        BY <1>3, <4>1, <4>2 DEF MarkInv
    <3> QED
      BY <3>1, <3>2
  <2>4. CASE v > mark
    <3>1. doing'[u] = "persist" /\ value'[u] = v
      BY <1>2, <2>4 DEF MarkInv
    <3> QED
      BY <1>3, <2>2, <2>3, <2>4, <3>1
  <2>5. CASE ~(v > mark)
    <3>1. mark' = mark
      BY <1>3, <2>5
    <3>2. ASSUME NEW w \in Updaters, doing[w] = "persist"
          PROVE  doing'[w] = "persist" /\ value'[w] = value[w]
      BY <1>2, <3>2 DEF MarkInv
    <3> QED
      BY <1>2, <2>1, <2>2, <2>3, <3>1, <3>2 DEF MarkInv
  <2> QED
    BY <2>4, <2>5
<1>6. overtaken' \/ reset' = "no"
  BY <1>2
<1> QED
  BY <1>3, <1>4, <1>5, <1>6 DEF MarkInv

LEMMA PersistsMark ==
  ASSUME MarkInv, NEW u \in Updaters, PersistMark(u)
  PROVE  MarkInv'
<1>1. /\ doing[u] = "persist" /\ dbMark' = Larger(dbMark, value[u])
      /\ doing' = [doing EXCEPT ![u] = "session"]
      /\ UNCHANGED <<mark, value, reset, overtaken>>
  BY DEF PersistMark, set_best
<1>2. dbMark' \in Nat /\ dbMark' \in {dbMark, value[u]} /\ dbMark' >= value[u]
        /\ dbMark' >= dbMark
  BY <1>1, LargerBounds DEF MarkInv
<1>3. doing' \in [Updaters -> {"idle", "persist", "session"}]
  BY <1>1 DEF MarkInv
<1>4. ASSUME NEW w \in Updaters, w # u PROVE doing'[w] = doing[w]
  BY <1>1, <1>4 DEF MarkInv
<1>5. doing'[u] = "session"
  BY <1>1 DEF MarkInv
<1>6. ASSUME ~overtaken, reset = "no"
      PROVE  /\ dbMark' <= mark
             /\ \/ dbMark' = mark
                \/ \E w \in Updaters : doing'[w] = "persist" /\ value[w] = mark
  <2>1. dbMark <= mark /\ value[u] <= mark
    BY <1>1, <1>6 DEF MarkInv
  <2>2. dbMark' <= mark
    BY <1>2, <2>1
  <2>3. dbMark = mark => dbMark' = mark
    BY <1>2, <2>2 DEF MarkInv
  <2>4. value[u] = mark => dbMark' = mark
    BY <1>2, <2>2 DEF MarkInv
  <2> QED
    BY <1>4, <1>6, <2>2, <2>3, <2>4 DEF MarkInv
<1>7. \A w \in Updaters : doing'[w] = "persist" => doing[w] = "persist"
  BY <1>4, <1>5
<1>8. reset # "no" => overtaken
  BY <1>1 DEF MarkInv
<1> QED
  BY <1>1, <1>2, <1>3, <1>6, <1>7, <1>8 DEF MarkInv

LEMMA MarkInvNext == MarkInv /\ [MarkNext]_markVars => MarkInv'
<1> SUFFICES ASSUME MarkInv, [MarkNext]_markVars PROVE MarkInv'
  OBVIOUS
<1>1. ASSUME NEW u \in Updaters, NEW v \in 1..MaxValue, Raise(u, v) PROVE MarkInv'
  BY <1>1, RaiseMark
<1>2. ASSUME NEW u \in Updaters, PersistMark(u) PROVE MarkInv'
  BY <1>2, PersistsMark
<1>3. ASSUME NEW u \in Updaters, RaiseSession(u) PROVE MarkInv'
  BY <1>3 DEF RaiseSession, MarkInv
<1>4. CASE ResetMark
  BY <1>4 DEF ResetMark, MarkInv
<1>5. CASE ResetSession
  BY <1>5 DEF ResetSession, MarkInv
<1>6. CASE ResetForce
  BY <1>6 DEF ResetForce, MarkInv
<1>7. CASE MarkReboot
  <2>1. /\ doing' \in [Updaters -> {"idle", "persist", "session"}]
        /\ value' \in [Updaters -> Nat] /\ \A u \in Updaters : doing'[u] = "idle"
    BY <1>7 DEF MarkReboot
  <2>2. mark' \in Nat /\ dbMark' \in Nat /\ dbMark' = mark' /\ dbMark' <= mark'
    BY <1>7 DEF MarkReboot, MarkInv
  <2>3. reset' = "no" /\ overtaken' \in BOOLEAN
    BY <1>7 DEF MarkReboot
  <2>4. \A u \in Updaters : doing'[u] # "persist"
    BY <2>1
  <2> QED
    BY <2>1, <2>2, <2>3, <2>4, Zenon DEF MarkInv
<1>8. CASE UNCHANGED markVars
  BY <1>8 DEF markVars, poolMark, MarkInv
<1> QED
  BY <1>1, <1>2, <1>3, <1>4, <1>5, <1>6, <1>7, <1>8 DEF MarkNext

LEMMA NeverDropsNext == MarkInv /\ [MarkNext]_markVars => MarkNeverDrops
<1> SUFFICES ASSUME MarkInv, [MarkNext]_markVars PROVE MarkNeverDrops
  OBVIOUS
<1>1. ASSUME NEW u \in Updaters, PersistMark(u) PROVE MarkNeverDrops
  BY <1>1, LargerBounds DEF PersistMark, set_best, MarkInv, MarkNeverDrops
<1>2. CASE ResetForce
  BY <1>2 DEF ResetForce, MarkNeverDrops
<1>3. CASE dbMark' = dbMark
  BY <1>3 DEF MarkInv, MarkNeverDrops
<1> QED
  BY <1>1, <1>2, <1>3 DEF MarkNext, Raise, RaiseSession, ResetMark, ResetSession,
     MarkReboot, markVars, poolMark

(* share_accepted and update_worker_hashrate against the database           *)
(* (stats.rs): when no task is between raising the record and writing it,   *)
(* the database has the record in memory, whatever order racing tasks wrote *)
(* in, unless a reset overlapped an update; and only a reset lowers it.     *)
THEOREM RecordIsKept == MarkSpec => []MarkKept /\ [][MarkNeverDrops]_markVars
<1>1. MarkInv => MarkKept
  BY DEF MarkInv, MarkKept
<1>2. MarkSpec => []MarkInv
  BY MarkInvInit, MarkInvNext, PTL DEF MarkSpec
<1> QED
  BY <1>1, <1>2, NeverDropsNext, PTL DEF MarkSpec
=============================================================================
