-------------------------- MODULE JobEngineProofs --------------------------
(***************************************************************************)
(* Theorems about the template engine, for every set of tips, addresses    *)
(* and job ids, every history depth and, except where stated, every number *)
(* of concurrent settings requests.                                        *)
(***************************************************************************)
EXTENDS JobEngine, Integers, TLAPS

USE DEF Run, Procs

(* A fresh job id is a job id that no job in the engine's hands carries.    *)
(* engine.rs relies on it when find_job takes the first entry that matches. *)
LEMMA FreshIdIsFresh ==
  ASSUME FreshIds # {}
  PROVE  /\ next_job_id \in JobIds
         /\ \A j \in HeldJobs \ {NoJob} : j.id # next_job_id
<1>1. next_job_id \in FreshIds
  BY DEF next_job_id
<1>. QED
  BY <1>1 DEF FreshIds

(* What the push under the job_history lock returns: a bounded history      *)
(* whose last entry is the new one and whose others are the old ones, in    *)
(* order, shifted by one when the oldest was evicted.                       *)
LEMMA PushHistoryShape ==
  ASSUME NEW h \in Seq(Entry), Len(h) <= Depth, NEW e \in Entry
  PROVE  LET g == PushHistory(h, e)
             o == IF Len(h) >= Depth THEN 1 ELSE 0
         IN  /\ g \in Seq(Entry)
             /\ Len(g) = Len(h) - o + 1
             /\ Len(g) <= Depth
             /\ Len(g) >= 1
             /\ g[Len(g)] = e
             /\ \A i \in 1..(Len(g) - 1) : i + o \in DOMAIN h /\ g[i] = h[i + o]
<1>. DEFINE o == IF Len(h) >= Depth THEN 1 ELSE 0
            t == IF Len(h) >= Depth THEN Tail(h) ELSE h
<1>0. Depth \in Nat /\ Depth >= 1 /\ Len(h) \in Nat
  BY DepthAssumption
<1>1. /\ t \in Seq(Entry)
      /\ Len(t) = Len(h) - o
      /\ \A i \in 1..Len(t) : i + o \in DOMAIN h /\ t[i] = h[i + o]
  <2>1. CASE Len(h) >= Depth
    <3>1. h # <<>>
      BY <1>0, <2>1
    <3>. QED
      BY <1>0, <2>1, <3>1
  <2>2. CASE ~(Len(h) >= Depth)
    BY <1>0, <2>2
  <2>. QED
    BY <2>1, <2>2
<1>2. /\ Append(t, e) \in Seq(Entry)
      /\ Len(Append(t, e)) = Len(t) + 1
      /\ Append(t, e)[Len(t) + 1] = e
      /\ \A i \in 1..Len(t) : Append(t, e)[i] = t[i]
  BY <1>1
<1>3. PushHistory(h, e) = Append(t, e)
  BY DEF PushHistory
<1>. HIDE DEF t
<1>. QED
  BY <1>0, <1>1, <1>2, <1>3

-----------------------------------------------------------------------------
(* Type correctness.                                                        *)

LEMMA TypeInit == Init => TypeOK
<1>. SUFFICES ASSUME Init PROVE TypeOK
  OBVIOUS
<1>1. arg \in [Procs -> BOOLEAN] /\ persisted \in [Dash -> BOOLEAN]
  BY Zenon DEF Init
<1>2. pc \in [Procs -> {"read", "idle"}]
  BY DEF Init
<1>3. lastSent \in [job : Job \cup {NoJob}, clean : BOOLEAN]
  BY DEF Init
<1>4. blocks \in 0..MaxBlocks /\ Len(history) <= Depth /\ history \in Seq(Entry)
  BY BoundAssumption, DepthAssumption DEF Init
<1>. QED
  BY <1>1, <1>2, <1>3, <1>4 DEF Init, TypeOK

LEMMA TypeNext == TypeOK /\ [Next]_vars => TypeOK'
<1>. SUFFICES ASSUME TypeOK, [Next]_vars
              PROVE  TypeOK'
  OBVIOUS
<1>. USE DEF jobVars, nodeVars, setVars, taskVars
<1>1. CASE UNCHANGED vars
  BY <1>1 DEF TypeOK, vars
<1>2. CASE NewBlock
  BY <1>2, BoundAssumption DEF TypeOK, NewBlock
<1>3. CASE Notify
  BY <1>3 DEF TypeOK, Notify
<1>4. CASE RunNewBlock
  BY <1>4 DEF TypeOK, RunNewBlock, Begin
<1>5. CASE RunTick
  BY <1>5 DEF TypeOK, RunTick, Begin
<1>6. ASSUME NEW p \in Procs, ReadAddress(p) PROVE TypeOK'
  <2>1. CASE address \in Addrs
    <3>1. /\ payee' = [payee EXCEPT ![p] = address]
          /\ pc' = [pc EXCEPT ![p] = "fetch"]
          /\ UNCHANGED <<nodeVars, signal, setVars, jobVars, arg, built,
                         persisted>>
      BY <1>6, <2>1, BadAddrAssumption DEF ReadAddress
    <3>. QED
      BY <2>1, <3>1 DEF TypeOK
  <2>2. CASE address \notin Addrs
    <3>1. arg' \in [Procs -> BOOLEAN]
      BY <1>6, <2>2 DEF TypeOK, ReadAddress, Finish
    <3>. QED
      BY <1>6, <2>2, <3>1 DEF TypeOK, ReadAddress, Finish
  <2>. QED
    BY <2>1, <2>2
<1>7. ASSUME NEW p \in Procs, FetchTemplate(p) PROVE TypeOK'
  <2>1. [id |-> next_job_id, tip |-> nodeTip, addr |-> payee[p]] \in Job
    BY <1>7, FreshIdIsFresh DEF TypeOK, FetchTemplate, FetchTemplateAs, Job
  <2>. QED
    BY <1>7, <2>1 DEF TypeOK, FetchTemplate, FetchTemplateAs
<1>8. ASSUME NEW p \in Procs, FetchFails(p) PROVE TypeOK'
  BY <1>8 DEF TypeOK, FetchFails, Finish
<1>9. ASSUME NEW p \in Procs, Install(p) PROVE TypeOK'
  BY <1>9 DEF TypeOK, Install, tip_moved
<1>10. ASSUME NEW p \in Procs, Push(p) PROVE TypeOK'
  <2>1. [job |-> built[p], clean |-> arg[p]] \in Entry
    BY <1>10 DEF TypeOK, Push, Entry
  <2>2. history' \in Seq(Entry) /\ Len(history') <= Depth
    BY <1>10, <2>1, PushHistoryShape DEF TypeOK, Push
  <2>. QED
    BY <1>10, <2>2 DEF TypeOK, Push
<1>11. ASSUME NEW p \in Procs, Broadcast(p) PROVE TypeOK'
  BY <1>11 DEF TypeOK, Broadcast, Finish
<1>12. ASSUME NEW d \in Dash, NEW a \in Addrs \cup {BadAddr}, PostUpdate(d, a)
       PROVE  TypeOK'
  <2>1. CASE a \in Addrs
    <3>1. /\ address' = a
          /\ payee' = [payee EXCEPT ![d] = a]
          /\ pc' = [pc EXCEPT ![d] = "save"]
          /\ UNCHANGED <<nodeVars, signal, saved, jobVars, arg, built,
                         persisted>>
      BY <1>12, <2>1 DEF PostUpdate
    <3>. QED
      BY <2>1, <3>1 DEF TypeOK
  <2>2. CASE a \notin Addrs
    <3>1. /\ pc' = [pc EXCEPT ![d] = "done"]
          /\ UNCHANGED <<nodeVars, signal, setVars, jobVars, arg, payee,
                         built, persisted>>
      BY <1>12, <2>2 DEF PostUpdate
    <3>. QED
      BY <3>1 DEF TypeOK
  <2>. QED
    BY <2>1, <2>2
<1>13. ASSUME NEW d \in Dash, PostSave(d) PROVE TypeOK'
  <2>1. persisted' \in [Dash -> BOOLEAN] /\ saved' \in Addrs \cup {BadAddr}
    <3>1. CASE saved' = payee[d] /\ persisted' = [persisted EXCEPT ![d] = TRUE]
      BY <3>1, Zenon DEF TypeOK
    <3>2. CASE UNCHANGED <<saved, persisted>>
      BY <3>2 DEF TypeOK
    <3>. QED
      BY <1>13, <3>1, <3>2 DEF PostSave
  <2>. QED
    BY <1>13, <2>1 DEF TypeOK, PostSave, Begin
<1>. QED
  BY <1>1, <1>2, <1>3, <1>4, <1>5, <1>6, <1>7, <1>8, <1>9, <1>10, <1>11,
     <1>12, <1>13
  DEF Next, RunStep, PostStep, refresh

(* Every variable of the engine keeps its type; a task that has passed the  *)
(* address gate of refresh holds a valid address, and one past the fetch    *)
(* holds a job.                                                             *)
THEOREM TypeCorrect == Spec => []TypeOK
  BY TypeInit, TypeNext, PTL DEF Spec

-----------------------------------------------------------------------------
(* Job ids.                                                                 *)

(* A job that was built and is not yet in the history. *)
Unpushed(p) == pc[p] \in {"install", "push"}

(* No two jobs share an id: not two history entries, not a history entry    *)
(* and a job about to be pushed, not two jobs about to be pushed.           *)
UniqueIds ==
  /\ \A i, k \in DOMAIN history :
       history[i].job.id = history[k].job.id => i = k
  /\ \A p \in Procs, i \in DOMAIN history :
       Unpushed(p) => history[i].job.id # built[p].id
  /\ \A p, q \in Procs :
       Unpushed(p) /\ Unpushed(q) /\ p # q => built[p].id # built[q].id

LEMMA UniqueIdsNext == TypeOK /\ UniqueIds /\ [Next]_vars => UniqueIds'
<1>. SUFFICES ASSUME TypeOK, UniqueIds, [Next]_vars
              PROVE  UniqueIds'
  OBVIOUS
<1>. USE DEF jobVars, nodeVars, setVars, taskVars, Unpushed
<1>1. CASE UNCHANGED vars
  BY <1>1 DEF UniqueIds, vars
<1>2. CASE NewBlock \/ Notify
  BY <1>2 DEF UniqueIds, NewBlock, Notify
<1>3. CASE RunNewBlock \/ RunTick
  BY <1>3 DEF TypeOK, UniqueIds, RunNewBlock, RunTick, Begin
<1>4. ASSUME NEW p \in Procs, ReadAddress(p) \/ FetchFails(p)
      PROVE  UniqueIds'
  BY <1>4 DEF TypeOK, UniqueIds, ReadAddress, FetchFails, Finish
<1>5. ASSUME NEW p \in Procs, FetchTemplate(p) PROVE UniqueIds'
  <2>. DEFINE n == next_job_id
  <2>1. \A j \in HeldJobs \ {NoJob} : j.id # n
    BY <1>5, FreshIdIsFresh DEF FetchTemplate, FetchTemplateAs
  <2>2. \A i \in DOMAIN history : history[i].job.id # n
    <3>1. \A i \in DOMAIN history : history[i] \in Entry
      BY DEF TypeOK
    <3>2. \A i \in DOMAIN history : history[i].job \in Job
      BY <3>1 DEF Entry
    <3>. QED
      BY <2>1, <3>2, NoJobAssumption DEF HeldJobs
  <2>3. \A q \in Procs : Unpushed(q) => built[q].id # n
    BY <2>1, NoJobAssumption DEF HeldJobs, TypeOK
  <2>4. /\ built' = [built EXCEPT ![p] =
                       [id |-> n, tip |-> nodeTip, addr |-> payee[p]]]
        /\ pc' = [pc EXCEPT ![p] = "install"]
        /\ history' = history
    BY <1>5 DEF FetchTemplate, FetchTemplateAs
  <2>. HIDE DEF n
  <2>5. /\ built'[p].id = n /\ Unpushed(p)'
        /\ \A q \in Procs \ {p} :
             built'[q] = built[q] /\ (Unpushed(q)' <=> Unpushed(q))
    BY <2>4 DEF TypeOK
  <2>. QED
    BY <2>2, <2>3, <2>4, <2>5 DEF UniqueIds
<1>6. ASSUME NEW p \in Procs, Install(p) PROVE UniqueIds'
  BY <1>6 DEF TypeOK, UniqueIds, Install
<1>7. ASSUME NEW p \in Procs, Push(p) PROVE UniqueIds'
  <2>. DEFINE e == [job |-> built[p], clean |-> arg[p]]
              o == IF Len(history) >= Depth THEN 1 ELSE 0
  <2>1. e \in Entry
    BY <1>7 DEF TypeOK, Push, Entry
  <2>2. /\ history' \in Seq(Entry)
        /\ Len(history') >= 1
        /\ history'[Len(history')] = e
        /\ \A i \in 1..(Len(history') - 1) :
             i + o \in DOMAIN history /\ history'[i] = history[i + o]
    <3>1. history \in Seq(Entry) /\ Len(history) <= Depth
      BY DEF TypeOK
    <3>2. history' = PushHistory(history, e)
      BY <1>7 DEF Push
    <3>. HIDE DEF e
    <3>. QED
      BY <2>1, <3>1, <3>2, PushHistoryShape
  <2>3. \A i \in DOMAIN history' : i = Len(history') \/ i \in 1..(Len(history') - 1)
    BY <2>2
  <2>4. /\ built' = built
        /\ ~Unpushed(p)'
        /\ Unpushed(p)
        /\ \A q \in Procs \ {p} : Unpushed(q)' <=> Unpushed(q)
    BY <1>7 DEF TypeOK, Push
  <2>5. e.job = built[p] /\ o \in {0, 1}
    OBVIOUS
  <2>. HIDE DEF e, o
  <2>6. \A i, k \in DOMAIN history' :
          history'[i].job.id = history'[k].job.id => i = k
    <3>. SUFFICES ASSUME NEW i \in DOMAIN history', NEW k \in DOMAIN history',
                         history'[i].job.id = history'[k].job.id
                  PROVE  i = k
      OBVIOUS
    <3>1. CASE i = Len(history') /\ k = Len(history')
      BY <3>1
    <3>2. CASE i = Len(history') /\ k \in 1..(Len(history') - 1)
      BY <3>2, <2>2, <2>4, <2>5 DEF UniqueIds
    <3>3. CASE i \in 1..(Len(history') - 1) /\ k = Len(history')
      BY <3>3, <2>2, <2>4, <2>5 DEF UniqueIds
    <3>4. CASE i \in 1..(Len(history') - 1) /\ k \in 1..(Len(history') - 1)
      <4>1. i + o = k + o
        BY <3>4, <2>2 DEF UniqueIds
      <4>. QED
        BY <4>1, <3>4, <2>2, <2>5
    <3>. QED
      BY <2>3, <3>1, <3>2, <3>3, <3>4
  <2>7. ASSUME NEW q \in Procs, NEW i \in DOMAIN history', Unpushed(q)'
        PROVE  history'[i].job.id # built'[q].id
    <3>1. q # p /\ Unpushed(q)
      BY <2>4, <2>7
    <3>2. CASE i = Len(history')
      BY <3>1, <3>2, <2>2, <2>4, <2>5 DEF UniqueIds
    <3>3. CASE i \in 1..(Len(history') - 1)
      BY <3>1, <3>3, <2>2, <2>4 DEF UniqueIds
    <3>. QED
      BY <2>3, <2>7, <3>2, <3>3
  <2>. QED
    BY <2>4, <2>6, <2>7 DEF UniqueIds
<1>8. ASSUME NEW p \in Procs, Broadcast(p) PROVE UniqueIds'
  BY <1>8 DEF TypeOK, UniqueIds, Broadcast, Finish
<1>9. ASSUME NEW d \in Dash, NEW a \in Addrs \cup {BadAddr}, PostUpdate(d, a)
      PROVE  UniqueIds'
  BY <1>9 DEF TypeOK, UniqueIds, PostUpdate
<1>10. ASSUME NEW d \in Dash, PostSave(d) PROVE UniqueIds'
  BY <1>10 DEF TypeOK, UniqueIds, PostSave, Begin
<1>. QED
  BY <1>1, <1>2, <1>3, <1>4, <1>5, <1>6, <1>7, <1>8, <1>9, <1>10
  DEF Next, RunStep, PostStep, refresh

(* find_job is unambiguous: the position() it takes is the only entry with  *)
(* that job id, however many refreshes overlap.                             *)
THEOREM FindJobUnambiguous == Spec => []UniqueIds
<1>1. Init => UniqueIds
  BY DEF Init, UniqueIds, Unpushed
<1>. QED
  BY <1>1, UniqueIdsNext, TypeCorrect, PTL DEF Spec

-----------------------------------------------------------------------------
(* The history.                                                             *)

LEMMA OnlyPushWritesHistory ==
  [Next]_vars => history' = history \/ \E p \in Procs : Push(p)
  BY DEF Next, RunStep, PostStep, refresh, vars, jobVars, NewBlock, Notify,
         RunNewBlock, RunTick, ReadAddress, FetchTemplate, FetchTemplateAs,
         FetchFails, Install,
         Broadcast, PostUpdate, PostSave

(* The effect of Push(p), in the form the proofs below use. *)
LEMMA PushEffect ==
  ASSUME TypeOK, NEW p \in Procs, Push(p)
  PROVE  \E o \in {0, 1} :
           /\ Len(history) \in Nat
           /\ Len(history') = Len(history) - o + 1
           /\ Len(history') >= 1
           /\ history' \in Seq(Entry)
           /\ history'[Len(history')] = [job |-> built[p], clean |-> arg[p]]
           /\ \A i \in 1..(Len(history') - 1) :
                i + o \in DOMAIN history /\ history'[i] = history[i + o]
<1>. DEFINE e == [job |-> built[p], clean |-> arg[p]]
<1>1. e \in Entry
  BY DEF TypeOK, Push, Entry
<1>2. history \in Seq(Entry) /\ Len(history) <= Depth
  BY DEF TypeOK
<1>3. history' = PushHistory(history, e)
  BY DEF Push
<1>. HIDE DEF e
<1>4. LET o == IF Len(history) >= Depth THEN 1 ELSE 0
      IN  /\ history' \in Seq(Entry)
          /\ Len(history') = Len(history) - o + 1
          /\ Len(history') >= 1
          /\ history'[Len(history')] = e
          /\ \A i \in 1..(Len(history') - 1) :
               i + o \in DOMAIN history /\ history'[i] = history[i + o]
  BY <1>1, <1>2, <1>3, PushHistoryShape
<1>5. Len(history) \in Nat
  BY <1>2
<1>. QED
  BY <1>4, <1>5 DEF e

(* One step never turns a superseded entry into a live one. *)
RetiredStep ==
  \A i \in DOMAIN history, k \in DOMAIN history' :
    (history[i].job.id = history'[k].job.id /\ superseded_by_clean(history, i))
      => superseded_by_clean(history', k)

LEMMA RetiredNext == TypeOK /\ UniqueIds /\ [Next]_vars => RetiredStep
<1>. SUFFICES ASSUME TypeOK, UniqueIds, [Next]_vars,
                     NEW i \in DOMAIN history, NEW k \in DOMAIN history',
                     history[i].job.id = history'[k].job.id,
                     superseded_by_clean(history, i)
              PROVE  superseded_by_clean(history', k)
  BY DEF RetiredStep
<1>1. CASE history' = history
  <2>1. i = k
    BY <1>1 DEF UniqueIds
  <2>. QED
    BY <1>1, <2>1 DEF superseded_by_clean
<1>2. ASSUME NEW p \in Procs, Push(p)
      PROVE  superseded_by_clean(history', k)
  <2>1. PICK o \in {0, 1} :
           /\ Len(history) \in Nat
           /\ Len(history') = Len(history) - o + 1
           /\ Len(history') >= 1
           /\ history' \in Seq(Entry)
           /\ history'[Len(history')] = [job |-> built[p], clean |-> arg[p]]
           /\ \A n \in 1..(Len(history') - 1) :
                n + o \in DOMAIN history /\ history'[n] = history[n + o]
    BY <1>2, PushEffect
  <2>2. \A n \in DOMAIN history : history[n].job.id # built[p].id
    BY <1>2 DEF UniqueIds, Unpushed, Push
  <2>3. k # Len(history')
    BY <2>1, <2>2
  <2>4. k \in 1..(Len(history') - 1)
    BY <2>1, <2>3
  <2>5. i = k + o
    BY <2>1, <2>4 DEF UniqueIds
  <2>6. PICK m \in (i + 1)..Len(history) : history[m].clean
    BY DEF superseded_by_clean
  <2>7. m - o \in 1..(Len(history') - 1) /\ m - o \in (k + 1)..Len(history')
    <3>1. o \in Int /\ k \in Int /\ m \in Int /\ m >= k + o + 1
            /\ m <= Len(history) /\ k >= 1
      BY <2>1, <2>4, <2>5, <2>6
    <3>2. Len(history) \in Nat /\ Len(history') = Len(history) - o + 1
      BY <2>1
    <3>. QED
      BY <3>1, <3>2
  <2>8. history'[m - o] = history[m]
    BY <2>1, <2>6, <2>7
  <2>. QED
    BY <2>6, <2>7, <2>8 DEF superseded_by_clean
<1>. QED
  BY <1>1, <1>2, OnlyPushWritesHistory

(* Retirement is final: for every history depth and any number of           *)
(* overlapping refreshes, a job find_job has reported as superseded is      *)
(* never reported live again.                                               *)
THEOREM RetirementIsFinal == Spec => RetiredStaysRetired
<1>1. TypeOK /\ UniqueIds /\ [Next]_vars
        => [\A i \in DOMAIN history, k \in DOMAIN history' :
              (history[i].job.id = history'[k].job.id
                 /\ superseded_by_clean(history, i))
                => superseded_by_clean(history', k)]_vars
  BY RetiredNext DEF RetiredStep
<1>. QED
  BY <1>1, TypeCorrect, FindJobUnambiguous, PTL DEF Spec, RetiredStaysRetired

-----------------------------------------------------------------------------
(* Dead work.                                                               *)

(* Without concurrent settings requests the run loop is the only caller of  *)
(* refresh.  Between refreshes the newest entry is the current job; between *)
(* Install and Push it is the job the flag was computed against.            *)
Synced ==
  /\ pc[Run] # "push" =>
       IF history = <<>> THEN current = NoJob
                         ELSE history[Len(history)].job = current
  /\ pc[Run] = "push" =>
       /\ current = built[Run]
       /\ arg[Run] \/ (history # <<>>
                         /\ history[Len(history)].job.tip = built[Run].tip)

WorkInv == Synced /\ NoDeadWork

LEMMA WorkNext ==
  ASSUME Dash = {}
  PROVE  TypeOK /\ WorkInv /\ [Next]_vars => WorkInv'
<1>. SUFFICES ASSUME TypeOK, WorkInv, [Next]_vars
              PROVE  WorkInv'
  OBVIOUS
<1>. USE DEF jobVars, nodeVars, setVars, taskVars
<1>1. CASE UNCHANGED <<history, current, pc, built, arg>>
  BY <1>1 DEF WorkInv, Synced, NoDeadWork, LiveEntries, superseded_by_clean
<1>2. CASE /\ UNCHANGED <<history, current>>
           /\ pc[Run] # "push" /\ pc'[Run] # "push"
  BY <1>2 DEF WorkInv, Synced, NoDeadWork, LiveEntries, superseded_by_clean
<1>3. CASE Install(Run)
  <2>1. /\ pc[Run] = "install" /\ pc'[Run] = "push"
        /\ current' = built[Run] /\ built' = built /\ history' = history
        /\ arg'[Run] = (arg[Run] \/ tip_moved(current, built[Run]))
    BY <1>3 DEF Install, TypeOK
  <2>2. NoDeadWork'
    BY <2>1 DEF WorkInv, NoDeadWork, LiveEntries, superseded_by_clean
  <2>3. Synced'
    BY <2>1 DEF WorkInv, Synced, tip_moved
  <2>. QED
    BY <2>2, <2>3 DEF WorkInv
<1>4. CASE Push(Run)
  <2>1. PICK o \in {0, 1} :
           /\ Len(history) \in Nat
           /\ Len(history') = Len(history) - o + 1
           /\ Len(history') >= 1
           /\ history' \in Seq(Entry)
           /\ history'[Len(history')] = [job |-> built[Run], clean |-> arg[Run]]
           /\ \A n \in 1..(Len(history') - 1) :
                n + o \in DOMAIN history /\ history'[n] = history[n + o]
    BY <1>4, PushEffect
  <2>2. /\ pc[Run] = "push" /\ pc'[Run] = "send" /\ current' = current
        /\ current = built[Run]
    BY <1>4 DEF Push, TypeOK, WorkInv, Synced
  <2>3. Synced'
    <3>1. history' # <<>> /\ history'[Len(history')].job = built[Run]
      BY <2>1
    <3>. QED
      BY <2>2, <3>1 DEF Synced
  <2>4. ASSUME NEW i \in LiveEntries(history')
        PROVE  history'[i].job.tip = history'[Len(history')].job.tip
    <3>1. i \in DOMAIN history' /\ ~superseded_by_clean(history', i)
      BY DEF LiveEntries
    <3>2. CASE i = Len(history')
      BY <3>2
    <3>3. CASE i # Len(history')
      <4>1. i \in 1..(Len(history') - 1)
        BY <2>1, <3>1, <3>3
      <4>2. \A k \in (i + 1)..Len(history') : ~history'[k].clean
        BY <3>1 DEF superseded_by_clean
      <4>3. ~arg[Run]
        <5>1. Len(history') \in (i + 1)..Len(history')
          BY <2>1, <4>1
        <5>2. ~history'[Len(history')].clean
          BY <4>2, <5>1
        <5>. QED
          BY <2>1, <5>2
      <4>4. history # <<>> /\ history[Len(history)].job.tip = built[Run].tip
        BY <2>2, <4>3 DEF WorkInv, Synced
      <4>5. ~superseded_by_clean(history, i + o)
        <5>. SUFFICES ASSUME NEW m \in (i + o + 1)..Len(history)
                      PROVE  ~history[m].clean
          BY <2>1, <4>1 DEF superseded_by_clean
        <5>1. m \in Int /\ o \in Int /\ i \in Int /\ i >= 1
                /\ m >= i + o + 1 /\ m <= Len(history)
          BY <2>1, <4>1
        <5>2. m - o \in (i + 1)..Len(history') /\ m - o \in 1..(Len(history') - 1)
          BY <2>1, <5>1
        <5>3. (m - o) + o = m
          BY <5>1
        <5>4. history'[m - o] = history[m]
          BY <2>1, <5>2, <5>3
        <5>. QED
          BY <4>2, <5>2, <5>4
      <4>6. i + o \in LiveEntries(history)
        BY <2>1, <4>1, <4>5 DEF LiveEntries
      <4>7. history[i + o].job.tip = history[Len(history)].job.tip
        BY <4>6 DEF WorkInv, NoDeadWork
      <4>8. history'[i] = history[i + o] /\ history'[Len(history')].job = built[Run]
        BY <2>1, <4>1
      <4>. QED
        BY <4>4, <4>7, <4>8
    <3>. QED
      BY <3>2, <3>3
  <2>5. NoDeadWork'
    BY <2>4 DEF NoDeadWork
  <2>. QED
    BY <2>3, <2>5 DEF WorkInv
<1>5. CASE ReadAddress(Run) \/ FetchTemplate(Run) \/ FetchFails(Run)
             \/ Broadcast(Run) \/ RunNewBlock \/ RunTick
  BY <1>2, <1>5 DEF TypeOK, ReadAddress, FetchTemplate, FetchTemplateAs,
                    FetchFails, Broadcast,
                    RunNewBlock, RunTick, Begin, Finish
<1>6. CASE NewBlock \/ Notify \/ UNCHANGED vars
  BY <1>1, <1>6 DEF NewBlock, Notify, vars
<1>. QED
  BY <1>3, <1>4, <1>5, <1>6 DEF Next, RunStep, refresh

(* With the run loop as the only writer, as engine.rs says it is, no job    *)
(* that find_job reports as live builds on a tip other than the newest      *)
(* job's: for every history depth, any reorgs, repeated or missing          *)
(* notifications and failing fetches.                                       *)
THEOREM SingleWriterNoDeadWork ==
  ASSUME Dash = {}
  PROVE  Spec => []NoDeadWork
<1>1. Init => WorkInv
  BY DEF Init, WorkInv, Synced, NoDeadWork, LiveEntries
<1>2. WorkInv => NoDeadWork
  BY DEF WorkInv
<1>3. TypeOK /\ WorkInv /\ [Next]_vars => WorkInv'
  BY WorkNext
<1>. QED
  BY <1>1, <1>2, <1>3, TypeCorrect, PTL DEF Spec

-----------------------------------------------------------------------------
(* The job last broadcast.                                                  *)

(* The newest entry is the job last broadcast, except between Push and      *)
(* Broadcast, where it is the job about to be.                              *)
SentInv ==
  /\ pc[Run] = "send" =>
       /\ history # <<>> /\ history[Len(history)].job = built[Run]
       /\ lastSent.job # NoJob =>
            Len(history) >= 2 /\ history[Len(history) - 1].job = lastSent.job
  /\ pc[Run] # "send" /\ lastSent.job # NoJob =>
       history # <<>> /\ history[Len(history)].job = lastSent.job

LEMMA SentNext ==
  ASSUME Dash = {}, Depth >= 2
  PROVE  TypeOK /\ SentInv /\ [Next]_vars => SentInv'
<1>. SUFFICES ASSUME TypeOK, SentInv, [Next]_vars
              PROVE  SentInv'
  OBVIOUS
<1>. USE DEF jobVars, nodeVars, setVars, taskVars
<1>1. CASE /\ UNCHANGED <<history, lastSent>>
           /\ pc[Run] # "send" /\ pc'[Run] # "send"
  BY <1>1 DEF SentInv
<1>2. CASE UNCHANGED <<history, lastSent, pc, built>>
  BY <1>2 DEF SentInv
<1>3. CASE Push(Run)
  <2>. DEFINE e == [job |-> built[Run], clean |-> arg[Run]]
              o == IF Len(history) >= Depth THEN 1 ELSE 0
  <2>1. e \in Entry /\ e.job = built[Run]
    BY <1>3 DEF TypeOK, Push, Entry
  <2>2. history \in Seq(Entry) /\ Len(history) <= Depth /\ Len(history) \in Nat
    BY DEF TypeOK
  <2>3. history' = PushHistory(history, e)
    BY <1>3 DEF Push
  <2>4. /\ pc[Run] = "push" /\ pc'[Run] = "send"
        /\ built' = built /\ lastSent' = lastSent
    BY <1>3 DEF Push, TypeOK
  <2>. HIDE DEF e
  <2>5. /\ history' \in Seq(Entry)
        /\ Len(history') = Len(history) - o + 1
        /\ Len(history') >= 1
        /\ history'[Len(history')] = e
        /\ \A i \in 1..(Len(history') - 1) :
             i + o \in DOMAIN history /\ history'[i] = history[i + o]
    BY <2>1, <2>2, <2>3, PushHistoryShape
  <2>6. ASSUME lastSent.job # NoJob
        PROVE  /\ Len(history') >= 2
               /\ history'[Len(history') - 1].job = lastSent.job
    <3>1. history # <<>> /\ history[Len(history)].job = lastSent.job
      BY <2>4, <2>6 DEF SentInv
    <3>2. Len(history) >= 1
      BY <2>2, <3>1
    <3>3. Len(history') >= 2 /\ Len(history') - 1 + o = Len(history)
      BY <2>2, <2>5, <3>2, DepthAssumption
    <3>4. Len(history') - 1 \in 1..(Len(history') - 1)
      BY <2>5, <3>3, <2>2
    <3>5. history'[Len(history') - 1] = history[Len(history)]
      BY <2>5, <3>3, <3>4
    <3>. QED
      BY <3>1, <3>3, <3>5
  <2>7. history' # <<>>
    BY <2>5
  <2>. QED
    BY <2>1, <2>4, <2>5, <2>6, <2>7 DEF SentInv
<1>4. CASE Broadcast(Run)
  <2>1. /\ pc[Run] = "send" /\ pc'[Run] # "send"
        /\ history' = history /\ lastSent'.job = built[Run]
    BY <1>4 DEF Broadcast, Finish, TypeOK
  <2>. QED
    BY <2>1 DEF SentInv
<1>5. CASE ReadAddress(Run) \/ FetchTemplate(Run) \/ FetchFails(Run)
             \/ Install(Run) \/ RunNewBlock \/ RunTick
  BY <1>1, <1>5 DEF TypeOK, ReadAddress, FetchTemplate, FetchTemplateAs,
                    FetchFails, Install, RunNewBlock, RunTick, Begin, Finish
<1>6. CASE NewBlock \/ Notify \/ UNCHANGED vars
  BY <1>2, <1>6 DEF NewBlock, Notify, vars
<1>. QED
  BY <1>3, <1>4, <1>5, <1>6 DEF Next, RunStep, refresh

(* With the run loop as the only writer and room for two jobs, the job the  *)
(* sessions were last sent is always one find_job finds, also while the     *)
(* next one is pushed and evicts the oldest.                                *)
THEOREM SingleWriterSentIsKnown ==
  ASSUME Dash = {}, Depth >= 2
  PROVE  Spec => []SentJobIsKnown
<1>1. Init => SentInv
  BY DEF Init, SentInv
<1>2. TypeOK /\ SentInv => SentJobIsKnown
  <2>. SUFFICES ASSUME TypeOK, SentInv, lastSent.job # NoJob
                PROVE  \E i \in DOMAIN history : history[i].job = lastSent.job
    BY DEF SentJobIsKnown
  <2>1. Len(history) \in Nat /\ DOMAIN history = 1..Len(history)
          /\ (history # <<>> => Len(history) >= 1)
    BY DEF TypeOK
  <2>2. CASE pc[Run] = "send"
    BY <2>1, <2>2 DEF SentInv
  <2>3. CASE pc[Run] # "send"
    BY <2>1, <2>3 DEF SentInv
  <2>. QED
    BY <2>2, <2>3
<1>3. TypeOK /\ SentInv /\ [Next]_vars => SentInv'
  BY SentNext
<1>. QED
  BY <1>1, <1>2, <1>3, TypeCorrect, PTL DEF Spec

=============================================================================
