------------------------ MODULE MinerSessionProofs ------------------------
(***************************************************************************)
(* Theorems about the sessions fed by the template engine, for any number  *)
(* of sessions, any receiver capacity, any history depth and any size of   *)
(* the duplicate set.                                                      *)
(***************************************************************************)
EXTENDS MinerSession, JobEngineProofs

LEMMA RunIsProc == Run \in Procs
BY DEF Run, Procs

Stages == {"off", "chan", "conn", "subscribed", "authorized"}
Backlog(q) == q \in Seq(Entry) /\ Len(q) <= Cap

(* The types in the form the proofs use: of the engine, of the channel, of  *)
(* the jobs a session holds and of its shares.                              *)
EngineTypes == TypeOK /\ issued \in 0..MaxJobs

ChanTypes ==
  /\ stage \in [Miners -> Stages]
  /\ rx \in [Miners -> Seq(Entry)]
  /\ missed \in [Miners -> BOOLEAN]
  /\ \A m \in Miners : Len(rx[m]) <= Cap /\ (missed[m] => Len(rx[m]) = Cap)

WorkTypes ==
  /\ cached \in [Miners -> Job \cup {NoJob}]
  /\ told \in [Miners -> Entry \cup {NoNotify}]
  /\ heard \in [Miners -> Job \cup {NoJob}]

ShareTypes ==
  /\ seen \in [Miners -> Seq(Header)]
  /\ \A m \in Miners : Len(seen[m]) <= ShareCap
  /\ share \in [Miners -> Share \cup {NoShare}]
  /\ credited \in [Miners -> [Header -> 0..2]]

PoolTypes == EngineTypes /\ ChanTypes /\ WorkTypes /\ ShareTypes

-----------------------------------------------------------------------------
(* The bounded queues.                                                      *)

(* What a full queue of at most n becomes when x is appended: the oldest    *)
(* goes.                                                                    *)
LEMMA BoundedAppend ==
  ASSUME NEW S, NEW n \in Nat \ {0}, NEW q \in Seq(S), Len(q) <= n, NEW x \in S
  PROVE  LET g == Append(IF Len(q) >= n THEN Tail(q) ELSE q, x) IN
           /\ g \in Seq(S) /\ Len(g) <= n /\ Len(g) >= 1
           /\ g[Len(g)] = x
           /\ Len(q) >= n => Len(g) = n
<1>. DEFINE t == IF Len(q) >= n THEN Tail(q) ELSE q
<1>1. t \in Seq(S) /\ Len(t) = (IF Len(q) >= n THEN Len(q) - 1 ELSE Len(q))
  <2>1. CASE Len(q) >= n
    <3>1. q # <<>>
      BY <2>1
    <3>. QED
      BY <2>1, <3>1
  <2>2. CASE ~(Len(q) >= n)
    BY <2>2
  <2>. QED
    BY <2>1, <2>2
<1>2. /\ Append(t, x) \in Seq(S) /\ Len(Append(t, x)) = Len(t) + 1
      /\ Append(t, x)[Len(t) + 1] = x
  BY <1>1
<1>3. Len(q) \in Nat /\ Len(t) \in Nat
  BY <1>1
<1>. HIDE DEF t
<1>4. Len(q) >= n => Len(q) = n
  BY <1>3
<1>5. Len(t) + 1 <= n /\ Len(t) + 1 >= 1 /\ (Len(q) >= n => Len(t) + 1 = n)
  BY <1>1, <1>3, <1>4
<1>. QED
  BY <1>2, <1>5 DEF t

-----------------------------------------------------------------------------
(* Type correctness.                                                        *)

(* The steps of the engine the sessions do not take part in are its own. *)
LEMMA EngineSteps ==
  ASSUME Outside \/ ReadAddress(Run) \/ FetchFails(Run) \/ Install(Run) \/ Push(Run)
           \/ Broadcast(Run)
  PROVE  Next
BY DEF Outside, Next, RunStep, refresh

LEMMA NumberTypes == EngineTypes /\ Number(Run) => EngineTypes'
<1>. SUFFICES ASSUME EngineTypes, Number(Run) PROVE EngineTypes'
  OBVIOUS
<1>1. issued' \in 1..MaxJobs
  BY JobIdsAssumption DEF EngineTypes, Number
<1>2. [id |-> issued', tip |-> nodeTip, addr |-> payee[Run]] \in Job
  <2>1. nodeTip \in Tips /\ payee[Run] \in Addrs /\ issued' \in JobIds
    BY <1>1, RunIsProc, JobIdsAssumption DEF EngineTypes, TypeOK, Number, FetchTemplateAs
  <2>. QED
    BY <2>1 DEF Job
<1>3. TypeOK'
  BY <1>2 DEF EngineTypes, TypeOK, Number, FetchTemplateAs, nodeVars, setVars, jobVars
<1>. QED
  BY <1>1, <1>3, JobIdsAssumption DEF EngineTypes

LEMMA SessionKeepsEngine ==
  ASSUME NEW m \in Miners, SessionStep(m)
  PROVE  UNCHANGED <<vars, issued>>
BY DEF SessionStep, Open, CacheJob, Close, RecvJob, RecvLagged, handle_subscribe,
       handle_authorize, handle_submit, Judge

LEMMA EngineTypesNext == EngineTypes /\ [PoolNext]_poolVars => EngineTypes'
<1>. SUFFICES ASSUME EngineTypes, [PoolNext]_poolVars PROVE EngineTypes'
  OBVIOUS
<1>1. CASE UNCHANGED <<vars, issued>>
  <2>1. TypeOK'
    BY <1>1, TypeNext DEF EngineTypes
  <2>. QED
    BY <1>1, <2>1 DEF EngineTypes
<1>2. CASE Next /\ UNCHANGED issued
  BY <1>2, TypeNext DEF EngineTypes
<1>3. CASE Outside
  BY <1>2, <1>3, EngineSteps DEF Outside
<1>4. CASE Number(Run)
  BY <1>4, NumberTypes
<1>5. CASE Send(Run)
  BY <1>2, <1>5, EngineSteps DEF Send
<1>6. CASE /\ ReadAddress(Run) \/ FetchFails(Run) \/ Install(Run) \/ Push(Run)
           /\ UNCHANGED <<issued, sessVars>>
  BY <1>2, <1>6, EngineSteps
<1>7. ASSUME NEW m \in Miners, SessionStep(m) PROVE EngineTypes'
  BY <1>1, <1>7, SessionKeepsEngine
<1>8. CASE UNCHANGED poolVars
  BY <1>1, <1>8 DEF poolVars
<1>. QED
  BY <1>3, <1>4, <1>5, <1>6, <1>7, <1>8 DEF PoolNext, EngineStep

(* A broadcast carries a job. *)
LEMMA SentIsEntry ==
  ASSUME TypeOK, Broadcast(Run)
  PROVE  lastSent' \in Entry /\ lastSent'.job = built[Run]
<1>1. built[Run] \in Job /\ arg[Run] \in BOOLEAN
  BY RunIsProc DEF TypeOK, Broadcast
<1>2. lastSent' = [job |-> built[Run], clean |-> arg[Run]]
  BY DEF Broadcast
<1>. QED
  BY <1>1, <1>2 DEF Entry

LEMMA ChanTypesNext ==
  EngineTypes /\ ChanTypes /\ [PoolNext]_poolVars => ChanTypes'
<1>. SUFFICES ASSUME EngineTypes, ChanTypes, [PoolNext]_poolVars PROVE ChanTypes'
  OBVIOUS
<1>. USE CapAssumption
<1>1. CASE UNCHANGED <<stage, chanVars>>
  BY <1>1 DEF ChanTypes, chanVars
<1>2. ASSUME NEW m \in Miners, UNCHANGED chanVars, NEW s \in Stages,
             stage' = [stage EXCEPT ![m] = s]
      PROVE  ChanTypes'
  BY <1>2 DEF ChanTypes, chanVars
<1>3. CASE Send(Run)
  <2>1. lastSent' \in Entry
    BY <1>3, SentIsEntry DEF EngineTypes, Send
  <2>2. ASSUME NEW m \in Miners
        PROVE  /\ rx'[m] \in Seq(Entry) /\ Len(rx'[m]) <= Cap
               /\ missed'[m] => Len(rx'[m]) = Cap
    <3>1. rx[m] \in Seq(Entry) /\ Len(rx[m]) <= Cap /\ (missed[m] => Len(rx[m]) = Cap)
      BY DEF ChanTypes
    <3>2. missed'[m] = (missed[m] \/ (Listening(m) /\ Len(rx[m]) >= Cap))
      BY <1>3 DEF Send
    <3>3. CASE ~Listening(m)
      <4>1. rx'[m] = rx[m]
        BY <1>3, <3>3 DEF Send
      <4>. QED
        BY <3>1, <3>2, <3>3, <4>1
    <3>4. CASE Listening(m)
      <4>1. rx'[m] = Append(IF Len(rx[m]) >= Cap THEN Tail(rx[m]) ELSE rx[m], lastSent')
        BY <1>3, <3>4 DEF Send
      <4>2. /\ rx'[m] \in Seq(Entry) /\ Len(rx'[m]) <= Cap
            /\ Len(rx[m]) >= Cap => Len(rx'[m]) = Cap
        BY <2>1, <3>1, <4>1, BoundedAppend
      <4>3. missed[m] => Len(rx[m]) >= Cap
        BY <3>1
      <4>. QED
        BY <3>2, <4>2, <4>3
    <3>. QED
      BY <3>3, <3>4
  <2>3. rx' \in [Miners -> Seq(Entry)]
    <3>1. rx' = [m \in Miners |-> rx'[m]]
      BY <1>3 DEF Send
    <3>. QED
      BY <2>2, <3>1
  <2>4. missed' \in [Miners -> BOOLEAN]
    <3>1. missed' = [m \in Miners |->
                      missed[m] \/ (Listening(m) /\ Len(rx[m]) >= Cap)]
      BY <1>3 DEF Send
    <3>. QED
      BY <3>1, Zenon
  <2>5. stage' = stage
    BY <1>3 DEF Send
  <2>. QED
    BY <2>2, <2>3, <2>4, <2>5 DEF ChanTypes
<1>4. CASE Outside \/ Number(Run)
  BY <1>1, <1>4 DEF Outside, Number, sessVars
<1>5. CASE /\ ReadAddress(Run) \/ FetchFails(Run) \/ Install(Run) \/ Push(Run)
           /\ UNCHANGED <<issued, sessVars>>
  BY <1>1, <1>5 DEF sessVars
<1>6. ASSUME NEW m \in Miners,
             Open(m) \/ CacheJob(m) \/ handle_subscribe(m) \/ handle_authorize(m)
      PROVE  ChanTypes'
  BY <1>2, <1>6 DEF Open, CacheJob, handle_subscribe, handle_authorize, Stages
<1>7. ASSUME NEW m \in Miners, handle_submit(m) \/ Judge(m) PROVE ChanTypes'
  BY <1>1, <1>7 DEF handle_submit, Judge
<1>8. ASSUME NEW m \in Miners, Close(m) PROVE ChanTypes'
  <2>1. /\ stage' = [stage EXCEPT ![m] = "off"]
        /\ rx' = [rx EXCEPT ![m] = <<>>]
        /\ missed' = [missed EXCEPT ![m] = FALSE]
    BY <1>8 DEF Close
  <2>2. missed' \in [Miners -> BOOLEAN]
    BY <2>1, Zenon DEF ChanTypes
  <2>3. stage' \in [Miners -> Stages] /\ rx' \in [Miners -> Seq(Entry)]
    BY <2>1 DEF ChanTypes, Stages
  <2>4. ~missed'[m] /\ Len(rx'[m]) <= Cap
    BY <2>1 DEF ChanTypes
  <2>5. \A n \in Miners \ {m} : missed'[n] = missed[n] /\ rx'[n] = rx[n]
    BY <2>1 DEF ChanTypes
  <2>. QED
    BY <2>2, <2>3, <2>4, <2>5 DEF ChanTypes
<1>9. ASSUME NEW m \in Miners, RecvJob(m) PROVE ChanTypes'
  <2>1. /\ stage' = stage /\ missed' = missed /\ ~missed[m] /\ rx[m] # <<>>
        /\ rx' = [rx EXCEPT ![m] = Tail(@)]
    BY <1>9 DEF RecvJob
  <2>2. Tail(rx[m]) \in Seq(Entry) /\ Len(Tail(rx[m])) <= Cap
    BY <2>1 DEF ChanTypes
  <2>3. rx' \in [Miners -> Seq(Entry)] /\ rx'[m] = Tail(rx[m])
    BY <2>1, <2>2 DEF ChanTypes
  <2>4. \A n \in Miners \ {m} : rx'[n] = rx[n]
    BY <2>1 DEF ChanTypes
  <2>. QED
    BY <2>1, <2>2, <2>3, <2>4 DEF ChanTypes
<1>10. ASSUME NEW m \in Miners, RecvLagged(m) PROVE ChanTypes'
  <2>1. /\ stage' = stage /\ rx' = rx /\ missed' = [missed EXCEPT ![m] = FALSE]
    BY <1>10 DEF RecvLagged
  <2>2. missed' \in [Miners -> BOOLEAN]
    BY <2>1, Zenon DEF ChanTypes
  <2>3. \A n \in Miners : missed'[n] => missed[n]
    BY <2>1, Zenon DEF ChanTypes
  <2>. QED
    BY <2>1, <2>2, <2>3 DEF ChanTypes
<1>11. CASE UNCHANGED poolVars
  BY <1>1, <1>11 DEF poolVars, sessVars
<1>. QED
  BY <1>3, <1>4, <1>5, <1>6, <1>7, <1>8, <1>9, <1>10, <1>11
     DEF PoolNext, EngineStep, SessionStep

LEMMA WorkTypesNext ==
  EngineTypes /\ ChanTypes /\ WorkTypes /\ [PoolNext]_poolVars => WorkTypes'
<1>. SUFFICES ASSUME EngineTypes, ChanTypes, WorkTypes, [PoolNext]_poolVars
              PROVE  WorkTypes'
  OBVIOUS
<1>1. CASE UNCHANGED workVars
  BY <1>1 DEF WorkTypes, workVars
<1>2. current \in Job \cup {NoJob}
  BY DEF EngineTypes, TypeOK
<1>3. CASE Outside \/ Number(Run) \/ Send(Run)
  BY <1>1, <1>3 DEF Outside, Number, Send, sessVars
<1>4. CASE /\ ReadAddress(Run) \/ FetchFails(Run) \/ Install(Run) \/ Push(Run)
           /\ UNCHANGED <<issued, sessVars>>
  BY <1>1, <1>4 DEF sessVars
<1>5. ASSUME NEW m \in Miners, Open(m) \/ RecvLagged(m) \/ handle_subscribe(m)
                                \/ handle_submit(m) \/ Judge(m)
      PROVE  WorkTypes'
  BY <1>1, <1>5 DEF Open, RecvLagged, handle_subscribe, handle_submit, Judge
<1>6. ASSUME NEW m \in Miners, CacheJob(m) PROVE WorkTypes'
  BY <1>2, <1>6 DEF CacheJob, WorkTypes
<1>7. ASSUME NEW m \in Miners, Close(m) PROVE WorkTypes'
  BY <1>7 DEF Close, WorkTypes
<1>8. ASSUME NEW m \in Miners, RecvJob(m) PROVE WorkTypes'
  <2>. DEFINE b == Head(rx[m])
  <2>1. b \in Entry
    BY <1>8 DEF ChanTypes, RecvJob
  <2>2. b.job \in Job
    BY <2>1 DEF Entry
  <2>3. /\ cached' = [cached EXCEPT ![m] = b.job]
        /\ told' = [told EXCEPT ![m] = IF stage[m] = "authorized" THEN b ELSE @]
        /\ heard' = [heard EXCEPT ![m] = b.job]
    BY <1>8 DEF RecvJob
  <2>. HIDE DEF b
  <2>. QED
    BY <2>1, <2>2, <2>3 DEF WorkTypes
<1>9. ASSUME NEW m \in Miners, handle_authorize(m) PROVE WorkTypes'
  <2>. DEFINE job == IF cached[m] # NoJob THEN cached[m] ELSE current
  <2>1. job \in Job \cup {NoJob}
    BY <1>2 DEF WorkTypes
  <2>2. job # NoJob => [job |-> job, clean |-> TRUE] \in Entry
    BY <2>1 DEF Entry
  <2>3. /\ cached' = [cached EXCEPT ![m] = job] /\ heard' = heard
        /\ told' = [told EXCEPT ![m] = IF job = NoJob THEN @
                                       ELSE [job |-> job, clean |-> TRUE]]
    BY <1>9 DEF handle_authorize
  <2>. HIDE DEF job
  <2>. QED
    BY <2>1, <2>2, <2>3 DEF WorkTypes
<1>10. CASE UNCHANGED poolVars
  BY <1>1, <1>10 DEF poolVars, sessVars
<1>. QED
  BY <1>3, <1>4, <1>5, <1>6, <1>7, <1>8, <1>9, <1>10 DEF PoolNext, EngineStep, SessionStep

LEMMA ShareTypesNext ==
  EngineTypes /\ ShareTypes /\ [PoolNext]_poolVars => ShareTypes'
<1>. SUFFICES ASSUME EngineTypes, ShareTypes, [PoolNext]_poolVars
              PROVE  ShareTypes'
  OBVIOUS
<1>. USE CapAssumption
<1>1. CASE UNCHANGED shareVars
  BY <1>1 DEF ShareTypes, shareVars
<1>2. CASE Outside \/ Number(Run) \/ Send(Run)
  BY <1>1, <1>2 DEF Outside, Number, Send, sessVars
<1>3. CASE /\ ReadAddress(Run) \/ FetchFails(Run) \/ Install(Run) \/ Push(Run)
           /\ UNCHANGED <<issued, sessVars>>
  BY <1>1, <1>3 DEF sessVars
<1>4. ASSUME NEW m \in Miners, Open(m) \/ CacheJob(m) \/ RecvLagged(m)
                                \/ handle_subscribe(m) \/ handle_authorize(m)
      PROVE  ShareTypes'
  BY <1>1, <1>4 DEF Open, CacheJob, RecvLagged, handle_subscribe, handle_authorize
<1>5. ASSUME NEW m \in Miners, NEW q \in Seq(Header), Len(q) <= ShareCap,
             seen' = [seen EXCEPT ![m] = q]
      PROVE  seen' \in [Miners -> Seq(Header)] /\ \A n \in Miners : Len(seen'[n]) <= ShareCap
  BY <1>5 DEF ShareTypes
<1>6. <<>> \in Seq(Header) /\ Len(<<>>) <= ShareCap
  OBVIOUS
<1>7. ASSUME NEW m \in Miners, RecvJob(m) PROVE ShareTypes'
  <2>. DEFINE q == IF Head(rx[m]).clean THEN <<>> ELSE seen[m]
  <2>1. q \in Seq(Header) /\ Len(q) <= ShareCap
    BY <1>6 DEF ShareTypes
  <2>2. seen' = [seen EXCEPT ![m] = q] /\ share' = share /\ credited' = credited
    BY <1>7 DEF RecvJob
  <2>. HIDE DEF q
  <2>. QED
    BY <1>5, <2>1, <2>2 DEF ShareTypes
<1>8. ASSUME NEW m \in Miners, Close(m) PROVE ShareTypes'
  <2>1. /\ seen' = [seen EXCEPT ![m] = <<>>] /\ share' = share
        /\ credited' = [credited EXCEPT ![m] = [h \in Header |-> 0]]
    BY <1>8 DEF Close
  <2>2. [h \in Header |-> 0] \in [Header -> 0..2]
    OBVIOUS
  <2>3. credited' \in [Miners -> [Header -> 0..2]]
    BY <2>1, <2>2 DEF ShareTypes
  <2>. QED
    BY <1>5, <1>6, <2>1, <2>3 DEF ShareTypes
<1>9. ASSUME NEW m \in Miners, handle_submit(m) PROVE ShareTypes'
  <2>1. PICK i \in DOMAIN history, n \in Nonces :
          share' = [share EXCEPT ![m] =
                      [job |-> history[i].job,
                       stale |-> superseded_by_clean(history, i), nonce |-> n]]
    BY <1>9 DEF handle_submit
  <2>2. history[i].job \in Job
    <3>1. history[i] \in Entry
      BY DEF EngineTypes, TypeOK
    <3>. QED
      BY <3>1 DEF Entry
  <2>3. superseded_by_clean(history, i) \in BOOLEAN
    BY DEF superseded_by_clean
  <2>4. [job |-> history[i].job, stale |-> superseded_by_clean(history, i), nonce |-> n]
          \in Share
    BY <2>2, <2>3 DEF Share
  <2>5. UNCHANGED <<seen, credited>>
    BY <1>9 DEF handle_submit
  <2>. QED
    BY <2>1, <2>4, <2>5 DEF ShareTypes
<1>10. ASSUME NEW m \in Miners, Judge(m) PROVE ShareTypes'
  <2>. DEFINE h == HeaderOf(share[m])
  <2>1. share[m] \in Share
    BY <1>10 DEF Judge, ShareTypes
  <2>2. h \in Header
    <3>1. share[m].job \in Job /\ share[m].nonce \in Nonces
      BY <2>1 DEF Share
    <3>. QED
      BY <3>1 DEF HeaderOf, Header, Job
  <2>3. share' = [share EXCEPT ![m] = NoShare]
    BY <1>10 DEF Judge
  <2>4. share' \in [Miners -> Share \cup {NoShare}]
    BY <2>3 DEF ShareTypes
  <2>5. \/ UNCHANGED seen
        \/ seen' = [seen EXCEPT ![m] = insert(seen[m], h)]
    BY <1>10 DEF Judge
  <2>6. \/ UNCHANGED credited
        \/ credited' = [credited EXCEPT ![m][h] = IF @ < 2 THEN @ + 1 ELSE @]
    BY <1>10 DEF Judge
  <2>. HIDE DEF h
  <2>7. insert(seen[m], h) \in Seq(Header) /\ Len(insert(seen[m], h)) <= ShareCap
    <3>1. seen[m] \in Seq(Header) /\ Len(seen[m]) <= ShareCap
      BY DEF ShareTypes
    <3>. QED
      BY <2>2, <3>1, BoundedAppend DEF insert
  <2>8. seen' \in [Miners -> Seq(Header)] /\ \A n \in Miners : Len(seen'[n]) <= ShareCap
    BY <1>5, <2>5, <2>7 DEF ShareTypes
  <2>9. credited' \in [Miners -> [Header -> 0..2]]
    <3>1. credited[m] \in [Header -> 0..2] /\ credited[m][h] \in 0..2
      BY <2>2 DEF ShareTypes
    <3>. DEFINE k == IF credited[m][h] < 2 THEN credited[m][h] + 1 ELSE credited[m][h]
                f == [credited[m] EXCEPT ![h] = k]
    <3>2. k \in 0..2
      BY <3>1
    <3>3. f \in [Header -> 0..2]
      <4>. HIDE DEF k
      <4>. QED
        BY <2>2, <3>1, <3>2
    <3>4. UNCHANGED credited \/ credited' = [credited EXCEPT ![m] = f]
      BY <2>6
    <3>. HIDE DEF f
    <3>. QED
      BY <3>3, <3>4 DEF ShareTypes
  <2>. QED
    BY <2>4, <2>8, <2>9 DEF ShareTypes
<1>11. CASE UNCHANGED poolVars
  BY <1>1, <1>11 DEF poolVars, sessVars
<1>. QED
  BY <1>2, <1>3, <1>4, <1>7, <1>8, <1>9, <1>10, <1>11 DEF PoolNext, EngineStep, SessionStep

LEMMA PoolTypesInit == PoolInit => PoolTypes
<1>. SUFFICES ASSUME PoolInit PROVE PoolTypes
  OBVIOUS
<1>1. EngineTypes
  BY TypeInit, JobIdsAssumption DEF PoolInit, EngineTypes
<1>2. ChanTypes
  <2>1. missed \in [Miners -> BOOLEAN] /\ \A m \in Miners : ~missed[m]
    BY Zenon DEF PoolInit
  <2>. QED
    BY <2>1, CapAssumption DEF PoolInit, ChanTypes, Stages
<1>3. WorkTypes
  BY DEF PoolInit, WorkTypes
<1>4. ShareTypes
  <2>1. [h \in Header |-> 0] \in [Header -> 0..2]
    OBVIOUS
  <2>. QED
    BY <2>1, CapAssumption DEF PoolInit, ShareTypes
<1>. QED
  BY <1>1, <1>2, <1>3, <1>4 DEF PoolTypes

LEMMA PoolTypesNext == PoolTypes /\ [PoolNext]_poolVars => PoolTypes'
BY EngineTypesNext, ChanTypesNext, WorkTypesNext, ShareTypesNext DEF PoolTypes

LEMMA PoolTypesAlways == PoolSpec => []PoolTypes
BY PoolTypesInit, PoolTypesNext, PTL DEF PoolSpec

(* The receivers, the duplicate sets and the job counter keep their types   *)
(* and bounds, and a receiver that has lost broadcasts is full.             *)
THEOREM PoolTypeCorrect == PoolSpec => []PoolTypeOK
<1>1. PoolTypes => PoolTypeOK
  <2>. SUFFICES ASSUME PoolTypes PROVE PoolTypeOK
    OBVIOUS
  <2>. USE DEF PoolTypes, EngineTypes, ChanTypes, WorkTypes, ShareTypes
  <2>1. TypeOK /\ issued \in 0..MaxJobs
    OBVIOUS
  <2>2. stage \in [Miners -> {"off", "chan", "conn", "subscribed", "authorized"}]
    BY DEF Stages
  <2>3. ASSUME NEW m \in Miners
        PROVE  /\ Len(rx[m]) <= Cap /\ \A i \in DOMAIN rx[m] : rx[m][i] \in Entry
               /\ missed[m] => Len(rx[m]) = Cap
    OBVIOUS
  <2>4. ASSUME NEW m \in Miners
        PROVE  /\ cached[m] \in Job \cup {NoJob}
               /\ told[m] \in Entry \cup {NoNotify}
               /\ heard[m] \in Job \cup {NoJob}
    OBVIOUS
  <2>5. ASSUME NEW m \in Miners
        PROVE  /\ ToSet(seen[m]) \subseteq Header /\ Len(seen[m]) <= ShareCap
               /\ share[m] \in Share \cup {NoShare}
               /\ credited[m] \in [Header -> 0..2]
    BY DEF ToSet
  <2>. QED
    BY <2>1, <2>2, <2>3, <2>4, <2>5 DEF PoolTypeOK
<1>. QED
  BY <1>1, PoolTypesAlways, PTL

-----------------------------------------------------------------------------
(* The latest job.                                                          *)

(* One task calls refresh: the current job is the one last broadcast, or,   *)
(* between Install and Broadcast, the one about to be.                      *)
CurrentInv ==
  IF pc[Run] \in {"push", "send"} THEN current = built[Run]
  ELSE current = lastSent.job

(* What a session knows: the newest broadcast in its backlog is the last    *)
(* one sent; with an empty backlog its cached job is that one or the        *)
(* current one, because the receiver was made before the current job was    *)
(* read; and an authorized miner was told the cached job.                   *)
Informed(m) ==
  /\ stage[m] # "off" /\ rx[m] # <<>> => rx[m][Len(rx[m])].job = lastSent.job
  /\ stage[m] \in {"conn", "subscribed", "authorized"} /\ rx[m] = <<>>
       => cached[m] \in {lastSent.job, current}
  /\ stage[m] # "authorized" => told[m].job = NoJob
  /\ stage[m] = "authorized" => told[m].job = cached[m]
  /\ stage[m] = "off" => rx[m] = <<>>

LatestInv == CurrentInv /\ \A m \in Miners : Informed(m)

LEMMA LatestInit == PoolInit => LatestInv
<1>. SUFFICES ASSUME PoolInit PROVE LatestInv
  OBVIOUS
<1>1. CurrentInv
  BY RunIsProc DEF PoolInit, Init, CurrentInv
<1>2. \A m \in Miners : Informed(m)
  BY DEF PoolInit, Informed, NoNotify
<1>. QED
  BY <1>1, <1>2 DEF LatestInv

(* The engine's steps other than Install and Broadcast. *)
LEMMA QuietStep ==
  ASSUME EngineTypes, LatestInv, UNCHANGED <<current, lastSent, sessVars>>,
         \/ UNCHANGED <<pc, built>>
         \/ pc[Run] \notin {"push", "send"} /\ pc'[Run] \notin {"push", "send"}
         \/ pc[Run] = "push" /\ pc'[Run] = "send" /\ built' = built
  PROVE  LatestInv'
<1>1. CurrentInv'
  BY DEF LatestInv, CurrentInv
<1>2. ASSUME NEW m \in Miners PROVE Informed(m)'
  BY DEF LatestInv, Informed, sessVars, chanVars, workVars
<1>. QED
  BY <1>1, <1>2 DEF LatestInv

LEMMA InstallLatest ==
  ASSUME EngineTypes, LatestInv, Install(Run), UNCHANGED sessVars
  PROVE  LatestInv'
<1>1. /\ pc[Run] = "install" /\ pc'[Run] = "push" /\ built' = built
      /\ current' = built[Run] /\ lastSent' = lastSent
  BY RunIsProc DEF Install, EngineTypes, TypeOK
<1>2. current = lastSent.job
  BY <1>1 DEF LatestInv, CurrentInv
<1>3. CurrentInv'
  BY <1>1 DEF CurrentInv
<1>4. ASSUME NEW m \in Miners PROVE Informed(m)'
  BY <1>1, <1>2 DEF LatestInv, Informed, sessVars, chanVars, workVars
<1>. QED
  BY <1>3, <1>4 DEF LatestInv

LEMMA SendLatest ==
  ASSUME EngineTypes, ChanTypes, LatestInv, Send(Run)
  PROVE  LatestInv'
<1>1. /\ pc[Run] = "send" /\ pc'[Run] = "idle" /\ current' = current
      /\ lastSent' \in Entry /\ lastSent'.job = built[Run]
  BY RunIsProc, SentIsEntry DEF Send, Broadcast, Finish, EngineTypes, TypeOK
<1>2. CurrentInv'
  BY <1>1 DEF LatestInv, CurrentInv
<1>3. ASSUME NEW m \in Miners PROVE Informed(m)'
  <2>1. stage' = stage /\ cached' = cached /\ told' = told
    BY DEF Send, workVars
  <2>2. CASE ~Listening(m)
    <3>1. rx'[m] = rx[m] /\ stage[m] = "off"
      BY <2>2 DEF Send, Listening
    <3>. QED
      BY <2>1, <3>1 DEF LatestInv, Informed
  <2>3. CASE Listening(m)
    <3>1. rx'[m] = Append(IF Len(rx[m]) >= Cap THEN Tail(rx[m]) ELSE rx[m], lastSent')
      BY <2>3 DEF Send
    <3>2. rx[m] \in Seq(Entry) /\ Len(rx[m]) <= Cap
      BY DEF ChanTypes
    <3>3. /\ rx'[m] \in Seq(Entry) /\ Len(rx'[m]) >= 1
          /\ rx'[m][Len(rx'[m])] = lastSent'
      BY <1>1, <3>1, <3>2, CapAssumption, BoundedAppend
    <3>4. rx'[m] # <<>>
      BY <3>3
    <3>5. stage[m] # "off"
      BY <2>3 DEF Listening
    <3>. QED
      BY <2>1, <3>3, <3>4, <3>5 DEF LatestInv, Informed
  <2>. QED
    BY <2>2, <2>3
<1>. QED
  BY <1>2, <1>3 DEF LatestInv

LEMMA SessionLatest ==
  ASSUME PoolTypes, LatestInv, NEW m \in Miners, SessionStep(m)
  PROVE  LatestInv'
<1>. USE DEF PoolTypes
<1>0. UNCHANGED <<pc, built, current, lastSent>>
  BY SessionKeepsEngine DEF vars, jobVars, taskVars
<1>1. CurrentInv'
  BY <1>0 DEF LatestInv, CurrentInv
<1>2. Informed(m)
  BY DEF LatestInv
<1>3. ASSUME NEW n \in Miners \ {m} PROVE Informed(n)'
  <2>1. /\ stage'[n] = stage[n] /\ rx'[n] = rx[n]
        /\ cached'[n] = cached[n] /\ told'[n] = told[n]
    BY DEF SessionStep, Open, CacheJob, Close, RecvJob, RecvLagged, handle_subscribe,
           handle_authorize, handle_submit, Judge, ChanTypes, WorkTypes, chanVars, workVars
  <2>. QED
    BY <1>0, <2>1 DEF LatestInv, Informed
<1>4. ASSUME Open(m) PROVE Informed(m)'
  BY <1>0, <1>2, <1>4 DEF Open, Informed, ChanTypes, chanVars, workVars
<1>5. ASSUME CacheJob(m) PROVE Informed(m)'
  BY <1>0, <1>2, <1>5 DEF CacheJob, Informed, ChanTypes, WorkTypes, chanVars
<1>6. ASSUME Close(m) PROVE Informed(m)'
  BY <1>0, <1>6 DEF Close, Informed, ChanTypes, WorkTypes, NoNotify
<1>7. ASSUME RecvJob(m) PROVE Informed(m)'
  <2>. DEFINE q == rx[m]
  <2>1. q \in Seq(Entry) /\ q # <<>> /\ stage[m] \in {"conn", "subscribed", "authorized"}
    BY <1>7 DEF RecvJob, InLoop, ChanTypes
  <2>2. /\ rx'[m] = Tail(q) /\ stage' = stage /\ cached'[m] = Head(q).job
        /\ told'[m] = IF stage[m] = "authorized" THEN Head(q) ELSE told[m]
    BY <1>7 DEF RecvJob, ChanTypes, WorkTypes
  <2>3. q[Len(q)].job = lastSent.job
    BY <1>2, <2>1 DEF Informed
  <2>4. Tail(q) # <<>> => Tail(q)[Len(Tail(q))] = q[Len(q)]
    BY <2>1
  <2>5. Tail(q) = <<>> => Head(q) = q[Len(q)]
    <3>1. Len(q) \in Nat \ {0} /\ Len(Tail(q)) = Len(q) - 1
      BY <2>1
    <3>2. Tail(q) = <<>> => Len(Tail(q)) = 0
      <4>1. Len(<<>>) = 0
        OBVIOUS
      <4>. QED
        BY <4>1, Zenon
    <3>3. Tail(q) = <<>> => Len(q) = 1
      <4>. DEFINE n == Len(q)
                  k == Len(Tail(q))
      <4>1. n \in Nat /\ k = n - 1 /\ (Tail(q) = <<>> => k = 0)
        BY <3>1, <3>2
      <4>. HIDE DEF n, k
      <4>2. Tail(q) = <<>> => n = 1
        BY <4>1
      <4>. QED
        BY <4>2 DEF n
    <3>. QED
      BY <2>1, <3>3
  <2>. HIDE DEF q
  <2>. QED
    BY <1>0, <1>2, <2>1, <2>2, <2>3, <2>4, <2>5 DEF Informed
<1>8. ASSUME RecvLagged(m) \/ handle_submit(m) \/ Judge(m) PROVE Informed(m)'
  BY <1>0, <1>2, <1>8 DEF RecvLagged, handle_submit, Judge, Informed, chanVars, workVars
<1>9. ASSUME handle_subscribe(m) PROVE Informed(m)'
  BY <1>0, <1>2, <1>9 DEF handle_subscribe, Informed, ChanTypes, chanVars, workVars
<1>10. ASSUME handle_authorize(m) PROVE Informed(m)'
  <2>. DEFINE job == IF cached[m] # NoJob THEN cached[m] ELSE current
  <2>1. /\ stage[m] \in {"subscribed", "authorized"} /\ stage'[m] = "authorized"
        /\ rx' = rx /\ cached'[m] = job
        /\ told'[m] = IF job = NoJob THEN told[m] ELSE [job |-> job, clean |-> TRUE]
    BY <1>10 DEF handle_authorize, ChanTypes, WorkTypes, chanVars
  <2>2. told'[m].job = job
    <3>1. CASE job = NoJob
      BY <1>2, <2>1, <3>1 DEF Informed
    <3>2. CASE job # NoJob
      BY <2>1, <3>2
    <3>. QED
      BY <3>1, <3>2
  <2>3. rx[m] = <<>> => job \in {lastSent.job, current}
    BY <1>2, <2>1 DEF Informed
  <2>. HIDE DEF job
  <2>. QED
    BY <1>0, <1>2, <2>1, <2>2, <2>3 DEF Informed
<1>11. Informed(m)'
  BY <1>4, <1>5, <1>6, <1>7, <1>8, <1>9, <1>10 DEF SessionStep
<1>. QED
  BY <1>1, <1>3, <1>11 DEF LatestInv

LEMMA LatestNext == PoolTypes /\ LatestInv /\ [PoolNext]_poolVars => LatestInv'
<1>. SUFFICES ASSUME PoolTypes, LatestInv, [PoolNext]_poolVars PROVE LatestInv'
  OBVIOUS
<1>0. EngineTypes /\ ChanTypes
  BY DEF PoolTypes
<1>1. CASE Outside
  BY <1>0, <1>1, QuietStep, RunIsProc
     DEF Outside, NewBlock, Notify, RunNewBlock, RunTick, Begin, EngineTypes, TypeOK,
         jobVars, taskVars
<1>2. CASE Number(Run)
  BY <1>0, <1>2, QuietStep, RunIsProc
     DEF Number, FetchTemplateAs, EngineTypes, TypeOK, jobVars
<1>3. CASE Send(Run)
  BY <1>0, <1>3, SendLatest
<1>4. CASE Install(Run) /\ UNCHANGED sessVars
  BY <1>0, <1>4, InstallLatest
<1>5. CASE (ReadAddress(Run) \/ FetchFails(Run) \/ Push(Run)) /\ UNCHANGED sessVars
  BY <1>0, <1>5, QuietStep, RunIsProc
     DEF ReadAddress, FetchFails, Push, Finish, EngineTypes, TypeOK
<1>6. ASSUME NEW m \in Miners, SessionStep(m) PROVE LatestInv'
  BY <1>6, SessionLatest
<1>7. CASE UNCHANGED poolVars
  BY <1>0, <1>7, QuietStep DEF poolVars, vars, jobVars, taskVars
<1>. QED
  BY <1>1, <1>2, <1>3, <1>4, <1>5, <1>6, <1>7 DEF PoolNext, EngineStep

(* Once refresh has returned and a session has drained its channel, its     *)
(* miner works on the current job: for any number of sessions, whatever     *)
(* their receivers lost, and however connecting and authorizing interleaved *)
(* with refresh (session.rs, run and handle_authorize).                     *)
THEOREM MinersAreOnLatestJob == PoolSpec => []MinerOnLatestJob
<1>1. LatestInv => MinerOnLatestJob
  <2>. SUFFICES ASSUME LatestInv, \A p \in Procs : pc[p] \in {"idle", "done"},
                       NEW m \in Miners, stage[m] = "authorized", rx[m] = <<>>
                PROVE  told[m].job = current
    BY DEF MinerOnLatestJob
  <2>1. current = lastSent.job
    BY RunIsProc DEF LatestInv, CurrentInv
  <2>. QED
    BY <2>1 DEF LatestInv, Informed
<1>. QED
  BY <1>1, LatestInit, LatestNext, PoolTypesAlways, PTL DEF PoolSpec
=============================================================================
