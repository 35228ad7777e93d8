---------------------------- MODULE MinerSession ----------------------------
(***************************************************************************)
(* Stratum V1 sessions (src/src/network/session.rs) fed by the template    *)
(* engine: the broadcast channel, a session's cached job and duplicate set *)
(* (ShareSet in src/src/mining/validator.rs), and what a miner is told and *)
(* credited.  Composes the run loop of JobEngine with the sessions.        *)
(*                                                                         *)
(* A session is one task: while it handles a line it takes nothing from    *)
(* the channel.  handle_submit is split in two, because the engine runs    *)
(* while the share is validated on a blocking thread.                      *)
(***************************************************************************)
EXTENDS JobEngine, SequencesExt

CONSTANTS
  Miners,     \* sessions, one connection slot each
  Nonces,     \* what a miner may vary in a header that meets its target
  MaxJobs,    \* bound: jobs built in a behaviour
  Cap,        \* JOB_BROADCAST_CAP
  ShareCap,   \* ShareSet.max_size
  NoShare     \* no submission is being handled

ASSUME CapAssumption == Cap \in Nat \ {0} /\ ShareCap \in Nat \ {0}
ASSUME JobIdsAssumption == MaxJobs \in Nat /\ JobIds = 1..MaxJobs

(* What a header commits to.  Jobs on the same tip that pay the same        *)
(* address may have byte-identical templates, as an idle mempool gives.     *)
Header == [tip : Tips, addr : Addrs, nonce : Nonces]
Share == [job : Job, stale : BOOLEAN, nonce : Nonces]

ASSUME NoShareAssumption == NoShare \notin Share

VARIABLES
  issued,    \* jobs numbered so far: the counter of next_job_id
  stage,     \* "off", "chan", "conn", "subscribed", "authorized"
  rx,        \* the receiver's backlog of broadcasts
  missed,    \* the receiver lost broadcasts and has not been told
  cached,    \* session.current_job
  told,      \* the last mining.notify sent: job and clean_jobs
  heard,     \* history: the job last taken from the channel
  seen,      \* session.share_set, in insertion order
  share,     \* the submission being handled, with the entry find_job gave
  credited   \* per header: how often the session credited it, up to 2

chanVars == <<rx, missed>>
workVars == <<cached, told, heard>>
shareVars == <<seen, share, credited>>
sessVars == <<stage, chanVars, workVars, shareVars>>
poolVars == <<vars, issued, sessVars>>

NoNotify == [job |-> NoJob, clean |-> FALSE]

PoolInit ==
  /\ Init
  /\ issued = 0
  /\ stage = [m \in Miners |-> "off"]
  /\ rx = [m \in Miners |-> <<>>]
  /\ missed = [m \in Miners |-> FALSE]
  /\ cached = [m \in Miners |-> NoJob]
  /\ told = [m \in Miners |-> NoNotify]
  /\ heard = [m \in Miners |-> NoJob]
  /\ seen = [m \in Miners |-> <<>>]
  /\ share = [m \in Miners |-> NoShare]
  /\ credited = [m \in Miners |-> [h \in Header |-> 0]]

-----------------------------------------------------------------------------
(* The engine's side. *)

(* Mutant: the receiver is made at mining.subscribe, after the current job  *)
(* was read.                                                                *)
Listening_Late(m) == stage[m] \in {"subscribed", "authorized"}

(* The session's receiver exists. *)
Listening(m) == stage[m] # "off"

(* The last step of refresh: every receiver gets the job; one whose backlog *)
(* is full loses its oldest.                                                *)
Send(p) ==
  /\ Broadcast(p)
  /\ rx' = [m \in Miners |->
              IF ~Listening(m) THEN rx[m]
              ELSE Append(IF Len(rx[m]) >= Cap THEN Tail(rx[m]) ELSE rx[m],
                          lastSent')]
  /\ missed' = [m \in Miners |->
                  missed[m] \/ (Listening(m) /\ Len(rx[m]) >= Cap)]
  /\ UNCHANGED <<issued, stage, workVars, shareVars>>

Number(p) ==
  /\ issued < MaxJobs
  /\ issued' = issued + 1
  /\ FetchTemplateAs(p, issued')
  /\ UNCHANGED sessVars

EngineStep(p) ==
  \/ Number(p)
  \/ Send(p)
  \/ /\ ReadAddress(p) \/ FetchFails(p) \/ Install(p) \/ Push(p)
     /\ UNCHANGED <<issued, sessVars>>

Outside ==
  /\ NewBlock \/ Notify \/ RunNewBlock \/ RunTick
  /\ UNCHANGED <<issued, sessVars>>

-----------------------------------------------------------------------------
(* run, up to the loop. *)

Open(m) ==
  /\ stage[m] = "off"
  /\ stage' = [stage EXCEPT ![m] = "chan"]
  /\ UNCHANGED <<vars, issued, chanVars, workVars, shareVars>>

CacheJob(m) ==
  /\ stage[m] = "chan"
  /\ stage' = [stage EXCEPT ![m] = "conn"]
  /\ cached' = [cached EXCEPT ![m] = current]
  /\ UNCHANGED <<vars, issued, chanVars, told, heard, shareVars>>

InLoop(m) ==
  stage[m] \in {"conn", "subscribed", "authorized"} /\ share[m] = NoShare

(* The loop ends, on a timeout, an error or the end of the stream, and the  *)
(* session is dropped; the next one in this slot has another extranonce1,   *)
(* so its headers are new.                                                  *)
Close(m) ==
  /\ InLoop(m)
  /\ stage' = [stage EXCEPT ![m] = "off"]
  /\ rx' = [rx EXCEPT ![m] = <<>>]
  /\ missed' = [missed EXCEPT ![m] = FALSE]
  /\ cached' = [cached EXCEPT ![m] = NoJob]
  /\ told' = [told EXCEPT ![m] = NoNotify]
  /\ heard' = [heard EXCEPT ![m] = NoJob]
  /\ seen' = [seen EXCEPT ![m] = <<>>]
  /\ credited' = [credited EXCEPT ![m] = [h \in Header |-> 0]]
  /\ UNCHANGED <<vars, issued, share>>

(* The broadcast arm of the loop: a clean job empties the duplicate set,    *)
(* an authorized miner is notified, any other session keeps the job.        *)
RecvJob(m) ==
  /\ InLoop(m)
  /\ ~missed[m]
  /\ rx[m] # <<>>
  /\ LET b == Head(rx[m]) IN
       /\ seen' = [seen EXCEPT ![m] = IF b.clean THEN <<>> ELSE @]
       /\ cached' = [cached EXCEPT ![m] = b.job]
       /\ told' = [told EXCEPT ![m] = IF stage[m] = "authorized" THEN b ELSE @]
       /\ heard' = [heard EXCEPT ![m] = b.job]
  /\ rx' = [rx EXCEPT ![m] = Tail(@)]
  /\ UNCHANGED <<vars, issued, stage, missed, share, credited>>

(* RecvError::Lagged: logged, and the loop goes on with what is left. *)
RecvLagged(m) ==
  /\ InLoop(m)
  /\ missed[m]
  /\ missed' = [missed EXCEPT ![m] = FALSE]
  /\ UNCHANGED <<vars, issued, stage, rx, workVars, shareVars>>

-----------------------------------------------------------------------------
(* The handlers. *)

handle_subscribe(m) ==
  /\ InLoop(m)
  /\ stage[m] = "conn"
  /\ stage' = [stage EXCEPT ![m] = "subscribed"]
  /\ UNCHANGED <<vars, issued, chanVars, workVars, shareVars>>

(* The cached job, or the engine's if there is none, goes out as clean. *)
handle_authorize(m) ==
  /\ InLoop(m)
  /\ stage[m] \in {"subscribed", "authorized"}
  /\ stage' = [stage EXCEPT ![m] = "authorized"]
  /\ LET job == IF cached[m] # NoJob THEN cached[m] ELSE current IN
       /\ cached' = [cached EXCEPT ![m] = job]
       /\ told' = [told EXCEPT ![m] = IF job = NoJob THEN @
                                      ELSE [job |-> job, clean |-> TRUE]]
  /\ UNCHANGED <<vars, issued, chanVars, heard, shareVars>>

(* handle_submit up to the validation: find_job, under its read lock.  The  *)
(* miner may name any job, told on this connection or on another; one that  *)
(* the history does not hold is answered and changes nothing here.          *)
handle_submit(m) ==
  /\ InLoop(m)
  /\ stage[m] = "authorized"
  /\ \E i \in DOMAIN history, n \in Nonces :
       share' = [share EXCEPT ![m] =
                   [job |-> history[i].job,
                    stale |-> superseded_by_clean(history, i), nonce |-> n]]
  /\ UNCHANGED <<vars, issued, stage, chanVars, workVars, seen, credited>>

HeaderOf(s) == [tip |-> s.job.tip, addr |-> s.job.addr, nonce |-> s.nonce]

(* Mutant: the duplicate set grows past its bound by one. *)
insert_OffByOne(order, key) ==
  Append(IF Len(order) > ShareCap THEN Tail(order) ELSE order, key)

(* ShareSet::insert of a key it does not hold. *)
insert(order, key) ==
  Append(IF Len(order) >= ShareCap THEN Tail(order) ELSE order, key)

(* The rest of handle_submit: validate_share_no_dedup, dedup, and the       *)
(* credit.  A block whose submission fails is remembered, not credited.     *)
Judge(m) ==
  /\ share[m] # NoShare
  /\ share' = [share EXCEPT ![m] = NoShare]
  /\ LET h == HeaderOf(share[m]) IN
       \/ /\ share[m].stale \/ h \in ToSet(seen[m])
          /\ UNCHANGED <<seen, credited>>
       \/ /\ ~share[m].stale /\ h \notin ToSet(seen[m])
          /\ seen' = [seen EXCEPT ![m] = insert(@, h)]
          /\ \/ credited' = [credited EXCEPT ![m][h] = IF @ < 2 THEN @ + 1 ELSE @]
             \/ UNCHANGED credited
  /\ UNCHANGED <<vars, issued, stage, chanVars, workVars>>

-----------------------------------------------------------------------------
SessionStep(m) ==
  \/ Open(m) \/ CacheJob(m) \/ Close(m)
  \/ RecvJob(m) \/ RecvLagged(m)
  \/ handle_subscribe(m) \/ handle_authorize(m)
  \/ handle_submit(m) \/ Judge(m)

PoolNext ==
  \/ Outside
  \/ EngineStep(Run)
  \/ \E m \in Miners : SessionStep(m)

PoolSpec == PoolInit /\ [][PoolNext]_poolVars

-----------------------------------------------------------------------------
(* Properties. *)

PoolTypeOK ==
  /\ TypeOK
  /\ issued \in 0..MaxJobs
  /\ stage \in [Miners -> {"off", "chan", "conn", "subscribed", "authorized"}]
  /\ \A m \in Miners :
       /\ Len(rx[m]) <= Cap
       /\ \A i \in DOMAIN rx[m] : rx[m][i] \in Entry
       /\ missed[m] => Len(rx[m]) = Cap
       /\ cached[m] \in Job \cup {NoJob}
       /\ told[m] \in Entry \cup {NoNotify}
       /\ heard[m] \in Job \cup {NoJob}
       /\ ToSet(seen[m]) \subseteq Header
       /\ Len(seen[m]) <= ShareCap
       /\ share[m] \in Share \cup {NoShare}
       /\ credited[m] \in [Header -> 0..2]

(* Once the engine rests and a session has drained its channel, the miner   *)
(* works on the current job, however connecting, authorizing and lost       *)
(* broadcasts interleaved with refresh.                                     *)
MinerOnLatestJob ==
  (\A p \in Procs : pc[p] \in {"idle", "done"}) =>
    \A m \in Miners :
      (InLoop(m) /\ stage[m] = "authorized" /\ rx[m] = <<>>)
        => told[m].job = current

(* A session credits no dead work: once it has taken a job from the         *)
(* channel, a share it credits is on that job's tip or on a later job.      *)
(* Rests on the history being pushed before the job is broadcast.           *)
NoDeadCredit ==
  [][\A m \in Miners :
       (credited'[m] # credited[m] /\ share[m] # NoShare /\ heard[m] # NoJob)
         => \/ share[m].job.tip = heard[m].tip
            \/ share[m].job.id > heard[m].id]_poolVars

Moves(m, ids) ==
  /\ told[m].job # NoJob /\ told'[m].job # NoJob
  /\ told'[m].job.id \in ids
  /\ told'[m].job.tip # told[m].job.tip

(* A miner moved from one job to the next, on another tip, is told to drop  *)
(* its work, whichever of authorize, the channel and a lagging receiver     *)
(* brought it the two.                                                      *)
CleanOnNextTip ==
  [][\A m \in Miners : Moves(m, {told[m].job.id + 1}) => told'[m].clean]_poolVars

(* The same for a move to any later job. *)
CleanOnNewTip ==
  [][\A m \in Miners :
       Moves(m, {i \in JobIds : i > told[m].job.id}) => told'[m].clean]_poolVars

(* One header is credited at most once in a session. *)
NoDoubleCredit == \A m \in Miners, h \in Header : credited[m][h] <= 1

=============================================================================
