----------------------------- MODULE JobEngine -----------------------------
(***************************************************************************)
(* The template engine (src/src/mining/engine.rs): the refresh loop, the   *)
(* job history and find_job, together with the payout-address settings and *)
(* the dashboard's settings handler, the only other caller of refresh.     *)
(*                                                                         *)
(* refresh is an async function over three separately locked pieces of     *)
(* state.  It is split where another task can run in between: read the     *)
(* address, fetch and build the template, install it as the current job,   *)
(* push it into the history, broadcast it.                                 *)
(***************************************************************************)
EXTENDS Naturals, Sequences, FiniteSets

CONSTANTS
  Tips,       \* chain tips: the prev_hash of a template
  Addrs,      \* payout addresses that validate on the node's network
  BadAddr,    \* an address that does not
  JobIds,     \* the values of a job id
  Depth,      \* JOB_HISTORY_DEPTH
  Dash,       \* concurrent POST /api/settings handlers
  MaxBlocks,  \* bound: tip changes in a behaviour
  NoJob       \* Option::None

ASSUME DepthAssumption == Depth \in Nat \ {0}
ASSUME BoundAssumption == MaxBlocks \in Nat
ASSUME BadAddrAssumption == BadAddr \notin Addrs

Run == "run"               \* TemplateEngine::run, a single task
Procs == {Run} \cup Dash   \* everything that calls refresh

ASSUME RunAssumption == Run \notin Dash

Job == [id : JobIds, tip : Tips, addr : Addrs]
Entry == [job : Job, clean : BOOLEAN]

ASSUME NoJobAssumption == NoJob \notin Job

VARIABLES
  nodeTip,      \* the node's best block (external)
  blocks,       \* how often the tip has changed, bounded by MaxBlocks
  signal,       \* the new-block watch channel holds an unseen value
  address,      \* RuntimeSettings.state: BadAddr stands for valid = false
  saved,        \* settings table: the persisted address, BadAddr if no row
  current,      \* current_job
  history,      \* job_history, oldest first
  lastSent,     \* the latest value of the broadcast channel job_tx
  templateErr,  \* last_template_error is set
  pc,           \* per task: the next step of refresh, or "idle" / "done"
  arg,          \* per task: clean_jobs, the parameter, then the local
  payee,        \* per task: coinbase_address, the address read for this job
  built,        \* per task: the job built
  persisted     \* per POST: whether save_setting reported success

jobVars == <<current, history, lastSent, templateErr>>
nodeVars == <<nodeTip, blocks>>
setVars == <<address, saved>>
taskVars == <<pc, arg, payee, built, persisted>>
vars == <<nodeVars, signal, setVars, jobVars, taskVars>>

-----------------------------------------------------------------------------
(* Jobs in the engine's hands. next_job_id draws ids from a counter that    *)
(* does not repeat within a process, so a fresh id is any id no live job    *)
(* carries.                                                                 *)
HeldJobs == {current} \cup {history[i].job : i \in DOMAIN history}
              \cup {lastSent.job} \cup {built[p] : p \in Procs}

FreshIds == {i \in JobIds : \A j \in HeldJobs \ {NoJob} : j.id # i}

next_job_id == CHOOSE i \in FreshIds : TRUE

(* Mutant: only the very first job counts as a moved tip. *)
tip_moved_ignored(cur, job) == cur = NoJob

(* engine.rs tip_moved: no current job counts as a moved tip. *)
tip_moved(cur, job) == cur = NoJob \/ cur.tip # job.tip

(* Mutant: the entry right after the job is skipped as well. *)
superseded_by_clean_SkipTwo(h, i) == \E k \in (i + 2)..Len(h) : h[k].clean

(* A later clean entry retires every entry before it. *)
superseded_by_clean(h, i) == \E k \in (i + 1)..Len(h) : h[k].clean

(* The jobs find_job would hand to the validator as not superseded. *)
LiveEntries(h) == {i \in DOMAIN h : ~superseded_by_clean(h, i)}

Init ==
  /\ nodeTip \in Tips
  /\ blocks = 0
  /\ signal = FALSE
  /\ address \in Addrs \cup {BadAddr}   \* RuntimeSettings::new, apply_persisted
  /\ saved \in {BadAddr, address}
  /\ current = NoJob
  /\ history = <<>>
  /\ lastSent = [job |-> NoJob, clean |-> FALSE]
  /\ templateErr = FALSE
  /\ pc = [p \in Procs |-> IF p = Run THEN "read" ELSE "idle"]
  /\ arg = [p \in Procs |-> p = Run]   \* run starts with refresh(true)
  /\ payee = [p \in Procs |-> BadAddr]
  /\ built = [p \in Procs |-> NoJob]
  /\ persisted = [d \in Dash |-> FALSE]

-----------------------------------------------------------------------------
(* The node and the notification sources (zmq.rs). *)

(* The node's best block becomes another one: a new block, or a reorg.      *)
NewBlock ==
  /\ blocks < MaxBlocks
  /\ blocks' = blocks + 1
  /\ \E t \in Tips \ {nodeTip} : nodeTip' = t
  /\ UNCHANGED <<signal, setVars, jobVars, taskVars>>

(* ZMQ or the poll sends on the watch channel. The two do not coordinate,   *)
(* and the poll also signals its first observation, so a signal may repeat  *)
(* a tip already served, and may come late.                                 *)
Notify ==
  /\ ~signal
  /\ signal' = TRUE
  /\ UNCHANGED <<nodeVars, setVars, jobVars, taskVars>>

-----------------------------------------------------------------------------
(* refresh, for task p. *)

Begin(p, clean) ==
  /\ pc' = [pc EXCEPT ![p] = "read"]
  /\ arg' = [arg EXCEPT ![p] = clean]

(* refresh returns: the loop waits again, a POST is answered, and the       *)
(* parameter goes out of scope.                                             *)
Finish(p) ==
  /\ pc' = [pc EXCEPT ![p] = IF p = Run THEN "idle" ELSE "done"]
  /\ arg' = [arg EXCEPT ![p] = FALSE]

(* The address gate: without a valid address nothing is built. *)
ReadAddress(p) ==
  /\ pc[p] = "read"
  /\ \/ /\ address \in Addrs
        /\ payee' = [payee EXCEPT ![p] = address]
        /\ pc' = [pc EXCEPT ![p] = "fetch"]
        /\ UNCHANGED <<templateErr, arg>>
     \/ /\ address = BadAddr
        /\ templateErr' = TRUE
        /\ Finish(p)
        /\ UNCHANGED payee
  /\ UNCHANGED <<nodeVars, signal, setVars, current, history, lastSent,
                 built, persisted>>

(* getblocktemplate answers and build_job succeeds, numbering the job i. *)
FetchTemplateAs(p, i) ==
  /\ pc[p] = "fetch"
  /\ built' = [built EXCEPT ![p] = [id |-> i, tip |-> nodeTip, addr |-> payee[p]]]
  /\ payee' = [payee EXCEPT ![p] = BadAddr]
  /\ pc' = [pc EXCEPT ![p] = "install"]
  /\ UNCHANGED <<nodeVars, signal, setVars, jobVars, arg, persisted>>

FetchTemplate(p) == FreshIds # {} /\ FetchTemplateAs(p, next_job_id)

(* getblocktemplate or build_job fails. *)
FetchFails(p) ==
  /\ pc[p] = "fetch"
  /\ templateErr' = TRUE
  /\ payee' = [payee EXCEPT ![p] = BadAddr]
  /\ Finish(p)
  /\ UNCHANGED <<nodeVars, signal, setVars, current, history, lastSent,
                 built, persisted>>

(* The compare-and-set under the current_job write lock. *)
Install(p) ==
  /\ pc[p] = "install"
  /\ arg' = [arg EXCEPT ![p] = arg[p] \/ tip_moved(current, built[p])]
  /\ current' = built[p]
  /\ templateErr' = FALSE
  /\ pc' = [pc EXCEPT ![p] = "push"]
  /\ UNCHANGED <<nodeVars, signal, setVars, history, lastSent, payee,
                 built, persisted>>

(* Mutants: eviction off by one, and eviction from the wrong end. *)
PushHistory_OffByOne(h, e) == Append(IF Len(h) > Depth THEN Tail(h) ELSE h, e)
PushHistory_PopBack(h, e) ==
  Append(IF Len(h) >= Depth THEN SubSeq(h, 1, Len(h) - 1) ELSE h, e)

(* Under the job_history write lock: drop the oldest when full, append. *)
PushHistory(h, e) == Append(IF Len(h) >= Depth THEN Tail(h) ELSE h, e)

(* Mutant: the ntime refresh is not recorded. *)
Push_CleanOnly(p) ==
  /\ pc[p] = "push"
  /\ history' = IF arg[p]
                  THEN PushHistory(history, [job |-> built[p], clean |-> TRUE])
                  ELSE history
  /\ pc' = [pc EXCEPT ![p] = "send"]
  /\ UNCHANGED <<nodeVars, signal, setVars, current, lastSent, templateErr,
                 arg, payee, built, persisted>>

Push(p) ==
  /\ pc[p] = "push"
  /\ history' = PushHistory(history, [job |-> built[p], clean |-> arg[p]])
  /\ pc' = [pc EXCEPT ![p] = "send"]
  /\ UNCHANGED <<nodeVars, signal, setVars, current, lastSent, templateErr,
                 arg, payee, built, persisted>>

Broadcast(p) ==
  /\ pc[p] = "send"
  /\ lastSent' = [job |-> built[p], clean |-> arg[p]]
  /\ built' = [built EXCEPT ![p] = NoJob]
  /\ Finish(p)
  /\ UNCHANGED <<nodeVars, signal, setVars, current, history, templateErr,
                 payee, persisted>>

refresh(p) ==
  \/ ReadAddress(p)
  \/ FetchTemplate(p)
  \/ FetchFails(p)
  \/ Install(p)
  \/ Push(p)
  \/ Broadcast(p)

-----------------------------------------------------------------------------
(* TemplateEngine::run between refreshes. *)

(* changed() resolves and marks the value seen: refresh(true). *)
RunNewBlock ==
  /\ pc[Run] = "idle"
  /\ signal
  /\ signal' = FALSE
  /\ Begin(Run, TRUE)
  /\ UNCHANGED <<nodeVars, setVars, jobVars, payee, built, persisted>>

(* Mutant: refresh only when told to. *)
RunTick_OnSignal ==
  /\ pc[Run] = "idle"
  /\ signal
  /\ Begin(Run, FALSE)
  /\ UNCHANGED <<nodeVars, signal, setVars, jobVars, payee, built, persisted>>

(* The 30 s ntime tick: refresh(false). *)
RunTick ==
  /\ pc[Run] = "idle"
  /\ Begin(Run, FALSE)
  /\ UNCHANGED <<nodeVars, signal, setVars, jobVars, payee, built, persisted>>

-----------------------------------------------------------------------------
(* dashboard.rs settings_post, one request per handler d. *)

(* RuntimeSettings::update: validate, then replace the address; a bad one   *)
(* is answered 422 and changes nothing.                                     *)
PostUpdate(d, a) ==
  /\ pc[d] = "idle"
  /\ IF a \in Addrs
       THEN /\ address' = a
            /\ payee' = [payee EXCEPT ![d] = a]
            /\ pc' = [pc EXCEPT ![d] = "save"]
       ELSE /\ pc' = [pc EXCEPT ![d] = "done"]
            /\ UNCHANGED <<address, payee>>
  /\ UNCHANGED <<nodeVars, signal, saved, jobVars, arg, built, persisted>>

(* save_setting, which may fail without stopping the request; then          *)
(* force_refresh, which is refresh(true).                                   *)
PostSave(d) ==
  /\ pc[d] = "save"
  /\ \/ saved' = payee[d] /\ persisted' = [persisted EXCEPT ![d] = TRUE]
     \/ UNCHANGED <<saved, persisted>>
  /\ payee' = [payee EXCEPT ![d] = BadAddr]
  /\ Begin(d, TRUE)
  /\ UNCHANGED <<nodeVars, signal, address, jobVars, built>>

-----------------------------------------------------------------------------
RunStep == RunNewBlock \/ RunTick \/ refresh(Run)
PostStep(d) == (\E a \in Addrs \cup {BadAddr} : PostUpdate(d, a))
                 \/ PostSave(d) \/ refresh(d)

Next ==
  \/ NewBlock
  \/ Notify
  \/ RunStep
  \/ \E d \in Dash : PostStep(d)

Spec == Init /\ [][Next]_vars

(* The tasks are scheduled, and a node that is asked again and again        *)
(* eventually answers.  No fairness is assumed of the notifications, of     *)
(* the node's tip or of anyone posting.                                     *)
Fairness ==
  /\ WF_vars(RunStep)
  /\ SF_vars(FetchTemplate(Run))
  /\ \A d \in Dash : WF_vars(PostSave(d) \/ refresh(d))

FairSpec == Spec /\ Fairness

-----------------------------------------------------------------------------
(* Properties. *)

TypeOK ==
  /\ nodeTip \in Tips
  /\ blocks \in 0..MaxBlocks
  /\ signal \in BOOLEAN
  /\ address \in Addrs \cup {BadAddr}
  /\ saved \in Addrs \cup {BadAddr}
  /\ current \in Job \cup {NoJob}
  /\ history \in Seq(Entry)
  /\ Len(history) <= Depth
  /\ lastSent \in [job : Job \cup {NoJob}, clean : BOOLEAN]
  /\ templateErr \in BOOLEAN
  /\ pc \in [Procs -> {"idle", "save", "read", "fetch", "install", "push",
                       "send", "done"}]
  /\ arg \in [Procs -> BOOLEAN]
  /\ payee \in [Procs -> Addrs \cup {BadAddr}]
  /\ built \in [Procs -> Job \cup {NoJob}]
  /\ persisted \in [Dash -> BOOLEAN]
  /\ \A p \in Procs : pc[p] \in {"install", "push", "send"} => built[p] \in Job
  /\ \A p \in Procs : pc[p] = "fetch" => payee[p] \in Addrs

(* Every job find_job still reports as live builds on the tip of the newest *)
(* job, so no share is validated against a prev_hash the engine has already *)
(* left.  Relates the flag computed in Install, from current_job, to the    *)
(* order and the eviction of a second, separately locked structure.         *)
NoDeadWork ==
  \A i \in LiveEntries(history) :
    history[i].job.tip = history[Len(history)].job.tip

(* The same once every refresh has returned, the overlapping ones included: *)
(* nothing that is still on its way will retire the work left behind.       *)
NoDeadWorkAtRest ==
  (\A p \in Procs : pc[p] \in {"idle", "done"}) => NoDeadWork

(* A job that find_job has reported as superseded is never reported live    *)
(* again, whatever is pushed or evicted afterwards.                         *)
RetiredStaysRetired ==
  [][\A i \in DOMAIN history, k \in DOMAIN history' :
       (history[i].job.id = history'[k].job.id
          /\ superseded_by_clean(history, i))
         => superseded_by_clean(history', k)]_vars

(* Once a session has been sent a job, find_job knows it until Depth newer  *)
(* jobs were pushed: the job last broadcast is always in the history.       *)
SentJobIsKnown ==
  lastSent.job # NoJob =>
    \E i \in DOMAIN history : history[i].job.id = lastSent.job.id

(* The engine's state agrees with the node and with the settings. *)
InStep ==
  address \in Addrs =>
    /\ current # NoJob
    /\ current.tip = nodeTip
    /\ current.addr = address
    /\ \A i \in LiveEntries(history) : history[i].job.tip = nodeTip

(* When the tip and the address stop changing, the current job and every    *)
(* live job settle on them for good, even if no notification ever arrives,  *)
(* and even if refreshes overlapped: the periodic tick repairs it.          *)
Settles == <>[]InStep

(* A payout change is not undone: a job paying the address in force is      *)
(* never replaced by one that pays another while that address stays.        *)
PayoutNotReverted ==
  [][(current # NoJob /\ current.addr = address /\ address' = address)
        => current'.addr = address]_vars

(* When every POST has been answered and each reported persisted = true,    *)
(* the address in force is the one a restart would load.                    *)
SavedIsInForce ==
  (\A d \in Dash : pc[d] = "done" /\ persisted[d]) => saved = address

=============================================================================
