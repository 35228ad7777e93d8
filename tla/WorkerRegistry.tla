--------------------------- MODULE WorkerRegistry ---------------------------
(***************************************************************************)
(* The per-worker part of PoolStats (src/src/stats.rs): the entries of     *)
(* worker_states with their count of sessions, the share records that      *)
(* travel from a closed session to the worker's next one, the share log    *)
(* behind them, and the pruner.  The operations are called by the session  *)
(* tasks (src/src/network/session.rs, src/src/protocol/sv2/mod.rs), whose   *)
(* steps are those between two accesses to a shared map.                   *)
(*                                                                         *)
(* A share is its number in the order of arrival, a record the sequence of *)
(* its shares.  "young" is what the 24-hour retention still keeps.         *)
(***************************************************************************)
EXTENDS Naturals, FiniteSets, Sequences, Functions

CONSTANTS
  Tasks,       \* session tasks
  Workers,     \* worker names
  Fleets,      \* bound: the names of each task, and the shares accepted
  NoWorker,    \* the session has not authorized
  MaxPending,  \* MAX_PENDING_SHARES
  MaxBoots     \* bound: restarts of the pool

ASSUME NoWorkerAssumption == NoWorker \notin Workers
ASSUME FleetsAssumption ==
  Fleets \subseteq [names : [Tasks -> SUBSET Workers], shares : Nat]
ASSUME RegistryAssumption == {MaxPending, MaxBoots} \subseteq Nat

VARIABLES
  fleet,      \* the names each task authorizes under, the shares it may find
  step,       \* per task: where it is in the handler it runs
  worker,     \* per task: session.worker
  target,     \* per task: the name a running handler registers
  record,     \* per task: Vardiff.share_times
  states,     \* worker_states: the workers that have an entry
  sessions,   \* WorkerState.active_sessions; online is sessions > 0
  fresh,      \* submitted or connected within IDLE_WORKER_EVICT_SECS
  parked,     \* worker_share_history: the workers that have a parked record
  history,    \* the parked records
  pending,    \* pending_shares
  log,        \* the rows of share_log
  evict,      \* the list prune_idle_workers has collected
  owner,      \* history: the worker of each share accepted
  young,      \* the shares of the last 24 hours
  boots,
  due,        \* history: accepted this boot, or in the log when it started
  slipped,    \* history: an entry was lost under a session
  raced       \* history: sessions overlapped, or a new record was evicted

taskVars == <<step, worker, target, record>>
mapVars == <<states, sessions, fresh, parked, history>>
logVars == <<pending, log>>
ghostVars == <<owner, young, boots, due, slipped, raced>>
regVars == <<fleet, taskVars, mapVars, logVars, evict, ghostVars>>

Steps == {"idle", "leave", "stash", "online", "insert", "take", "read",
          "stashEnd", "mark", "reinsert"}

(* A task is under a name from the first step that registers it to the one *)
(* that takes it off.                                                      *)
Counted(t, w) ==
  \/ worker[t] = w /\ step[t] \in {"idle", "leave", "mark", "reinsert"}
  \/ target[t] = w /\ step[t] \in {"take", "read"}
Connected(w) == {t \in Tasks : Counted(t, w)}

(* A task has, or is about to have, the record of the worker. *)
Concerns(t, w) ==
  \/ worker[t] = w /\ step[t] # "online"
  \/ target[t] = w

RegInit ==
  /\ fleet \in Fleets
  /\ step = [t \in Tasks |-> "idle"]
  /\ worker = [t \in Tasks |-> NoWorker]
  /\ target = [t \in Tasks |-> NoWorker]
  /\ record = [t \in Tasks |-> <<>>]
  /\ states = {} /\ parked = {}
  /\ sessions = [w \in Workers |-> 0]
  /\ fresh = [w \in Workers |-> FALSE]
  /\ history = [w \in Workers |-> <<>>]
  /\ pending = <<>> /\ log = {}
  /\ evict = {}
  /\ owner = <<>> /\ young = {} /\ boots = 0 /\ due = {}
  /\ slipped = {} /\ raced = {}

Goto(t, s) == step' = [step EXCEPT ![t] = s]

-----------------------------------------------------------------------------
(* The operations on the maps. *)


mark_worker_offline(w) ==
  sessions' = [sessions EXCEPT ![w] = IF w \in states /\ @ > 1 THEN @ - 1 ELSE 0]

(* mark_worker_online on an entry that exists. *)
AddSession(w) ==
  /\ sessions' = [sessions EXCEPT ![w] = @ + 1]
  /\ fresh' = [fresh EXCEPT ![w] = TRUE]

(* ... and its insertion of a new one, which replaces whatever another task *)
(* has inserted since the look-up.                                          *)
InsertState(w) ==
  /\ states' = states \cup {w}
  /\ sessions' = [sessions EXCEPT ![w] = 1]
  /\ fresh' = [fresh EXCEPT ![w] = TRUE]
  /\ slipped' = IF sessions[w] > 0 THEN slipped \cup {w} ELSE slipped

stash_share_history(w, r) ==
  /\ parked' = parked \cup {w}
  /\ history' = [history EXCEPT ![w] = r]

(* Vardiff::take_share_history: the session keeps an empty record. *)
take_share_history(t) == record' = [record EXCEPT ![t] = <<>>]

(* restore_share_history: what is still in the window, then its own. *)
restore_share_history(t, r) ==
  record' = [record EXCEPT ![t] = SelectSeq(r, LAMBDA x : x \in young) \o @]

(* The rows of a worker, oldest first: get_shares and from_unix_rows. *)
get_shares(w) ==
  SelectSeq([n \in 1..Len(owner) |-> n],
            LAMBDA x : x \in log \cap young /\ owner[x] = w)

-----------------------------------------------------------------------------
(* handle_authorize, and the registration of handle_open_extended. *)

(* A name the session is not already under. *)
Authorize(t, w) ==
  /\ step[t] = "idle"
  /\ w # worker[t]
  /\ target' = [target EXCEPT ![t] = w]
  /\ raced' = IF \E u \in Tasks \ {t} : Concerns(u, w) THEN raced \cup {w} ELSE raced
  /\ Goto(t, IF worker[t] = NoWorker THEN "online" ELSE "leave")
  /\ UNCHANGED <<worker, record, mapVars, logVars, evict, owner, young, boots, due,
                 slipped>>

LeavePrevious(t) ==
  /\ step[t] = "leave"
  /\ mark_worker_offline(worker[t])
  /\ Goto(t, "stash")
  /\ UNCHANGED <<worker, target, record, states, fresh, parked, history, logVars,
                 evict, ghostVars>>

(* Mutant: only a session that closes parks its record. *)
StashPrevious_Dropped(t) ==
  /\ step[t] = "stash"
  /\ take_share_history(t)
  /\ worker' = [worker EXCEPT ![t] = NoWorker]
  /\ Goto(t, "online")
  /\ UNCHANGED <<target, mapVars, logVars, evict, ghostVars>>

StashPrevious(t) ==
  /\ step[t] = "stash"
  /\ stash_share_history(worker[t], record[t])
  /\ take_share_history(t)
  /\ worker' = [worker EXCEPT ![t] = NoWorker]
  /\ Goto(t, "online")
  /\ UNCHANGED <<target, states, sessions, fresh, logVars, evict, ghostVars>>

(* mark_worker_online: the look-up. *)
MarkOnline(t) ==
  LET w == target[t] IN
  /\ step[t] = "online"
  /\ IF w \in states
       THEN AddSession(w) /\ Goto(t, "take")
       ELSE Goto(t, "insert") /\ UNCHANGED <<sessions, fresh>>
  /\ UNCHANGED <<worker, target, record, states, parked, history, logVars, evict,
                 ghostVars>>

InsertOnline(t) ==
  /\ step[t] = "insert"
  /\ InsertState(target[t])
  /\ Goto(t, "take")
  /\ UNCHANGED <<worker, target, record, parked, history, logVars, evict, owner,
                 young, boots, due, raced>>

Registered(t) ==
  /\ worker' = [worker EXCEPT ![t] = target[t]]
  /\ target' = [target EXCEPT ![t] = NoWorker]
  /\ Goto(t, "idle")

(* PoolStats::take_share_history: a parked record wins. *)
TakeParked(t) ==
  LET w == target[t] IN
  /\ step[t] = "take"
  /\ IF w \in parked
       THEN /\ restore_share_history(t, history[w])
            /\ parked' = parked \ {w}
            /\ history' = [history EXCEPT ![w] = <<>>]
            /\ Registered(t)
       ELSE Goto(t, "read") /\ UNCHANGED <<worker, target, record, parked, history>>
  /\ UNCHANGED <<states, sessions, fresh, logVars, evict, ghostVars>>

(* Failing that, the log. *)
TakeLog(t) ==
  /\ step[t] = "read"
  /\ restore_share_history(t, get_shares(target[t]))
  /\ Registered(t)
  /\ UNCHANGED <<mapVars, logVars, evict, ghostVars>>

-----------------------------------------------------------------------------
(* The life of an authorized session. *)

log_share(x) ==
  pending' = IF Len(pending) >= MaxPending THEN pending ELSE Append(pending, x)

(* An accepted share: record_share, log_share, mark_worker_submit. *)
Share(t) ==
  LET x == Len(owner) + 1
      w == worker[t] IN
  /\ step[t] = "idle" /\ w # NoWorker
  /\ x <= fleet.shares
  /\ owner' = Append(owner, w)
  /\ young' = young \cup {x}
  /\ due' = due \cup {x}
  /\ record' = [record EXCEPT ![t] = Append(SelectSeq(@, LAMBDA y : y \in young), x)]
  /\ log_share(x)
  /\ fresh' = [fresh EXCEPT ![w] = TRUE]
  /\ UNCHANGED <<step, worker, target, states, sessions, parked, history, log,
                 evict, boots, slipped, raced>>

(* A retarget, update_worker_vardiff: an entry that is gone is made anew. *)
Retarget(t) ==
  /\ step[t] = "idle" /\ worker[t] # NoWorker
  /\ worker[t] \notin states
  /\ Goto(t, "mark")
  /\ UNCHANGED <<worker, target, record, mapVars, logVars, evict, ghostVars>>

RetargetMark(t) ==
  LET w == worker[t] IN
  /\ step[t] = "mark"
  /\ IF w \in states
       THEN AddSession(w) /\ Goto(t, "idle")
       ELSE Goto(t, "reinsert") /\ UNCHANGED <<sessions, fresh>>
  /\ UNCHANGED <<worker, target, record, states, parked, history, logVars, evict,
                 ghostVars>>

RetargetInsert(t) ==
  /\ step[t] = "reinsert"
  /\ InsertState(worker[t])
  /\ Goto(t, "idle")
  /\ UNCHANGED <<worker, target, record, parked, history, logVars, evict, owner,
                 young, boots, due, raced>>

(* The loop has ended: mark_worker_offline, then the record is parked. *)
Close(t) ==
  /\ step[t] = "idle" /\ worker[t] # NoWorker
  /\ mark_worker_offline(worker[t])
  /\ Goto(t, "stashEnd")
  /\ UNCHANGED <<worker, target, record, states, fresh, parked, history, logVars,
                 evict, ghostVars>>

CloseStash(t) ==
  /\ step[t] = "stashEnd"
  /\ stash_share_history(worker[t], record[t])
  /\ take_share_history(t)
  /\ worker' = [worker EXCEPT ![t] = NoWorker]
  /\ Goto(t, "idle")
  /\ UNCHANGED <<target, states, sessions, fresh, logVars, evict, ghostVars>>

-----------------------------------------------------------------------------
(* The background tasks. *)

(* One transaction: the batch goes in, the rows past the window go out, or  *)
(* neither.                                                                 *)
append_shares(batch, ok) ==
  log' = IF ok THEN (log \cup Range(batch)) \cap young ELSE log

(* flush_share_log: the queue is taken and written, or dropped.  A stop     *)
(* between the two is a stop before the first.                              *)
Flush(ok) ==
  /\ pending # <<>>
  /\ append_shares(pending, ok)
  /\ pending' = <<>>
  /\ UNCHANGED <<taskVars, mapVars, evict, ghostVars>>

(* prune_idle_workers collects the offline workers that are idle ... *)
PruneCollect ==
  /\ evict = {}
  /\ evict' = {w \in states : sessions[w] = 0 /\ ~fresh[w]}
  /\ UNCHANGED <<taskVars, mapVars, logVars, ghostVars>>

(* ... and removes each from every map, whatever became of it since. *)
PruneRemove(w) ==
  /\ w \in evict
  /\ evict' = evict \ {w}
  /\ states' = states \ {w}
  /\ sessions' = [sessions EXCEPT ![w] = 0]
  /\ fresh' = [fresh EXCEPT ![w] = FALSE]
  /\ parked' = parked \ {w}
  /\ history' = [history EXCEPT ![w] = <<>>]
  /\ slipped' = IF Connected(w) # {} THEN slipped \cup {w} ELSE slipped
  /\ raced' = IF Range(history[w]) \cap young # {} THEN raced \cup {w} ELSE raced
  /\ UNCHANGED <<taskVars, logVars, owner, young, boots, due>>

(* A day in which nobody connects or submits. *)
DayPasses ==
  /\ young' = {}
  /\ fresh' = [w \in Workers |-> FALSE]
  /\ UNCHANGED <<taskVars, states, sessions, parked, history, logVars, evict, owner,
                 boots, due, slipped, raced>>

(* The pool stops, in an orderly way or not, and starts again. *)
Restart ==
  /\ boots < MaxBoots
  /\ boots' = boots + 1
  /\ step' = [t \in Tasks |-> "idle"]
  /\ worker' = [t \in Tasks |-> NoWorker]
  /\ target' = [t \in Tasks |-> NoWorker]
  /\ record' = [t \in Tasks |-> <<>>]
  /\ states' = {} /\ parked' = {}
  /\ sessions' = [w \in Workers |-> 0]
  /\ fresh' = [w \in Workers |-> FALSE]
  /\ history' = [w \in Workers |-> <<>>]
  /\ pending' = <<>> /\ evict' = {}
  /\ due' = log
  /\ slipped' = {} /\ raced' = {}
  /\ UNCHANGED <<log, owner, young>>

RegNext ==
  /\ UNCHANGED fleet
  /\ \/ \E t \in Tasks :
          \/ \E w \in fleet.names[t] : Authorize(t, w)
          \/ LeavePrevious(t) \/ StashPrevious(t)
          \/ MarkOnline(t) \/ InsertOnline(t)
          \/ TakeParked(t) \/ TakeLog(t)
          \/ Share(t) \/ Retarget(t) \/ RetargetMark(t) \/ RetargetInsert(t)
          \/ Close(t) \/ CloseStash(t)
     \/ \E ok \in BOOLEAN : Flush(ok)
     \/ PruneCollect \/ (\E w \in Workers : PruneRemove(w))
     \/ DayPasses \/ Restart

RegSpec == RegInit /\ [][RegNext]_regVars

-----------------------------------------------------------------------------
(* Properties. *)

RegTypeOK ==
  /\ step \in [Tasks -> Steps]
  /\ worker \in [Tasks -> Workers \cup {NoWorker}]
  /\ target \in [Tasks -> Workers \cup {NoWorker}]
  /\ states \subseteq Workers /\ parked \subseteq Workers /\ evict \subseteq Workers
  /\ sessions \in [Workers -> 0..Cardinality(Tasks)]
  /\ fresh \in [Workers -> BOOLEAN]
  /\ \A w \in Workers \ states : sessions[w] = 0
  /\ \A w \in Workers \ parked : history[w] = <<>>
  /\ Len(owner) <= fleet.shares /\ young \cup log \cup due \subseteq DOMAIN owner
  /\ Len(pending) <= MaxPending /\ boots <= MaxBoots


Sound(r, w) ==
  /\ \A i, j \in DOMAIN r : i < j => r[i] < r[j]
  /\ \A i \in DOMAIN r : owner[r[i]] = w

(* A record has the shares of one worker, each once, in the order in which  *)
(* they arrived: the windows are cut from its front.                        *)
RecordSound ==
  /\ \A w \in parked : Sound(history[w], w)
  /\ \A t \in Tasks : worker[t] # NoWorker => Sound(record[t], worker[t])
  /\ \A t \in Tasks : worker[t] = NoWorker => record[t] = <<>>

(* A worker whose sessions do not overlap loses no share of the last day,   *)
(* across closed sessions, changes of name, evictions and restarts, except  *)
(* those a restart caught before they were in the log.                      *)
RecordComplete ==
  \A t \in Tasks :
    (step[t] = "idle" /\ worker[t] \in Workers \ raced) =>
      {x \in due \cap young : owner[x] = worker[t]} \subseteq Range(record[t])

(* What a session knows of its worker's shares is right and complete.       *)
RecordTrue == RecordSound /\ RecordComplete

=============================================================================
