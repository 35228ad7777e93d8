----------------------------- MODULE Watermark -----------------------------
(***************************************************************************)
(* The all-time records of PoolStats (src/src/stats.rs).  The pool's best  *)
(* share and best hashrate are each a maximum in memory, raised by a       *)
(* compare-and-exchange loop and persisted after it; the hashrate one can  *)
(* be reset from the dashboard.  The best share of each worker is a bounded *)
(* board, in memory and as rows.                                           *)
(***************************************************************************)
EXTENDS Naturals, FiniteSets, FiniteSetsExt, Functions

CONSTANTS
  Updaters,    \* tasks that bring values
  Names,       \* worker names of the board
  MaxValue,    \* bound: values
  MaxResets,   \* bound: reset requests
  Keep         \* MAX_WORKER_BEST_SHARES

ASSUME MarkAssumption == {MaxValue, MaxResets, Keep} \subseteq Nat

VARIABLES
  mark,          \* best_share_difficulty or best_hashrate_hps
  session_mark,  \* session_best_...
  dbMark,        \* the column of pool_stats
  doing,         \* per updater: "idle", "persist", "session"
  value,         \* per updater: the value it brings
  reset,         \* reset_best_hashrate: "no", "session", "force"
  resets,
  overtaken,     \* history: a reset overlapped an update
  board,         \* worker_best_shares; 0 is no entry
  boardRows,     \* the table worker_best_shares; 0 is no row
  losers,        \* what prune_idle_workers is removing from the board
  pruning

poolMark == <<mark, session_mark, dbMark, doing, value, reset, resets, overtaken>>
boardVars == <<board, boardRows, losers, pruning>>
markVars == <<poolMark, boardVars>>

Larger(a, b) == IF a > b THEN a ELSE b

MarkInit ==
  /\ mark = 0 /\ session_mark = 0 /\ dbMark = 0
  /\ doing = [u \in Updaters |-> "idle"]
  /\ value = [u \in Updaters |-> 0]
  /\ reset = "no" /\ resets = 0 /\ overtaken = FALSE
  /\ board = [n \in Names |-> 0] /\ boardRows = [n \in Names |-> 0]
  /\ losers = {} /\ pruning = FALSE

-----------------------------------------------------------------------------
(* share_accepted and update_worker_hashrate: the compare-and-exchange loop *)
(* ends either with the larger value installed or with one at least as      *)
(* large already there.                                                     *)
Raise(u, v) ==
  /\ doing[u] = "idle"
  /\ value' = [value EXCEPT ![u] = v]
  /\ mark' = Larger(mark, v)
  /\ doing' = [doing EXCEPT ![u] = IF v > mark THEN "persist" ELSE "session"]
  /\ overtaken' = (overtaken \/ reset # "no")
  /\ UNCHANGED <<session_mark, dbMark, reset, resets, boardVars>>

(* set_best_share_difficulty, set_best_hashrate_hps: UPDATE ... WHERE ?1 >.  *)
set_best(v) == dbMark' = Larger(dbMark, v)

PersistMark(u) ==
  /\ doing[u] = "persist"
  /\ set_best(value[u])
  /\ doing' = [doing EXCEPT ![u] = "session"]
  /\ UNCHANGED <<mark, session_mark, value, reset, resets, overtaken, boardVars>>

RaiseSession(u) ==
  /\ doing[u] = "session"
  /\ session_mark' = Larger(session_mark, value[u])
  /\ doing' = [doing EXCEPT ![u] = "idle"]
  /\ value' = [value EXCEPT ![u] = 0]
  /\ UNCHANGED <<mark, dbMark, reset, resets, overtaken, boardVars>>

(* reset_best_hashrate: two stores and a forced write. *)
ResetMark ==
  /\ reset = "no" /\ resets < MaxResets
  /\ mark' = 0
  /\ reset' = "session"
  /\ resets' = resets + 1
  /\ overtaken' = (overtaken \/ \E u \in Updaters : doing[u] # "idle")
  /\ UNCHANGED <<session_mark, dbMark, doing, value, boardVars>>

ResetSession ==
  /\ reset = "session"
  /\ session_mark' = 0
  /\ reset' = "force"
  /\ UNCHANGED <<mark, dbMark, doing, value, resets, overtaken, boardVars>>

(* force_best_hashrate_hps. *)
ResetForce ==
  /\ reset = "force"
  /\ dbMark' = 0
  /\ reset' = "no"
  /\ UNCHANGED <<mark, session_mark, doing, value, resets, overtaken, boardVars>>

(* StatsStore::open inserts the row if there is none; load_values. *)
MarkReboot ==
  /\ mark' = dbMark /\ session_mark' = 0
  /\ doing' = [u \in Updaters |-> "idle"]
  /\ value' = [u \in Updaters |-> 0]
  /\ reset' = "no" /\ overtaken' = FALSE
  /\ UNCHANGED <<dbMark, resets, boardVars>>

-----------------------------------------------------------------------------
(* The board of the workers. *)

(* The N highest of a board, ties broken either way. *)
Best(b, n) ==
  LET on == {w \in Names : b[w] > 0} IN
  IF Cardinality(on) <= n THEN {on}
  ELSE {S \in SUBSET on : /\ Cardinality(S) = n
                          /\ \A x \in S : \A y \in on \ S : b[x] >= b[y]}


(* INSERT ... ON CONFLICT DO UPDATE ... WHERE excluded is greater. *)
set_worker_best_share(w, v) == boardRows' = [boardRows EXCEPT ![w] = Larger(@, v)]

(* worker_share_accepted: the entry is locked until its row is written. *)
worker_share_accepted(w, v) ==
  /\ board' = [board EXCEPT ![w] = Larger(@, v)]
  /\ IF v > board[w] THEN set_worker_best_share(w, v) ELSE UNCHANGED boardRows
  /\ UNCHANGED <<poolMark, losers, pruning>>

(* prune_idle_workers: a copy of the board is sorted ... *)
BoardCollect ==
  /\ ~pruning
  /\ Cardinality({w \in Names : board[w] > 0}) > Keep
  /\ \E S \in Best(board, Keep) : losers' = {w \in Names \ S : board[w] > 0}
  /\ pruning' = TRUE
  /\ UNCHANGED <<poolMark, board, boardRows>>

(* ... the others are removed one by one, whatever they have become ... *)
BoardRemove(w) ==
  /\ w \in losers
  /\ board' = [board EXCEPT ![w] = 0]
  /\ losers' = losers \ {w}
  /\ UNCHANGED <<poolMark, boardRows, pruning>>

(* DELETE ... WHERE worker NOT IN (SELECT ... ORDER BY ... DESC LIMIT). *)
prune_worker_best_shares ==
  \E S \in Best(boardRows, Keep) :
    boardRows' = [w \in Names |-> IF w \in S THEN boardRows[w] ELSE 0]

(* ... and the rows are pruned by their own order. *)
BoardPrune ==
  /\ pruning /\ losers = {}
  /\ prune_worker_best_shares
  /\ pruning' = FALSE
  /\ UNCHANGED <<poolMark, board, losers>>

(* A start prunes the rows and loads them. *)
BoardReboot ==
  /\ prune_worker_best_shares
  /\ board' = boardRows'
  /\ losers' = {} /\ pruning' = FALSE
  /\ UNCHANGED poolMark

MarkNext ==
  \/ \E u \in Updaters :
       \/ \E v \in 1..MaxValue : Raise(u, v)
       \/ PersistMark(u) \/ RaiseSession(u)
  \/ ResetMark \/ ResetSession \/ ResetForce \/ MarkReboot

MarkSpec == MarkInit /\ [][MarkNext]_markVars

BoardNext ==
  \/ \E w \in Names : (\E v \in 1..MaxValue : worker_share_accepted(w, v))
                      \/ BoardRemove(w)
  \/ BoardCollect \/ BoardPrune \/ BoardReboot

-----------------------------------------------------------------------------
(* Properties. *)

MarkTypeOK ==
  /\ {mark, session_mark, dbMark} \subseteq 0..MaxValue
  /\ doing \in [Updaters -> {"idle", "persist", "session"}]
  /\ value \in [Updaters -> 0..MaxValue]
  /\ reset \in {"no", "session", "force"} /\ resets \in 0..MaxResets
  /\ board \in [Names -> 0..MaxValue] /\ boardRows \in [Names -> 0..MaxValue]
  /\ losers \subseteq Names /\ (losers # {} => pruning)

(* The record in the database is the one in memory whenever no task is      *)
(* between raising it and writing it, in whatever order racing tasks write, *)
(* unless a reset overlapped an update.                                     *)
MarkKept ==
  (~overtaken /\ reset = "no" /\ \A u \in Updaters : doing[u] # "persist")
    => dbMark = mark

(* Only the operator's reset lowers the persisted record: no late writer,   *)
(* no restart.                                                              *)
MarkNeverDrops == dbMark' >= dbMark \/ (reset = "force" /\ reset' = "no")

TopRow == Max(Range(boardRows))

(* The best share any worker ever had stays in the rows, and no row is      *)
(* lowered: a worker dropped from the board in memory and coming back with  *)
(* a smaller share does not overwrite its row.                              *)
TopRowKept ==
  /\ TopRow' >= TopRow
  /\ \A w \in Names : boardRows'[w] \in {0} \cup boardRows[w]..MaxValue


=============================================================================
