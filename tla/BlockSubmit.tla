---------------------------- MODULE BlockSubmit ----------------------------
(***************************************************************************)
(* What happens to a found block (src/src/mining/engine.rs): inline        *)
(* submission racing the archive write, the background retrier, the mover  *)
(* that files a confirmed block, the replay at boot, and the accounting in *)
(* PoolStats::block_found (src/src/stats.rs), with the process stopping at *)
(* any point.                                                              *)
(*                                                                         *)
(* A driver is whatever carries one submission of a block: a session that  *)
(* found it, with the background retrier it turns into (a member of        *)
(* Finds), or the replay at boot with its own retrier (Replay).            *)
(***************************************************************************)
EXTENDS Naturals, FiniteSets

CONSTANTS
  Blocks,      \* block hashes
  Finds,       \* how many sessions may submit the same block
  Attempts,    \* SUBMIT_INLINE_ATTEMPTS
  MaxStops,    \* bound: how often the process stops
  NodeErrors   \* whether the node may answer a decodable block with a
               \* JSON-RPC error object (for instance while it warms up)

ASSUME AttemptsAssumption == Attempts \in Nat \ {0}
ASSUME StopsAssumption == MaxStops \in Nat
ASSUME NodeErrorsAssumption == NodeErrors \in BOOLEAN

Replay == "replay"
Drivers == Finds \cup {Replay}

ASSUME ReplayAssumption == Replay \notin Finds

VARIABLES
  good,       \* the blocks that pass consensus (external, fixed)
  accepted,   \* the blocks the node has (external)
  up,         \* the process runs
  stops,      \* how often it stopped, bounded by MaxStops
  listed,     \* replay_archived_blocks has listed the directory in this life
  top,        \* archive file at the top level: "none", "torn" or "full"
  submitted,  \* blocks with a file in submitted/
  rejected,   \* blocks with a file in rejected/
  writer,     \* archive_found_block of a find: "none", "todo", "open"
  pc,         \* where each driver of each block stands
  tries,      \* inline attempts made
  hex,        \* what the replay read from the file: "torn" or "full"
  movers,     \* pending mark_archived_submitted tasks, <<driver, block>>
  counted,    \* PoolStats.found_blocks: entries per block in memory
  recorded    \* found_blocks table: the blocks with a row

files == <<top, submitted, rejected>>
tasks == <<pc, tries, hex, movers, writer>>
stats == <<counted, recorded>>
life == <<good, up, stops, listed>>
vars == <<life, accepted, files, tasks, stats>>

PCs == {"idle", "try", "bg", "check", "close", "insert", "done", "refused",
        "gaveup", "queued", "filesub", "filerej"}

Init ==
  /\ good \in SUBSET Blocks
  /\ accepted = {}
  /\ up = TRUE
  /\ stops = 0
  /\ listed = FALSE
  /\ top = [b \in Blocks |-> "none"]
  /\ submitted = {}
  /\ rejected = {}
  /\ writer = [f \in Finds |-> [b \in Blocks |-> "none"]]
  /\ pc = [d \in Drivers |-> [b \in Blocks |-> "idle"]]
  /\ tries = [f \in Finds |-> [b \in Blocks |-> 0]]
  /\ hex = [b \in Blocks |-> "full"]
  /\ movers = {}
  /\ counted = [b \in Blocks |-> 0]
  /\ recorded = {}

Goto(d, b, l) == pc' = [pc EXCEPT ![d][b] = l]

-----------------------------------------------------------------------------
(* rpc.rs submit_block, against the node.                                   *)

(* What one submitblock call can come to.  "ok" covers null, duplicate and  *)
(* inconclusive; "lost" is a reply that never came back although the node   *)
(* took the block; "down" a call that never reached it.                     *)
Replies(b, content) ==
  {"down"} \cup
  IF content = "torn" THEN {"rpcerr"}
  ELSE (IF b \in good THEN {"ok", "lost"} ELSE {"reject"})
         \cup (IF NodeErrors THEN {"rpcerr"} ELSE {})

is_permanent_reject(r) == r = "reject"
is_node_side_error(r) == r = "rpcerr"

NodeTakes(b, r) ==
  accepted' = IF r \in {"ok", "lost"} THEN accepted \cup {b} ELSE accepted

-----------------------------------------------------------------------------
(* submit_found_block. *)

(* Mutant: the archive file is marked submitted before the submission. *)
Find_MarksFirst(f, b) ==
  /\ up
  /\ pc[f][b] = "idle"
  /\ Goto(f, b, "try")
  /\ tries' = [tries EXCEPT ![f][b] = 1]
  /\ writer' = [writer EXCEPT ![f][b] = "todo"]
  /\ movers' = movers \cup {<<f, b>>}
  /\ UNCHANGED <<life, accepted, files, hex, stats>>

(* A session's share meets the network target: the archive write is         *)
(* spawned, never awaited, and the first attempt starts.                    *)
Find(f, b) ==
  /\ up
  /\ pc[f][b] = "idle"
  /\ Goto(f, b, "try")
  /\ tries' = [tries EXCEPT ![f][b] = 1]
  /\ writer' = [writer EXCEPT ![f][b] = "todo"]
  /\ UNCHANGED <<life, accepted, files, hex, movers, stats>>

(* Mutant: one inline attempt too many. *)
attempts_left_OffByOne(n) == n <= Attempts

(* After attempt number n the inline loop goes round again. *)
attempts_left(n) == n < Attempts

(* The outcome of an inline attempt: success spawns the mover and returns   *)
(* to the session, which credits; a rejection returns; a failure is tried   *)
(* again, and after the last one handed to the background retrier.          *)
InlineAttempt(f, b) ==
  /\ pc[f][b] = "try"
  /\ \E r \in Replies(b, "full") :
       /\ NodeTakes(b, r)
       /\ \/ /\ r = "ok"
             /\ movers' = movers \cup {<<f, b>>}
             /\ Goto(f, b, "check")
             /\ UNCHANGED tries
          \/ /\ is_permanent_reject(r)
             /\ Goto(f, b, "refused")
             /\ UNCHANGED <<movers, tries>>
          \/ /\ r # "ok" /\ ~is_permanent_reject(r)
             /\ attempts_left(tries[f][b])
             /\ tries' = [tries EXCEPT ![f][b] = @ + 1]
             /\ UNCHANGED <<movers, pc>>
          \/ /\ r # "ok" /\ ~is_permanent_reject(r)
             /\ ~attempts_left(tries[f][b])
             /\ Goto(f, b, "bg")
             /\ UNCHANGED <<movers, tries>>
  /\ UNCHANGED <<life, files, hex, writer, stats>>

-----------------------------------------------------------------------------
(* spawn_resubmit_task, of a find (credits) or of the replay (does not). *)

RetryAttempt(d, b) ==
  /\ pc[d][b] = "bg"
  /\ \E r \in Replies(b, IF d = Replay THEN hex[b] ELSE "full") :
       /\ NodeTakes(b, r)
       /\ \/ /\ r = "ok"
             /\ movers' = movers \cup {<<d, b>>}
             /\ Goto(d, b, IF d = Replay THEN "done" ELSE "check")
          \/ /\ is_permanent_reject(r)
             /\ Goto(d, b, "refused")
             /\ UNCHANGED movers
          \/ /\ r # "ok" /\ ~is_permanent_reject(r)
             /\ UNCHANGED <<movers, pc>>
  /\ UNCHANGED <<life, files, tries, hex, writer, stats>>

(* SUBMIT_RETRY_DEADLINE passes, after any number of failed attempts; the    *)
(* file stays archived.                                                     *)
GiveUp(d, b) ==
  /\ pc[d][b] = "bg"
  /\ Goto(d, b, "gaveup")
  /\ UNCHANGED <<life, accepted, files, tries, hex, movers, writer, stats>>

-----------------------------------------------------------------------------
(* PoolStats::block_found: the check, the in-memory update and the row are  *)
(* three critical sections.                                                 *)

CreditCheck(f, b) ==
  /\ pc[f][b] = "check"
  /\ Goto(f, b, IF counted[b] > 0 THEN "done" ELSE "close")
  /\ UNCHANGED <<life, accepted, files, tries, hex, movers, writer, stats>>

CloseRound(f, b) ==
  /\ pc[f][b] = "close"
  /\ counted' = [counted EXCEPT ![b] = @ + 1]
  /\ Goto(f, b, "insert")
  /\ UNCHANGED <<life, accepted, files, tries, hex, movers, writer, recorded>>

(* INSERT OR IGNORE; a failing write is reported and not repeated. *)
InsertRow(f, b) ==
  /\ pc[f][b] = "insert"
  /\ recorded' \in {recorded, recorded \cup {b}}
  /\ Goto(f, b, "done")
  /\ UNCHANGED <<life, accepted, files, tries, hex, movers, writer, counted>>

-----------------------------------------------------------------------------
(* The archive. *)

(* fs::write creates or truncates the file first ... *)
ArchiveOpen(f, b) ==
  /\ writer[f][b] = "todo"
  /\ top' = [top EXCEPT ![b] = "torn"]
  /\ writer' = [writer EXCEPT ![f][b] = "open"]
  /\ UNCHANGED <<life, accepted, submitted, rejected, pc, tries, hex, movers,
                 stats>>

(* ... and then writes it.  If the file was renamed meanwhile the bytes go  *)
(* with it; if another writer truncated it, the other one completes it.     *)
ArchiveWrite(f, b) ==
  /\ writer[f][b] = "open"
  /\ top' = [top EXCEPT ![b] =
               IF @ = "torn" /\ \A g \in Finds \ {f} : writer[g][b] # "open"
                 THEN "full" ELSE @]
  /\ writer' = [writer EXCEPT ![f][b] = "none"]
  /\ UNCHANGED <<life, accepted, submitted, rejected, pc, tries, hex, movers,
                 stats>>

(* create_dir_all, the open or the write fails: logged, nothing else. *)
ArchiveFails(f, b) ==
  /\ writer[f][b] \in {"todo", "open"}
  /\ writer' = [writer EXCEPT ![f][b] = "none"]
  /\ UNCHANGED <<life, accepted, files, pc, tries, hex, movers, stats>>

(* file_archived_block: a rename, whose failure leaves the file in place.   *)
(* A writer that still has the file open keeps writing to the moved file.   *)
FileUnder(b, bucket) ==
  /\ \/ UNCHANGED <<files, writer>>
     \/ /\ top[b] # "none"
        /\ top' = [top EXCEPT ![b] = "none"]
        /\ submitted' = submitted \cup (IF bucket = "submitted" THEN {b} ELSE {})
        /\ rejected' = rejected \cup (IF bucket = "rejected" THEN {b} ELSE {})
        /\ writer' = [f \in Finds |-> [writer[f] EXCEPT ![b] =
                         IF @ = "open" THEN "none" ELSE @]]

(* mark_archived_submitted, on its own thread: files the block, or finds    *)
(* no file after waiting a second and gives up.                             *)
MarkSubmitted(d, b) ==
  /\ <<d, b>> \in movers
  /\ movers' = movers \ {<<d, b>>}
  /\ FileUnder(b, "submitted")
  /\ UNCHANGED <<life, accepted, pc, tries, hex, stats>>

-----------------------------------------------------------------------------
(* replay_archived_blocks. *)

(* list_archived_blocks: the files at the top level, torn ones included. *)
ReplayList ==
  /\ up
  /\ ~listed
  /\ listed' = TRUE
  /\ pc' = [pc EXCEPT ![Replay] =
              [b \in Blocks |-> IF top[b] # "none" THEN "queued" ELSE "idle"]]
  /\ UNCHANGED <<good, up, stops, accepted, files, tries, hex, movers, writer,
                 stats>>

(* One block at a time: read the file, or skip it if it is gone. *)
ReplayRead(b) ==
  /\ pc[Replay][b] = "queued"
  /\ \A c \in Blocks : pc[Replay][c] \notin {"try", "filesub", "filerej"}
  /\ IF top[b] = "none"
       THEN Goto(Replay, b, "done") /\ UNCHANGED hex
       ELSE Goto(Replay, b, "try") /\ hex' = [hex EXCEPT ![b] = top[b]]
  /\ UNCHANGED <<life, accepted, files, tries, movers, writer, stats>>

(* Mutants: any answer but a rejection counts as confirmation; a failed     *)
(* replay is not retried in the background.                                 *)
ReplayAttempt_Optimistic(b) ==
  /\ pc[Replay][b] = "try"
  /\ \E r \in Replies(b, hex[b]) :
       /\ NodeTakes(b, r)
       /\ Goto(Replay, b, IF is_permanent_reject(r) THEN "filerej" ELSE "filesub")
  /\ UNCHANGED <<life, files, tries, hex, movers, writer, stats>>

ReplayAttempt_Once(b) ==
  /\ pc[Replay][b] = "try"
  /\ \E r \in Replies(b, hex[b]) :
       /\ NodeTakes(b, r)
       /\ \/ r = "ok" /\ Goto(Replay, b, "filesub")
          \/ /\ is_permanent_reject(r) \/ is_node_side_error(r)
             /\ Goto(Replay, b, "filerej")
          \/ r \in {"lost", "down"} /\ Goto(Replay, b, "done")
  /\ UNCHANGED <<life, files, tries, hex, movers, writer, stats>>

ReplayAttempt(b) ==
  /\ pc[Replay][b] = "try"
  /\ \E r \in Replies(b, hex[b]) :
       /\ NodeTakes(b, r)
       /\ \/ r = "ok" /\ Goto(Replay, b, "filesub")
          \/ /\ is_permanent_reject(r) \/ is_node_side_error(r)
             /\ Goto(Replay, b, "filerej")
          \/ r \in {"lost", "down"} /\ Goto(Replay, b, "bg")
  /\ UNCHANGED <<life, files, tries, hex, movers, writer, stats>>

ReplayFile(b) ==
  /\ \/ pc[Replay][b] = "filesub" /\ FileUnder(b, "submitted")
     \/ pc[Replay][b] = "filerej" /\ FileUnder(b, "rejected")
  /\ Goto(Replay, b, "done")
  /\ UNCHANGED <<life, accepted, tries, hex, movers, stats>>

-----------------------------------------------------------------------------
(* The process stops, by a crash or by a shutdown whose wait ran out, and   *)
(* is started again: only the archive, the table and the node remember.     *)
(* A header belongs to a job of the process that built it, and job ids      *)
(* carry the process's epoch, so a block found before is not found again.   *)
Stop ==
  /\ up
  /\ stops < MaxStops
  /\ stops' = stops + 1
  /\ up' = FALSE
  /\ listed' = FALSE
  /\ writer' = [f \in Finds |-> [b \in Blocks |-> "none"]]
  /\ pc' = [d \in Drivers |-> [b \in Blocks |->
              IF d \in Finds /\ \E f \in Finds : pc[f][b] # "idle"
                THEN "done" ELSE "idle"]]
  /\ tries' = [f \in Finds |-> [b \in Blocks |-> 0]]
  /\ hex' = [b \in Blocks |-> "full"]
  /\ movers' = {}
  /\ counted' = [b \in Blocks |-> 0]
  /\ UNCHANGED <<good, accepted, files, recorded>>

(* PoolStats::new_with_store loads the rows. *)
Boot ==
  /\ ~up
  /\ up' = TRUE
  /\ counted' = [b \in Blocks |-> IF b \in recorded THEN 1 ELSE 0]
  /\ UNCHANGED <<good, stops, listed, accepted, files, tasks, recorded>>

-----------------------------------------------------------------------------
Step(f, b) ==
  \/ InlineAttempt(f, b)
  \/ CreditCheck(f, b) \/ CloseRound(f, b) \/ InsertRow(f, b)

Archive(f, b) == ArchiveOpen(f, b) \/ ArchiveWrite(f, b) \/ ArchiveFails(f, b)

ReplayStep(b) == ReplayRead(b) \/ ReplayAttempt(b) \/ ReplayFile(b)

Next ==
  \/ \E f \in Finds, b \in Blocks : Find(f, b) \/ Step(f, b) \/ Archive(f, b)
  \/ \E d \in Drivers, b \in Blocks :
       RetryAttempt(d, b) \/ GiveUp(d, b) \/ MarkSubmitted(d, b)
  \/ ReplayList
  \/ \E b \in Blocks : ReplayStep(b)
  \/ Stop
  \/ Boot

Spec == Init /\ [][Next]_vars

(* The process is restarted, its tasks are scheduled, and a node asked      *)
(* again and again eventually takes the block.  Nothing is assumed of the   *)
(* archive writes, the movers or the deadline of the retrier.               *)
Fairness ==
  /\ WF_vars(Boot)
  /\ WF_vars(ReplayList)
  /\ \A b \in Blocks :
       /\ WF_vars(ReplayStep(b))
       /\ \A f \in Finds : WF_vars(Step(f, b))
       /\ \A d \in Drivers :
            SF_vars(RetryAttempt(d, b) /\ (b \in good => b \in accepted'))

FairSpec == Spec /\ Fairness

-----------------------------------------------------------------------------
(* Properties. *)

TypeOK ==
  /\ good \subseteq Blocks
  /\ accepted \subseteq Blocks
  /\ up \in BOOLEAN
  /\ stops \in 0..MaxStops
  /\ listed \in BOOLEAN
  /\ top \in [Blocks -> {"none", "torn", "full"}]
  /\ submitted \subseteq Blocks
  /\ rejected \subseteq Blocks
  /\ writer \in [Finds -> [Blocks -> {"none", "todo", "open"}]]
  /\ pc \in [Drivers -> [Blocks -> PCs]]
  /\ tries \in [Finds -> [Blocks -> 0..Attempts]]
  /\ hex \in [Blocks -> {"torn", "full"}]
  /\ movers \subseteq Drivers \X Blocks
  /\ counted \in [Blocks -> Nat]
  /\ recorded \subseteq Blocks

Fate == INSTANCE BlockFate WITH filed <- submitted

(* The pool keeps its promise about found blocks: a row or a file in        *)
(* submitted/ appears only after the node has the block, across every       *)
(* failure, lost reply, stop and replay.                                    *)
KeepsPromise == Fate!Spec

(* The only copy of a good block the node does not have yet stays where the *)
(* next boot looks for it: no mover and no replay takes a complete archive  *)
(* file away, unless the replay read it while it was still being written.   *)
KeepsOnlyCopy ==
  [][\A b \in good \ accepted :
       (top[b] = "full" /\ hex[b] = "full") => top'[b] # "none"]_vars

(* A complete archive file left by a stopped process brings the block to    *)
(* the node after the restart, unless the retrier runs into its deadline.   *)
ArchivedReachesNode ==
  \A b \in Blocks :
    (~up /\ b \in good /\ top[b] = "full")
      ~> (b \in accepted \/ pc[Replay][b] = "gaveup")

(* A block is counted once, however many successes report it. *)
CountedOnce == \A b \in Blocks : counted[b] <= 1

(* A good block found by a process that has stopped is on the node, or      *)
(* archived where the next boot will find and resubmit it.                  *)
UnconfirmedIsArchived ==
  ~up => \A b \in good \ accepted :
           (\E f \in Finds : pc[f][b] # "idle") => top[b] = "full"

=============================================================================
