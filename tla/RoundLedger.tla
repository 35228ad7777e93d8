---------------------------- MODULE RoundLedger ----------------------------
(***************************************************************************)
(* The round accounting of PoolStats (src/src/stats.rs): credited work is  *)
(* added to the current round, a found block closes it, a periodic         *)
(* snapshot persists it, and a restart loads what the database has.        *)
(*                                                                         *)
(* Work is the set of the shares it sums, so that a share lost or summed   *)
(* twice shows.  The opening time of a round is the block that opened it.  *)
(* Two drivers that credit the same block at the same time are the subject *)
(* of BlockSubmit; here a block is credited again only after the first     *)
(* call has returned.                                                      *)
(***************************************************************************)
EXTENDS Naturals, FiniteSets, Sequences, FiniteSetsExt

CONSTANTS
  Blocks,      \* block hashes
  First,       \* the opening of the first round, no block
  MaxWork,     \* bound: shares credited
  MaxStops,    \* bound: restarts
  MaxLostWrites  \* bound: failed writes

ASSUME FirstAssumption == First \notin Blocks
ASSUME LedgerAssumption == {MaxWork, MaxStops, MaxLostWrites} \subseteq Nat

VARIABLES
  at,            \* per block: where its crediting is in block_found
  closed,        \* per block: the round_work of its FoundBlock
  shares,        \* history: shares credited
  round_work,
  round_start,   \* round_start_ts
  found_blocks,  \* in memory
  rows,          \* the table found_blocks
  dbWork,        \* pool_stats.round_work
  dbStart,       \* pool_stats.round_start_ts
  snap,          \* the snapshot task: what it has loaded
  stops,
  lostWrites,
  earlier,       \* history: blocks loaded at boot
  base,          \* history: loaded at boot, or credited since
  ticked,        \* history: credited when the last snapshot written was loaded
  rowLost        \* history: an insert into found_blocks failed

memVars == <<at, closed, round_work, round_start, found_blocks, snap>>
dbVars == <<rows, dbWork, dbStart>>
histVars == <<shares, stops, lostWrites, earlier, base, ticked, rowLost>>
roundVars == <<memVars, dbVars, histVars>>

FoundBlock(h) == [hash |-> h, work |-> closed[h]]
Asleep == [at |-> "sleep", work |-> {}, start |-> First, seen |-> {}]

Hashes(bs) == {bs[i].hash : i \in DOMAIN bs}
Works(bs) == {bs[i].work : i \in DOMAIN bs}

RoundInit ==
  /\ at = [h \in Blocks |-> "idle"]
  /\ closed = [h \in Blocks |-> {}]
  /\ shares = {} /\ round_work = {} /\ dbWork = {}
  /\ round_start = First /\ dbStart = First
  /\ found_blocks = <<>> /\ rows = <<>>
  /\ snap = Asleep
  /\ stops = 0 /\ lostWrites = 0
  /\ earlier = 0 /\ base = {} /\ ticked = {} /\ rowLost = FALSE

(* A write to the store: it fails and leaves the row as it was, or not. *)
Written(ok) ==
  /\ ok \/ lostWrites < MaxLostWrites
  /\ lostWrites' = IF ok THEN lostWrites ELSE lostWrites + 1

set_round(ok, work, start) ==
  /\ Written(ok)
  /\ dbWork' = IF ok THEN work ELSE dbWork
  /\ dbStart' = IF ok THEN start ELSE dbStart

-----------------------------------------------------------------------------
(* share_accepted, its compare-and-exchange of round_work. *)
AddWork ==
  LET x == Cardinality(shares) + 1 IN
  /\ x <= MaxWork
  /\ shares' = shares \cup {x}
  /\ base' = base \cup {x}
  /\ round_work' = round_work \cup {x}
  /\ UNCHANGED <<at, closed, round_start, found_blocks, snap, dbVars, stops, lostWrites,
                 earlier, ticked, rowLost>>

(* block_found: the check of the blocks already counted. *)
FoundCheck(h) ==
  /\ at[h] = "idle"
  /\ h \notin Hashes(found_blocks)
  /\ at' = [at EXCEPT ![h] = "close"]
  /\ UNCHANGED <<closed, round_work, round_start, found_blocks, snap, dbVars, histVars>>

(* Mutant: the round is read and then emptied, not swapped. *)
FoundClose_LoadStore(h) ==
  \/ /\ at[h] = "close" /\ closed[h] = {}
     /\ closed' = [closed EXCEPT ![h] = round_work]
     /\ UNCHANGED <<at, round_work, round_start, found_blocks, snap, dbVars, histVars>>
  \/ /\ at[h] = "close"
     /\ closed' = [closed EXCEPT ![h] = IF @ = {} THEN round_work ELSE @]
     /\ round_work' = {}
     /\ at' = [at EXCEPT ![h] = "open"]
     /\ UNCHANGED <<round_start, found_blocks, snap, dbVars, histVars>>

(* The swap that closes the round. *)
FoundClose(h) ==
  /\ at[h] = "close"
  /\ closed' = [closed EXCEPT ![h] = round_work]
  /\ round_work' = {}
  /\ at' = [at EXCEPT ![h] = "open"]
  /\ UNCHANGED <<round_start, found_blocks, snap, dbVars, histVars>>

(* The new round opens and the block is listed. *)
FoundOpen(h) ==
  /\ at[h] = "open"
  /\ round_start' = h
  /\ found_blocks' = Append(found_blocks, FoundBlock(h))
  /\ at' = [at EXCEPT ![h] = "row"]
  /\ UNCHANGED <<closed, round_work, snap, dbVars, histVars>>

(* insert_found_block. *)
FoundRow(h, ok) ==
  /\ at[h] = "row"
  /\ Written(ok)
  /\ rows' = IF ok /\ h \notin Hashes(rows) THEN Append(rows, FoundBlock(h))
             ELSE rows
  /\ rowLost' = (rowLost \/ ~ok)
  /\ at' = [at EXCEPT ![h] = "reset"]
  /\ UNCHANGED <<closed, round_work, round_start, found_blocks, snap, dbWork, dbStart,
                 shares, stops, earlier, base, ticked>>

(* The new round is written as empty, whatever has come in since the swap. *)
FoundReset(h, ok) ==
  /\ at[h] = "reset"
  /\ set_round(ok, {}, h)
  /\ ticked' = ticked \ round_work
  /\ at' = [at EXCEPT ![h] = "idle"]
  /\ closed' = [closed EXCEPT ![h] = {}]
  /\ UNCHANGED <<round_work, round_start, found_blocks, snap, rows, shares, stops,
                 earlier, base, rowLost>>

-----------------------------------------------------------------------------
(* persist_round_state, called by the snapshot task and at shutdown: two    *)
(* loads and a write.                                                       *)
SnapWork ==
  /\ snap.at = "sleep"
  /\ snap' = [Asleep EXCEPT !.at = "start", !.work = round_work, !.seen = base]
  /\ UNCHANGED <<at, closed, round_work, round_start, found_blocks, dbVars, histVars>>

SnapStart ==
  /\ snap.at = "start"
  /\ snap' = [snap EXCEPT !.at = "write", !.start = round_start]
  /\ UNCHANGED <<at, closed, round_work, round_start, found_blocks, dbVars, histVars>>

(* Mutant: an empty round is not worth a write. *)
SnapWrite_NonEmpty(ok) ==
  /\ snap.at = "write"
  /\ IF snap.work = {} THEN UNCHANGED <<lostWrites, dbWork, dbStart>>
     ELSE set_round(ok, snap.work, snap.start)
  /\ ticked' = IF ok THEN ticked \cup snap.seen ELSE ticked
  /\ snap' = Asleep
  /\ UNCHANGED <<at, closed, round_work, round_start, found_blocks, rows, shares, stops,
                 earlier, base, rowLost>>

SnapWrite(ok) ==
  /\ snap.at = "write"
  /\ set_round(ok, snap.work, snap.start)
  /\ ticked' = IF ok THEN ticked \cup snap.seen ELSE ticked
  /\ snap' = Asleep
  /\ UNCHANGED <<at, closed, round_work, round_start, found_blocks, rows, shares, stops,
                 earlier, base, rowLost>>

(* The process stops at any step and starts from the database. *)
RoundReboot ==
  /\ stops < MaxStops
  /\ stops' = stops + 1
  /\ at' = [h \in Blocks |-> "idle"]
  /\ closed' = [h \in Blocks |-> {}]
  /\ round_work' = dbWork
  /\ round_start' = dbStart
  /\ found_blocks' = rows
  /\ snap' = Asleep
  /\ earlier' = Len(rows)
  /\ base' = dbWork
  /\ ticked' = ticked \cap (dbWork \cup UNION Works(rows))
  /\ UNCHANGED <<dbVars, shares, lostWrites, rowLost>>

FoundStep(h) ==
  \/ FoundClose(h) \/ FoundOpen(h)
  \/ \E ok \in BOOLEAN : FoundRow(h, ok) \/ FoundReset(h, ok)

RoundNext ==
  \/ AddWork
  \/ \E h \in Blocks : FoundCheck(h) \/ FoundStep(h)
  \/ SnapWork \/ SnapStart \/ (\E ok \in BOOLEAN : SnapWrite(ok))
  \/ RoundReboot

(* The snapshot task comes round again and again; a task finishes what it   *)
(* has started.                                                             *)
RoundFairness ==
  /\ WF_roundVars(SnapWork) /\ WF_roundVars(SnapStart)
  /\ WF_roundVars(\E ok \in BOOLEAN : SnapWrite(ok))
  /\ \A h \in Blocks : WF_roundVars(FoundStep(h))

RoundSpec == RoundInit /\ [][RoundNext]_roundVars /\ RoundFairness

-----------------------------------------------------------------------------
(* Properties. *)

RoundTypeOK ==
  /\ at \in [Blocks -> {"idle", "close", "open", "row", "reset"}]
  /\ \A h \in Blocks : closed[h] \subseteq shares
  /\ shares \subseteq 1..MaxWork
  /\ round_work \cup dbWork \cup base \cup ticked \subseteq shares
  /\ {round_start, dbStart} \subseteq Blocks \cup {First}
  /\ Cardinality(Hashes(found_blocks)) = Len(found_blocks)
  /\ Cardinality(Hashes(rows)) = Len(rows)
  /\ stops \in 0..MaxStops /\ lostWrites \in 0..MaxLostWrites

(* The rounds of this boot: closed, being closed, and the current one. *)
Closing == {h \in Blocks : at[h] = "open"}
(* Since boot every credited share is in exactly one round: the additions   *)
(* of the sessions and the swap of block_found lose none and count none     *)
(* twice, in whichever order they come.                                     *)
RoundsPartition ==
  LET done == {found_blocks[i].work : i \in (earlier + 1)..Len(found_blocks)}
      size == MapThenSumSet(LAMBDA i : Cardinality(found_blocks[i].work),
                            (earlier + 1)..Len(found_blocks))
      open == {closed[h] : h \in Closing}
      osize == MapThenSumSet(LAMBDA h : Cardinality(closed[h]), Closing) IN
  /\ base = round_work \cup UNION done \cup UNION open
  /\ Cardinality(base) = Cardinality(round_work) + size + osize

(* "A restart loses at most one tick of work": what was credited before the *)
(* last snapshot written is in the database, in the round or with a block.  *)
(* The exceptions: while block_found is between its swap and its row, a row *)
(* that could not be written, and what came in while a block was recorded,  *)
(* which waits for the next snapshot.                                       *)
TickedIsSafe ==
  (~rowLost /\ \A h \in Blocks : at[h] \in {"idle", "close"}) =>
    ticked \subseteq dbWork \cup UNION Works(rows)

(* Whatever a snapshot that overlapped a found block wrote, and whichever   *)
(* writes failed: once no more blocks and shares come, the persisted round  *)
(* agrees with the running one for good.                                    *)
RoundSettles == <>[](dbWork = round_work /\ dbStart = round_start)

=============================================================================
