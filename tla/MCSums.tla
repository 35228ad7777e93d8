------------------------------- MODULE MCSums -------------------------------
(***************************************************************************)
(* The arithmetic of the pool for TLC: the difficulty of a session, the    *)
(* meters of a session and of a worker, the functions a block is made of,  *)
(* and the ledger of the rounds.  They share no state, so a behaviour      *)
(* exercises one of them and leaves the others at their start.             *)
(***************************************************************************)
EXTENDS Vardiff, Meters, BlockData, RoundLedger

VARIABLE part

-----------------------------------------------------------------------------
(* Inputs. *)

Heights == {0, 1, 16, 17, 127, 128, 255, 256, 32767, 32768, 65535, 65536,
            8388607, 8388608, 840000}
Counts == {1, 252, 253, 254, 255, 256, 65535, 65536, 16777216}

Bytes32(k) == [i \in 1..32 |-> (i * k) % 256]

(* Heights and tags whose bytes begin like the sentinel. *)
Coinbases == [height : {1, 44510, 840000}, tag : {<<>>, <<222, 173>>}, total : 1..6]

Headers == [version : {536870912, 1}, prev : {Bytes32(7), Bytes32(1)},
            root : {Bytes32(3)}, ntime : {1700000000}, bits : {386089497, 545259519},
            nonce : {0, 2147483647}]

BlocksOf(n) == [header |-> [i \in 1..80 |-> i], coinbase |-> <<1, 9>>,
                transactions |-> [i \in 1..n |-> [k \in 1..(1 + (i % 2)) |-> i % 256]]]

Difficulties == 1..5 \cup {255, 256, 257, 300, 1000, 1024, 65535, 65536, 99999,
                           1000003, 8388607}

Compacts == {1, 2, 3, 4, 5, 28, 29, 30, 32, 33} \X {65535, 263371, 8388607}
              \ {<<1, 65535>>}

Mask == {1, 2}
Networks == {compact_to_target(32, 8388607), compact_to_target(29, 65535),
             compact_to_target(27, 263371)}

Jobs == {[min_time |-> 5, cur_time |-> 10, version |-> {0}, network_target |-> t] :
           t \in Networks}
Shares(ntimes, rolls, hashes, ds) ==
  {[superseded |-> s, ntime |-> t, rolled |-> r, mask |-> Mask, hash |-> h,
    difficulty |-> d] :
     s \in BOOLEAN, t \in ntimes, r \in rolls, h \in hashes, d \in ds}

TestHashes == {HashAt(nz, m) : nz \in {4, 5, 6}, m \in {256, 257, 300, 1000, 32767, 32768,
                                                    55923, 55924, 65534, 65535}}

Judged ==
  {[share |-> s, job |-> j] : j \in Jobs,
     s \in Shares({4, 5, 10, 7210, 7211}, {{}, {1}, {3}}, {HashAt(4, 256), HashAt(6, 300)}, {1, 300})
             \cup Shares({10}, {{}}, TestHashes, {1, 2, 256, 300})}

Charts == [history : {<<t>> : t \in {1}} \cup {<<1, a, b>> : a \in 1..5, b \in 5..9},
           max_gap : {2, 3}]

PoolInputs ==
  [merkle |-> {[i \in 1..n |-> <<i>>] : n \in 0..9}, height |-> Heights, count |-> Counts,
   coinbase |-> Coinbases, header |-> Headers,
   block |-> {BlocksOf(n) : n \in 0..5},
   target |-> Difficulties, compact |-> Compacts, judge |-> Judged, gaps |-> Charts]

-----------------------------------------------------------------------------
sumVars == <<part, vardiffVars, meterVars, dataVars, roundVars>>

DataIdle == topic = None /\ input = None /\ output = None

SumsInit ==
  /\ part \in {"vardiff", "bucket", "ring", "data", "rounds"}
  /\ VardiffInit /\ MetersInit /\ RoundInit
  /\ IF part = "data" THEN DataInit ELSE DataIdle

SumsNext ==
  /\ UNCHANGED part
  /\ \/ part = "vardiff" /\ VardiffNext /\ UNCHANGED <<meterVars, dataVars, roundVars>>
     \/ part = "bucket" /\ BucketNext /\ UNCHANGED <<vardiffVars, dataVars, roundVars>>
     \/ part = "ring" /\ RingNext /\ UNCHANGED <<vardiffVars, dataVars, roundVars>>
     \/ part = "data" /\ DataNext /\ UNCHANGED <<vardiffVars, meterVars, roundVars>>
     \/ part = "rounds" /\ RoundNext /\ UNCHANGED <<vardiffVars, meterVars, dataVars>>

(* The session's retarget timer runs, and so do the snapshot task and a     *)
(* block_found once it has begun.                                           *)
SumsFairness ==
  /\ WF_vardiffVars(part = "vardiff" /\ Tick)
  /\ WF_vardiffVars(part = "vardiff" /\ check_retarget)
  /\ WF_roundVars(part = "rounds" /\ SnapWork)
  /\ WF_roundVars(part = "rounds" /\ SnapStart)
  /\ WF_roundVars(part = "rounds" /\ \E ok \in BOOLEAN : SnapWrite(ok))
  /\ \A h \in Blocks : WF_roundVars(part = "rounds" /\ FoundStep(h))

SumsSpec == SumsInit /\ [][SumsNext]_sumVars /\ SumsFairness

(* The judging of shares alone. *)
JudgeSpec == SumsInit /\ part = "data" /\ topic = "judge" /\ [][SumsNext]_sumVars

-----------------------------------------------------------------------------
(* Properties, by part. *)



(* The share limiter holds the rate and spares whoever keeps to it, and the *)
(* reject window says what happened in it.                                  *)
MetersTrue == RateBounded /\ PacedNeverLimited /\ WindowExact

(* What the pool writes byte by byte, the node and the device read as what  *)
(* was meant: the merkle branch, the height, the coinbase, the header and   *)
(* the block.                                                               *)
EncodingsAgree ==
  MerkleAgrees /\ HeightReads /\ CoinbaseAgrees /\ HeaderReads /\ BlockReads


(* Every share is in one round, and what a snapshot has written is safe.    *)
RoundsTrue == RoundsPartition /\ TickedIsSafe

(* A quiet miner comes down to the floor, and the persisted round becomes   *)
(* the one in memory.                                                       *)
SumsSettle ==
  /\ part = "vardiff" => QuietComesDown
  /\ part = "rounds" => RoundSettles
=============================================================================
