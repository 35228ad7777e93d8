----------------------------- MODULE BlockData -----------------------------
(***************************************************************************)
(* The pure functions a block is made of (src/src/bitcoin/template.rs and  *)
(* src/src/mining/validator.rs): merkle branch and root, coinbase with its *)
(* extranonce region, height push, prev-hash byte orders, transaction      *)
(* count, targets and difficulties, and the order in which a share is      *)
(* judged.  Each is translated on byte sequences and evaluated, one input  *)
(* at a time, beside what the result has to mean to a node or to a miner.  *)
(***************************************************************************)
EXTENDS Naturals, Sequences, FiniteSets, SequencesExt, FiniteSetsExt

CONSTANTS
  Inputs,  \* per topic, the inputs evaluated
  None     \* no value; in a merkle level, the coinbase hash not yet known

VARIABLES topic, input, output

dataVars == <<topic, input, output>>

-----------------------------------------------------------------------------
(* Merkle tree.  A leaf is <<its number>>, and a hash of two their prefix   *)
(* notation: no collisions.                                                 *)

double_sha256(l, r) == <<0>> \o l \o r

Paired(l, r) == IF None \in {l, r} THEN None ELSE double_sha256(l, r)

Padded(level) ==
  IF Len(level) % 2 = 0 THEN level ELSE Append(level, Last(level))

NextLevel(level) ==
  [i \in 1..(Len(level) \div 2) |-> Paired(level[2*i - 1], level[2*i])]

(* The sibling of the coinbase at every level: the coinbase is leaf 0, and  *)
(* index 0 at every level above.                                            *)
RECURSIVE Siblings(_)
Siblings(level) ==
  IF Len(level) <= 1 THEN <<>>
  ELSE <<Padded(level)[2]>> \o Siblings(NextLevel(Padded(level)))

compute_merkle_branch_raw(txids) == Siblings(<<None>> \o txids)

(* What validator and miner make of the branch. *)
merkle_root(coinbase, branch) ==
  FoldLeft(double_sha256, coinbase, branch)

-----------------------------------------------------------------------------
(* Height and transaction count. *)

(* Little-endian bytes without leading zeros, and in a fixed width. *)
RECURSIVE LE(_)
LE(n) == IF n = 0 THEN <<>> ELSE <<n % 256>> \o LE(n \div 256)

FixedLE(n, w) == [i \in 1..w |-> (n \div (256 ^ (i - 1))) % 256]

RECURSIVE Number(_)
Number(bytes) ==
  IF bytes = <<>> THEN 0 ELSE bytes[1] + 256 * Number(Tail(bytes))

Signed(b) == IF b[Len(b)] >= 128 THEN Append(b, 0) ELSE b

(* encode_bip34_height: OP_0, OP_1 to OP_16, then a minimal push. *)
encode_bip34_height(h) ==
  IF h = 0 THEN <<0>>
  ELSE IF h <= 16 THEN <<80 + h>>
  ELSE LET b == Signed(LE(h)) IN <<Len(b)>> \o b

(* encode_varint of a count below 2^31. *)
encode_varint(n) ==
  IF n < 253 THEN <<n>>
  ELSE IF n <= 65535 THEN <<253>> \o FixedLE(n, 2)
  ELSE <<254>> \o FixedLE(n, 4)

(* assemble_block_hex: header, count, coinbase, the template's transactions.*)
assemble_block(header, coinbase, transactions) ==
  header \o encode_varint(1 + Len(transactions)) \o coinbase
    \o FlattenSeq(transactions)

-----------------------------------------------------------------------------
(* Coinbase.  The serialized transaction is what surrounds the script, the  *)
(* script's length, height, tag and the extranonce region.                  *)

SENTINEL == <<222, 173, 190, 239>>
Before == <<1, 0>>
After == <<255, 9>>
Zeros(n) == [i \in 1..n |-> 0]

(* Mutant: the region is looked for by the first byte of the sentinel. *)
find_bytes_First(hay, needle) == Min({i \in DOMAIN hay : hay[i] = needle[1]})

(* The first occurrence, as a 1-based position. *)
find_bytes(hay, needle) ==
  Min({i \in 1..(Len(hay) - Len(needle) + 1) :
         SubSeq(hay, i, i + Len(needle) - 1) = needle})

Blanked(s, from, n) ==
  [i \in DOMAIN s |-> IF i \in from..(from + n - 1) THEN 0 ELSE s[i]]

build_coinbase(height, tag, total) ==
  LET fill == IF total > 4 THEN total - 4 ELSE 0
      script == encode_bip34_height(height) \o tag \o SENTINEL \o Zeros(fill)
      serialized == Before \o <<Len(script)>> \o script \o After
      offset == find_bytes(serialized, SENTINEL) IN
    [bytes |-> Blanked(serialized, offset, total), offset |-> offset]

(* build_job: what the miner gets on either side of the region. *)
coinbase1(cb) == SubSeq(cb.bytes, 1, cb.offset - 1)
coinbase2(cb, total) == SubSeq(cb.bytes, cb.offset + total, Len(cb.bytes))

(* assemble_coinbase: both parts spliced into the template. *)
assemble_coinbase(cb, total, e1, e2) ==
  IF Len(e1) + Len(e2) # total THEN cb.bytes
  ELSE [i \in DOMAIN cb.bytes |->
          IF i \in cb.offset..(cb.offset + total - 1)
            THEN (e1 \o e2)[i - cb.offset + 1] ELSE cb.bytes[i]]

-----------------------------------------------------------------------------
(* Previous block hash and header. *)

(* Every four-byte word reversed: chunks_mut(4) with reverse. *)
Swapped(b) == [i \in DOMAIN b |-> b[4 * ((i - 1) \div 4) + 4 - ((i - 1) % 4)]]

(* Display order reversed, then swapped word by word. *)
stratum_prev_hash(display) == Swapped(Reverse(display))

stratum_prevhash_to_internal(stratum) == Swapped(stratum)

(* Version bits as a set: those outside the negotiated mask are refused. *)
resolve_version(base, rolled, mask) ==
  IF rolled \subseteq mask THEN (base \ mask) \cup rolled ELSE None

build_header(version, stratum, root, ntime, bits, nonce) ==
  FixedLE(version, 4) \o Swapped(stratum) \o root
    \o FixedLE(ntime, 4) \o FixedLE(bits, 4) \o FixedLE(nonce, 4)

-----------------------------------------------------------------------------
(* Targets: 32 bytes, most significant first. *)

DIFF1_TARGET == [i \in 1..32 |-> IF i \in {5, 6} THEN 255 ELSE 0]


(* div_be_u256_by_u64: the remainder before each byte, then the digits. *)
Remainders(value, d) ==
  FoldLeft(LAMBDA rems, byte : Append(rems, (rems[Len(rems)] * 256 + byte) % d),
           <<0>>, value)
div_be_u256_by_u64(value, d) ==
  LET rems == Remainders(value, d) IN
    [i \in 1..32 |-> (rems[i] * 256 + value[i]) \div d]

difficulty_to_target(d) ==
  IF d <= 1 THEN DIFF1_TARGET ELSE div_be_u256_by_u64(DIFF1_TARGET, d)

(* difficulty_to_sv2_target, and what the device reads back. *)
difficulty_to_sv2_target(d) == Reverse(difficulty_to_target(d))

(* Byte by byte, the order of the numbers. *)
AtMost(a, b) ==
  a = b \/ LET i == Min({k \in DOMAIN a : a[k] # b[k]}) IN a[i] < b[i]

(* sv2_target_le: the magnitudes of two little-endian targets. *)
sv2_target_le(a, b) == AtMost(Reverse(a), Reverse(b))

(* meets_target: hash and target, the hash little-endian. *)
meets_target(hash, target) == AtMost(Reverse(hash), target)

(* Of an exponent and a mantissa below 2^23; beyond 32 bytes an error. *)
compact_to_target(exponent, mantissa) ==
  LET value == IF exponent <= 3 THEN mantissa \div (256 ^ (3 - exponent)) ELSE mantissa
      shift == IF exponent <= 3 THEN 0 ELSE exponent - 3 IN
    IF shift > 29 THEN None
    ELSE [i \in 1..32 |->
            IF i \in (30 - shift)..(32 - shift)
              THEN (value \div (256 ^ (32 - shift - i))) % 256 ELSE 0]

(* hash_to_difficulty of a hash with at most two significant bytes. The     *)
(* first eight bytes from the first that is not zero, over the same of      *)
(* DIFF1_TARGET, are the first two over 65535; then whole bytes are         *)
(* shifted.                                                                 *)
DIFF1_NZ == 5
hash_to_difficulty_At(hash, diff1_nz) ==
  LET be == Reverse(hash)
      nz == Min({i \in 1..32 : be[i] # 0})
      sig == 256 * be[nz] + be[nz + 1]
      ratio == 65535 \div sig IN
    IF nz >= diff1_nz THEN ratio * 256 ^ (nz - diff1_nz)
    ELSE ratio \div (256 ^ (diff1_nz - nz))

hash_to_difficulty(hash) == hash_to_difficulty_At(hash, DIFF1_NZ)

(* The hash whose first significant bytes, from position nz, are m. *)
HashAt(nz, m) ==
  Reverse([i \in 1..32 |-> CASE i = nz -> m \div 256
                             [] i = nz + 1 -> m % 256 [] OTHER -> 0])

-----------------------------------------------------------------------------
(* The order in which a share is judged.  A share is a record: whether a    *)
(* clean job came since, ntime, rolled version bits, hash and difficulty;   *)
(* a job has its times and its network target.                              *)

check_ntime(ntime, min_time, cur_time) ==
  ntime >= min_time /\ ntime <= cur_time + 7200

validate_share_no_dedup(share, job) ==
  CASE share.superseded -> "stale"
    [] /\ ~share.superseded
       /\ \/ ~check_ntime(share.ntime, job.min_time, job.cur_time)
          \/ resolve_version(job.version, share.rolled, share.mask) = None -> "invalid"
    [] OTHER ->
       IF meets_target(share.hash, job.network_target) THEN "block"
       ELSE IF ~meets_target(share.hash, difficulty_to_target(share.difficulty)) THEN "low"
       ELSE "valid"

-----------------------------------------------------------------------------
(* The chart. *)

(* A null halfway across every gap wider than max_gap. *)
with_gaps(history, max_gap) ==
  FoldLeft(LAMBDA out, ts :
             IF out # <<>> /\ ts > Last(out).ts + max_gap
               THEN out \o <<[ts |-> Last(out).ts + (ts - Last(out).ts) \div 2, null |-> TRUE],
                             [ts |-> ts, null |-> FALSE]>>
               ELSE Append(out, [ts |-> ts, null |-> FALSE]),
           <<>>, history)

-----------------------------------------------------------------------------
(* One evaluation: an input of a topic, then its output. *)

DataInit ==
  /\ topic \in DOMAIN Inputs
  /\ input \in Inputs[topic]
  /\ output = None

Evaluate(t, value) ==
  topic = t /\ output = None /\ output' = value /\ UNCHANGED <<topic, input>>

Merkle == Evaluate("merkle", compute_merkle_branch_raw(input))
Height == Evaluate("height", encode_bip34_height(input))
Count == Evaluate("count", encode_varint(input))
Coinbase == Evaluate("coinbase", build_coinbase(input.height, input.tag, input.total))
Header ==
  Evaluate("header",
    build_header(input.version, stratum_prev_hash(input.prev), input.root,
                 input.ntime, input.bits, input.nonce))
Block == Evaluate("block", assemble_block(input.header, input.coinbase, input.transactions))
Target == Evaluate("target", difficulty_to_target(input))
Compact == Evaluate("compact", compact_to_target(input[1], input[2]))
Judge ==
  Evaluate("judge", [verdict |-> validate_share_no_dedup(input.share, input.job),
                     hash_difficulty |-> hash_to_difficulty(input.share.hash)])
Gaps == Evaluate("gaps", with_gaps(input.history, input.max_gap))

DataNext == Merkle \/ Height \/ Count \/ Coinbase \/ Header \/ Block
              \/ Target \/ Compact \/ Judge \/ Gaps

-----------------------------------------------------------------------------
(* What the results have to mean. *)

Done(t) == topic = t /\ output # None

(* The root over all leaves as the node computes it. *)
RECURSIVE NodeRoot(_)
NodeRoot(level) ==
  IF Len(level) = 1 THEN level[1]
  ELSE NodeRoot([i \in 1..((Len(level) + 1) \div 2) |->
                   <<0>> \o level[2*i - 1]
                        \o level[IF 2*i <= Len(level) THEN 2*i ELSE 2*i - 1]])

(* For any number of transactions, the branch computed without the          *)
(* coinbase gives, folded over whatever coinbase the miner builds, the root *)
(* the node computes over the whole block.                                  *)
MerkleAgrees ==
  Done("merkle") => merkle_root(<<100>>, output) = NodeRoot(<< <<100>> >> \o input)

(* The node's reading of a height push: small integers have opcodes,        *)
(* anything else is a minimal signed number of as many bytes as announced.  *)
NodeHeight(s) ==
  CASE s = <<0>> -> 0
    [] Len(s) = 1 /\ s[1] \in 81..96 -> s[1] - 80
    [] /\ Len(s) = s[1] + 1 /\ s[1] \in 1..4 /\ Last(s) < 128
       /\ Last(s) = 0 => Len(s) > 2 /\ s[Len(s) - 1] >= 128
       /\ Number(Tail(s)) > 16 -> Number(Tail(s))
    [] OTHER -> None

(* The height pushed in the coinbase is the one the node reads, in the only *)
(* encoding it accepts: the opcode up to 16, above it the shortest signed   *)
(* number.                                                                  *)
HeightReads == Done("height") => NodeHeight(output) = input

(* The node's reading of a count: the shortest form or nothing. *)
NodeCount(s) ==
  CASE s[1] < 253 -> s[1]
    [] s[1] = 253 /\ Number(SubSeq(s, 2, 3)) >= 253 -> Number(SubSeq(s, 2, 3))
    [] s[1] = 254 /\ Number(SubSeq(s, 2, 5)) >= 65536 -> Number(SubSeq(s, 2, 5))
    [] OTHER -> None

CountLength(s) == CASE s[1] < 253 -> 1 [] s[1] = 253 -> 3 [] OTHER -> 5

(* A block handed to submitblock reads back: after the 80 header bytes the  *)
(* count in its shortest form, the coinbase, and every transaction of the   *)
(* template in order; the count alone also at the limits no test block      *)
(* reaches.                                                                 *)
BlockReads ==
  /\ Done("count") => NodeCount(output) = input /\ CountLength(output) = Len(output)
  /\ Done("block") =>
       LET rest == SubSeq(output, 81, Len(output))
           body == SubSeq(rest, CountLength(rest) + 1, Len(rest)) IN
         /\ SubSeq(output, 1, 80) = input.header
         /\ NodeCount(rest) = Len(input.transactions) + 1
         /\ body = input.coinbase \o FlattenSeq(input.transactions)

(* However a session splits the extranonce, the coinbase the validator      *)
(* assembles is the one a device builds from the two halves it was sent,    *)
(* its script has the announced length and still begins with the height     *)
(* and the tag; a sentinel look-alike in height or tag moves nothing.       *)
CoinbaseAgrees ==
  Done("coinbase") => \A p \in 0..input.total :
    LET total == input.total
        e1 == [i \in 1..p |-> 100 + i]
        e2 == [i \in 1..(total - p) |-> 200 + i]
        whole == assemble_coinbase(output, total, e1, e2)
        start == Len(Before) + 1 IN
      /\ whole = coinbase1(output) \o e1 \o e2 \o coinbase2(output, total)
      /\ Len(whole) = start + whole[start] + Len(After)
      /\ IsPrefix(encode_bip34_height(input.height) \o input.tag \o e1 \o e2,
                  SubSeq(whole, start + 1, Len(whole)))

(* The header the pool hashes holds every field where the node reads it,    *)
(* little-endian, and the previous block hash as the full reverse of what   *)
(* getblocktemplate displays; a Stratum V2 device is given the same bytes.  *)
HeaderReads ==
  Done("header") =>
    /\ Len(output) = 80
    /\ Number(SubSeq(output, 1, 4)) = input.version
    /\ SubSeq(output, 5, 36) = Reverse(input.prev)
    /\ SubSeq(output, 5, 36) = stratum_prevhash_to_internal(stratum_prev_hash(input.prev))
    /\ SubSeq(output, 37, 68) = input.root
    /\ Number(SubSeq(output, 69, 72)) = input.ntime
    /\ Number(SubSeq(output, 73, 76)) = input.bits
    /\ Number(SubSeq(output, 77, 80)) = input.nonce

(* A number times d, with the carry out of each byte. *)
Times(value, d) ==
  LET carry[i \in 1..33] ==
        IF i = 33 THEN 0 ELSE (value[i] * d + carry[i + 1]) \div 256 IN
    [i \in 1..32 |-> (value[i] * d + carry[i + 1]) % 256]

Plus1(value) ==
  LET k == Max({i \in 1..32 : value[i] # 255}) IN
    [i \in 1..32 |-> IF i < k THEN value[i] ELSE IF i = k THEN value[i] + 1 ELSE 0]

(* The share target of difficulty d is the exact quotient: the largest      *)
(* number whose d-fold does not exceed the difficulty-1 target.  A Stratum  *)
(* V2 device compares the same number, reversed: its order of targets is    *)
(* the opposite order of difficulties.                                      *)
TargetIsQuotient ==
  Done("target") =>
    /\ AtMost(Times(output, input), DIFF1_TARGET)
    /\ ~AtMost(Times(Plus1(output), input), DIFF1_TARGET)
    /\ \A d \in Inputs["target"] :
         d >= input <=> sv2_target_le(difficulty_to_sv2_target(d), Reverse(output))

(* Compact bits of normalised mantissas order the network targets as they   *)
(* order the numbers, whatever the exponent, and an exponent past 32 bytes  *)
(* is refused; the bits of difficulty 1 give its share target.              *)
BitsOrdered ==
  topic = "compact" /\ output # None =>
    /\ input = <<29, 65535>> => output = DIFF1_TARGET
    /\ \A b \in Inputs["compact"] :
         LET other == compact_to_target(b[1], b[2]) IN
           other # None =>
             (AtMost(output, other) <=>
                (input[1] < b[1] \/ (input[1] = b[1] /\ input[2] <= b[2])))

(* A share that is in time, rolls only negotiated bits and meets the        *)
(* network target of a job not yet retired is a block, whatever the         *)
(* session's difficulty.                                                    *)
BlockNeverLost ==
  Done("judge") =>
    LET share == input.share job == input.job IN
      /\ ~share.superseded
      /\ share.ntime \in job.min_time..(job.cur_time + 7200)
      /\ share.rolled \subseteq share.mask
      /\ meets_target(share.hash, job.network_target)
      => output.verdict = "block"

(* The difficulty reported for a hash, which feeds the best-share marks, is *)
(* never above what the hash achieves.                                      *)
NoOverReport ==
  Done("judge") =>
    \/ output.hash_difficulty = 0
    \/ meets_target(input.share.hash, difficulty_to_target(output.hash_difficulty))

(* What the comment on ShareResult::Valid promises: the difficulty reported *)
(* for an accepted share is at least the one it was assigned.               *)
ReportedAtLeastAssigned ==
  Done("judge") /\ output.verdict = "valid" =>
    output.hash_difficulty >= input.share.difficulty

(* The chart keeps every sample in order, and has a null, strictly between  *)
(* its neighbours, exactly where two samples are too far apart.             *)
GapsRight ==
  Done("gaps") =>
    LET kept == SelectSeq(output, LAMBDA p : ~p.null)
        wide == {i \in 2..Len(input.history) :
                   input.history[i] - input.history[i - 1] > input.max_gap} IN
      /\ [i \in DOMAIN kept |-> kept[i].ts] = input.history
      /\ Cardinality({i \in DOMAIN output : output[i].null}) = Cardinality(wide)
      /\ \A i \in 1..(Len(output) - 1) :
           /\ output[i].null \/ output[i + 1].null => output[i].ts < output[i + 1].ts
           /\ ~output[i].null /\ ~output[i + 1].null
                => output[i + 1].ts - output[i].ts <= input.max_gap
=============================================================================
