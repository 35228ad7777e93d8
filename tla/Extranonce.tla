----------------------------- MODULE Extranonce -----------------------------
(***************************************************************************)
(* Who searches which part of the extranonce space: generate_extranonce1   *)
(* (src/src/network/session.rs), the SV1 split, and the split an SV2       *)
(* device gets when it opens its channel (src/src/protocol/sv2/mod.rs).    *)
(***************************************************************************)
EXTENDS Naturals, SequencesExt

CONSTANTS
  Slots,            \* connections that can be live at a time
  Base,             \* values of a byte
  CounterLen,       \* bytes of the counter
  extranonce1_size, extranonce2_size,
  Requests,         \* values of min_extranonce_size
  MaxDrawn          \* bound: prefixes drawn

ASSUME SplitAssumption ==
  /\ Base \in Nat \ {0, 1} /\ CounterLen \in Nat \ {0}
  /\ extranonce1_size \in Nat \ {0} /\ extranonce2_size \in Nat

VARIABLES
  drawn,        \* EXTRANONCE1_COUNTER
  conn, prefix  \* per slot: "free", "sv1", "sv2" or "open" (an SV2 channel); its prefix

splitVars == <<drawn, conn, prefix>>

extranonce_total == extranonce1_size + extranonce2_size

SplitInit ==
  /\ drawn = 1
  /\ conn = [s \in Slots |-> "free"] /\ prefix = [s \in Slots |-> <<>>]

to_be_bytes(n) == [i \in 1..CounterLen |-> (n \div Base^(CounterLen - i)) % Base]

(* Mutant: the first bytes of the counter instead of the last. *)
generate_extranonce1_Leading(size) ==
  LET counter == to_be_bytes(drawn) IN
    IF size <= CounterLen THEN SubSeq(counter, 1, size)
    ELSE counter \o [i \in 1..(size - CounterLen) |-> 0]

generate_extranonce1(size) ==
  LET counter == to_be_bytes(drawn) IN
    IF size <= CounterLen THEN SubSeq(counter, CounterLen - size + 1, CounterLen)
    ELSE [i \in 1..(size - CounterLen) |-> 0] \o counter

Draw(s, size) ==
  /\ drawn < MaxDrawn /\ drawn' = drawn + 1
  /\ prefix' = [prefix EXCEPT ![s] = generate_extranonce1(size)]

(* A session of either protocol draws a prefix of the SV1 width as it starts.*)
Begin(s, proto) ==
  /\ conn[s] = "free" /\ conn' = [conn EXCEPT ![s] = proto]
  /\ Draw(s, extranonce1_size)

(* A channel that opens, or opens again, draws another of what is left.     *)
OpenChannel(s, requested) ==
  /\ conn[s] \in {"sv2", "open"} /\ requested <= extranonce_total
  /\ LET granted == IF requested < 1 THEN 1 ELSE requested IN
       Draw(s, extranonce_total - granted)
  /\ conn' = [conn EXCEPT ![s] = "open"]

End(s) ==
  /\ conn[s] # "free"
  /\ conn' = [conn EXCEPT ![s] = "free"] /\ prefix' = [prefix EXCEPT ![s] = <<>>]
  /\ UNCHANGED drawn

SplitNext ==
  \E s \in Slots : \/ \E p \in {"sv1", "sv2"} : Begin(s, p)
                   \/ End(s)
                   \/ \E r \in Requests : OpenChannel(s, r)

-----------------------------------------------------------------------------
Miners == {s \in Slots : conn[s] \in {"sv1", "open"}}

(* Two sessions can build the same coinbase. *)
Overlap(a, b) ==
  \/ IsPrefix(prefix[a], prefix[b])
  \/ IsPrefix(prefix[b], prefix[a])

(* Sessions search apart as long as the counter is small for their widths:  *)
(* until it wraps, and for two widths until it fills the bytes by which the *)
(* wider prefix exceeds the other.                                          *)
SearchApart ==
  \A a, b \in Miners :
    LET v == Len(prefix[a])  w == Len(prefix[b]) IN
      /\ a # b /\ 0 < v /\ v <= w
      /\ drawn <= Base^v /\ (v < w => drawn <= Base^(w - v))
      => ~Overlap(a, b)

(* Every connection has a part of the space of its own.                     *)
OwnPrefix == \A a, b \in Miners : a # b => ~Overlap(a, b)
=============================================================================
