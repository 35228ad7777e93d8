------------------------------- MODULE Meters -------------------------------
(***************************************************************************)
(* Two meters over time.  The token bucket every inbound message of a      *)
(* session is charged to (ShareRateLimiter in src/src/security/mod.rs),    *)
(* and the ring of minute buckets behind a worker's reject health          *)
(* (RejectWindow in src/src/stats.rs), each beside the record of events it *)
(* summarises.  The clock of either is bounded by MaxTime.                 *)
(***************************************************************************)
EXTENDS Naturals, Sequences, FiniteSets, SequencesExt

CONSTANTS
  Rate,      \* max_shares_per_sec
  Sec,       \* ticks in a second of the bucket's clock
  Minutes,   \* REJECT_WINDOW_MINUTES
  Minute,    \* ticks in a minute of the ring's clock
  OtherCap,  \* MAX_RECENT_OTHER_REJECTS
  MaxEvents, \* bound: shares and rejects recorded
  MaxTime    \* bound: ticks of either clock

ASSUME RateAssumption == Rate \in Nat \ {0} /\ Sec \in Nat \ {0}
ASSUME RingAssumption == /\ Minutes \in Nat \ {0} /\ Minute \in Nat \ {0}
                         /\ OtherCap \in Nat \ {0}

VARIABLES
  clock,        \* ticks since the start
  tokens,       \* in units of 1 / Sec of a token
  last_refill,  \* the tick of the latest message
  passed,       \* history: the ticks of the messages let through
  limited,      \* a message was refused, which ends the session
  paced,        \* history: no message came sooner than the rate allows
  minutes,      \* the ring: one [minute, accepted, stale] per slot
  other,        \* ticks of the other rejects, oldest first
  events        \* history: <<tick, kind>> of everything recorded

bucketVars == <<tokens, last_refill, passed, limited, paced>>
ringVars == <<minutes, other, events>>
meterVars == <<clock, bucketVars, ringVars>>

MetersInit ==
  /\ clock = 0
  /\ tokens = Rate * Sec /\ last_refill = 0
  /\ passed = <<>> /\ limited = FALSE /\ paced = TRUE
  /\ minutes = [i \in 0..(Minutes - 1) |-> [minute |-> 0, accepted |-> 0, stale |-> 0]]
  /\ other = <<>> /\ events = <<>>

Passes == /\ clock < MaxTime /\ clock' = clock + 1
          /\ UNCHANGED <<bucketVars, ringVars>>

-----------------------------------------------------------------------------
(* The token bucket. *)

Lower(a, b) == IF a < b THEN a ELSE b

(* Mutant: only whole seconds count towards the refill. *)
Refilled_WholeSeconds ==
  Lower(tokens + ((clock - last_refill) \div Sec) * Sec * Rate, Rate * Sec)

Refilled == Lower(tokens + (clock - last_refill) * Rate, Rate * Sec)

(* try_consume, for one inbound message; a refused one ends the session. *)
try_consume ==
  /\ ~limited /\ Len(passed) < MaxEvents
  /\ last_refill' = clock
  /\ paced' = (paced /\ (passed = <<>> \/ (clock - last_refill) * Rate >= Sec))
  /\ IF Refilled >= Sec
       THEN /\ tokens' = Refilled - Sec
            /\ passed' = Append(passed, clock)
            /\ UNCHANGED limited
       ELSE /\ tokens' = Refilled
            /\ limited' = TRUE
            /\ UNCHANGED passed
  /\ UNCHANGED <<clock, ringVars>>

-----------------------------------------------------------------------------
(* The reject window. *)

MinuteOf(t) == t \div Minute
Slot(t) == MinuteOf(t) % Minutes
Fresh(t) == [minute |-> MinuteOf(t), accepted |-> 0, stale |-> 0]

(* bucket: the slot of the minute, cleared if it is another minute's. *)
bucket(ring, t) ==
  IF ring[Slot(t)].minute = MinuteOf(t) THEN ring[Slot(t)] ELSE Fresh(t)

Cutoff(t) == IF t < Minutes * Minute THEN 0 ELSE t - Minutes * Minute

(* prune: the front of the queue, up to the cutoff, which is strict. *)
prune(q, t) == SelectSeq(q, LAMBDA ts : ts > Cutoff(t))

Recorded(kind) ==
  /\ Len(events) < MaxEvents
  /\ events' = Append(events, <<clock, kind>>)
  /\ UNCHANGED <<clock, bucketVars>>

record_accepted ==
  /\ Recorded("accepted")
  /\ LET b == bucket(minutes, clock) IN
       minutes' = [minutes EXCEPT ![Slot(clock)] = [b EXCEPT !.accepted = @ + 1]]
  /\ UNCHANGED other

record_stale ==
  /\ Recorded("stale")
  /\ LET b == bucket(minutes, clock) IN
       minutes' = [minutes EXCEPT ![Slot(clock)] = [b EXCEPT !.stale = @ + 1]]
  /\ UNCHANGED other

record_other ==
  /\ Recorded("other")
  /\ LET kept == prune(other, clock) IN
       other' = Append(IF Len(kept) = OtherCap THEN Tail(kept) ELSE kept, clock)
  /\ UNCHANGED minutes

InWindow(m, t) == m + Minutes > MinuteOf(t) /\ m <= MinuteOf(t)

(* summary: what the page shows of a worker's last hour. *)
Total(field) ==
  LET sum[i \in 0..Minutes] ==
        IF i = 0 THEN 0
        ELSE sum[i - 1] + (IF InWindow(minutes[i - 1].minute, clock)
                             THEN minutes[i - 1][field] ELSE 0)
  IN sum[Minutes]

summary == [accepted |-> Total("accepted"), stale |-> Total("stale"),
            other |-> Len(SelectSeq(other, LAMBDA ts : ts > Cutoff(clock)))]

-----------------------------------------------------------------------------
BucketNext == Passes \/ try_consume
RingNext == Passes \/ record_accepted \/ record_stale \/ record_other

-----------------------------------------------------------------------------
(* Properties. *)

MetersTypeOK ==
  /\ clock \in 0..MaxTime
  /\ tokens \in 0..(Rate * Sec) /\ last_refill \in 0..MaxTime
  /\ Len(other) <= OtherCap
  /\ \A i \in 0..(Minutes - 1) : minutes[i].minute % Minutes \in {0, i}

(* However messages are spread, a session gets no more through in any span  *)
(* of time than one burst and the rate over the span.                       *)
RateBounded ==
  \A i, k \in DOMAIN passed :
    i <= k => (k - i + 1) * Sec <= (Rate * Sec) + (passed[k] - passed[i]) * Rate

(* A miner that keeps to the rate is never limited, from the first message  *)
(* on, whatever fractions of a token its gaps leave behind.                 *)
PacedNeverLimited == paced => ~limited

Happened(kind, P(_)) ==
  Cardinality({i \in DOMAIN events : events[i][2] = kind /\ P(events[i][1])})

(* The ring says what happened: accepted and stale shares of the last       *)
(* Minutes whole minutes, and the other rejects of the same span up to the  *)
(* cap, whatever slots were reused or left untouched for a whole window.    *)
WindowExact ==
  LET recent(t) == MinuteOf(t) + Minutes > MinuteOf(clock)
      late(t) == t > Cutoff(clock) IN
    /\ summary.accepted = Happened("accepted", recent)
    /\ summary.stale = Happened("stale", recent)
    /\ clock >= Minutes * Minute =>
         summary.other = Lower(OtherCap, Happened("other", late))
=============================================================================
