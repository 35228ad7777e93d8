------------------------------ MODULE Vardiff ------------------------------
(***************************************************************************)
(* The difficulty of one session (src/src/mining/vardiff.rs) over time:    *)
(* what shares are credited with, when the difficulty is judged, and where *)
(* a retarget moves it.  Instants are ages counted in ticks.  The code's   *)
(* floating-point ratio is compared by cross multiplication, so the model  *)
(* is exact where the code rounds only its result.                         *)
(***************************************************************************)
EXTENDS Naturals, Sequences, FiniteSetsExt

CONSTANTS
  MinDiff, MaxDiff,  \* min_difficulty, max_difficulty
  Start,             \* initial_difficulty
  ShareTime,         \* target_share_time_secs
  Interval,          \* retarget_interval_secs
  WindowShares,      \* RETARGET_WINDOW_SHARES
  Factor,            \* max_retarget_factor
  Retention,         \* SHARE_RETENTION
  MaxShares,         \* bound: shares on record at once
  MaxGap             \* bound: ticks between two sessions of the worker

(* validate_vardiff, and a start inside the range. *)
ASSUME RangeAssumption == /\ MinDiff \in Nat \ {0} /\ MaxDiff \in Nat
                          /\ Start \in MinDiff..MaxDiff
ASSUME ClockAssumption == /\ ShareTime \in Nat \ {0} /\ Interval \in Nat \ {0}
                          /\ WindowShares \in Nat \ {0} /\ Factor \in Nat \ {0}
                          /\ Retention \in Nat /\ MaxShares \in Nat

VARIABLES
  share_times,      \* <<age, credited difficulty>>, oldest first
  age,              \* ticks since started_at, up to Retention
  since,            \* ticks since last_retarget
  current, previous,
  suggest_applied,
  quiet,            \* the miner has stopped for good
  unjudged          \* history: ticks since the session began or was judged

diffVars == <<current, previous>>
vardiffVars == <<share_times, age, since, diffVars, suggest_applied, quiet,
                 unjudged>>

-----------------------------------------------------------------------------
(* Helpers. *)

Lookback == Max({WindowShares * ShareTime, Interval})

(* Rounded to the nearest, halves up: of a / b, and of its square root. *)
RoundDiv(a, b) == (2 * a + b) \div (2 * b)
RoundSqrt(a, b) ==
  CHOOSE k \in 0..(2 * MaxDiff) : (k = 0 \/ (2*k - 1) * (2*k - 1) * b <= 4*a)
                                  /\ (2*k + 1) * (2*k + 1) * b > 4*a


Clamp(x, lo, hi) == IF x < lo THEN lo ELSE IF x > hi THEN hi ELSE x

(* work_in_window: credited work in the lookback, and the period observed. *)
work ==
  LET upTo[i \in 0..Len(share_times)] ==
        IF i = 0 THEN 0
        ELSE upTo[i - 1]
               + (IF share_times[i][1] <= Lookback THEN share_times[i][2] ELSE 0)
  IN upTo[Len(share_times)]
observed == Min({age, Lookback})

(* Silence counts as one share at the very end of the window. *)
proven == IF work = 0 THEN current ELSE work

(* ideal / current, as a fraction. *)
num == proven * ShareTime
den == observed * current

InBand == 3 * num >= 2 * den /\ 2 * num <= 3 * den
HalfStep == 3 * num >= den /\ num <= 3 * den


(* The step: the root of the ratio near the band, the whole ratio further   *)
(* out, no more than Factor either way.                                     *)
Stepped ==
  LET step == IF HalfStep THEN RoundSqrt(current * num, observed)
              ELSE RoundDiv(num, observed) IN
    Clamp(step, RoundDiv(current, Factor), current * Factor)

set_current(d) ==
  IF d = current THEN UNCHANGED diffVars
  ELSE previous' = current /\ current' = d

credit_for(h) == IF h >= current THEN current
                 ELSE IF h >= previous THEN previous ELSE MinDiff

Aged(q, n) == [i \in DOMAIN q |-> <<q[i][1] + n, q[i][2]>>]
Retained(q) == SelectSeq(q, LAMBDA s : s[1] <= Retention)

-----------------------------------------------------------------------------
VardiffInit ==
  /\ share_times = <<>> /\ age = 0 /\ since = 0
  /\ current = Start /\ previous = Start /\ suggest_applied = FALSE
  /\ quiet = FALSE /\ unjudged = 0

Due == since >= Interval

(* A tick passes; a session that is due is woken first. *)
Tick ==
  /\ ~Due
  /\ share_times' = Retained(Aged(share_times, 1))
  /\ age' = Min({age + 1, Retention})
  /\ since' = since + 1
  /\ unjudged' = unjudged + 1
  /\ UNCHANGED <<diffVars, suggest_applied, quiet>>

(* A valid share whose hash reached h: credit_for, record_share. *)
ShareFound(h) ==
  /\ ~quiet /\ Len(share_times) < MaxShares
  /\ share_times' = Append(Retained(share_times), <<0, credit_for(h)>>)
  /\ UNCHANGED <<age, since, diffVars, suggest_applied, quiet, unjudged>>

(* mining.suggest_difficulty: the first one starts a fresh interval. *)
suggest(d) ==
  /\ ~quiet
  /\ set_current(Clamp(d, MinDiff, MaxDiff))
  /\ since' = IF suggest_applied THEN since ELSE 0
  /\ suggest_applied' = TRUE
  /\ UNCHANGED <<share_times, age, quiet, unjudged>>

check_retarget ==
  /\ Due
  /\ since' = 0 /\ unjudged' = 0
  /\ IF observed = 0 \/ InBand THEN UNCHANGED diffVars
     ELSE set_current(Clamp(Stepped, MinDiff, MaxDiff))
  /\ UNCHANGED <<share_times, age, suggest_applied, quiet>>

(* The worker's next session, n ticks later: a fresh Vardiff adopts the     *)
(* record, handed over in memory with its anchor (take_share_history), or   *)
(* rebuilt from the log with the earliest share as the anchor               *)
(* (from_unix_rows).                                                        *)
NewSession(n, rebuilt) ==
  /\ ~quiet
  /\ share_times' = Retained(Aged(share_times, n))
  /\ age' = IF rebuilt
              THEN IF share_times' = <<>> THEN 0 ELSE share_times'[1][1]
              ELSE Min({age + n, Retention})
  /\ since' = 0 /\ unjudged' = 0
  /\ current' = Start /\ previous' = Start
  /\ suggest_applied' = FALSE
  /\ UNCHANGED quiet

GoQuiet == ~quiet /\ quiet' = TRUE
           /\ UNCHANGED <<share_times, age, since, diffVars, suggest_applied,
                          unjudged>>

VardiffNext ==
  \/ Tick
  \/ check_retarget
  \/ GoQuiet
  \/ \E h \in MinDiff..MaxDiff : ShareFound(h)
  \/ \E d \in (MinDiff - 1)..(MaxDiff + 1) : suggest(d)
  \/ \E n \in 0..MaxGap, r \in BOOLEAN : NewSession(n, r)

-----------------------------------------------------------------------------
(* Properties. *)

VardiffTypeOK ==
  /\ Len(share_times) <= MaxShares
  /\ \A i \in DOMAIN share_times :
       share_times[i] \in (0..Retention) \X (MinDiff..MaxDiff)
  /\ age \in 0..Retention /\ since \in 0..Interval
  /\ {current, previous} \subseteq MinDiff..MaxDiff

(* A share is never credited with more than its hash proved, and one found  *)
(* on the assignment before a retarget is not cut below both assignments.   *)
CreditSound ==
  \A h \in MinDiff..MaxDiff :
    /\ credit_for(h) <= h
    /\ h >= previous => credit_for(h) >= Min({previous, current})

(* A retarget never overshoots: it moves towards the difficulty the work on *)
(* record calls for and stops there at the latest, whatever mix of old      *)
(* assignments, suggestions and handed-over shares the record holds.        *)
NoOvershoot ==
  check_retarget =>
    /\ current' > current => (current' - 1) * observed < num
    /\ current' < current => (current' + 1) * observed > num

(* Suggestions cannot hold the judgement off: a session is judged within    *)
(* two intervals of its start, and every interval after that.               *)
JudgedInTime == unjudged <= 2 * Interval

(* A miner that falls silent is brought down to the floor, where any work   *)
(* it can still do counts.                                                  *)
QuietComesDown == quiet ~> current = MinDiff
=============================================================================
