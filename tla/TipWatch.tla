------------------------------ MODULE TipWatch ------------------------------
(***************************************************************************)
(* How the pool learns of a new tip (src/src/bitcoin/zmq.rs): the ZMQ      *)
(* listener, which may be down or slow, and the RPC poll, which signals    *)
(* every tip it has not seen and judges from whole-second stamps whether   *)
(* the subscription is delivering.  A stamp is kept as the number of whole *)
(* seconds it lies back; a tick is a fraction of a second.                 *)
(***************************************************************************)
EXTENDS Naturals, Sequences

CONSTANTS
  Second,       \* ticks in a second
  PollTicks,    \* poll_interval_ms, in ticks
  Grace,        \* ZMQ_GRACE_SECS
  MaxTips,      \* bound: tip changes
  MaxFailures,  \* bound: polls that fail
  Unset         \* no hash, no stamp

ASSUME WatchAssumption == /\ Second \in Nat \ {0} /\ PollTicks \in Nat \ {0}
                          /\ Grace \in Nat

VARIABLES
  phase,        \* ticks into the second
  tip,          \* the node's best block, the n-th it has had
  announced,    \* ages in ticks of the announcements on their way
  subscribed,   \* the listener is connected
  last_seen,    \* seconds since zmq_last_seen, as far as they matter
  last_hash, awaiting_zmq,   \* the poll's; the stamp as seconds back, or Unset
  poll,         \* "wake", "call" (sent), "answer" (on its way), "sleep"
  wait,         \* ticks the poll has been in its call or has left to sleep
  answer,       \* the hash on its way
  flagged, known,            \* the watch channel; the tip the engine has
  failures,     \* polls that failed
  lossy,        \* history: an announcement was lost, or late by Grace
  slow,         \* history: a call took over half a second, or failed
  watching,     \* history: ticks since awaiting_zmq was set
  alarm         \* history: the warning was logged

zmqVars == <<announced, subscribed, last_seen>>
pollVars == <<last_hash, awaiting_zmq, poll, wait, answer>>
tipVars == <<phase, tip, zmqVars, pollVars, flagged, known, failures,
             lossy, slow, watching, alarm>>

(* Mutant: poll_slack_secs without the second for the boundary. *)
poll_slack_Interval == (PollTicks + Second - 1) \div Second

poll_slack == (PollTicks + Second - 1) \div Second + 1
WatchLimit == (Grace + 2) * Second + PollTicks
Far(a) == a + poll_slack + 1       \* from here on a verdict on a is the same
Lesser(a, b) == IF a < b THEN a ELSE b

TipInit ==
  /\ phase = 0 /\ tip = 0
  /\ announced = <<>> /\ subscribed = TRUE /\ last_seen = Far(0)
  /\ last_hash = Unset /\ awaiting_zmq = Unset
  /\ poll = "wake" /\ wait = 0 /\ answer = Unset
  /\ flagged = FALSE /\ known = tip /\ failures = 0
  /\ lossy = FALSE /\ slow = FALSE /\ watching = 0 /\ alarm = FALSE

-----------------------------------------------------------------------------
(* The node and the clock. *)

(* A block hash the pool has not seen before. *)
NewTip ==
  /\ tip < MaxTips /\ tip' = tip + 1
  /\ IF subscribed THEN announced' = Append(announced, 0) /\ UNCHANGED lossy
     ELSE UNCHANGED announced /\ lossy' = TRUE
  /\ UNCHANGED <<phase, subscribed, last_seen, pollVars, flagged, known,
                 failures, slow, watching, alarm>>

(* A tick; a poll that is due runs first. *)
TipTick ==
  /\ poll # "wake" /\ (poll = "sleep" => wait > 0)
  /\ phase' = (phase + 1) % Second
  /\ LET s == IF phase' = 0 /\ awaiting_zmq # Grace + 3 THEN 1 ELSE 0
         a == IF awaiting_zmq = Unset THEN 0 ELSE awaiting_zmq + s IN
       /\ last_seen' = Lesser(last_seen + s, Far(a))
       /\ awaiting_zmq' = IF awaiting_zmq = Unset THEN Unset ELSE a
  /\ announced' = [i \in DOMAIN announced |-> Lesser(announced[i] + 1, Grace * Second + 1)]
  /\ lossy' = (lossy \/ \E i \in DOMAIN announced : announced[i] >= Grace * Second)
  /\ wait' = IF poll = "sleep" THEN wait - 1 ELSE Lesser(wait + 1, Second \div 2)
  /\ slow' = (slow \/ (poll # "sleep" /\ wait >= Second \div 2))
  /\ watching' = IF awaiting_zmq = Unset THEN 0 ELSE Lesser(watching + 1, WatchLimit + 1)
  /\ UNCHANGED <<tip, subscribed, last_hash, poll, answer, flagged, known,
                 failures, alarm>>

-----------------------------------------------------------------------------
(* run_zmq_listener, and the loop of start that reconnects it. *)

Deliver ==
  /\ subscribed /\ announced # <<>>
  /\ announced' = Tail(announced)
  /\ last_seen' = 0 /\ flagged' = TRUE
  /\ UNCHANGED <<phase, tip, subscribed, pollVars, known, failures, lossy,
                 slow, watching, alarm>>

ListenerFails ==
  /\ subscribed /\ subscribed' = FALSE
  /\ announced' = <<>> /\ lossy' = TRUE
  /\ UNCHANGED <<phase, tip, last_seen, pollVars, flagged, known, failures,
                 slow, watching, alarm>>

Reconnect ==
  /\ ~subscribed /\ subscribed' = TRUE
  /\ UNCHANGED <<phase, tip, announced, last_seen, pollVars, flagged, known,
                 failures, lossy, slow, watching, alarm>>

-----------------------------------------------------------------------------
(* run_poll_fallback. *)

zmq_verdict(observed) ==
  IF last_seen <= observed + poll_slack THEN "Delivered"
  ELSE IF observed > Grace THEN "Silent" ELSE "Pending"

(* The top of the loop: the verdict, then the call. *)
PollWakes ==
  /\ poll = "wake" /\ poll' = "call" /\ wait' = 0
  /\ LET v == IF awaiting_zmq = Unset THEN "Pending" ELSE zmq_verdict(awaiting_zmq) IN
       /\ awaiting_zmq' = IF v = "Pending" THEN awaiting_zmq ELSE Unset
       /\ alarm' = (alarm \/ v = "Silent")
       /\ watching' = IF v = "Pending" THEN watching ELSE 0
  /\ UNCHANGED <<phase, tip, zmqVars, last_hash, answer, flagged, known,
                 failures, lossy, slow>>

NodeAnswers ==
  /\ poll = "call" /\ poll' = "answer" /\ answer' = tip
  /\ UNCHANGED <<phase, tip, zmqVars, last_hash, awaiting_zmq, wait, flagged,
                 known, failures, lossy, slow, watching, alarm>>

(* The first hash is not a change; a change already awaited keeps its stamp.*)
PollAnswered ==
  /\ poll = "answer" /\ poll' = "sleep" /\ wait' = PollTicks
  /\ LET moved == answer # last_hash IN
       /\ awaiting_zmq' = IF moved /\ last_hash # Unset /\ awaiting_zmq = Unset
                            THEN 0 ELSE awaiting_zmq
       /\ flagged' = (flagged \/ moved)
  /\ last_hash' = answer
  /\ answer' = Unset
  /\ UNCHANGED <<phase, tip, zmqVars, known, failures, lossy, slow, watching,
                 alarm>>

PollFails ==
  /\ poll \in {"call", "answer"} /\ failures < MaxFailures
  /\ poll' = "sleep" /\ wait' = PollTicks /\ answer' = Unset
  /\ failures' = failures + 1 /\ slow' = TRUE
  /\ UNCHANGED <<phase, tip, zmqVars, last_hash, awaiting_zmq, flagged, known,
                 lossy, watching, alarm>>

PollDue ==
  /\ poll = "sleep" /\ wait = 0 /\ poll' = "wake"
  /\ UNCHANGED <<phase, tip, zmqVars, last_hash, awaiting_zmq, wait, answer,
                 flagged, known, failures, lossy, slow, watching, alarm>>

(* The engine is woken and fetches the tip of the moment. *)
EngineWakes ==
  /\ flagged /\ flagged' = FALSE /\ known' = tip
  /\ UNCHANGED <<phase, tip, zmqVars, pollVars, failures, lossy, slow,
                 watching, alarm>>

-----------------------------------------------------------------------------
TipNext ==
  \/ NewTip
  \/ TipTick \/ Deliver \/ ListenerFails \/ Reconnect
  \/ PollWakes \/ NodeAnswers \/ PollAnswered \/ PollFails \/ PollDue
  \/ EngineWakes

-----------------------------------------------------------------------------
TipTypeOK ==
  /\ phase \in 0..(Second - 1) /\ last_seen \in 0..Far(Grace + 3)
  /\ awaiting_zmq \in 0..(Grace + 3) \cup {Unset}
  /\ {tip, known} \subseteq 0..MaxTips /\ last_hash \in 0..MaxTips \cup {Unset}
  /\ poll \in {"wake", "call", "answer", "sleep"}
  /\ wait \in 0..(PollTicks + Second + 1)

(* The warning that ZMQ never delivered is not raised on a healthy          *)
(* subscription, whichever of the two saw the block first and wherever the  *)
(* second boundaries fall: as long as announcements arrive within the grace *)
(* and no call takes over half a second (the slack covers the interval, not *)
(* the two calls around it).                                                *)
NoFalseAlarm == alarm => lossy \/ slow

(* A change the poll saw is settled in bounded time: a subscription that    *)
(* never speaks is not excused because tips keep changing.                  *)
SilenceSettled == ~slow => watching <= WatchLimit

(* Once the tip stops changing the engine gets to it, also if ZMQ never     *)
(* delivers anything and the listener keeps failing.                        *)
EngineFollows == <>[](known = tip)
=============================================================================
