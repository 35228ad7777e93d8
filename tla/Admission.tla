----------------------------- MODULE Admission -----------------------------
(***************************************************************************)
(* Connection admission (src/src/network/server.rs with the ban list and   *)
(* the rate limiter of src/src/security/mod.rs) and the part of a session, *)
(* V1 or V2, that decides how long a connection is kept: the protocol      *)
(* detection, the Noise handshake and the two deadlines of the session     *)
(* loop.                                                                   *)
(*                                                                         *)
(* The accept loop is one task; every admitted connection has a task of    *)
(* its own, and the pruner is another.  An instant is modelled by the time *)
(* left until it, or by the time passed since it, so that behaviours need  *)
(* no bound on the clock; Tick does not pass a timer that is due.          *)
(***************************************************************************)
EXTENDS Naturals, FiniteSets, Functions

CONSTANTS
  Conns,           \* session tasks
  Ips,             \* peer addresses
  NoPeer,          \* the task has no connection
  MaxConnections,  \* pool.max_connections
  MaxPerMinute,    \* security.max_connections_per_ip
  MaxTracked,      \* MAX_TRACKED_IPS
  Handshake,       \* HANDSHAKE_TIMEOUT_SECS
  Idle,            \* pool.idle_timeout_secs
  Minute,          \* the sliding window of the limiter
  BanTime,         \* security.ban_duration_secs
  MaxPanics        \* bound: session tasks that panic

ASSUME ConnsAssumption == IsFiniteSet(Conns)
ASSUME LimitAssumption ==
  {MaxConnections, MaxTracked, Handshake, Idle, Minute, BanTime} \subseteq Nat \ {0}
ASSUME BoundAssumption == MaxPerMinute \in Nat /\ MaxPanics \in Nat
ASSUME NoPeerAssumption == NoPeer \notin Ips

VARIABLES
  active,     \* active_count: the reserved slots
  connected,  \* PoolStats.connected_miners
  panics,     \* history: tasks that panicked inside the session loop
  phase,      \* per task: "free", "reserved", "detect", "noise", "open", "auth"
  peer,       \* per task: the address of its connection
  kind,       \* per task: "sv1" or "sv2", once detected
  held,       \* history: time since the connection was accepted
  silent,     \* time since last_inbound
  preauth,    \* time left to preauth_deadline
  timer,      \* time left on the timer the task is waiting with
  banner,     \* per task: "no", "insert" (ban has made room), "done"
  listed,     \* the keys of BanList.entries
  bans,       \* time left of each entry, 0 if expired
  tracked,    \* the keys of ConnectionRateLimiter.windows
  windows,    \* per address and age: the admissions its window holds
  lastBan,    \* history: time left of the latest ban of each address
  admits      \* history: per address and age, the admissions there were

slotVars == <<active, connected, panics>>
connVars == <<phase, peer, kind, held, silent, preauth, timer>>
banVars == <<banner, listed, bans, lastBan>>
rateVars == <<tracked, windows, admits>>
vars == <<slotVars, connVars, banVars, rateVars>>

Ages == 0..(Minute - 1)
Phases == {"free", "reserved", "detect", "noise", "open", "auth"}
InLoop(c) == phase[c] \in {"open", "auth"}
Waiting(c) == phase[c] \notin {"free", "reserved"}
NoAdmits == [a \in Ages |-> 0]

Init ==
  /\ active = 0
  /\ connected = 0
  /\ panics = 0
  /\ phase = [c \in Conns |-> "free"]
  /\ peer = [c \in Conns |-> NoPeer]
  /\ kind = [c \in Conns |-> "sv1"]
  /\ held = [c \in Conns |-> 0]
  /\ silent = [c \in Conns |-> 0]
  /\ preauth = [c \in Conns |-> 0]
  /\ timer = [c \in Conns |-> 0]
  /\ banner = [c \in Conns |-> "no"]
  /\ listed = {}
  /\ bans = [i \in Ips |-> 0]
  /\ lastBan = [i \in Ips |-> 0]
  /\ tracked = {}
  /\ windows = [i \in Ips |-> NoAdmits]
  /\ admits = [i \in Ips |-> NoAdmits]

-----------------------------------------------------------------------------
(* BanList. *)

is_banned(i) == i \in listed /\ bans[i] > 0

(* An is_banned that answers no removes the expired entry. *)
Forget(i) == listed' = listed \ {i}

(* prune: what it keeps. *)
LiveBans == {i \in listed : bans[i] > 0}

Closest(S) == {i \in S : \A j \in S : bans[i] <= bans[j]}


(* The first half of ban: room for one more address, from the expired bans  *)
(* or from one of those closest to expiry.                                  *)
MakeRoom(i) ==
  IF Cardinality(listed) < MaxTracked \/ i \in listed THEN {listed}
  ELSE IF Cardinality(LiveBans) < MaxTracked THEN {LiveBans}
  ELSE {LiveBans \ {v} : v \in Closest(LiveBans)}

-----------------------------------------------------------------------------
(* ConnectionRateLimiter.  An admission older than the window is dropped    *)
(* when it leaves it: nothing reads it any more.                            *)

Count(w) == FoldFunction(+, 0, w)

(* prune: what it keeps. *)
FreshWindows == {i \in tracked : Count(windows[i]) > 0}

(* Mutant: an address is added to a map that is full. *)
check_and_record_OffByOne(i, ok) ==
  LET full == Cardinality(tracked) > MaxTracked /\ i \notin tracked
      kept == IF full THEN FreshWindows ELSE tracked IN
  IF full /\ Cardinality(kept) >= MaxTracked
    THEN ~ok /\ tracked' = kept /\ UNCHANGED windows
    ELSE /\ ok = (Count(windows[i]) < MaxPerMinute)
         /\ tracked' = kept \cup {i}
         /\ windows' = IF ok THEN [windows EXCEPT ![i][0] = @ + 1] ELSE windows

(* Room for a new address, or refusal; then the window of this address. *)
check_and_record(i, ok) ==
  LET full == Cardinality(tracked) >= MaxTracked /\ i \notin tracked
      kept == IF full THEN FreshWindows ELSE tracked IN
  IF full /\ Cardinality(kept) >= MaxTracked
    THEN ~ok /\ tracked' = kept /\ UNCHANGED windows
    ELSE /\ ok = (Count(windows[i]) < MaxPerMinute)
         /\ tracked' = kept \cup {i}
         /\ windows' = IF ok THEN [windows EXCEPT ![i][0] = @ + 1] ELSE windows

-----------------------------------------------------------------------------
(* The accept loop. *)

(* A connection from i is accepted and a slot reserved; at the limit it is  *)
(* dropped instead, which changes nothing.                                  *)
Reserve(c, i) ==
  /\ phase[c] = "free" /\ banner[c] = "no"
  /\ \A d \in Conns : phase[d] # "reserved"
  /\ active < MaxConnections
  /\ active' = active + 1
  /\ phase' = [phase EXCEPT ![c] = "reserved"]
  /\ peer' = [peer EXCEPT ![c] = i]
  /\ UNCHANGED <<connected, panics, kind, held, silent, preauth, timer, banVars,
                 rateVars>>

(* The slot is given back and the task's locals are gone; a ban its reader  *)
(* is in the middle of still needs the address.                             *)
Release(c) ==
  /\ active' = active - 1
  /\ phase' = [phase EXCEPT ![c] = "free"]
  /\ peer' = [peer EXCEPT ![c] = IF banner[c] = "insert" THEN @ ELSE NoPeer]
  /\ kind' = [kind EXCEPT ![c] = "sv1"]
  /\ held' = [held EXCEPT ![c] = 0]
  /\ silent' = [silent EXCEPT ![c] = 0]
  /\ preauth' = [preauth EXCEPT ![c] = 0]
  /\ timer' = [timer EXCEPT ![c] = 0]

RefuseBanned(c) ==
  /\ phase[c] = "reserved"
  /\ is_banned(peer[c])
  /\ Release(c)
  /\ UNCHANGED <<connected, panics, banVars, rateVars>>

(* Mutant: the slot of a connection refused by the limiter is kept. *)
RefuseRate_Leak(c) ==
  /\ phase[c] = "reserved"
  /\ ~is_banned(peer[c])
  /\ Forget(peer[c])
  /\ check_and_record(peer[c], FALSE)
  /\ phase' = [phase EXCEPT ![c] = "free"]
  /\ peer' = [peer EXCEPT ![c] = NoPeer]
  /\ UNCHANGED <<slotVars, kind, held, silent, preauth, timer, banner, bans,
                 lastBan, admits>>

RefuseRate(c) ==
  /\ phase[c] = "reserved"
  /\ ~is_banned(peer[c])
  /\ Forget(peer[c])
  /\ check_and_record(peer[c], FALSE)
  /\ Release(c)
  /\ UNCHANGED <<connected, panics, banner, bans, lastBan, admits>>

(* Admitted: the task is spawned and waits for the first byte. *)
Spawn(c) ==
  /\ phase[c] = "reserved"
  /\ ~is_banned(peer[c])
  /\ Forget(peer[c])
  /\ check_and_record(peer[c], TRUE)
  /\ admits' = [admits EXCEPT ![peer[c]][0] = @ + 1]
  /\ phase' = [phase EXCEPT ![c] = "detect"]
  /\ timer' = [timer EXCEPT ![c] = Handshake]
  /\ UNCHANGED <<slotVars, peer, kind, held, silent, preauth, banner, bans,
                 lastBan>>

-----------------------------------------------------------------------------
(* The task, up to the session loop. *)

(* What precedes the loop. *)
EnterLoop(c) ==
  /\ phase' = [phase EXCEPT ![c] = "open"]
  /\ connected' = connected + 1
  /\ silent' = [silent EXCEPT ![c] = 0]
  /\ preauth' = [preauth EXCEPT ![c] = Handshake]
  /\ timer' = [timer EXCEPT ![c] = Handshake]

(* The first byte is an opening brace: session::run. *)
DetectSv1(c) ==
  /\ phase[c] = "detect"
  /\ ~is_banned(peer[c])
  /\ Forget(peer[c])
  /\ kind' = [kind EXCEPT ![c] = "sv1"]
  /\ EnterLoop(c)
  /\ UNCHANGED <<active, panics, peer, held, banner, bans, lastBan, rateVars>>

(* Anything else: sv2::run, which starts with the Noise handshake. *)
DetectSv2(c) ==
  /\ phase[c] = "detect"
  /\ ~is_banned(peer[c])
  /\ Forget(peer[c])
  /\ kind' = [kind EXCEPT ![c] = "sv2"]
  /\ phase' = [phase EXCEPT ![c] = "noise"]
  /\ timer' = [timer EXCEPT ![c] = Handshake]
  /\ UNCHANGED <<slotVars, peer, held, silent, preauth, banner, bans, lastBan,
                 rateVars>>

NoiseDone(c) ==
  /\ phase[c] = "noise"
  /\ EnterLoop(c)
  /\ UNCHANGED <<active, panics, peer, kind, held, banVars, rateVars>>

(* The task returns before the loop: banned since it was accepted, no byte  *)
(* in time, closed, a failed handshake, V2 disabled.                        *)
Abandon(c) ==
  /\ phase[c] \in {"detect", "noise"}
  /\ Release(c)
  /\ UNCHANGED <<connected, panics, banVars, rateVars>>

-----------------------------------------------------------------------------
(* The session loop. *)

(* A V1 task bans from the loop itself and then leaves it; the V2 reader    *)
(* bans from a task of its own while the loop drains what was read before.  *)
Reading(c) == InLoop(c) /\ (banner[c] = "no" \/ kind[c] = "sv2")

(* Mutant: the pre-authorization deadline moves with every message. *)
NextTimer_Activity(authorized, quiet, absolute) ==
  IF authorized THEN Idle - quiet ELSE Handshake - quiet

(* The top of the loop: idle time from the last message, or the absolute    *)
(* deadline.                                                                *)
NextTimer(authorized, quiet, absolute) ==
  IF authorized THEN Idle - quiet ELSE absolute

(* A message is handled and the loop goes round: before authorization it    *)
(* may be the one that authorizes (or opens the channel).                   *)
Inbound(c, p) ==
  /\ Reading(c)
  /\ p = "auth" \/ p = phase[c]
  /\ phase' = [phase EXCEPT ![c] = p]
  /\ silent' = [silent EXCEPT ![c] = 0]
  /\ timer' = [timer EXCEPT ![c] = NextTimer(p = "auth", 0, preauth[c])]
  /\ UNCHANGED <<slotVars, peer, kind, held, preauth, banVars, rateVars>>

(* A job broadcast or a retarget completes the select: the timer is made    *)
(* anew, from the last message.                                             *)
OtherArm(c) ==
  /\ Reading(c)
  /\ timer' = [timer EXCEPT ![c] =
                 NextTimer(phase[c] = "auth", silent[c], preauth[c])]
  /\ UNCHANGED <<slotVars, phase, peer, kind, held, silent, preauth, banVars,
                 rateVars>>

(* The loop ends: a due timer, the end of the stream, a failed write, a     *)
(* handler that disconnects, a ban.                                         *)
Leave(c) ==
  /\ InLoop(c) /\ (kind[c] = "sv2" \/ banner[c] # "insert")
  /\ Release(c)
  /\ connected' = connected - 1
  /\ banner' = [banner EXCEPT ![c] = IF @ = "insert" THEN @ ELSE "no"]
  /\ UNCHANGED <<panics, listed, bans, lastBan, rateVars>>

(* The task unwinds: the slot's guard is dropped, nothing else runs. *)
Panic(c) ==
  /\ Reading(c)
  /\ panics < MaxPanics
  /\ panics' = panics + 1
  /\ Release(c)
  /\ banner' = [banner EXCEPT ![c] = IF @ = "insert" THEN @ ELSE "no"]
  /\ UNCHANGED <<connected, listed, bans, lastBan, rateVars>>

(* A message over the limit: ban, which first makes room. *)
Oversize(c) ==
  /\ InLoop(c) /\ banner[c] = "no"
  /\ listed' \in MakeRoom(peer[c])
  /\ banner' = [banner EXCEPT ![c] = "insert"]
  /\ UNCHANGED <<slotVars, connVars, bans, lastBan, rateVars>>

(* The second half of ban. *)
InsertBan(c) ==
  /\ banner[c] = "insert"
  /\ listed' = listed \cup {peer[c]}
  /\ bans' = [bans EXCEPT ![peer[c]] = BanTime]
  /\ lastBan' = [lastBan EXCEPT ![peer[c]] = BanTime]
  /\ banner' = [banner EXCEPT ![c] = IF InLoop(c) THEN "done" ELSE "no"]
  /\ peer' = [peer EXCEPT ![c] = IF InLoop(c) THEN @ ELSE NoPeer]
  /\ UNCHANGED <<slotVars, phase, kind, held, silent, preauth, timer, rateVars>>

-----------------------------------------------------------------------------
(* The pruner, every five minutes. *)
Prune ==
  /\ listed' = LiveBans
  /\ tracked' = FreshWindows
  /\ UNCHANGED <<slotVars, connVars, banner, bans, lastBan, windows, admits>>

Less(n) == IF n = 0 THEN 0 ELSE n - 1
Older(w) == [a \in Ages |-> IF a = 0 THEN 0 ELSE w[a - 1]]

(* Time does not pass a due timer, nor a step that waits for nothing. *)
Tick ==
  /\ \A c \in Conns : /\ phase[c] # "reserved"
                      /\ Waiting(c) => timer[c] > 0
                      /\ banner[c] = "no"
  /\ held' = [c \in Conns |-> IF Waiting(c) /\ phase[c] # "auth" THEN held[c] + 1 ELSE 0]
  /\ silent' = [c \in Conns |-> IF InLoop(c) THEN silent[c] + 1 ELSE 0]
  /\ preauth' = [c \in Conns |-> Less(preauth[c])]
  /\ timer' = [c \in Conns |-> Less(timer[c])]
  /\ bans' = [i \in Ips |-> Less(bans[i])]
  /\ lastBan' = [i \in Ips |-> Less(lastBan[i])]
  /\ windows' = [i \in Ips |-> Older(windows[i])]
  /\ admits' = [i \in Ips |-> Older(admits[i])]
  /\ UNCHANGED <<slotVars, phase, peer, kind, banner, listed, tracked>>

Next ==
  \/ Tick
  \/ Prune
  \/ \E c \in Conns :
       \/ \E i \in Ips : Reserve(c, i)
       \/ RefuseBanned(c) \/ RefuseRate(c) \/ Spawn(c)
       \/ DetectSv1(c) \/ DetectSv2(c) \/ NoiseDone(c) \/ Abandon(c)
       \/ \E p \in {"open", "auth"} : Inbound(c, p)
       \/ OtherArm(c) \/ Oversize(c) \/ InsertBan(c)
       \/ Leave(c) \/ Panic(c)

Spec == Init /\ [][Next]_vars

-----------------------------------------------------------------------------
(* Properties. *)

AdmissionTypeOK ==
  /\ active \in Nat /\ connected \in Nat /\ panics \in 0..MaxPanics
  /\ phase \in [Conns -> Phases]
  /\ peer \in [Conns -> Ips \cup {NoPeer}]
  /\ kind \in [Conns -> {"sv1", "sv2"}]
  /\ held \in [Conns -> Nat]
  /\ silent \in [Conns -> 0..(Idle + Handshake)]
  /\ preauth \in [Conns -> 0..Handshake]
  /\ timer \in [Conns -> 0..(Idle + Handshake)]
  /\ banner \in [Conns -> {"no", "insert", "done"}]
  /\ listed \subseteq Ips
  /\ bans \in [Ips -> 0..BanTime] /\ lastBan \in [Ips -> 0..BanTime]
  /\ tracked \subseteq Ips /\ Cardinality(tracked) <= MaxTracked
  /\ windows \in [Ips -> [Ages -> Nat]] /\ admits \in [Ips -> [Ages -> Nat]]

Holders == {c \in Conns : phase[c] # "free"}
Sessions == {c \in Conns : InLoop(c)}

(* No slot leaks and none is given back twice: the counter is the number of *)
(* connections that hold one, on every way out of the accept loop and of a  *)
(* task, a panic included.                                                  *)
SlotsExact == active = Cardinality(Holders)

(* The miner count shown is the number of sessions, plus the sessions that  *)
(* ended in a panic: those are never taken off.                             *)
ConnectedExact == connected = Cardinality(Sessions) + panics

(* Both counts, which only the tasks themselves take down.                  *)
CountsExact == SlotsExact /\ ConnectedExact

(* A connection that does not authorize cannot hold a slot for longer than  *)
(* two handshake times on V1 and three on V2, whatever it sends and however *)
(* often jobs arrive.                                                       *)
UnauthorizedIsBrief ==
  \A c \in Conns :
    held[c] <= (IF kind[c] = "sv2" THEN 3 ELSE 2) * Handshake

(* An authorized session that has been silent for the idle time is gone,    *)
(* however often jobs and retargets woke it.                                *)
SilentIsDropped ==
  \A c \in Conns : phase[c] = "auth" => silent[c] <= Idle

(* Neither kind of connection outstays its deadline.                        *)
DroppedInTime == UnauthorizedIsBrief /\ SilentIsDropped

(* A banned address starts no session before its ban ends, unless the list  *)
(* was full of bans that end no earlier: expiry, pruning and eviction never *)
(* shorten a ban otherwise.                                                 *)
BannedStaysOut ==
  \A c \in Conns :
    (phase[c] = "detect" /\ phase'[c] \in {"open", "noise"}) =>
      \/ lastBan[peer[c]] = 0
      \/ \E d \in Conns : banner[d] = "insert"
      \/ Cardinality({i \in listed \ {peer[c]} : bans[i] >= lastBan[peer[c]]})
           >= MaxTracked

(* No address is admitted more often in a minute than the limit allows,     *)
(* however prunes, refusals and other addresses come in between.            *)
RateHeld ==
  \A c \in Conns :
    (phase[c] = "reserved" /\ phase'[c] = "detect") =>
      Count(admits'[peer[c]]) <= MaxPerMinute


=============================================================================
