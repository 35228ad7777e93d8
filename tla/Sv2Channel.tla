---------------------------- MODULE Sv2Channel ----------------------------
(***************************************************************************)
(* A Stratum V2 session (src/src/protocol/sv2/mod.rs) fed by the template  *)
(* engine: setup, channel open and re-open, the map from SV2 job ids to    *)
(* engine jobs, the future-job and SetNewPrevHash pair, and the judging of *)
(* shares.  Composes the run loop of JobEngine with one session and the    *)
(* device at its other end.                                                *)
(*                                                                         *)
(* What the device is sent reaches it in order; what it sends may be any   *)
(* time under way, so every delay is put on the device's side: dev changes *)
(* with the pool's write, and a message waits in wire.  The two writes of  *)
(* a future job are one step, because the device does not switch work      *)
(* before the second, and a failed write ends the session (Disconnect).    *)
(***************************************************************************)
EXTENDS JobEngine, SequencesExt

CONSTANTS
  Names,          \* worker identities
  NoName,         \* no worker identified
  Sizes,          \* min_extranonce_size values a device may ask for
  Total,          \* extranonce1_size + extranonce2_size
  Own,            \* extranonce1_size, the width of the prefix before an open
  MaxIdentities,  \* max_authorizations_per_session
  Cap,            \* JOB_BROADCAST_CAP
  MapCap,         \* 16, the length job_ids is trimmed to
  MaxId,          \* u32::MAX, after which next_job_id starts again at 1
  ShareCap,       \* ShareSet.max_size
  WireCap,        \* bound: messages of the device under way
  MaxJobs,        \* bound: jobs built in a behaviour
  MaxOpens        \* bound: successful opens of one session

ASSUME SizesAssumption == /\ Total \in Nat \ {0} /\ Own \in 0..Total
                          /\ Sizes \subseteq Nat
ASSUME CapsAssumption == /\ Cap \in Nat \ {0} /\ MapCap \in Nat \ {0}
                         /\ ShareCap \in Nat \ {0} /\ MaxId > MapCap
ASSUME NumberedAssumption == JobIds = 1..MaxJobs
ASSUME NoNameAssumption == NoName \notin Names

VARIABLES
  issued,     \* jobs numbered so far: the counter of next_job_id
  phase,      \* "off", "chan" (receiver made, job not read), "loop", "judge"
  setup_done, channel_open, worker,
  opens,      \* identifies extranonce_prefix: each open draws a new one
  size,       \* extranonce_size
  plen,       \* the length of extranonce_prefix
  auths,      \* guard.authorizations
  job_ids,    \* <<SV2 id, engine job id>>, oldest first
  next_id,    \* next_job_id
  pending,    \* pending_job
  rx,         \* the receiver's backlog of broadcasts
  missed,     \* the receiver lost broadcasts and has not been told
  lost,       \* history: the newest job lost on the receiver, 0 if none
  share_set,  \* headers seen, in insertion order
  dev,        \* the device: its channel, its work, the prev-hash it has,
              \* and since which engine job it has it
  wire,       \* messages from the device under way
  share       \* the submission being validated, with the entry find_job gave

linkVars == <<rx, missed, lost>>
chanVars == <<setup_done, channel_open, worker, opens, size, plen, auths>>
mapVars == <<job_ids, next_id, pending>>
sv2Vars == <<phase, chanVars, mapVars, linkVars, share_set, dev, wire, share>>
allVars == <<vars, issued, sv2Vars>>

NoTip == "none"
NoDev == [open |-> FALSE, prefix |-> 0, size |-> 0, id |-> 0, job |-> NoJob,
          prev |-> NoTip, since |-> 0]

Setup == [type |-> "setup"]
Idle == [type |-> "none"]

-----------------------------------------------------------------------------
(* Pure helpers. *)

(* job_ids after the trim. *)
Trim(q) == IF Len(q) > MapCap THEN Tail(q) ELSE q

(* assign_job_id: the mapping is remembered, the counter skips 0. *)
assign_job_id(q, id, job) == Trim(Append(q, <<id, job.id>>))
next_job_id_after(id) == IF id = MaxId THEN 1 ELSE id + 1

(* engine_job_id: the first mapping of the SV2 id, if any. *)
engine_job_id(q, id) ==
  LET at == {i \in DOMAIN q : q[i][1] = id} IN
    IF at = {} THEN 0 ELSE q[CHOOSE i \in at : \A k \in at : i <= k][2]

(* send_job: a future job moves the device to its prev-hash, any other one  *)
(* is mined on the prev-hash the device has.                                *)
Sent(d, id, job, future) ==
  [d EXCEPT !.id = id, !.job = job,
            !.prev = IF future THEN job.tip ELSE @,
            !.since = IF future THEN job.id ELSE @]

-----------------------------------------------------------------------------
ChannelInit ==
  /\ Init
  /\ issued = 0
  /\ phase = "off"
  /\ setup_done = FALSE /\ channel_open = FALSE /\ worker = NoName
  /\ opens = 0 /\ size = Total - Own /\ plen = Own /\ auths = 0
  /\ job_ids = <<>> /\ next_id = 1 /\ pending = NoJob
  /\ rx = <<>> /\ missed = FALSE /\ lost = 0
  /\ share_set = <<>>
  /\ dev = NoDev /\ wire = <<>> /\ share = Idle

(* The session is gone; the next connection starts a new Sv2Session. *)
Reset ==
  /\ phase' = "off"
  /\ setup_done' = FALSE /\ channel_open' = FALSE /\ worker' = NoName
  /\ opens' = 0 /\ size' = Total - Own /\ plen' = Own /\ auths' = 0
  /\ job_ids' = <<>> /\ next_id' = 1 /\ pending' = NoJob
  /\ rx' = <<>> /\ missed' = FALSE /\ lost' = 0
  /\ share_set' = <<>>
  /\ dev' = NoDev /\ wire' = <<>> /\ share' = Idle

-----------------------------------------------------------------------------
(* The engine's side. *)

Listening == phase # "off"

(* The last step of refresh: the receiver gets the job; a full backlog      *)
(* loses its oldest.                                                        *)
Send ==
  /\ Broadcast(Run)
  /\ LET full == Listening /\ Len(rx) >= Cap IN
       /\ rx' = IF ~Listening THEN rx
                ELSE Append(IF full THEN Tail(rx) ELSE rx, lastSent')
       /\ missed' = (missed \/ full)
       /\ lost' = IF full THEN Head(rx).job.id ELSE lost
  /\ UNCHANGED <<issued, phase, chanVars, mapVars, share_set, dev, wire, share>>

Number ==
  /\ issued < MaxJobs
  /\ issued' = issued + 1
  /\ FetchTemplateAs(Run, issued')
  /\ UNCHANGED sv2Vars

Engine ==
  \/ Number
  \/ Send
  \/ /\ \/ ReadAddress(Run) \/ FetchFails(Run) \/ Install(Run) \/ Push(Run)
        \/ NewBlock \/ Notify \/ RunNewBlock \/ RunTick
     /\ UNCHANGED <<issued, sv2Vars>>

-----------------------------------------------------------------------------
(* run, around the handlers. *)

(* The handshake is done: the session and its receiver are made. *)
Connect ==
  /\ phase = "off"
  /\ phase' = "chan"
  /\ UNCHANGED <<vars, issued, chanVars, mapVars, linkVars, share_set, dev, wire,
                 share>>

CacheJob ==
  /\ phase = "chan"
  /\ phase' = "loop"
  /\ pending' = current
  /\ UNCHANGED <<vars, issued, chanVars, job_ids, next_id, linkVars, share_set,
                 dev, wire, share>>

(* A timeout, an empty token bucket, an oversize or malformed message, a    *)
(* failed write or the end of the stream.                                   *)
Disconnect ==
  /\ phase = "loop"
  /\ Reset
  /\ UNCHANGED <<vars, issued>>

(* The job arm. *)
RecvJob ==
  /\ phase = "loop" /\ ~missed /\ rx # <<>>
  /\ LET b == Head(rx) IN
       /\ share_set' = IF b.clean THEN <<>> ELSE share_set
       /\ IF channel_open
            THEN /\ job_ids' = assign_job_id(job_ids, next_id, b.job)
                 /\ next_id' = next_job_id_after(next_id)
                 /\ dev' = Sent(dev, next_id, b.job, b.clean)
            ELSE UNCHANGED <<job_ids, next_id, dev>>
       /\ pending' = b.job
  /\ rx' = Tail(rx)
  /\ UNCHANGED <<vars, issued, phase, chanVars, missed, lost, wire, share>>

(* RecvError::Lagged: logged, and the loop goes on with what is left. *)
RecvLagged ==
  /\ phase = "loop" /\ missed
  /\ missed' = FALSE
  /\ UNCHANGED <<vars, issued, phase, chanVars, mapVars, rx, lost, share_set,
                 dev, wire, share>>

-----------------------------------------------------------------------------
(* The device (external): it may send anything at any time; a share is      *)
(* found on the work it holds.  A setup or an open is the same whenever it  *)
(* is sent, so it is sent when nothing is under way; a share may follow.    *)
Say(msg) ==
  /\ phase # "off" /\ Len(wire) < WireCap
  /\ wire' = Append(wire, msg)
  /\ UNCHANGED <<vars, issued, phase, chanVars, mapVars, linkVars, share_set,
                 dev, share>>

DeviceSetup == wire = <<>> /\ ~setup_done /\ Say(Setup)
DeviceOpen ==
  /\ wire = <<>>
  /\ \E n \in Names, s \in Sizes : Say([type |-> "open", name |-> n, size |-> s])
DeviceShare ==
  /\ dev.open /\ dev.job # NoJob
  /\ \A i \in DOMAIN wire : wire[i].type # "submit"
  /\ Say([type |-> "submit", work |-> dev])

-----------------------------------------------------------------------------
(* The inbound arm: handle_message of the next message. *)

Inbound(type) ==
  /\ phase = "loop" /\ wire # <<>>
  /\ Head(wire).type = type
  /\ wire' = Tail(wire)

(* A supported sub-protocol, version and feature set; any other is answered *)
(* SetupConnection.Error and disconnected.                                  *)
handle_setup_connection ==
  /\ Inbound("setup")
  /\ setup_done' = TRUE
  /\ UNCHANGED <<vars, issued, phase, channel_open, worker, opens, size, plen,
                 auths, mapVars, linkVars, share_set, dev, share>>

(* Mutant: the identity goes before the request is validated. *)
OpenRefused_Early ==
  /\ Inbound("open")
  /\ setup_done /\ Head(wire).size > Total
  /\ worker' = IF worker = Head(wire).name THEN worker ELSE NoName
  /\ UNCHANGED <<vars, issued, phase, setup_done, channel_open, opens, size,
                 plen, auths, mapVars, linkVars, share_set, dev, share>>

(* The request is out of the reserved width: an error, the session as it    *)
(* was.                                                                     *)
OpenRefused ==
  /\ Inbound("open")
  /\ setup_done /\ Head(wire).size > Total
  /\ UNCHANGED <<vars, issued, phase, chanVars, mapVars, linkVars, share_set,
                 dev, share>>

(* Messages the state machine does not allow: before setup, before open,    *)
(* or one identity too many.                                                *)
Premature ==
  /\ phase = "loop" /\ wire # <<>>
  /\ LET m == Head(wire) IN
       \/ m.type = "open" /\ ~setup_done
       \/ /\ m.type = "open" /\ setup_done /\ m.size <= Total
          /\ m.name # worker /\ auths >= MaxIdentities
       \/ m.type = "submit" /\ ~channel_open
  /\ Reset
  /\ UNCHANGED <<vars, issued>>

(* Mutant: the request is granted as asked, zero included. *)
granted_Zero(requested) == requested

(* What the device contributes: what it asked for, at least one byte. *)
granted(requested) == IF requested > 0 THEN requested ELSE 1

(* The device once the channel is open: the cached job goes out as future.  *)
OpenedWith(d, id, job) == IF job = NoJob THEN d ELSE Sent(d, id, job, TRUE)

(* A granted open or re-open: identity, new prefix, new channel, and the    *)
(* job.  Old mappings stay.                                                 *)
handle_open_extended ==
  /\ Inbound("open")
  /\ LET m == Head(wire)
         fresh == m.name # worker IN
       /\ setup_done /\ m.size <= Total /\ opens < MaxOpens
       /\ fresh => auths < MaxIdentities
       /\ auths' = IF fresh THEN auths + 1 ELSE auths
       /\ worker' = m.name
       /\ size' = granted(m.size)
       /\ plen' = Total - granted(m.size)
       /\ opens' = opens + 1
       /\ channel_open' = TRUE
       /\ dev' = OpenedWith([dev EXCEPT !.open = TRUE, !.prefix = opens + 1,
                                        !.size = granted(m.size)],
                            next_id, pending)
       /\ IF pending = NoJob
            THEN UNCHANGED <<job_ids, next_id>>
            ELSE /\ job_ids' = assign_job_id(job_ids, next_id, pending)
                 /\ next_id' = next_job_id_after(next_id)
  /\ UNCHANGED <<vars, issued, phase, setup_done, pending, linkVars,
                 share_set, share>>

(* handle_submit up to the validation.  A wrong extranonce length and an    *)
(* id or job that is gone are answered here and leave nothing behind; only  *)
(* the first is counted as invalid, and may end the session (Disconnect).   *)
handle_submit ==
  /\ Inbound("submit")
  /\ channel_open
  /\ LET w == Head(wire).work
         found == {i \in DOMAIN history :
                     history[i].job.id = engine_job_id(job_ids, w.id)} IN
       \/ /\ w.size # size \/ found = {}
          /\ UNCHANGED <<phase, share>>
       \/ /\ w.size = size
          /\ \E i \in found :
               share' = [type |-> "share", work |-> w, job |-> history[i].job,
                         stale |-> superseded_by_clean(history, i)]
          /\ phase' = "judge"
  /\ UNCHANGED <<vars, issued, chanVars, mapVars, linkVars, share_set, dev>>


(* The header the pool rebuilds, and the one the device hashed: a device on *)
(* another job, prev-hash or prefix has hashed something else.              *)
Rebuilt(s) == <<s.job, s.job.tip, opens>>
Hashed(s) == <<s.work.job, s.work.prev, s.work.prefix>>

insert(q, h) == Append(IF Len(q) >= ShareCap THEN Tail(q) ELSE q, h)

(* What validate_share_no_dedup and dedup make of the share. *)
Verdict ==
  IF share.stale THEN "stale"
  ELSE IF Rebuilt(share) # Hashed(share) THEN "low_difficulty"
  ELSE IF Rebuilt(share) \in ToSet(share_set) THEN "duplicate"
  ELSE "accepted"

(* The rest of handle_submit: the validation and the answer.  A block whose *)
(* submission fails is remembered like an accepted share, not credited.     *)
Judge(v) ==
  /\ phase = "judge"
  /\ Verdict = v
  /\ phase' = "loop"
  /\ share' = Idle
  /\ share_set' = IF v = "accepted" THEN insert(share_set, Rebuilt(share))
                  ELSE share_set
  /\ UNCHANGED <<vars, issued, chanVars, mapVars, linkVars, dev, wire>>

-----------------------------------------------------------------------------
SessionStep ==
  \/ Connect \/ CacheJob \/ Disconnect \/ RecvJob \/ RecvLagged
  \/ DeviceSetup \/ DeviceOpen \/ DeviceShare
  \/ handle_setup_connection \/ OpenRefused \/ Premature
  \/ handle_open_extended \/ handle_submit
  \/ \E v \in {"stale", "low_difficulty", "duplicate", "accepted"} : Judge(v)

ChannelNext == Engine \/ SessionStep

ChannelSpec == ChannelInit /\ [][ChannelNext]_allVars

-----------------------------------------------------------------------------
(* Properties. *)

ChannelTypeOK ==
  /\ TypeOK
  /\ issued \in 0..MaxJobs
  /\ phase \in {"off", "chan", "loop", "judge"}
  /\ worker \in Names \cup {NoName}
  /\ size \in 1..Total /\ plen \in 0..Total
  /\ auths \in 0..MaxIdentities /\ opens \in 0..MaxOpens
  /\ Len(job_ids) <= MapCap /\ next_id \in 1..MaxId
  /\ \A i \in DOMAIN job_ids : job_ids[i] \in (1..MaxId) \X JobIds
  /\ pending \in Job \cup {NoJob}
  /\ Len(rx) <= Cap /\ \A i \in DOMAIN rx : rx[i] \in Entry
  /\ missed => Len(rx) = Cap
  /\ Len(share_set) <= ShareCap
  /\ dev.job \in Job \cup {NoJob} /\ dev.prev \in Tips \cup {NoTip}
  /\ (phase = "judge") = (share # Idle)

(* Pool and device agree on the open channel: somebody is credited, the two *)
(* parts of the extranonce fill the reserved width, the device mines with   *)
(* the prefix and the width the pool validates against, and the id it works *)
(* under resolves to its job, whatever opens and re-opens were granted or   *)
(* refused and however often the map was trimmed.                           *)
ChannelAgreed ==
  channel_open =>
    /\ worker # NoName
    /\ size + plen = Total
    /\ dev.open /\ dev.prefix = opens /\ dev.size = size
    /\ dev.job # NoJob => engine_job_id(job_ids, dev.id) = dev.job.id

(* Once the engine rests and the session has drained its channel, the       *)
(* device works on the current job and on that job's prev-hash, unless a    *)
(* broadcast was lost after the job that last brought it a prev-hash.       *)
DeviceOnTip ==
  /\ pc[Run] = "idle" /\ phase = "loop" /\ channel_open
  /\ rx = <<>> /\ (lost = 0 \/ dev.since > lost)
  => /\ dev.job = current
     /\ current # NoJob => dev.prev = current.tip


(* A session credits no dead work: what it accepts is on the tip of the job *)
(* it last took from the channel, or on a later job.                        *)
NoDeadCreditSv2 ==
  [][(Judge("accepted") /\ pending # NoJob)
       => \/ share.job.tip = pending.tip
          \/ share.job.id > pending.id]_allVars
=============================================================================
