------------------------------- MODULE KeyFile -------------------------------
(***************************************************************************)
(* The authority key file of the SV2 listener (init,                       *)
(* load_or_generate_secret and write_owner_only in                         *)
(* src/src/protocol/sv2/noise.rs), over crashes of the process, losses of  *)
(* power and a file system that may not support hard links.                *)
(***************************************************************************)
EXTENDS Naturals

CONSTANTS
  MaxCrashes,   \* bound: crashes and losses of power
  MaxErrors,    \* bound: reads and writes that fail
  Keys,         \* the keys that can be drawn
  Gone,         \* no such file
  Torn          \* a file that does not parse as a key

ASSUME KeysAssumption ==
  /\ Gone # Torn /\ {Gone, Torn} \cap Keys = {}
  /\ \A a, b \in Keys \cup {Gone, Torn} : \E k \in Keys : k \notin {a, b}

VARIABLES
  path, tmp,    \* what the two files hold: Gone, Torn or a key
  synced, solid,        \* the contents of tmp, of path, are on disk
  settled,      \* the directory entry of path is on disk
  linkable,     \* hard_link works on this file system
  starter,      \* where the process is
  secret,       \* its key, or Gone
  crashes, errors

keyVars == <<path, tmp, synced, solid, settled, linkable, starter, secret, crashes, errors>>

KeyInit ==
  /\ path = Gone /\ tmp = Gone /\ synced = FALSE
  /\ solid = TRUE /\ settled = TRUE
  /\ linkable \in BOOLEAN
  /\ starter = "read" /\ secret = Gone
  /\ crashes = 0 /\ errors = 0

Files == <<path, tmp, synced, solid, settled, linkable>>
Goes(from, to) == starter = from /\ starter' = to

(* A key that is on neither file. *)
generate_secret == CHOOSE k \in Keys : k \notin {path, tmp}

(* A key is used, a missing file makes a new one, anything else is fatal.   *)
Read ==
  /\ \/ /\ path \notin {Gone, Torn} /\ Goes("read", "serve")
        /\ secret' = path /\ UNCHANGED errors
     \/ /\ path = Torn /\ Goes("read", "failed") /\ UNCHANGED <<secret, errors>>
     \/ /\ path = Gone /\ Goes("read", "clear")
        /\ secret' = generate_secret /\ UNCHANGED errors
     \/ /\ errors < MaxErrors /\ Goes("read", "failed")
        /\ errors' = errors + 1 /\ UNCHANGED secret
  /\ UNCHANGED <<Files, crashes>>

-----------------------------------------------------------------------------
(* write_owner_only. *)

Clear ==
  /\ Goes("clear", "create") /\ tmp' = Gone
  /\ UNCHANGED <<path, synced, solid, settled, linkable, secret, crashes, errors>>

(* create_new refuses a file that is there. *)
Create ==
  /\ \/ tmp = Gone /\ Goes("create", "write") /\ tmp' = Torn /\ synced' = FALSE
     \/ tmp # Gone /\ Goes("create", "discard") /\ UNCHANGED <<tmp, synced>>
  /\ UNCHANGED <<path, solid, settled, linkable, secret, crashes, errors>>

WriteAll ==
  /\ \/ Goes("write", "sync") /\ tmp' = secret /\ UNCHANGED errors
     \/ /\ errors < MaxErrors /\ Goes("write", "discard")
        /\ errors' = errors + 1 /\ UNCHANGED tmp
  /\ UNCHANGED <<path, synced, solid, settled, linkable, secret, crashes>>

(* Mutant: no fsync before the link. *)
SyncAll_Skipped ==
  /\ Goes("sync", "link")
  /\ UNCHANGED <<path, tmp, synced, solid, settled, linkable, secret, crashes, errors>>

SyncAll ==
  /\ Goes("sync", "link") /\ synced' = TRUE
  /\ UNCHANGED <<path, tmp, solid, settled, linkable, secret, crashes, errors>>

link_into_place ==
  /\ \/ /\ linkable /\ path = Gone /\ Goes("link", "clean")
        /\ path' = tmp /\ solid' = synced /\ settled' = FALSE /\ UNCHANGED tmp
     \/ /\ linkable /\ path # Gone /\ Goes("link", "discard")
        /\ UNCHANGED <<path, tmp, solid, settled>>
     \/ /\ ~linkable /\ Goes("link", "clean")
        /\ path' = tmp /\ tmp' = Gone /\ solid' = synced /\ settled' = FALSE
  /\ UNCHANGED <<synced, linkable, secret, crashes, errors>>

(* The scratch file goes, whatever the result. *)
Clean ==
  /\ Goes("clean", "serve") \/ Goes("discard", "failed")
  /\ tmp' = Gone
  /\ UNCHANGED <<path, synced, solid, settled, linkable, secret, crashes, errors>>

-----------------------------------------------------------------------------
(* The service manager starts a failed process again. *)
Restart ==
  /\ starter \in {"failed", "off"} /\ starter' = "read" /\ secret' = Gone
  /\ UNCHANGED <<Files, crashes, errors>>

Crash ==
  /\ starter \notin {"failed", "off"} /\ crashes < MaxCrashes
  /\ starter' = "off" /\ crashes' = crashes + 1
  /\ UNCHANGED <<Files, secret, errors>>

(* What was not synced may be torn; an entry that was not may be gone.      *)
PowerLoss ==
  /\ crashes < MaxCrashes /\ crashes' = crashes + 1
  /\ starter' = "off"
  /\ tmp' \in IF tmp = Gone \/ synced THEN {tmp, Gone} ELSE {tmp, Torn, Gone}
  /\ path' \in {path} \cup (IF settled THEN {} ELSE {Gone})
                     \cup (IF solid THEN {} ELSE {Torn})
  /\ settled' = TRUE /\ solid' = TRUE /\ UNCHANGED synced
  /\ UNCHANGED <<linkable, secret, errors>>

(* The file system writes its journal. *)
Settle ==
  /\ ~settled /\ settled' = TRUE
  /\ UNCHANGED <<path, tmp, synced, solid, linkable, starter, secret, crashes, errors>>

-----------------------------------------------------------------------------
Starting == Read \/ Clear \/ Create \/ WriteAll \/ SyncAll \/ link_into_place \/ Clean \/ Restart

KeyNext == Starting \/ Crash \/ PowerLoss \/ Settle

KeySpec == KeyInit /\ [][KeyNext]_keyVars

-----------------------------------------------------------------------------
KeyTypeOK ==
  {path, tmp} \subseteq Keys \cup {Gone, Torn} /\ secret \in Keys \cup {Gone}

(* The path holds a whole key or nothing after every crash and every loss   *)
(* of power, and a process that serves serves the key in the file.          *)
KeyWhole ==
  /\ path # Torn
  /\ starter = "serve" => path = secret

(* A key on disk is never replaced by the pool: only a loss of power before *)
(* the directory entry was written can take it away.                        *)
KeyKept == path # Gone => path' = path \/ ~settled

(* The authority key is served whole or not at all, and kept once settled.  *)
KeyTrue == [][KeyWhole' /\ KeyKept]_keyVars

(* Whatever was left behind by the crashes, the listener gets its key.      *)
EventuallyServes == <>[](starter = "serve")
=============================================================================
