--------------------------- MODULE KeyFileProofs ---------------------------
(***************************************************************************)
(* The authority key is served whole or not at all, and kept, for any      *)
(* number of crashes, losses of power and failed reads and writes.         *)
(***************************************************************************)
EXTENDS KeyFile, TLAPS

Writing == {"clear", "create", "write", "sync", "link"}

(* What is true between the steps of write_owner_only: while a new key is   *)
(* being written there is no old one to overwrite, and what is linked into  *)
(* place was synced before, so that the path never holds anything but a     *)
(* whole key that is on disk.                                               *)
KeyInv ==
  /\ path \in Keys \cup {Gone} /\ tmp \in Keys \cup {Gone, Torn}
  /\ solid = TRUE /\ settled \in BOOLEAN
  /\ starter \in Writing => path = Gone
  /\ starter \in Writing \cup {"clean"} => secret \in Keys
  /\ starter \in {"sync", "link"} => tmp = secret
  /\ starter = "link" => synced = TRUE
  /\ starter \in {"clean", "serve"} => path = secret

LEMMA FreshKey ==
  ASSUME path \in Keys \cup {Gone, Torn}, tmp \in Keys \cup {Gone, Torn}
  PROVE  generate_secret \in Keys
<1>1. \E k \in Keys : k \notin {path, tmp}
  BY KeysAssumption
<1> QED
  BY <1>1 DEF generate_secret

LEMMA KeyInvInit == KeyInit => KeyInv
BY DEF KeyInit, KeyInv, Writing

LEMMA KeyInvNext == KeyInv /\ [KeyNext]_keyVars => KeyInv'
<1> SUFFICES ASSUME KeyInv, [KeyNext]_keyVars PROVE KeyInv'
  OBVIOUS
<1> USE KeysAssumption DEF KeyInv, Writing
<1>1. CASE Read
  BY <1>1, FreshKey DEF Read, Goes, Files
<1>2. CASE Clear
  BY <1>2 DEF Clear, Goes
<1>3. CASE Create
  BY <1>3 DEF Create, Goes
<1>4. CASE WriteAll
  BY <1>4 DEF WriteAll, Goes
<1>5. CASE SyncAll
  BY <1>5 DEF SyncAll, Goes
<1>6. CASE link_into_place
  BY <1>6 DEF link_into_place, Goes
<1>7. CASE Clean
  BY <1>7 DEF Clean, Goes
<1>8. CASE Restart
  BY <1>8 DEF Restart, Files
<1>9. CASE Crash
  BY <1>9 DEF Crash, Files
<1>10. CASE PowerLoss
  BY <1>10 DEF PowerLoss
<1>11. CASE Settle
  BY <1>11 DEF Settle
<1>12. CASE UNCHANGED keyVars
  BY <1>12 DEF keyVars
<1> QED
  BY <1>1, <1>2, <1>3, <1>4, <1>5, <1>6, <1>7, <1>8, <1>9, <1>10, <1>11, <1>12
     DEF KeyNext, Starting

(* A step that changes the path finds it empty, or loses an entry that was  *)
(* not on disk yet.                                                         *)
LEMMA PathStep ==
  KeyInv /\ [KeyNext]_keyVars => KeyKept
<1> SUFFICES ASSUME KeyInv, [KeyNext]_keyVars, path # Gone, path' # path
             PROVE  ~settled
  BY DEF KeyKept
<1>1. CASE link_into_place
  BY <1>1 DEF link_into_place, Goes, KeyInv, Writing
<1>2. CASE PowerLoss
  BY <1>2 DEF PowerLoss, KeyInv
<1> QED
  BY <1>1, <1>2 DEF KeyNext, Starting, Read, Clear, Create, WriteAll, SyncAll, Clean,
     Restart, Crash, Settle, Files, keyVars

(* The key file over crashes, restarts and losses of power (noise.rs): the  *)
(* path never holds half a key, the pool serves the key in the file, and    *)
(* no start replaces a key that is on disk.                                 *)
THEOREM KeySurvives == KeySpec => []KeyWhole /\ KeyTrue
<1>1. KeyInv => KeyWhole
  BY KeysAssumption DEF KeyInv, KeyWhole
<1>2. KeySpec => []KeyInv
  BY KeyInvInit, KeyInvNext, PTL DEF KeySpec
<1>3. KeyInv /\ KeyInv' /\ [KeyNext]_keyVars => [KeyWhole' /\ KeyKept]_keyVars
  <2>1. KeyInv' => KeyWhole'
    BY KeysAssumption DEF KeyInv, KeyWhole
  <2> QED
    BY <2>1, PathStep
<1> QED
  BY <1>1, <1>2, <1>3, PTL DEF KeySpec, KeyTrue
=============================================================================
