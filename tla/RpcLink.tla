------------------------------- MODULE RpcLink -------------------------------
(***************************************************************************)
(* The credential of the node's RPC (RpcClient in src/src/bitcoin/rpc.rs,  *)
(* read_cookie and rpc_auth in src/src/config.rs).  The node draws a new   *)
(* cookie each time it starts; the pool holds a client built from one      *)
(* cookie and a record of that cookie, and several callers refresh both.   *)
(***************************************************************************)
EXTENDS Naturals

CONSTANTS
  Callers,      \* tasks that call the node
  MaxStarts,    \* bound: starts of the node
  Explicit,     \* the user and password of config.toml
  Absent        \* no file, no record, no client

ASSUME StartsAssumption == MaxStarts \in Nat
ASSUME CredentialsAssumption == Absent \notin Nat /\ Explicit \notin Nat \cup {Absent}

VARIABLES
  explicit,     \* config.toml has a user and a password the node accepts
  node,         \* "up", "starting", "down"
  starts,       \* the number of starts, which is also the cookie of the last one
  cookie_file,  \* the cookie on disk, or Absent
  rpc,          \* "boot", "auth" (new has read the record), "ready", "failed"
  client, cookie,       \* Inner: the credential of the client, the record
  pc, fresh             \* per caller: where it is, the cookie it read

nodeSide == <<node, starts, cookie_file>>
inner == <<rpc, client, cookie>>
linkVars == <<explicit, nodeSide, inner, pc, fresh>>

LinkInit ==
  /\ explicit \in BOOLEAN
  /\ node = "down" /\ starts = 0 /\ cookie_file = Absent
  /\ rpc = "boot" /\ client = Absent /\ cookie = Absent
  /\ pc = [c \in Callers |-> "idle"] /\ fresh = [c \in Callers |-> Absent]

Accepts(cred) ==
  node = "up" /\ (cred = starts \/ (explicit /\ cred = Explicit))

-----------------------------------------------------------------------------
(* The node. *)

NodeStart ==
  /\ node = "down" /\ starts < MaxStarts
  /\ node' = "starting" /\ starts' = starts + 1 /\ cookie_file' = starts + 1
  /\ UNCHANGED <<explicit, inner, pc, fresh>>

NodeServes ==
  /\ node = "starting" /\ node' = "up"
  /\ UNCHANGED <<explicit, starts, cookie_file, inner, pc, fresh>>

(* A clean stop removes the file, a crash leaves it. *)
NodeStops ==
  /\ node = "up" /\ starts < MaxStarts /\ node' = "down"
  /\ cookie_file' \in {cookie_file, Absent}
  /\ UNCHANGED <<explicit, starts, inner, pc, fresh>>

-----------------------------------------------------------------------------
(* RpcClient::new, which reads the file twice. *)

(* Mutant: without a file the record holds the configured credentials. *)
New_RecordsExplicit ==
  /\ \/ /\ rpc = "boot" /\ rpc' = "auth" /\ UNCHANGED client
        /\ cookie' = IF cookie_file = Absent /\ explicit THEN Explicit ELSE cookie_file
     \/ /\ rpc = "auth"
        /\ client' = IF cookie_file # Absent THEN cookie_file
                     ELSE IF explicit THEN Explicit ELSE Absent
        /\ rpc' = IF client' = Absent THEN "failed" ELSE "ready"
        /\ UNCHANGED cookie
  /\ UNCHANGED <<explicit, nodeSide, pc, fresh>>

New ==
  /\ \/ rpc = "boot" /\ rpc' = "auth" /\ cookie' = cookie_file /\ UNCHANGED client
     \/ /\ rpc = "auth"
        /\ client' = IF cookie_file # Absent THEN cookie_file
                     ELSE IF explicit THEN Explicit ELSE Absent
        /\ rpc' = IF client' = Absent THEN "failed" ELSE "ready"
        /\ UNCHANGED cookie
  /\ UNCHANGED <<explicit, nodeSide, pc, fresh>>

(* The service manager starts the pool again. *)
Reboot ==
  /\ rpc = "failed" /\ rpc' = "boot" /\ cookie' = Absent
  /\ UNCHANGED <<explicit, nodeSide, client, pc, fresh>>

-----------------------------------------------------------------------------
(* call_with_refresh. *)

(* The first try, under the read lock. *)
Call(c) ==
  /\ rpc = "ready" /\ pc[c] = "idle" /\ ~Accepts(client)
  /\ pc' = [pc EXCEPT ![c] = "read"]
  /\ UNCHANGED <<explicit, nodeSide, inner, fresh>>

ReadCookie(c) ==
  /\ pc[c] = "read"
  /\ IF cookie_file = Absent
       THEN pc' = [pc EXCEPT ![c] = "idle"] /\ UNCHANGED fresh
       ELSE /\ pc' = [pc EXCEPT ![c] = "compare"]
            /\ fresh' = [fresh EXCEPT ![c] = cookie_file]
  /\ UNCHANGED <<explicit, nodeSide, inner>>

(* Mutant: without a record there is nothing to refresh. *)
Compare_NoneIsFinal(c) ==
  /\ pc[c] = "compare"
  /\ pc' = [pc EXCEPT ![c] = IF cookie \in {fresh[c], Absent} THEN "idle" ELSE "install"]
  /\ UNCHANGED <<explicit, nodeSide, inner, fresh>>

Compare(c) ==
  /\ pc[c] = "compare"
  /\ pc' = [pc EXCEPT ![c] = IF cookie = fresh[c] THEN "idle" ELSE "install"]
  /\ UNCHANGED <<explicit, nodeSide, inner, fresh>>

(* Both under one write lock. *)
Install(c) ==
  /\ pc[c] = "install"
  /\ client' = fresh[c] /\ cookie' = fresh[c]
  /\ pc' = [pc EXCEPT ![c] = "retry"]
  /\ UNCHANGED <<explicit, nodeSide, rpc, fresh>>

(* The second try ends the call, whatever it gives. *)
Retry(c) ==
  /\ pc[c] = "retry"
  /\ pc' = [pc EXCEPT ![c] = "idle"] /\ fresh' = [fresh EXCEPT ![c] = Absent]
  /\ UNCHANGED <<explicit, nodeSide, inner>>

-----------------------------------------------------------------------------
Calling(c) == Call(c) \/ ReadCookie(c) \/ Compare(c) \/ Install(c) \/ Retry(c)

LinkNext ==
  \/ NodeStart \/ NodeServes \/ NodeStops
  \/ New \/ Reboot
  \/ \E c \in Callers : Calling(c)

LinkSpec == LinkInit /\ [][LinkNext]_linkVars

-----------------------------------------------------------------------------
LinkTypeOK ==
  /\ cookie_file \in 1..MaxStarts \cup {Absent}
  /\ cookie \in 1..MaxStarts \cup {Absent}
  /\ client \in 1..MaxStarts \cup {Absent, Explicit}
  /\ pc \in [Callers -> {"idle", "read", "compare", "install", "retry"}]

(* A client the running node refuses is never recorded as built from the    *)
(* cookie on disk: call_with_refresh would then take every failure for one  *)
(* that reconnecting cannot fix, and the pool would need a restart.  It     *)
(* rests on the order of the two reads in new.                              *)
NeverStuck ==
  rpc = "ready" /\ node = "up" /\ ~Accepts(client) => cookie # cookie_file

(* However the node was stopped, crashed and restarted, and however its     *)
(* callers' refreshes overtook each other, the pool ends up with a client   *)
(* the node accepts.                                                        *)
RpcRecovers == <>[](rpc = "ready" /\ Accepts(client))
=============================================================================
