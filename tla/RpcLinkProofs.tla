--------------------------- MODULE RpcLinkProofs ---------------------------
(***************************************************************************)
(* The record of the cookie never hides a client the node refuses, for any *)
(* number of callers and restarts of the node.                             *)
(***************************************************************************)
EXTENDS RpcLink, TLAPS

(* Cookies are numbered by the starts of the node, so a record that equals  *)
(* the latest cookie was read during the latest start, and the client was   *)
(* built after it.                                                          *)
LinkInv ==
  /\ starts \in 0..MaxStarts
  /\ cookie_file \in {Absent, starts}
  /\ node \in {"starting", "up"} => cookie_file = starts /\ starts > 0
  /\ cookie_file # Absent => starts > 0
  /\ cookie \in 1..starts \cup {Absent}
  /\ rpc \in {"boot", "auth", "ready", "failed"}
  /\ client \in 1..starts \cup {Absent, Explicit}
  /\ pc \in [Callers -> {"idle", "read", "compare", "install", "retry"}]
  /\ fresh \in [Callers -> 1..starts \cup {Absent}]
  /\ \A c \in Callers : pc[c] \in {"compare", "install"} => fresh[c] # Absent
  /\ rpc = "ready" /\ cookie = starts =>
       client = starts \/ (explicit /\ client = Explicit)

LEMMA LinkInvInit == LinkInit => LinkInv
BY StartsAssumption, CredentialsAssumption DEF LinkInit, LinkInv

LEMMA LinkInvNext == LinkInv /\ [LinkNext]_linkVars => LinkInv'
<1> SUFFICES ASSUME LinkInv, [LinkNext]_linkVars PROVE LinkInv'
  OBVIOUS
<1> USE StartsAssumption, CredentialsAssumption DEF LinkInv
<1>1. CASE NodeStart
  BY <1>1 DEF NodeStart, inner
<1>2. CASE NodeServes
  BY <1>2 DEF NodeServes, inner
<1>3. CASE NodeStops
  BY <1>3 DEF NodeStops, inner
<1>4. CASE New
  BY <1>4 DEF New, nodeSide
<1>5. CASE Reboot
  BY <1>5 DEF Reboot, nodeSide
<1>6. ASSUME NEW c \in Callers, Calling(c) PROVE LinkInv'
  <2>1. CASE Call(c)
    BY <2>1 DEF Call, nodeSide, inner
  <2>2. CASE ReadCookie(c)
    BY <2>2 DEF ReadCookie, nodeSide, inner
  <2>3. CASE Compare(c)
    BY <2>3 DEF Compare, nodeSide, inner
  <2>4. CASE Install(c)
    BY <2>4 DEF Install, nodeSide
  <2>5. CASE Retry(c)
    BY <2>5 DEF Retry, nodeSide, inner
  <2> QED
    BY <1>6, <2>1, <2>2, <2>3, <2>4, <2>5 DEF Calling
<1>7. CASE UNCHANGED linkVars
  BY <1>7 DEF linkVars, nodeSide, inner
<1> QED
  BY <1>1, <1>2, <1>3, <1>4, <1>5, <1>6, <1>7 DEF LinkNext

(* The credentials have their types: a record is a cookie of the node, and  *)
(* never the configured user and password.                                  *)
THEOREM LinkTypeCorrect == LinkSpec => []LinkTypeOK
<1>1. LinkInv => LinkTypeOK
  BY StartsAssumption, CredentialsAssumption DEF LinkInv, LinkTypeOK
<1> QED
  BY <1>1, LinkInvInit, LinkInvNext, PTL DEF LinkSpec

(* call_with_refresh (rpc.rs) can always tell that its client is out of     *)
(* date: a client the running node refuses is not recorded as built from    *)
(* the cookie on disk.                                                      *)
THEOREM RefreshStaysPossible == LinkSpec => []NeverStuck
<1>1. LinkInv => NeverStuck
  BY CredentialsAssumption DEF LinkInv, NeverStuck, Accepts
<1> QED
  BY <1>1, LinkInvInit, LinkInvNext, PTL DEF LinkSpec
=============================================================================
