------------------------------ MODULE MCEdges ------------------------------
(***************************************************************************)
(* The pool's dealings with the world around it, for TLC: the node's tip   *)
(* and its RPC cookie, the key file, the payout address over restarts, the *)
(* split of the extranonce space, and the dashboard page.  They share no   *)
(* state, so a behaviour exercises one of them.                            *)
(***************************************************************************)
EXTENDS TipWatch, RpcLink, KeyFile, PayoutBoot, Extranonce, Page

CONSTANTS W1, Usd

VARIABLE part

edgeVars == <<part, tipVars, linkVars, keyVars, bootVars, splitVars, pageVars>>

Parts == {"tip", "link", "key", "boot", "split", "chart", "price", "form", "led"}

(* The parts that are idle have one initial state. *)
EdgesInit ==
  /\ part \in Parts
  /\ TipInit /\ LinkInit /\ KeyInit /\ BootInit /\ SplitInit /\ PageInit
  /\ part # "link" => ~explicit
  /\ part # "key" => linkable
  /\ part # "boot" => /\ node_chain = "main"
                      /\ config = [address |-> "bc", asserted |-> Nowhere]
  /\ part # "chart" => ~collapsed
  /\ pair = Usd
  /\ part # "form" => address_valid

On(name, action) == part = name /\ UNCHANGED part /\ action

EdgesNext ==
  \/ On("tip", TipNext) /\ UNCHANGED <<linkVars, keyVars, bootVars, splitVars, pageVars>>
  \/ On("link", LinkNext) /\ UNCHANGED <<tipVars, keyVars, bootVars, splitVars, pageVars>>
  \/ On("key", KeyNext) /\ UNCHANGED <<tipVars, linkVars, bootVars, splitVars, pageVars>>
  \/ On("boot", BootNext) /\ UNCHANGED <<tipVars, linkVars, keyVars, splitVars, pageVars>>
  \/ On("split", SplitNext) /\ UNCHANGED <<tipVars, linkVars, keyVars, bootVars, pageVars>>
  \/ /\ \/ On("chart", ChartNext) \/ On("price", PriceNext)
        \/ On("form", FormNext) \/ On("led", LedNext)
     /\ UNCHANGED <<tipVars, linkVars, keyVars, bootVars, splitVars>>

(* The clock, the poll and the engine run; ZMQ owes nothing.  The node      *)
(* comes up again after each stop and tasks keep calling it.  A starter is  *)
(* not suspended.  Timers of the page fire and its requests end.            *)
EdgesFairness ==
  /\ WF_tipVars(part = "tip" /\ TipTick)
  /\ WF_tipVars(part = "tip" /\ (PollWakes \/ NodeAnswers \/ PollAnswered \/ PollDue))
  /\ WF_tipVars(part = "tip" /\ EngineWakes)
  /\ WF_linkVars(part = "link" /\ (NodeStart \/ NodeServes))
  /\ WF_linkVars(part = "link" /\ (New \/ Reboot))
  /\ \A c \in Callers : WF_linkVars(part = "link" /\ Calling(c))
  /\ WF_keyVars(part = "key" /\ Starting)
  /\ WF_chartVars(part = "chart" /\ ChartTimer)
  /\ WF_chartVars(part = "chart" /\ Refresh)
  /\ WF_chartVars(part = "chart" /\ ServerLists)
  /\ WF_chartVars(part = "chart" /\ \E w \in Windows : ChartLands(w))
  /\ WF_chartVars(part = "chart" /\ \E r \in BagToSet(stats) : SnapshotReads(r) \/ StatsLand(r))

EdgesSpec == EdgesInit /\ [][EdgesNext]_edgeVars /\ EdgesFairness

(* The extranonce split alone. *)
SplitSpec == EdgesInit /\ part = "split" /\ [][EdgesNext]_edgeVars

-----------------------------------------------------------------------------
(* Properties, by part. *)

(* The variables of the parts have their types. *)
EdgesTypeOK == TipTypeOK /\ LinkTypeOK /\ KeyTypeOK

(* The link to the node: no false alarm about ZMQ, a silence is settled in  *)
(* time, and no credentials are kept that nothing will refresh.             *)
NodeLinkTrue == NoFalseAlarm /\ SilenceSettled /\ NeverStuck

(* What the page shows at rest is what the server said.                     *)
PageTrue == MarksPrompt /\ PriceOfPair /\ PillHonest /\ LightHonest

(* Each part settles: the engine follows the node's tip, the RPC link       *)
(* recovers from restarts of the node, a starter serves its key, and the    *)
(* chart shows every block.                                                 *)
EdgesSettle ==
  /\ part = "tip" => EngineFollows
  /\ part = "link" => RpcRecovers
  /\ part = "key" => EventuallyServes
  /\ part = "chart" => ChartSettles
=============================================================================
