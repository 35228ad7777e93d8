-------------------------------- MODULE Page --------------------------------
(***************************************************************************)
(* The dashboard page (the script in src/src/network/dashboard.rs): timers *)
(* and clicks send requests, and each answer is drawn when it lands, in    *)
(* any order, or fails.  Four parts share no state: the chart with the     *)
(* blocks it marks, the price, the settings form and the connection light. *)
(***************************************************************************)
EXTENDS Naturals, Bags, BagsExt

CONSTANTS
  Windows, DEFAULT_WINDOW,      \* the chart's time frames
  PAIRS,                        \* currencies
  Blank,                        \* nothing drawn
  MaxFound,     \* bound: blocks found
  MaxClicks,    \* bound: clicks
  MaxFlight,    \* bound: requests of a kind in flight when a timer adds one
  MaxFailed     \* bound: requests that fail

VARIABLES
  blocks_found, listed,         \* the server: the counter, the length of the list
  stats,                        \* /stats requests: a bag of what they will bring
  charts,                       \* /chart requests: a bag of windows
  selectedWindow, collapsed, foundBlocks, blocksMarked,
  drawn_chart,                  \* the window and the marks of the chart shown
  torn,                         \* history: an answer's counter and list disagreed
  prices, pair, shown_price, lastBtcPrice,      \* bag of pairs; pairs, or Blank
  reads, saves, address_valid, pill,            \* settings: bags, the server, the page
  raced,                        \* history: a save landed while a read was out
  beats, sinceOk, light,        \* refreshes out, 5 s ticks since lastStatsOk, the LED
  clicks, failed

serverVars == <<blocks_found, listed>>
chartVars == <<serverVars, stats, charts, selectedWindow, collapsed, foundBlocks,
               blocksMarked, drawn_chart, torn>>
priceVars == <<prices, pair, shown_price, lastBtcPrice>>
formVars == <<reads, saves, address_valid, pill, raced>>
ledVars == <<beats, sinceOk, light>>
pageVars == <<chartVars, priceVars, formVars, ledVars, clicks, failed>>

Put(b, r) == BagAdd(b, r)
Take(b, r) == BagRemove(b, r)
Room(b) == BagCardinality(b) < MaxFlight
Click == clicks < MaxClicks /\ clicks' = clicks + 1
Fail == failed < MaxFailed /\ failed' = failed + 1
Calm == UNCHANGED <<clicks, failed>>
LedLimit == 5           \* 25 s, in ticks
Longest == LedLimit + 3

(* The boot of the page: each part's first request is out. *)
PageInit ==
  /\ blocks_found = 0 /\ listed = 0
  /\ stats = SetToBag({[n |-> Blank, list |-> Blank]})
  /\ collapsed \in BOOLEAN
  /\ charts = IF collapsed THEN EmptyBag ELSE SetToBag({DEFAULT_WINDOW})
  /\ selectedWindow = DEFAULT_WINDOW /\ foundBlocks = 0 /\ blocksMarked = 0
  /\ drawn_chart = [window |-> Blank, marks |-> 0] /\ torn = FALSE
  /\ pair \in PAIRS /\ prices = SetToBag({pair})
  /\ shown_price = Blank /\ lastBtcPrice = Blank
  /\ address_valid \in BOOLEAN /\ pill = FALSE /\ raced = FALSE
  /\ reads = SetToBag({"sent"}) /\ saves = EmptyBag
  /\ beats = 1 /\ sinceOk = Longest /\ light = FALSE
  /\ clicks = 0 /\ failed = 0

-----------------------------------------------------------------------------
(* The server: block_found counts the block, then lists it; a snapshot      *)
(* reads the counter, then the list.                                        *)

ServerCounts ==
  /\ blocks_found < MaxFound /\ blocks_found = listed
  /\ blocks_found' = blocks_found + 1
  /\ UNCHANGED <<listed, stats, charts, selectedWindow, collapsed, foundBlocks,
                 blocksMarked, drawn_chart, torn, clicks, failed>>

ServerLists ==
  /\ listed < blocks_found /\ listed' = blocks_found
  /\ UNCHANGED <<blocks_found, stats, charts, selectedWindow, collapsed, foundBlocks,
                 blocksMarked, drawn_chart, torn, clicks, failed>>

SnapshotReads(r) ==
  /\ BagIn(r, stats) /\ r.list = Blank
  /\ LET read == IF r.n = Blank THEN [r EXCEPT !.n = blocks_found]
                 ELSE [r EXCEPT !.list = listed] IN
       /\ stats' = Put(Take(stats, r), read)
       /\ torn' = (torn \/ (read.list # Blank /\ read.list # read.n))
  /\ UNCHANGED <<serverVars, charts, selectedWindow, collapsed, foundBlocks,
                 blocksMarked, drawn_chart, clicks, failed>>

-----------------------------------------------------------------------------
(* loadChart, up to its fetch. *)
loadChart(window) == charts' = Put(charts, window)

(* The chart is replaced by the answer, with the blocks known by then.      *)
ChartLands(w) ==
  /\ BagIn(w, charts) /\ charts' = Take(charts, w)
  /\ drawn_chart' = [window |-> w, marks |-> foundBlocks]
  /\ UNCHANGED <<serverVars, stats, selectedWindow, collapsed, foundBlocks,
                 blocksMarked, torn>> /\ Calm

ChartFails(w) ==
  /\ BagIn(w, charts) /\ charts' = Take(charts, w) /\ Fail
  /\ UNCHANGED <<serverVars, stats, selectedWindow, collapsed, foundBlocks,
                 blocksMarked, drawn_chart, torn, clicks>>

ChartTimer ==
  /\ ~collapsed /\ Room(charts) /\ loadChart(selectedWindow)
  /\ UNCHANGED <<serverVars, stats, selectedWindow, collapsed, foundBlocks,
                 blocksMarked, drawn_chart, torn>> /\ Calm

Select(w) ==
  /\ w # selectedWindow /\ Click
  /\ selectedWindow' = w /\ loadChart(w)
  /\ UNCHANGED <<serverVars, stats, collapsed, foundBlocks, blocksMarked,
                 drawn_chart, torn, failed>>

ToggleTheme ==
  /\ Click
  /\ IF collapsed THEN UNCHANGED charts ELSE loadChart(selectedWindow)
  /\ UNCHANGED <<serverVars, stats, selectedWindow, collapsed, foundBlocks,
                 blocksMarked, drawn_chart, torn, failed>>

applyChartCollapsed ==
  /\ Click /\ collapsed' = ~collapsed
  /\ IF collapsed THEN loadChart(selectedWindow) ELSE UNCHANGED charts
  /\ UNCHANGED <<serverVars, stats, selectedWindow, foundBlocks, blocksMarked,
                 drawn_chart, torn, failed>>

(* refresh: the timer of ten seconds, and its answer with renderBlocks.     *)
Refresh ==
  /\ Room(stats) /\ stats' = Put(stats, [n |-> Blank, list |-> Blank])
  /\ UNCHANGED <<serverVars, charts, selectedWindow, collapsed, foundBlocks,
                 blocksMarked, drawn_chart, torn>> /\ Calm

renderBlocks(n, list) ==
  /\ foundBlocks' = list /\ blocksMarked' = n
  /\ IF n # blocksMarked /\ ~collapsed THEN loadChart(selectedWindow) ELSE UNCHANGED charts

StatsLand(r) ==
  /\ BagIn(r, stats) /\ r.list # Blank /\ stats' = Take(stats, r)
  /\ renderBlocks(r.n, r.list)
  /\ UNCHANGED <<serverVars, selectedWindow, collapsed, drawn_chart, torn>> /\ Calm

StatsFail(r) ==
  /\ BagIn(r, stats) /\ stats' = Take(stats, r) /\ Fail
  /\ UNCHANGED <<serverVars, charts, selectedWindow, collapsed, foundBlocks,
                 blocksMarked, drawn_chart, torn, clicks>>

ChartNext ==
  /\ \/ ServerCounts \/ ServerLists
     \/ \E r \in BagToSet(stats) : SnapshotReads(r) \/ StatsLand(r) \/ StatsFail(r)
     \/ \E w \in Windows : ChartLands(w) \/ ChartFails(w) \/ Select(w)
     \/ ChartTimer \/ ToggleTheme \/ applyChartCollapsed \/ Refresh
  /\ UNCHANGED <<priceVars, formVars, ledVars>>

-----------------------------------------------------------------------------
(* fetchBtcPrice and the pair selector. *)

SendPrice == Room(prices) /\ prices' = Put(prices, pair)

PriceTimer == SendPrice /\ UNCHANGED <<pair, shown_price, lastBtcPrice>> /\ Calm

SelectPair(p) ==
  /\ p # pair /\ Click /\ pair' = p /\ lastBtcPrice' = Blank
  /\ Room(prices) /\ prices' = Put(prices, p)
  /\ UNCHANGED <<shown_price, failed>>

(* Mutant: no look at the pair of the moment. *)
PriceLands_Late(p) ==
  /\ BagIn(p, prices) /\ prices' = Take(prices, p)
  /\ shown_price' = p /\ lastBtcPrice' = p
  /\ UNCHANGED pair /\ Calm

PriceLands(p) ==
  /\ BagIn(p, prices) /\ prices' = Take(prices, p)
  /\ IF p = pair THEN shown_price' = p /\ lastBtcPrice' = p
     ELSE UNCHANGED <<shown_price, lastBtcPrice>>
  /\ UNCHANGED pair /\ Calm

PriceFails(p) ==
  /\ BagIn(p, prices) /\ prices' = Take(prices, p) /\ Fail
  /\ UNCHANGED <<pair, shown_price, lastBtcPrice, clicks>>

PriceNext ==
  /\ \/ PriceTimer
     \/ \E p \in PAIRS : SelectPair(p) \/ PriceLands(p) \/ PriceFails(p)
  /\ UNCHANGED <<chartVars, formVars, ledVars>>

-----------------------------------------------------------------------------
(* loadSettings and the settings form. *)

openSettings ==
  /\ Click /\ Room(reads) /\ reads' = Put(reads, "sent")
  /\ UNCHANGED <<saves, address_valid, pill, raced, failed>>

ReadAnswered ==
  /\ BagIn("sent", reads)
  /\ reads' = Put(Take(reads, "sent"), IF address_valid THEN "valid" ELSE "paused")
  /\ UNCHANGED <<saves, address_valid, pill, raced>> /\ Calm

ReadLands(r) ==
  /\ r # "sent" /\ BagIn(r, reads) /\ reads' = Take(reads, r)
  /\ pill' = (r = "paused")
  /\ UNCHANGED <<saves, address_valid, raced>> /\ Calm

ReadFails(r) ==
  /\ BagIn(r, reads) /\ reads' = Take(reads, r) /\ Fail
  /\ raced' = TRUE
  /\ UNCHANGED <<saves, address_valid, pill, clicks>>

(* Submit; the button is disabled until the answer. *)
Submit ==
  /\ saves = EmptyBag /\ Click /\ saves' = SetToBag({"sent"})
  /\ UNCHANGED <<reads, address_valid, pill, raced, failed>>

(* settings_post: a good address is applied, a bad one refused. *)
SaveAnswered ==
  /\ BagIn("sent", saves)
  /\ \/ address_valid' = TRUE /\ saves' = SetToBag({"ok"})
     \/ UNCHANGED address_valid /\ saves' = SetToBag({"refused"})
  /\ UNCHANGED <<reads, pill, raced>> /\ Calm

SaveLands(r) ==
  /\ r # "sent" /\ BagIn(r, saves) /\ saves' = EmptyBag
  /\ pill' = (pill /\ r # "ok")
  /\ raced' = (raced \/ reads # EmptyBag)
  /\ UNCHANGED <<reads, address_valid>> /\ Calm

(* The save's answer is lost, though it may have been applied. *)
SaveFails ==
  /\ saves # EmptyBag /\ saves' = EmptyBag /\ Fail /\ raced' = TRUE
  /\ UNCHANGED <<reads, address_valid, pill, clicks>>

FormNext ==
  /\ \/ openSettings \/ ReadAnswered \/ Submit \/ SaveAnswered \/ SaveFails
     \/ \E r \in {"sent", "valid", "paused"} : ReadLands(r) \/ ReadFails(r)
     \/ \E r \in {"ok", "refused"} : SaveLands(r)
  /\ UNCHANGED <<chartVars, priceVars, ledVars>>

-----------------------------------------------------------------------------
(* The connection light, in ticks of 5 s. *)

updateConnLed(age) == light' = (age < LedLimit)

LedTick ==
  /\ sinceOk' = IF sinceOk < Longest THEN sinceOk + 1 ELSE sinceOk
  /\ updateConnLed(sinceOk')
  /\ UNCHANGED beats /\ Calm

Beat == beats < MaxFlight /\ beats' = beats + 1 /\ UNCHANGED <<sinceOk, light>> /\ Calm

(* An answer, a thrown error, or an answer that is not ok. *)
BeatEnds ==
  /\ beats > 0 /\ beats' = beats - 1 /\ Calm
  /\ \/ sinceOk' = 0 /\ updateConnLed(0)
     \/ UNCHANGED sinceOk /\ updateConnLed(sinceOk)
     \/ UNCHANGED <<sinceOk, light>>

LedNext ==
  /\ LedTick \/ Beat \/ BeatEnds
  /\ UNCHANGED <<chartVars, priceVars, formVars>>

-----------------------------------------------------------------------------
(* When the user stops clicking, an open chart ends up showing the window   *)
(* selected last, with every block found: loadChart draws whatever answer   *)
(* lands last, so a slow one for another window can win for a while.        *)
ChartSettles ==
  <>[](~collapsed => drawn_chart = [window |-> selectedWindow, marks |-> blocks_found])

(* Without waiting for the minute timer the blocks marked are the blocks    *)
(* listed, also when an older /stats answer lands after a newer one; a      *)
(* snapshot taken between the count and the list of a block, or a failed    *)
(* fetch, is made good by the timer only.                                   *)
MarksPrompt ==
  ~torn /\ failed = 0 /\ charts = EmptyBag /\ ~collapsed => drawn_chart.marks = foundBlocks

(* The price to compare with is one of the pair selected, so a change of    *)
(* currency is never shown as a move, whatever was in flight.               *)
PriceOfPair == lastBtcPrice \in {Blank, pair}

(* With nothing in flight the paused notice tells the server's state, but   *)
(* for a read that was out while a save landed, or an answer that was lost. *)
PillHonest ==
  ~raced /\ reads = EmptyBag /\ saves = EmptyBag => pill = ~address_valid

(* The light goes out within a tick of the limit also when no refresh ever  *)
(* ends, and it is never on before the first answer.                        *)
LightHonest == light => sinceOk <= LedLimit
=============================================================================
