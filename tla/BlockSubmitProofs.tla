------------------------- MODULE BlockSubmitProofs -------------------------
(***************************************************************************)
(* Theorems about found blocks, for any number of blocks, of concurrent    *)
(* submissions of one block, of inline attempts and of stops, and whether  *)
(* or not the node answers with error objects.                             *)
(***************************************************************************)
EXTENDS BlockSubmit, TLAPS

USE DEF Drivers

(* A driver's program counter after Goto. *)
LEMMA GotoType ==
  ASSUME pc \in [Drivers -> [Blocks -> PCs]], NEW d \in Drivers,
         NEW b \in Blocks, NEW l \in PCs, Goto(d, b, l)
  PROVE  /\ pc' \in [Drivers -> [Blocks -> PCs]]
         /\ \A e \in Drivers, c \in Blocks :
              pc'[e][c] = IF e = d /\ c = b THEN l ELSE pc[e][c]
  BY DEF Goto

-----------------------------------------------------------------------------
(* Type correctness. *)

LEMMA TypeInit == Init => TypeOK
<1>. SUFFICES ASSUME Init PROVE TypeOK
  OBVIOUS
<1>1. stops \in 0..MaxStops /\ tries \in [Finds -> [Blocks -> 0..Attempts]]
  BY AttemptsAssumption, StopsAssumption DEF Init
<1>2. pc \in [Drivers -> [Blocks -> PCs]]
  BY DEF Init, PCs
<1>3. /\ writer \in [Finds -> [Blocks -> {"none", "todo", "open"}]]
      /\ top \in [Blocks -> {"none", "torn", "full"}]
      /\ hex \in [Blocks -> {"torn", "full"}]
      /\ counted \in [Blocks -> Nat]
  BY DEF Init
<1>. QED
  BY <1>1, <1>2, <1>3 DEF Init, TypeOK

LEMMA TypeNext == TypeOK /\ [Next]_vars => TypeOK'
<1>. SUFFICES ASSUME TypeOK, [Next]_vars
              PROVE  TypeOK'
  OBVIOUS
<1>. USE DEF life, files, tasks, stats
<1>0. PCs = {"idle", "try", "bg", "check", "close", "insert", "done",
             "refused", "gaveup", "queued", "filesub", "filerej"}
  BY DEF PCs
<1>1. CASE UNCHANGED vars
  BY <1>1 DEF TypeOK, vars
<1>2. ASSUME NEW f \in Finds, NEW b \in Blocks, Find(f, b) PROVE TypeOK'
  <2>1. pc' \in [Drivers -> [Blocks -> PCs]]
    BY <1>0, <1>2, GotoType DEF TypeOK, Find
  <2>2. tries' \in [Finds -> [Blocks -> 0..Attempts]]
    BY <1>2, AttemptsAssumption DEF TypeOK, Find
  <2>. QED
    BY <1>2, <2>1, <2>2 DEF TypeOK, Find
<1>3. ASSUME NEW f \in Finds, NEW b \in Blocks, InlineAttempt(f, b) PROVE TypeOK'
  <2>1. pc' \in [Drivers -> [Blocks -> PCs]]
    BY <1>0, <1>3, GotoType DEF TypeOK, InlineAttempt, attempts_left
  <2>2. tries' \in [Finds -> [Blocks -> 0..Attempts]]
    <3>1. CASE UNCHANGED tries
      BY <3>1 DEF TypeOK
    <3>2. CASE /\ tries[f][b] < Attempts
               /\ tries' = [tries EXCEPT ![f][b] = @ + 1]
      <4>1. tries[f][b] + 1 \in 0..Attempts
        BY <3>2, AttemptsAssumption DEF TypeOK
      <4>. QED
        BY <3>2, <4>1 DEF TypeOK
    <3>. QED
      BY <1>3, <3>1, <3>2 DEF InlineAttempt, attempts_left
  <2>3. accepted' \subseteq Blocks /\ movers' \subseteq Drivers \X Blocks
    BY <1>3 DEF TypeOK, InlineAttempt, NodeTakes
  <2>. QED
    BY <1>3, <2>1, <2>2, <2>3 DEF TypeOK, InlineAttempt, attempts_left
<1>4. ASSUME NEW d \in Drivers, NEW b \in Blocks, RetryAttempt(d, b) PROVE TypeOK'
  <2>1. pc' \in [Drivers -> [Blocks -> PCs]]
    BY <1>0, <1>4, GotoType DEF TypeOK, RetryAttempt
  <2>2. accepted' \subseteq Blocks /\ movers' \subseteq Drivers \X Blocks
    BY <1>4 DEF TypeOK, RetryAttempt, NodeTakes
  <2>. QED
    BY <1>4, <2>1, <2>2 DEF TypeOK, RetryAttempt
<1>5. ASSUME NEW d \in Drivers, NEW b \in Blocks, GiveUp(d, b) PROVE TypeOK'
  BY <1>0, <1>5, GotoType DEF TypeOK, GiveUp
<1>6. ASSUME NEW f \in Finds, NEW b \in Blocks, CreditCheck(f, b) PROVE TypeOK'
  <2>1. pc' \in [Drivers -> [Blocks -> PCs]]
    BY <1>0, <1>6, GotoType DEF TypeOK, CreditCheck
  <2>. QED
    BY <1>6, <2>1 DEF TypeOK, CreditCheck
<1>7. ASSUME NEW f \in Finds, NEW b \in Blocks, CloseRound(f, b) PROVE TypeOK'
  <2>1. pc' \in [Drivers -> [Blocks -> PCs]]
    BY <1>0, <1>7, GotoType DEF TypeOK, CloseRound
  <2>. QED
    BY <1>7, <2>1 DEF TypeOK, CloseRound
<1>8. ASSUME NEW f \in Finds, NEW b \in Blocks, InsertRow(f, b) PROVE TypeOK'
  <2>1. pc' \in [Drivers -> [Blocks -> PCs]]
    BY <1>0, <1>8, GotoType DEF TypeOK, InsertRow
  <2>. QED
    BY <1>8, <2>1 DEF TypeOK, InsertRow
<1>9. ASSUME NEW f \in Finds, NEW b \in Blocks, ArchiveOpen(f, b) PROVE TypeOK'
  BY <1>9 DEF TypeOK, ArchiveOpen
<1>10. ASSUME NEW f \in Finds, NEW b \in Blocks, ArchiveWrite(f, b) PROVE TypeOK'
  BY <1>10 DEF TypeOK, ArchiveWrite
<1>11. ASSUME NEW f \in Finds, NEW b \in Blocks, ArchiveFails(f, b) PROVE TypeOK'
  BY <1>11 DEF TypeOK, ArchiveFails
<1>12. ASSUME NEW b \in Blocks, NEW k \in {"submitted", "rejected"},
              FileUnder(b, k)
       PROVE  /\ top' \in [Blocks -> {"none", "torn", "full"}]
              /\ submitted' \subseteq Blocks /\ rejected' \subseteq Blocks
              /\ writer' \in [Finds -> [Blocks -> {"none", "todo", "open"}]]
  <2>1. CASE UNCHANGED <<files, writer>>
    BY <2>1 DEF TypeOK
  <2>2. CASE ~UNCHANGED <<files, writer>>
    <3>1. /\ top' = [top EXCEPT ![b] = "none"]
          /\ submitted' \subseteq Blocks /\ rejected' \subseteq Blocks
      BY <1>12, <2>2 DEF TypeOK, FileUnder
    <3>2. writer' = [f \in Finds |-> [writer[f] EXCEPT ![b] =
                        IF @ = "open" THEN "none" ELSE @]]
      BY <1>12, <2>2 DEF FileUnder
    <3>3. writer' \in [Finds -> [Blocks -> {"none", "todo", "open"}]]
      BY <3>2 DEF TypeOK
    <3>. QED
      BY <3>1, <3>3 DEF TypeOK
  <2>. QED
    BY <2>1, <2>2
<1>13. ASSUME NEW d \in Drivers, NEW b \in Blocks, MarkSubmitted(d, b)
       PROVE  TypeOK'
  BY <1>12, <1>13 DEF TypeOK, MarkSubmitted
<1>14. CASE ReplayList
  BY <1>0, <1>14 DEF TypeOK, ReplayList
<1>15. ASSUME NEW b \in Blocks, ReplayRead(b) PROVE TypeOK'
  <2>1. pc' \in [Drivers -> [Blocks -> PCs]]
    BY <1>0, <1>15, GotoType DEF TypeOK, ReplayRead
  <2>. QED
    BY <1>15, <2>1 DEF TypeOK, ReplayRead
<1>16. ASSUME NEW b \in Blocks, ReplayAttempt(b) PROVE TypeOK'
  <2>1. pc' \in [Drivers -> [Blocks -> PCs]]
    BY <1>0, <1>16, GotoType DEF TypeOK, ReplayAttempt
  <2>2. accepted' \subseteq Blocks
    BY <1>16 DEF TypeOK, ReplayAttempt, NodeTakes
  <2>. QED
    BY <1>16, <2>1, <2>2 DEF TypeOK, ReplayAttempt
<1>17. ASSUME NEW b \in Blocks, ReplayFile(b) PROVE TypeOK'
  <2>1. pc' \in [Drivers -> [Blocks -> PCs]]
    BY <1>0, <1>17, GotoType DEF TypeOK, ReplayFile
  <2>. QED
    BY <1>12, <1>17, <2>1 DEF TypeOK, ReplayFile
<1>18. CASE Stop
  <2>1. pc' \in [Drivers -> [Blocks -> PCs]]
    BY <1>0, <1>18 DEF Stop
  <2>2. /\ stops' \in 0..MaxStops
        /\ tries' \in [Finds -> [Blocks -> 0..Attempts]]
    BY <1>18, AttemptsAssumption, StopsAssumption DEF TypeOK, Stop
  <2>. QED
    BY <1>18, <2>1, <2>2 DEF TypeOK, Stop
<1>19. CASE Boot
  BY <1>19 DEF TypeOK, Boot
<1>. QED
  BY <1>1, <1>2, <1>3, <1>4, <1>5, <1>6, <1>7, <1>8, <1>9, <1>10, <1>11,
     <1>13, <1>14, <1>15, <1>16, <1>17, <1>18, <1>19
  DEF Next, Step, Archive, ReplayStep

(* Every variable keeps its type; in particular an inline submission never  *)
(* makes more than SUBMIT_INLINE_ATTEMPTS attempts.                         *)
THEOREM TypeCorrect == Spec => []TypeOK
  BY TypeInit, TypeNext, PTL DEF Spec

-----------------------------------------------------------------------------
(* Confirmation.                                                            *)

(* Everything that claims the node has a block is right: a pending mover, a *)
(* driver on its way to credit or to file the block, a count, a row, a file *)
(* in submitted/.                                                           *)
Confirmed ==
  /\ \A d \in Drivers, b \in Blocks : <<d, b>> \in movers => b \in accepted
  /\ \A d \in Drivers, b \in Blocks :
       pc[d][b] \in {"check", "close", "insert", "filesub"} => b \in accepted
  /\ \A b \in Blocks : counted[b] > 0 => b \in accepted
  /\ recorded \subseteq accepted
  /\ submitted \subseteq accepted

(* The node never gives a block back. *)
LEMMA AcceptedGrows == [Next]_vars => accepted \subseteq accepted'
<1>. SUFFICES ASSUME [Next]_vars, accepted' # accepted
              PROVE  accepted \subseteq accepted'
  OBVIOUS
<1>. USE DEF life, files, tasks, stats
<1>1. ASSUME NEW b, NEW r, NodeTakes(b, r) PROVE accepted \subseteq accepted'
  BY <1>1 DEF NodeTakes
<1>2. ASSUME NEW f \in Finds, NEW b \in Blocks,
             Find(f, b) \/ Step(f, b) \/ Archive(f, b)
      PROVE  accepted \subseteq accepted'
  <2>1. InlineAttempt(f, b)
    BY <1>2 DEF Find, Step, Archive, CreditCheck, CloseRound, InsertRow,
                ArchiveOpen, ArchiveWrite, ArchiveFails
  <2>. QED
    BY <1>1, <2>1 DEF InlineAttempt
<1>3. ASSUME NEW d \in Drivers, NEW b \in Blocks,
             RetryAttempt(d, b) \/ GiveUp(d, b) \/ MarkSubmitted(d, b)
      PROVE  accepted \subseteq accepted'
  <2>1. RetryAttempt(d, b)
    BY <1>3 DEF GiveUp, MarkSubmitted
  <2>. QED
    BY <1>1, <2>1 DEF RetryAttempt
<1>4. ASSUME NEW b \in Blocks, ReplayStep(b) PROVE accepted \subseteq accepted'
  <2>1. ReplayAttempt(b)
    BY <1>4 DEF ReplayStep, ReplayRead, ReplayFile
  <2>. QED
    BY <1>1, <2>1 DEF ReplayAttempt
<1>5. ~(ReplayList \/ Stop \/ Boot \/ UNCHANGED vars)
  BY DEF ReplayList, Stop, Boot, vars
<1>. QED
  BY <1>2, <1>3, <1>4, <1>5 DEF Next

LEMMA ConfirmedNext == TypeOK /\ Confirmed /\ [Next]_vars => Confirmed'
<1>. SUFFICES ASSUME TypeOK, Confirmed, [Next]_vars
              PROVE  Confirmed'
  OBVIOUS
<1>. USE DEF life, files, tasks, stats
<1>0. /\ PCs = {"idle", "try", "bg", "check", "close", "insert", "done",
                "refused", "gaveup", "queued", "filesub", "filerej"}
      /\ accepted \subseteq accepted'
  BY AcceptedGrows DEF PCs
<1>00. pc \in [Drivers -> [Blocks -> PCs]]
  BY DEF TypeOK
<1>1. CASE UNCHANGED <<accepted, movers, pc, counted, recorded, submitted>>
  BY <1>1 DEF Confirmed
<1>2. ASSUME NEW d \in Drivers, NEW b \in Blocks, NEW l \in PCs, Goto(d, b, l),
             l \in {"check", "close", "insert", "filesub"} => b \in accepted',
             movers' \in {movers, movers \cup {<<d, b>>}},
             <<d, b>> \in movers' => b \in accepted',
             UNCHANGED <<counted, recorded, submitted>>
      PROVE  Confirmed'
  <2>1. \A e \in Drivers, c \in Blocks :
          pc'[e][c] = IF e = d /\ c = b THEN l ELSE pc[e][c]
    BY <1>00, <1>2, GotoType
  <2>. QED
    BY <1>0, <1>2, <2>1 DEF Confirmed
<1>3. ASSUME NEW f \in Finds, NEW b \in Blocks, Find(f, b) PROVE Confirmed'
  BY <1>0, <1>2, <1>3 DEF Find, Confirmed
<1>4. ASSUME NEW f \in Finds, NEW b \in Blocks, InlineAttempt(f, b)
      PROVE  Confirmed'
  <2>1. PICK r \in Replies(b, "full") :
          /\ NodeTakes(b, r)
          /\ \/ r = "ok" /\ movers' = movers \cup {<<f, b>>} /\ Goto(f, b, "check")
             \/ Goto(f, b, "refused") /\ UNCHANGED movers
             \/ UNCHANGED <<movers, pc>>
             \/ Goto(f, b, "bg") /\ UNCHANGED movers
    BY <1>4 DEF InlineAttempt
  <2>2. UNCHANGED <<counted, recorded, submitted>>
    BY <1>4 DEF InlineAttempt
  <2>3. CASE r = "ok" /\ movers' = movers \cup {<<f, b>>} /\ Goto(f, b, "check")
    <3>1. b \in accepted'
      BY <2>1, <2>3 DEF NodeTakes
    <3>. QED
      BY <1>0, <1>2, <2>2, <2>3, <3>1
  <2>4. CASE (Goto(f, b, "refused") \/ Goto(f, b, "bg")) /\ UNCHANGED movers
    <3>1. <<f, b>> \in movers' => b \in accepted'
      BY <1>0, <2>4 DEF Confirmed
    <3>. QED
      BY <1>0, <1>2, <2>2, <2>4, <3>1
  <2>5. CASE UNCHANGED <<movers, pc>>
    BY <1>0, <2>2, <2>5 DEF Confirmed
  <2>. QED
    BY <2>1, <2>3, <2>4, <2>5
<1>5. ASSUME NEW d \in Drivers, NEW b \in Blocks, RetryAttempt(d, b)
      PROVE  Confirmed'
  <2>1. PICK r : 
          /\ NodeTakes(b, r)
          /\ \/ /\ r = "ok" /\ movers' = movers \cup {<<d, b>>}
                /\ Goto(d, b, IF d = Replay THEN "done" ELSE "check")
             \/ Goto(d, b, "refused") /\ UNCHANGED movers
             \/ UNCHANGED <<movers, pc>>
    BY <1>5 DEF RetryAttempt
  <2>2. UNCHANGED <<counted, recorded, submitted>>
    BY <1>5 DEF RetryAttempt
  <2>3. CASE /\ r = "ok" /\ movers' = movers \cup {<<d, b>>}
             /\ Goto(d, b, IF d = Replay THEN "done" ELSE "check")
    <3>1. b \in accepted'
      BY <2>1, <2>3 DEF NodeTakes
    <3>. DEFINE l == IF d = Replay THEN "done" ELSE "check"
    <3>2. l \in PCs /\ Goto(d, b, l)
      BY <1>0, <2>3
    <3>. HIDE DEF l
    <3>. QED
      BY <1>0, <1>2, <2>2, <2>3, <3>1, <3>2
  <2>4. CASE Goto(d, b, "refused") /\ UNCHANGED movers
    <3>1. <<d, b>> \in movers' => b \in accepted'
      BY <1>0, <2>4 DEF Confirmed
    <3>. QED
      BY <1>0, <1>2, <2>2, <2>4, <3>1
  <2>5. CASE UNCHANGED <<movers, pc>>
    BY <1>0, <2>2, <2>5 DEF Confirmed
  <2>. QED
    BY <2>1, <2>3, <2>4, <2>5
<1>6. ASSUME NEW d \in Drivers, NEW b \in Blocks, GiveUp(d, b) PROVE Confirmed'
  BY <1>0, <1>2, <1>6 DEF GiveUp, Confirmed
<1>7. ASSUME NEW f \in Finds, NEW b \in Blocks, CreditCheck(f, b)
      PROVE  Confirmed'
  <2>. DEFINE l == IF counted[b] > 0 THEN "done" ELSE "close"
  <2>1. /\ l \in PCs /\ Goto(f, b, l) /\ b \in accepted'
        /\ UNCHANGED <<movers, counted, recorded, submitted>>
    BY <1>0, <1>7 DEF CreditCheck, Confirmed
  <2>. HIDE DEF l
  <2>. QED
    BY <1>0, <1>2, <2>1
<1>8. ASSUME NEW f \in Finds, NEW b \in Blocks,
             CloseRound(f, b) \/ InsertRow(f, b)
      PROVE  Confirmed'
  <2>1. /\ b \in accepted
        /\ Goto(f, b, "insert") \/ Goto(f, b, "done")
        /\ UNCHANGED <<accepted, movers, submitted>>
    BY <1>0, <1>8 DEF CloseRound, InsertRow, Confirmed
  <2>2. \A e \in Drivers, c \in Blocks : pc'[e][c] # pc[e][c] => c = b
    BY <1>0, <1>00, <2>1, GotoType
  <2>3. \A c \in Blocks : counted'[c] # counted[c] => c = b
    BY <1>8 DEF CloseRound, InsertRow, TypeOK
  <2>4. recorded' \subseteq accepted
    BY <1>8, <2>1 DEF CloseRound, InsertRow, Confirmed
  <2>. QED
    BY <2>1, <2>2, <2>3, <2>4 DEF Confirmed
<1>9. ASSUME NEW f \in Finds, NEW b \in Blocks, Archive(f, b) PROVE Confirmed'
  BY <1>1, <1>9 DEF Archive, ArchiveOpen, ArchiveWrite, ArchiveFails
<1>10. ASSUME NEW d \in Drivers, NEW b \in Blocks, MarkSubmitted(d, b)
       PROVE  Confirmed'
  <2>1. b \in accepted /\ movers' \subseteq movers
        /\ UNCHANGED <<accepted, pc, counted, recorded>>
    BY <1>10 DEF MarkSubmitted, Confirmed
  <2>2. submitted' \subseteq submitted \cup {b}
    BY <1>10 DEF MarkSubmitted, FileUnder
  <2>. QED
    BY <2>1, <2>2 DEF Confirmed
<1>11. CASE ReplayList
  <2>1. \A c \in Blocks : pc'[Replay][c] \in {"queued", "idle"}
    BY <1>00, <1>11 DEF ReplayList
  <2>2. \A e \in Drivers \ {Replay} : pc'[e] = pc[e]
    BY <1>00, <1>11 DEF ReplayList
  <2>3. UNCHANGED <<accepted, movers, counted, recorded, submitted>>
    BY <1>11 DEF ReplayList
  <2>. QED
    BY <2>1, <2>2, <2>3 DEF Confirmed
<1>12. ASSUME NEW b \in Blocks, ReplayRead(b) PROVE Confirmed'
  <2>1. /\ Goto(Replay, b, "done") \/ Goto(Replay, b, "try")
        /\ UNCHANGED <<accepted, movers, counted, recorded, submitted>>
    BY <1>12 DEF ReplayRead
  <2>. QED
    BY <1>0, <1>2, <2>1 DEF Confirmed
<1>13. ASSUME NEW b \in Blocks, ReplayAttempt(b) PROVE Confirmed'
  <2>1. /\ \/ Goto(Replay, b, "filesub") /\ b \in accepted'
           \/ Goto(Replay, b, "filerej")
           \/ Goto(Replay, b, "bg")
        /\ UNCHANGED <<movers, counted, recorded, submitted>>
    BY <1>13 DEF ReplayAttempt, NodeTakes
  <2>2. <<Replay, b>> \in movers' => b \in accepted'
    BY <1>0, <2>1 DEF Confirmed
  <2>. QED
    BY <1>0, <1>2, <2>1, <2>2
<1>14. ASSUME NEW b \in Blocks, ReplayFile(b) PROVE Confirmed'
  <2>1. Goto(Replay, b, "done") /\ UNCHANGED <<accepted, movers, counted, recorded>>
    BY <1>14 DEF ReplayFile
  <2>2. submitted' \subseteq accepted
    <3>1. CASE pc[Replay][b] = "filesub" /\ FileUnder(b, "submitted")
      <4>1. b \in accepted
        BY <3>1 DEF Confirmed
      <4>. QED
        BY <3>1, <4>1 DEF FileUnder, Confirmed
    <3>2. CASE FileUnder(b, "rejected")
      BY <3>2 DEF FileUnder, Confirmed
    <3>. QED
      BY <1>14, <3>1, <3>2 DEF ReplayFile
  <2>3. \A e \in Drivers, c \in Blocks : pc'[e][c] \in {pc[e][c], "done"}
    BY <1>00, <2>1 DEF Goto
  <2>. QED
    BY <2>1, <2>2, <2>3 DEF Confirmed
<1>15. CASE Stop
  <2>1. \A e \in Drivers, c \in Blocks : pc'[e][c] \in {"idle", "done"}
    BY <1>15 DEF Stop
  <2>. QED
    BY <1>15, <2>1 DEF Stop, Confirmed
<1>16. CASE Boot
  BY <1>16 DEF Boot, Confirmed
<1>17. CASE UNCHANGED vars
  BY <1>1, <1>17 DEF vars
<1>. QED
  BY <1>3, <1>4, <1>5, <1>6, <1>7, <1>8, <1>9, <1>10, <1>11, <1>12, <1>13,
     <1>14, <1>15, <1>16, <1>17
  DEF Next, Step, ReplayStep

(* Nothing claims a block the node does not have: no count on the           *)
(* dashboard, no row, no file in submitted/, at any point of any run.       *)
THEOREM ClaimsAreConfirmed == Spec => []Confirmed
<1>1. Init => Confirmed
  BY DEF Init, Confirmed
<1>. QED
  BY <1>1, ConfirmedNext, TypeCorrect, PTL DEF Spec

-----------------------------------------------------------------------------
(* Refinement. *)

(* A step of the detailed specification that keeps Confirmed is a step of   *)
(* BlockFate or leaves its variables alone.                                 *)
LEMMA FateNext ==
  TypeOK /\ Confirmed /\ [Next]_vars => [Fate!Next]_(Fate!fateVars)
<1>. SUFFICES ASSUME TypeOK, Confirmed, [Next]_vars,
                     ~UNCHANGED <<accepted, recorded, submitted>>
              PROVE  Fate!Next
  BY DEF Fate!fateVars
<1>. USE DEF life, files, tasks, stats
<1>1. ASSUME NEW b \in Blocks, NEW r, NodeTakes(b, r),
             UNCHANGED <<recorded, submitted>>
      PROVE  Fate!Next
  BY <1>1 DEF NodeTakes, Fate!Next, Fate!Accept
<1>2. ASSUME NEW f \in Finds, NEW b \in Blocks,
             Find(f, b) \/ Step(f, b) \/ Archive(f, b)
      PROVE  Fate!Next
  <2>1. InlineAttempt(f, b) \/ InsertRow(f, b)
    BY <1>2 DEF Find, Step, Archive, CreditCheck, CloseRound, ArchiveOpen,
                ArchiveWrite, ArchiveFails
  <2>2. CASE InlineAttempt(f, b)
    BY <1>1, <2>2 DEF InlineAttempt
  <2>3. CASE InsertRow(f, b)
    <3>1. b \in accepted /\ UNCHANGED <<accepted, submitted>>
      BY <2>3 DEF InsertRow, Confirmed
    <3>2. recorded' = recorded \cup {b}
      BY <2>3, <3>1 DEF InsertRow
    <3>. QED
      BY <3>1, <3>2 DEF Fate!Next, Fate!Record
  <2>. QED
    BY <2>1, <2>2, <2>3
<1>3. ASSUME NEW b \in accepted, FileUnder(b, "submitted"),
             UNCHANGED <<accepted, recorded>>
      PROVE  Fate!Next
  <2>1. submitted' = submitted \cup {b}
    BY <1>3 DEF FileUnder
  <2>2. b \in Blocks
    BY DEF TypeOK
  <2>. QED
    BY <1>3, <2>1, <2>2 DEF Fate!Next, Fate!FileAway
<1>4. ASSUME NEW d \in Drivers, NEW b \in Blocks,
             RetryAttempt(d, b) \/ GiveUp(d, b) \/ MarkSubmitted(d, b)
      PROVE  Fate!Next
  <2>1. RetryAttempt(d, b) \/ MarkSubmitted(d, b)
    BY <1>4 DEF GiveUp
  <2>2. CASE RetryAttempt(d, b)
    BY <1>1, <2>2 DEF RetryAttempt
  <2>3. CASE MarkSubmitted(d, b)
    BY <1>3, <2>3 DEF MarkSubmitted, Confirmed
  <2>. QED
    BY <2>1, <2>2, <2>3
<1>5. ASSUME NEW b \in Blocks, ReplayStep(b) PROVE Fate!Next
  <2>1. ReplayAttempt(b) \/ ReplayFile(b)
    BY <1>5 DEF ReplayStep, ReplayRead
  <2>2. CASE ReplayAttempt(b)
    BY <1>1, <2>2 DEF ReplayAttempt
  <2>3. CASE ReplayFile(b)
    <3>1. UNCHANGED <<accepted, recorded>>
      BY <2>3 DEF ReplayFile
    <3>2. pc[Replay][b] = "filesub" /\ FileUnder(b, "submitted")
      BY <2>3, <3>1 DEF ReplayFile, FileUnder
    <3>3. b \in accepted
      BY <3>2 DEF Confirmed
    <3>. QED
      BY <1>3, <3>1, <3>2, <3>3
  <2>. QED
    BY <2>1, <2>2, <2>3
<1>6. ~(ReplayList \/ Stop \/ Boot \/ UNCHANGED vars)
  BY DEF ReplayList, Stop, Boot, vars
<1>. QED
  BY <1>2, <1>4, <1>5, <1>6 DEF Next

(* Found blocks keep the promise of BlockFate in every run: whatever fails, *)
(* whatever reply is lost, wherever the process stops, and even while the   *)
(* node answers with error objects, a row and a file in submitted/ follow   *)
(* the node's acceptance and none of the three is undone.                   *)
THEOREM PromiseKept == Spec => KeepsPromise
<1>1. Init => Fate!Init
  BY DEF Init, Fate!Init
<1>. QED
  BY <1>1, FateNext, TypeCorrect, ClaimsAreConfirmed, PTL
  DEF Spec, KeepsPromise, Fate!Spec

-----------------------------------------------------------------------------
(* The only copy.                                                           *)

(* The replay is about to file a good block under rejected/ only if what it *)
(* read was a half-written file.                                            *)
RejectedWasTorn ==
  \A b \in good : b \in Blocks /\ pc[Replay][b] = "filerej" => hex[b] = "torn"

LEMMA RejectedNext ==
  ASSUME ~NodeErrors
  PROVE  TypeOK /\ RejectedWasTorn /\ [Next]_vars => RejectedWasTorn'
<1>. SUFFICES ASSUME TypeOK, RejectedWasTorn, [Next]_vars
              PROVE  RejectedWasTorn'
  OBVIOUS
<1>. USE DEF life, files, tasks, stats
<1>1. pc \in [Drivers -> [Blocks -> PCs]] /\ hex \in [Blocks -> {"torn", "full"}]
  BY DEF TypeOK
<1>2. UNCHANGED good
  <2>1. \A f \in Finds, b \in Blocks :
          Find(f, b) \/ Step(f, b) \/ Archive(f, b) => UNCHANGED good
    BY DEF Find, Step, Archive, InlineAttempt, CreditCheck, CloseRound,
           InsertRow, ArchiveOpen, ArchiveWrite, ArchiveFails
  <2>2. \A d \in Drivers, b \in Blocks :
          RetryAttempt(d, b) \/ GiveUp(d, b) \/ MarkSubmitted(d, b)
            => UNCHANGED good
    BY DEF RetryAttempt, GiveUp, MarkSubmitted
  <2>3. \A b \in Blocks : ReplayStep(b) => UNCHANGED good
    BY DEF ReplayStep, ReplayRead, ReplayAttempt, ReplayFile
  <2>4. ReplayList \/ Stop \/ Boot \/ UNCHANGED vars => UNCHANGED good
    BY DEF ReplayList, Stop, Boot, vars
  <2>. QED
    BY <2>1, <2>2, <2>3, <2>4 DEF Next
<1>3. ASSUME UNCHANGED hex,
             \A b \in Blocks : pc'[Replay][b] = "filerej"
                                 => pc[Replay][b] = "filerej"
      PROVE  RejectedWasTorn'
  BY <1>2, <1>3 DEF RejectedWasTorn
<1>4. ASSUME NEW f \in Finds, NEW b \in Blocks,
             Find(f, b) \/ Step(f, b) \/ Archive(f, b)
      PROVE  RejectedWasTorn'
  <2>1. UNCHANGED hex
    BY <1>4 DEF Find, Step, Archive, InlineAttempt, CreditCheck, CloseRound,
                InsertRow, ArchiveOpen, ArchiveWrite, ArchiveFails
  <2>2. UNCHANGED pc \/ \E l : Goto(f, b, l)
    BY <1>4 DEF Find, Step, Archive, InlineAttempt, CreditCheck, CloseRound,
                InsertRow, ArchiveOpen, ArchiveWrite, ArchiveFails
  <2>3. pc'[Replay] = pc[Replay]
    BY <1>1, <2>2, ReplayAssumption DEF Goto
  <2>. QED
    BY <1>3, <2>1, <2>3
<1>5. ASSUME NEW d \in Drivers, NEW b \in Blocks, NEW l, Goto(d, b, l),
             l # "filerej", UNCHANGED hex
      PROVE  RejectedWasTorn'
  <2>1. \A c \in Blocks : pc'[Replay][c] \in {pc[Replay][c], l}
    BY <1>1, <1>5 DEF Goto
  <2>. QED
    BY <1>3, <1>5, <2>1
<1>6. ASSUME NEW d \in Drivers, NEW b \in Blocks,
             RetryAttempt(d, b) \/ GiveUp(d, b) \/ MarkSubmitted(d, b)
      PROVE  RejectedWasTorn'
  <2>1. UNCHANGED hex
    BY <1>6 DEF RetryAttempt, GiveUp, MarkSubmitted
  <2>2. UNCHANGED pc \/ \E l : l # "filerej" /\ Goto(d, b, l)
    <3>1. CASE RetryAttempt(d, b)
      <4>. DEFINE l == IF d = Replay THEN "done" ELSE "check"
      <4>1. l # "filerej"
        OBVIOUS
      <4>2. UNCHANGED pc \/ Goto(d, b, l) \/ Goto(d, b, "refused")
        BY <3>1 DEF RetryAttempt
      <4>. HIDE DEF l
      <4>. QED
        BY <4>1, <4>2
    <3>. QED
      BY <1>6, <3>1 DEF GiveUp, MarkSubmitted
  <2>. QED
    BY <1>3, <1>5, <2>1, <2>2
<1>7. CASE ReplayList
  <2>1. \A c \in Blocks : pc'[Replay][c] \in {"queued", "idle"}
    BY <1>1, <1>7 DEF ReplayList
  <2>. QED
    BY <1>3, <1>7, <2>1 DEF ReplayList
<1>8. ASSUME NEW b \in Blocks, ReplayRead(b) PROVE RejectedWasTorn'
  <2>1. \A c \in Blocks : c # b => hex'[c] = hex[c] /\ pc'[Replay][c] = pc[Replay][c]
    BY <1>1, <1>8 DEF ReplayRead, Goto
  <2>2. pc'[Replay][b] \in {"done", "try"}
    BY <1>1, <1>8 DEF ReplayRead, Goto
  <2>. QED
    BY <1>2, <2>1, <2>2 DEF RejectedWasTorn
<1>9. ASSUME NEW b \in Blocks, ReplayAttempt(b) PROVE RejectedWasTorn'
  <2>1. PICK r \in Replies(b, hex[b]) :
          \/ Goto(Replay, b, "filesub")
          \/ /\ is_permanent_reject(r) \/ is_node_side_error(r)
             /\ Goto(Replay, b, "filerej")
          \/ Goto(Replay, b, "bg")
    BY <1>9 DEF ReplayAttempt
  <2>2. UNCHANGED hex
    BY <1>9 DEF ReplayAttempt
  <2>3. CASE Goto(Replay, b, "filesub") \/ Goto(Replay, b, "bg")
    BY <1>5, <2>2, <2>3
  <2>4. CASE /\ is_permanent_reject(r) \/ is_node_side_error(r)
             /\ Goto(Replay, b, "filerej")
    <3>1. b \in good => hex[b] = "torn"
      BY <2>4, ~NodeErrors DEF Replies, is_permanent_reject, is_node_side_error
    <3>2. \A c \in Blocks \ {b} : pc'[Replay][c] = pc[Replay][c]
      BY <1>1, <2>4 DEF Goto
    <3>. QED
      BY <1>2, <2>2, <3>1, <3>2 DEF RejectedWasTorn
  <2>. QED
    BY <2>1, <2>3, <2>4
<1>10. ASSUME NEW b \in Blocks, ReplayFile(b) PROVE RejectedWasTorn'
  BY <1>5, <1>10 DEF ReplayFile
<1>11. CASE Stop
  <2>1. \A c \in Blocks : pc'[Replay][c] \in {"done", "idle"}
    BY <1>11 DEF Stop
  <2>. QED
    BY <2>1 DEF RejectedWasTorn
<1>12. CASE Boot \/ UNCHANGED vars
  BY <1>3, <1>12 DEF Boot, vars
<1>. QED
  BY <1>4, <1>6, <1>7, <1>8, <1>9, <1>10, <1>11, <1>12 DEF Next, ReplayStep

(* Only a mover or the replay takes a top-level archive file away; writing  *)
(* never does.                                                              *)
LEMMA OnlyFilingEmpties ==
  ASSUME TypeOK, [Next]_vars, NEW b \in Blocks, top[b] = "full", top'[b] = "none"
  PROVE  \/ \E d \in Drivers : <<d, b>> \in movers
         \/ pc[Replay][b] \in {"filesub", "filerej"}
<1>. USE DEF life, files, tasks, stats
<1>0. top \in [Blocks -> {"none", "torn", "full"}]
  BY DEF TypeOK
<1>1. ASSUME NEW c \in Blocks, NEW k, FileUnder(c, k) PROVE c = b
  BY <1>0, <1>1 DEF FileUnder
<1>2. ASSUME NEW f \in Finds, NEW c \in Blocks PROVE ~Archive(f, c)
  BY <1>0 DEF Archive, ArchiveOpen, ArchiveWrite, ArchiveFails
<1>3. top' # top
  OBVIOUS
<1>4. ASSUME NEW f \in Finds, NEW c \in Blocks PROVE ~(Find(f, c) \/ Step(f, c))
  BY <1>3 DEF Find, Step, InlineAttempt, CreditCheck, CloseRound, InsertRow
<1>5. ASSUME NEW d \in Drivers, NEW c \in Blocks,
             RetryAttempt(d, c) \/ GiveUp(d, c) \/ MarkSubmitted(d, c)
      PROVE  <<d, b>> \in movers
  <2>1. MarkSubmitted(d, c)
    BY <1>3, <1>5 DEF RetryAttempt, GiveUp
  <2>. QED
    BY <1>1, <2>1 DEF MarkSubmitted
<1>6. ASSUME NEW c \in Blocks, ReplayStep(c)
      PROVE  pc[Replay][b] \in {"filesub", "filerej"}
  <2>1. ReplayFile(c)
    BY <1>3, <1>6 DEF ReplayStep, ReplayRead, ReplayAttempt
  <2>. QED
    BY <1>1, <2>1 DEF ReplayFile
<1>7. ~(ReplayList \/ Stop \/ Boot \/ UNCHANGED vars)
  BY <1>3 DEF ReplayList, Stop, Boot, vars
<1>. QED
  BY <1>2, <1>4, <1>5, <1>6, <1>7 DEF Next

(* While the node does not answer good blocks with error objects, neither a *)
(* mover nor the replay ever takes away the only copy of a good block.      *)
THEOREM OnlyCopyIsKept ==
  ASSUME ~NodeErrors
  PROVE  Spec => KeepsOnlyCopy
<1>. DEFINE Kept == \A b \in good \ accepted :
                      (top[b] = "full" /\ hex[b] = "full") => top'[b] # "none"
<1>1. Init => RejectedWasTorn
  BY DEF Init, RejectedWasTorn
<1>2. TypeOK /\ Confirmed /\ RejectedWasTorn /\ [Next]_vars => [Kept]_vars
  <2>. SUFFICES ASSUME TypeOK, Confirmed, RejectedWasTorn, [Next]_vars,
                       NEW b \in good \ accepted,
                       top[b] = "full", hex[b] = "full", top'[b] = "none"
                PROVE  FALSE
    OBVIOUS
  <2>1. b \in Blocks
    BY DEF TypeOK
  <2>. QED
    BY <2>1, OnlyFilingEmpties DEF Confirmed, RejectedWasTorn
<1>3. TypeOK /\ RejectedWasTorn /\ [Next]_vars => RejectedWasTorn'
  BY RejectedNext
<1>. QED
  BY <1>1, <1>2, <1>3, TypeCorrect, ClaimsAreConfirmed, PTL
  DEF Spec, KeepsOnlyCopy

=============================================================================
