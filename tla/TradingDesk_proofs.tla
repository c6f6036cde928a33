--------------------------- MODULE TradingDesk_proofs ---------------------------
(***************************************************************************)
(* Proofs about the trading desk, for every value of its constants.        *)
(***************************************************************************)
EXTENDS TradingDesk, TLAPS

--------------------------------------------------------------------------------
(* Client order ids.                                                          *)

\* An opening id is never a closing id, and an id names one thing only.
LEMMA CoidFacts ==
    /\ \A t \in Tickets : OpenId(t) \in OpenIds /\ OpenId(t) \in Coids
    /\ CloseIds \subseteq Coids
    /\ OpenIds \cap CloseIds = {}
    /\ \A s, t \in Tickets : OpenId(s) = OpenId(t) => s = t
    /\ \A e, f, m, n : CloseId(e, m) = CloseId(f, n) => e = f /\ m = n
<1>1. \A t \in Tickets : OpenId(t) \in OpenIds /\ OpenId(t) \in Coids
  BY DEF OpenIds, Coids
<1>2. CloseIds \subseteq Coids
  BY DEF Coids
<1>3. OpenIds \cap CloseIds = {}
  <2>1. \A t, e, n : OpenId(t) # CloseId(e, n)
    BY DEF OpenId, CloseId
  <2> QED  BY <2>1 DEF OpenIds, CloseIds
<1>4. \A s, t \in Tickets : OpenId(s) = OpenId(t) => s = t
  BY DEF OpenId
<1>5. \A e, f, m, n : CloseId(e, m) = CloseId(f, n) => e = f /\ m = n
  BY DEF CloseId
<1> QED  BY <1>1, <1>2, <1>3, <1>4, <1>5

--------------------------------------------------------------------------------
(* Type correctness.                                                          *)

\* An empty holding and the book of no pass have their types.
LEMMA NothingHeld == Flat \in Holding /\ NoBook \in Books
  BY DeskAssumption DEF Flat, Holding, NoBook, Books

\* What a closing order takes off is a holding.
LEMMA CloseOfType ==
    ASSUME NEW p \in Holding, NEW e, NEW n \in 1..MaxQty
    PROVE  CloseOf(p, e, n) \in Holding
  BY DeskAssumption DEF CloseOf, Holding

\* Managed expiries are expiries.
LEMMA ManagedType == ASSUME NEW p PROVE Managed(p) \subseteq Expiries
  BY DEF Managed, OpenExpiries

\* The initial state has the right types.
LEMMA InitialTypes == Init => TypeOK
<1> SUFFICES ASSUME Init PROVE TypeOK
  OBVIOUS
<1>1. BrokerTypes
  BY NothingHeld, DeskAssumption DEF Init, BrokerTypes, Statuses
<1>2. DeskTypes
  BY NothingHeld DEF Init, DeskTypes, PCs
<1>3. JournalTypes
  BY DEF Init, JournalTypes
<1> QED  BY <1>1, <1>2, <1>3 DEF TypeOK

\* Ending a pass leaves nothing of it.
LEMMA EndPassTypes ==
    ASSUME DeskTypes, EndPass, UNCHANGED memory PROVE DeskTypes'
  BY NothingHeld DEF DeskTypes, EndPass, memory, PCs

\* Sending a new order, opening or closing.
LEMMA SentType ==
    ASSUME BrokerTypes, NEW c \in Coids PROVE Sent(c) \in [Coids -> Statuses]
  BY DEF BrokerTypes, Sent, Statuses

\* Placing the pick, taken or refused, keeps the broker's types and counts dollars.
LEMMA PlaceTypes ==
    ASSUME BrokerTypes, JournalTypes, NEW t \in Tickets, Place(t), UNCHANGED journal,
           lost' \in Nat
    PROVE  BrokerTypes' /\ JournalTypes'
<1>1. order' \in [Coids -> Statuses]
  BY SentType, CoidFacts DEF Place
<1>2. BrokerTypes'
  BY <1>1 DEF Place, BrokerTypes
<1>3. opened' \in Nat
  BY DeskAssumption DEF Place, JournalTypes
<1>4. JournalTypes'
  BY <1>3 DEF Place, JournalTypes, journal
<1> QED  BY <1>2, <1>4

\* Charging an id leaves a table of charges.
LEMMA ChargedType ==
    ASSUME JournalTypes, NEW c, NEW entry \in {"max_loss", "nothing"}
    PROVE  Charged(c, entry) \in [Tickets -> {"none", "max_loss", "nothing"}]
  BY DEF Charged, JournalTypes

\* Every step of the desk and of its broker keeps the types.
LEMMA StepTypes == TypeOK /\ [Next]_vars => TypeOK'
<1> SUFFICES ASSUME BrokerTypes, DeskTypes, JournalTypes, [Next]_vars
             PROVE  BrokerTypes' /\ DeskTypes' /\ JournalTypes'
  BY DEF TypeOK
<1>b. ASSUME UNCHANGED broker PROVE BrokerTypes'
  BY <1>b DEF broker, BrokerTypes
<1>d. ASSUME UNCHANGED <<memory, pc, pass>> PROVE DeskTypes'
  BY <1>d DEF memory, pass, DeskTypes, BetweenPasses
<1>j. ASSUME UNCHANGED <<journal, history>> PROVE JournalTypes'
  BY <1>j DEF journal, history, JournalTypes
<1>1. CASE Start
  <2>1. BrokerTypes'
    BY <1>1, <1>b DEF Start
  <2>2. DeskTypes'
    BY <1>1 DEF Start, DeskTypes, BetweenPasses, memory, pass, PCs, broker
  <2>3. JournalTypes'
    BY <1>1, <1>j DEF Start
  <2> QED  BY <2>1, <2>2, <2>3
<1>2. CASE Crash
  <2>1. BrokerTypes'
    BY <1>2, <1>b DEF Crash
  <2>2. DeskTypes'
    BY <1>2, NothingHeld DEF Crash, DeskTypes, BetweenPasses, memory, pass, PCs
  <2>3. JournalTypes'
    <3>1. pc = "sent" => pick \in Tickets
      BY DEF DeskTypes
    <3>2. lost' \in Nat
      BY <1>2, <3>1, DeskAssumption DEF Crash, JournalTypes
    <3> QED  BY <1>2, <3>2 DEF Crash, JournalTypes, journal
  <2> QED  BY <2>1, <2>2, <2>3
<1>3. CASE Fetch
  <2>1. BrokerTypes'
    BY <1>3, <1>b DEF Fetch
  <2>2. DeskTypes'
    BY <1>3 DEF Fetch, DeskTypes, BetweenPasses, memory, pass, PCs, BrokerTypes, broker
  <2>3. JournalTypes'
    BY <1>3, <1>j DEF Fetch
  <2> QED  BY <2>1, <2>2, <2>3
<1>4. CASE Reconcile
  <2>1. BrokerTypes'
    BY <1>4, <1>b DEF Reconcile
  <2>2. DeskTypes'
    <3>1. PICK breaker \in BOOLEAN :
             book' = [open |-> OpenExpiries(net), flattenOnly |-> breaker,
                      marketOpen |-> session = "open", dayRisk |-> dayRisk]
      BY <1>4 DEF Reconcile
    <3>2. book' \in Books
      BY <3>1 DEF Books, OpenExpiries, JournalTypes
    <3> QED  BY <1>4, <3>2 DEF Reconcile, DeskTypes, BetweenPasses, memory, pass, PCs
  <2>3. JournalTypes'
    BY <1>4, <1>j DEF Reconcile
  <2> QED  BY <2>1, <2>2, <2>3
<1>5. CASE ReconcileFails
  <2>1. BrokerTypes'
    BY <1>5, <1>b DEF ReconcileFails
  <2>2. DeskTypes'
    BY <1>5, EndPassTypes DEF ReconcileFails
  <2>3. JournalTypes'
    BY <1>5, <1>j DEF ReconcileFails
  <2> QED  BY <2>1, <2>2, <2>3
<1>6. CASE ReadOrders
  <2>1. BrokerTypes'
    BY <1>6, <1>b DEF ReadOrders
  <2>2. DeskTypes'
    BY <1>6 DEF ReadOrders, DeskTypes, BetweenPasses, memory, pass, PCs, AlreadyRecorded, FilledOrders
  <2>3. JournalTypes'
    BY <1>6, <1>j DEF ReadOrders
  <2> QED  BY <2>1, <2>2, <2>3
<1>7. CASE ReadOrdersFails
  <2>1. BrokerTypes'
    BY <1>7, <1>b DEF ReadOrdersFails
  <2>2. DeskTypes'
    BY <1>7 DEF ReadOrdersFails, DeskTypes, BetweenPasses, memory, pass, PCs
  <2>3. JournalTypes'
    BY <1>7, <1>j DEF ReadOrdersFails
  <2> QED  BY <2>1, <2>2, <2>3
<1>8. CASE FillsRecorded
  <2>1. BrokerTypes'
    BY <1>8, <1>b DEF FillsRecorded
  <2>2. DeskTypes'
    BY <1>8, ManagedType DEF FillsRecorded, DeskTypes, BetweenPasses, memory, pass, PCs
  <2>3. JournalTypes'
    BY <1>8, <1>j DEF FillsRecorded
  <2> QED  BY <2>1, <2>2, <2>3
<1>9. ASSUME NEW c \in Coids, RecordFill(c)
      PROVE  BrokerTypes' /\ DeskTypes' /\ JournalTypes'
  <2>1. BrokerTypes'
    BY <1>9, <1>b DEF RecordFill
  <2>2. DeskTypes'
    BY <1>9 DEF RecordFill, DeskTypes, BetweenPasses, memory, pass, PCs
  <2>3. JournalTypes'
    BY <1>9, ChargedType DEF RecordFill, JournalTypes, history
  <2> QED  BY <2>1, <2>2, <2>3
<1>10. ASSUME NEW e \in Expiries, NEW n \in 1..MaxQty, Manage(e, n)
      PROVE  BrokerTypes' /\ DeskTypes' /\ JournalTypes'
  <2>1. BrokerTypes'
    <3>1. UNCHANGED <<day, session, fills, net>>
      BY <1>10 DEF Manage
    <3>2. CASE UNCHANGED <<order, closing>>
      BY <3>1, <3>2 DEF BrokerTypes
    <3>3. CASE SendClose(CloseId(e, n), CloseOf(snap, e, n))
      <4>1. CloseId(e, n) \in CloseIds /\ CloseId(e, n) \in Coids
        BY CoidFacts DEF CloseIds
      <4>2. order' \in [Coids -> Statuses]
        BY <3>3, <4>1, SentType DEF SendClose
      <4>3. CloseOf(snap, e, n) \in Holding
        BY CloseOfType DEF DeskTypes
      <4>4. closing' \in [CloseIds -> Holding]
        BY <3>3, <4>3 DEF SendClose, BrokerTypes
      <4> QED  BY <3>1, <4>2, <4>4 DEF BrokerTypes
    <3> QED  BY <1>10, <3>2, <3>3 DEF Manage
  <2>2. DeskTypes'
    BY <1>10 DEF Manage, DeskTypes, BetweenPasses, memory, pass, PCs
  <2>3. JournalTypes'
    BY <1>10, <1>j DEF Manage
  <2> QED  BY <2>1, <2>2, <2>3
<1>11. CASE NoEntry
  <2>1. BrokerTypes'
    BY <1>11, <1>b DEF NoEntry
  <2>2. DeskTypes'
    BY <1>11, EndPassTypes DEF NoEntry
  <2>3. JournalTypes'
    BY <1>11, <1>j DEF NoEntry
  <2> QED  BY <2>1, <2>2, <2>3
<1>12. ASSUME NEW t \in Tickets, Allow(t)
      PROVE  BrokerTypes' /\ DeskTypes' /\ JournalTypes'
  <2>1. BrokerTypes'
    BY <1>12, <1>b DEF Allow
  <2>2. DeskTypes'
    BY <1>12 DEF Allow, DeskTypes, BetweenPasses, memory, pass, PCs, Managing
  <2>3. JournalTypes'
    BY <1>12 DEF Allow, JournalTypes, history
  <2> QED  BY <2>1, <2>2, <2>3
<1>13. CASE Submit
  <2>1. pick \in Tickets
    BY <1>13 DEF Submit, DeskTypes
  <2>2. BrokerTypes' /\ JournalTypes'
    BY <1>13, <2>1, PlaceTypes DEF Submit, JournalTypes
  <2>3. DeskTypes'
    BY <1>13 DEF Submit, DeskTypes, BetweenPasses, memory, pass, PCs
  <2> QED  BY <2>2, <2>3
<1>14. CASE SubmitTimesOut
  <2>1. pick \in Tickets
    BY <1>14 DEF SubmitTimesOut, DeskTypes
  <2>2. BrokerTypes' /\ JournalTypes'
    <3>1. lost' \in Nat
      BY <1>14, <2>1, DeskAssumption DEF SubmitTimesOut, JournalTypes
    <3> QED  BY <1>14, <2>1, <3>1, PlaceTypes DEF SubmitTimesOut
  <2>3. DeskTypes'
    BY <1>14, EndPassTypes DEF SubmitTimesOut
  <2> QED  BY <2>2, <2>3
<1>15. CASE SubmitBlocked
  <2>1. BrokerTypes'
    BY <1>15, <1>b DEF SubmitBlocked
  <2>2. DeskTypes'
    BY <1>15, EndPassTypes DEF SubmitBlocked
  <2>3. JournalTypes'
    BY <1>15, <1>j DEF SubmitBlocked
  <2> QED  BY <2>1, <2>2, <2>3
<1>16. CASE RecordSubmit
  <2>1. BrokerTypes'
    BY <1>16, <1>b DEF RecordSubmit
  <2>2. DeskTypes'
    BY <1>16, EndPassTypes DEF RecordSubmit
  <2>3. JournalTypes'
    <3>1. pick \in Tickets
      BY <1>16 DEF RecordSubmit, DeskTypes
    <3> QED  BY <1>16, <3>1, ChargedType, DeskAssumption
             DEF RecordSubmit, JournalTypes, history
  <2> QED  BY <2>1, <2>2, <2>3
<1>17. ASSUME NEW t \in Tickets, FillOpen(t)
      PROVE  BrokerTypes' /\ DeskTypes' /\ JournalTypes'
  <2>1. BrokerTypes'
    <3>1. OpenId(t) \in Coids
      BY CoidFacts
    <3>2. net' \in Holding
      BY <1>17, DeskAssumption DEF FillOpen, BrokerTypes, Holding
    <3> QED  BY <1>17, <3>1, <3>2 DEF FillOpen, BrokerTypes, Statuses
  <2>2. DeskTypes'
    BY <1>17, <1>d DEF FillOpen
  <2>3. JournalTypes'
    BY <1>17, <1>j DEF FillOpen
  <2> QED  BY <2>1, <2>2, <2>3
<1>18. ASSUME NEW c \in CloseIds, FillClose(c)
      PROVE  BrokerTypes' /\ DeskTypes' /\ JournalTypes'
  <2>1. BrokerTypes'
    <3>1. c \in Coids
      BY CoidFacts
    <3>2. net' \in Holding
      <4> SUFFICES ASSUME NEW t \in Tickets
                   PROVE  net[t] - closing[c][t] \in (0 - MaxQty)..MaxQty
        BY <1>18 DEF FillClose, Holding
      <4>1. net[t] \in Int /\ closing[c][t] \in Int
        BY <1>18, DeskAssumption DEF BrokerTypes, Holding
      <4>2. Size(net[t] - closing[c][t]) =< MaxQty
        BY <1>18 DEF FillClose
      <4> QED  BY <4>1, <4>2, DeskAssumption DEF Size
    <3>3. closing' \in [CloseIds -> Holding]
      BY <1>18, NothingHeld DEF FillClose, BrokerTypes
    <3> QED  BY <1>18, <3>1, <3>2, <3>3 DEF FillClose, BrokerTypes, Statuses
  <2>2. DeskTypes'
    BY <1>18 DEF FillClose, DeskTypes, BetweenPasses, memory
  <2>3. JournalTypes'
    BY <1>18, <1>j DEF FillClose
  <2> QED  BY <2>1, <2>2, <2>3
<1>19. ASSUME NEW t \in Tickets, Settle(t)
      PROVE  BrokerTypes' /\ DeskTypes' /\ JournalTypes'
  <2>1. BrokerTypes'
    BY <1>19, DeskAssumption DEF Settle, BrokerTypes, Holding
  <2>2. DeskTypes'
    BY <1>19, <1>d DEF Settle
  <2>3. JournalTypes'
    BY <1>19, <1>j DEF Settle
  <2> QED  BY <2>1, <2>2, <2>3
<1>20. CASE SessionClose
  <2>1. BrokerTypes'
    BY <1>20, NothingHeld DEF SessionClose, BrokerTypes, Statuses
  <2>2. DeskTypes'
    BY <1>20, <1>d DEF SessionClose
  <2>3. JournalTypes'
    BY <1>20, <1>j DEF SessionClose
  <2> QED  BY <2>1, <2>2, <2>3
<1>21. CASE NextDay
  <2>1. BrokerTypes'
    BY <1>21, DeskAssumption DEF NextDay, BrokerTypes
  <2>2. DeskTypes'
    BY <1>21, <1>d DEF NextDay
  <2>3. JournalTypes'
    BY <1>21 DEF NextDay, JournalTypes
  <2> QED  BY <2>1, <2>2, <2>3
<1>22. CASE UNCHANGED vars
  BY <1>22, <1>b, <1>d, <1>j DEF vars
<1> QED
  BY <1>1, <1>2, <1>3, <1>4, <1>5, <1>6, <1>7, <1>8, <1>9, <1>10, <1>11, <1>12, <1>13,
     <1>14, <1>15, <1>16, <1>17, <1>18, <1>19, <1>20, <1>21, <1>22
     DEF Next, Pass, Broker

\* Every variable keeps its type.
THEOREM TypeCorrect == Spec => []TypeOK
  BY InitialTypes, StepTypes, PTL DEF Spec

--------------------------------------------------------------------------------
(* Fills are journalled once.                                                 *)

\* Nothing is recorded and nothing is left to record at first.
LEMMA InitialRecording == Init => RecordingInv
  BY DEF Init, RecordingInv

\* Steps that leave fills, journal, memory and listing alone, and do not leave
\* the recording of fills with something left to record.
LEMMA RecordingFrame ==
    ASSUME RecordingInv, UNCHANGED <<fills, jFills, memory, listing>>,
           listing # {} => pc' = "recording"
    PROVE  RecordingInv'
  BY DEF RecordingInv, memory

\* A pass, or the process, that ends drops what it had left to record.
LEMMA RecordingDropped ==
    ASSUME RecordingInv, UNCHANGED <<fills, jFills>>, listing' = {},
           \/ UNCHANGED memory
           \/ scanned' = FALSE /\ seen' = {}
    PROVE  RecordingInv'
  BY DEF RecordingInv, memory

\* The broker can only add to the fills.
LEMMA RecordingMoreFills ==
    ASSUME TypeOK, RecordingInv, NEW c \in Coids,
           fills' = [fills EXCEPT ![c] = @ + 1],
           UNCHANGED <<jFills, memory, listing, pc>>
    PROVE  RecordingInv'
<1>1. \A d \in Coids : fills[d] > 0 => fills'[d] > 0
  BY DEF TypeOK, BrokerTypes
<1> QED  BY <1>1 DEF RecordingInv, memory

\* No step writes a fill down twice or forgets one that is written.
LEMMA StepRecording == TypeOK /\ RecordingInv /\ [Next]_vars => RecordingInv'
<1> SUFFICES ASSUME TypeOK, RecordingInv, [Next]_vars PROVE RecordingInv'
  OBVIOUS
<1> USE DEF broker, memory, pass, journal, history
<1>1. CASE Start
  BY <1>1, RecordingDropped DEF Start, RecordingInv
<1>2. CASE Crash
  BY <1>2, RecordingDropped DEF Crash
<1>3. CASE Fetch \/ Reconcile \/ ReadOrdersFails \/ FillsRecorded \/ Submit
  BY <1>3, RecordingFrame
     DEF Fetch, Reconcile, ReadOrdersFails, FillsRecorded, Submit, Place, RecordingInv
<1>4. CASE ReconcileFails \/ NoEntry \/ SubmitTimesOut \/ SubmitBlocked \/ RecordSubmit
  BY <1>4, RecordingDropped
     DEF ReconcileFails, NoEntry, SubmitTimesOut, SubmitBlocked, RecordSubmit, Place, EndPass
<1>5. CASE ReadOrders
  <2>1. AlreadyRecorded = {c \in Coids : jFills[c] > 0}
    BY DEF AlreadyRecorded, RecordingInv
  <2> QED  BY <1>5, <2>1 DEF ReadOrders, FilledOrders, RecordingInv, TypeOK, JournalTypes
<1>6. ASSUME NEW c \in Coids, RecordFill(c) PROVE RecordingInv'
  <2>1. /\ listing' = listing \ {c} /\ c \in listing
        /\ jFills' = [jFills EXCEPT ![c] = @ + 1] /\ seen' = seen \cup {c}
        /\ UNCHANGED <<fills, scanned, pc>>
    BY <1>6 DEF RecordFill
  <2>2. jFills[c] = 0 /\ fills[c] > 0 /\ scanned /\ pc = "recording"
    BY <2>1 DEF RecordingInv
  <2>3. \A d \in Coids : jFills'[d] = IF d = c THEN 1 ELSE jFills[d]
    BY <2>1, <2>2 DEF TypeOK, JournalTypes
  <2>4. {d \in Coids : jFills'[d] > 0} = {d \in Coids : jFills[d] > 0} \cup {c}
    BY <2>3
  <2>5. seen' = {d \in Coids : jFills'[d] > 0}
    BY <2>1, <2>2, <2>4 DEF RecordingInv
  <2>6. \A d \in Coids : jFills'[d] =< 1 /\ (jFills'[d] > 0 => fills'[d] > 0)
    BY <2>1, <2>2, <2>3 DEF RecordingInv
  <2>7. \A d \in listing' : d \in Coids /\ fills'[d] > 0 /\ jFills'[d] = 0
    BY <2>1, <2>3 DEF RecordingInv
  <2> QED  BY <2>1, <2>2, <2>5, <2>6, <2>7 DEF RecordingInv
<1>7. ASSUME NEW e \in Expiries, NEW n \in 1..MaxQty, Manage(e, n) PROVE RecordingInv'
  BY <1>7, RecordingFrame DEF Manage, RecordingInv
<1>8. ASSUME NEW t \in Tickets, Allow(t) PROVE RecordingInv'
  BY <1>8, RecordingFrame DEF Allow, Managing, RecordingInv
<1>9. ASSUME NEW t \in Tickets, FillOpen(t) PROVE RecordingInv'
  BY <1>9, CoidFacts, RecordingMoreFills DEF FillOpen
<1>10. ASSUME NEW c \in CloseIds, FillClose(c) PROVE RecordingInv'
  BY <1>10, CoidFacts, RecordingMoreFills DEF FillClose
<1>11. ASSUME NEW t \in Tickets, Settle(t) PROVE RecordingInv'
  BY <1>11, RecordingFrame DEF Settle, RecordingInv
<1>12. CASE SessionClose \/ NextDay \/ UNCHANGED vars
  BY <1>12, RecordingFrame DEF SessionClose, NextDay, vars, RecordingInv
<1> QED
  BY <1>1, <1>2, <1>3, <1>4, <1>5, <1>6, <1>7, <1>8, <1>9, <1>10, <1>11, <1>12
     DEF Next, Pass, Broker

\* The recording of fills is sound in every reachable state.
THEOREM RecordingInvariant == Spec => [](TypeOK /\ RecordingInv)
<1>1. Init => TypeOK /\ RecordingInv
  BY InitialTypes, InitialRecording
<1>2. TypeOK /\ RecordingInv /\ [Next]_vars => (TypeOK /\ RecordingInv)'
  BY StepTypes, StepRecording
<1> QED  BY <1>1, <1>2, PTL DEF Spec

\* Over any number of passes, failed lookups and restarts the journal never
\* holds more fills of an order than the broker made (loop.record_fills).
THEOREM JournalInventsNoFill == Spec => []FillsNotInvented
<1>1. TypeOK /\ RecordingInv => FillsNotInvented
  BY DEF TypeOK, BrokerTypes, JournalTypes, RecordingInv, FillsNotInvented
<1> QED  BY <1>1, RecordingInvariant, PTL

\* A step of the desk and its broker is a step of FillLedger or leaves it alone.
LEMMA StepLedger ==
    TypeOK /\ RecordingInv /\ [Next]_vars => [Ledger!Next]_(Ledger!ledger)
<1> SUFFICES ASSUME TypeOK, RecordingInv, [Next]_vars
             PROVE  Ledger!Next \/ UNCHANGED <<fills, jFills>>
  BY DEF Ledger!ledger
<1> USE DEF broker, memory, pass, journal, history
<1>1. ASSUME NEW c \in Coids, RecordFill(c) PROVE Ledger!Tell(c)
  <2>1. fills[c] > 0 /\ jFills[c] = 0
    BY <1>1 DEF RecordFill, RecordingInv
  <2>2. jFills' = [jFills EXCEPT ![c] = 1] /\ fills' = fills
    BY <1>1, <2>1 DEF RecordFill, TypeOK, JournalTypes
  <2> QED  BY <2>1, <2>2 DEF Ledger!Tell
<1>2. ASSUME NEW t \in Tickets, FillOpen(t) PROVE Ledger!Fill(OpenId(t))
  BY <1>2 DEF FillOpen, Ledger!Fill
<1>3. ASSUME NEW c \in CloseIds, FillClose(c) PROVE Ledger!Fill(c)
  BY <1>3 DEF FillClose, Ledger!Fill
<1>4. CASE Start \/ Crash \/ Fetch \/ Reconcile \/ ReadOrders \/ ReadOrdersFails
           \/ FillsRecorded \/ SessionClose \/ NextDay \/ UNCHANGED vars
  BY <1>4 DEF Start, Crash, Fetch, Reconcile, ReadOrders, ReadOrdersFails,
              FillsRecorded, SessionClose, NextDay, vars
<1>5. CASE ReconcileFails \/ NoEntry \/ Submit \/ SubmitTimesOut \/ SubmitBlocked
           \/ RecordSubmit
  BY <1>5 DEF ReconcileFails, NoEntry, Submit, SubmitTimesOut, SubmitBlocked,
              RecordSubmit, Place
<1>6. ASSUME NEW e \in Expiries, NEW n \in 1..MaxQty, Manage(e, n)
      PROVE  UNCHANGED <<fills, jFills>>
  BY <1>6 DEF Manage
<1>7. ASSUME NEW t \in Tickets, Allow(t) \/ Settle(t) PROVE UNCHANGED <<fills, jFills>>
  BY <1>7 DEF Allow, Settle
<1> QED
  BY <1>1, <1>2, <1>3, <1>4, <1>5, <1>6, <1>7, CoidFacts
     DEF Next, Pass, Broker, Ledger!Next

\* The trading desk implements FillLedger: every fill is told at most once, and
\* only after it was made.
THEOREM ImplementsLedger == Spec => LedgerSpec
<1>1. Init => Ledger!Init
  BY DEF Init, Ledger!Init
<1> QED  BY <1>1, StepLedger, RecordingInvariant, PTL DEF Spec, LedgerSpec, Ledger!Spec

--------------------------------------------------------------------------------
(* Nothing works at the broker without a verdict on disk.                     *)

\* Nothing works at the broker at first.
LEMMA InitialAllow == Init => AllowInv
  BY CoidFacts DEF Init, AllowInv, PassUnderWay, NoBook

\* Steps that send no opening order, keep the session and the verdicts, and do
\* not move a pass forward into one that is under way with another book.
LEMMA AllowFrame ==
    ASSUME AllowInv, UNCHANGED <<session, allowed>>,
           \A t \in Tickets : order'[OpenId(t)] = "working" => order[OpenId(t)] = "working",
           \/ UNCHANGED <<pc, book, pick>>
           \/ pc' \notin PassUnderWay
           \/ pc \in PassUnderWay /\ UNCHANGED book /\ pc' # "allowed"
    PROVE  AllowInv'
  BY DEF AllowInv, PassUnderWay

\* Placing the pick while its verdict is on disk.
LEMMA AllowPlaced ==
    ASSUME TypeOK, AllowInv, pc = "allowed", Place(pick), UNCHANGED allowed,
           \/ pc' \notin PassUnderWay
           \/ UNCHANGED book /\ pc' = "sent"
    PROVE  AllowInv'
<1>1. pick \in Tickets
  BY DEF TypeOK, DeskTypes
<1>2. \A t \in Tickets : t # pick => order'[OpenId(t)] = order[OpenId(t)]
  BY <1>1, CoidFacts DEF Place, Sent, TypeOK, BrokerTypes
<1>3. pick \in allowed /\ session = "open" /\ session' = session
  BY DEF AllowInv, Place
<1> QED  BY <1>2, <1>3 DEF AllowInv, PassUnderWay

\* No step lets an opening order work without its verdict of the day.
LEMMA StepAllow == TypeOK /\ AllowInv /\ [Next]_vars => AllowInv'
<1> SUFFICES ASSUME TypeOK, AllowInv, [Next]_vars PROVE AllowInv'
  OBVIOUS
<1> USE DEF broker, memory, pass, journal, history
<1>1. CASE Start \/ Crash \/ Fetch
  BY <1>1, AllowFrame DEF Start, Crash, Fetch, PassUnderWay
<1>2. CASE Reconcile
  <2>1. book'.marketOpen = (session = "open") /\ pc' = "reconciled"
        /\ UNCHANGED <<session, order, allowed>>
    BY <1>2 DEF Reconcile
  <2> QED  BY <2>1 DEF AllowInv, PassUnderWay
<1>3. CASE ReadOrders \/ ReadOrdersFails \/ FillsRecorded
  BY <1>3, AllowFrame DEF ReadOrders, ReadOrdersFails, FillsRecorded, PassUnderWay
<1>4. CASE ReconcileFails \/ NoEntry \/ SubmitBlocked \/ RecordSubmit
  BY <1>4, AllowFrame
     DEF ReconcileFails, NoEntry, SubmitBlocked, RecordSubmit, EndPass, PassUnderWay
<1>5. ASSUME NEW c \in Coids, RecordFill(c) PROVE AllowInv'
  BY <1>5, AllowFrame DEF RecordFill
<1>6. ASSUME NEW e \in Expiries, NEW n \in 1..MaxQty, Manage(e, n) PROVE AllowInv'
  <2>1. CloseId(e, n) \in CloseIds
    BY DEF CloseIds
  <2>2. \A t \in Tickets : order'[OpenId(t)] = order[OpenId(t)]
    <3>1. CASE UNCHANGED order
      BY <3>1
    <3>2. CASE order' = Sent(CloseId(e, n))
      BY <2>1, <3>2, CoidFacts DEF Sent, TypeOK, BrokerTypes
    <3> QED  BY <1>6, <3>1, <3>2 DEF Manage, SendClose
  <2> QED  BY <1>6, <2>2, AllowFrame DEF Manage
<1>7. ASSUME NEW t \in Tickets, Allow(t) PROVE AllowInv'
  <2>1. session = "open"
    BY <1>7 DEF Allow, Managing, OfficerAllows, AllowInv, PassUnderWay
  <2> QED  BY <1>7, <2>1 DEF Allow, AllowInv
<1>8. CASE Submit \/ SubmitTimesOut
  BY <1>8, AllowPlaced DEF Submit, SubmitTimesOut, EndPass, PassUnderWay
<1>9. ASSUME NEW t \in Tickets, FillOpen(t) PROVE AllowInv'
  <2>1. \A u \in Tickets : order'[OpenId(u)] = "working" => order[OpenId(u)] = "working"
    BY <1>9, CoidFacts DEF FillOpen, TypeOK, BrokerTypes
  <2> QED  BY <1>9, <2>1, AllowFrame DEF FillOpen
<1>10. ASSUME NEW c \in CloseIds, FillClose(c) PROVE AllowInv'
  <2>1. \A u \in Tickets : order'[OpenId(u)] = order[OpenId(u)]
    BY <1>10, CoidFacts DEF FillClose, TypeOK, BrokerTypes
  <2> QED  BY <1>10, <2>1, AllowFrame DEF FillClose
<1>11. ASSUME NEW t \in Tickets, Settle(t) PROVE AllowInv'
  BY <1>11, AllowFrame DEF Settle
<1>12. CASE SessionClose
  <2>1. \A t \in Tickets : order'[OpenId(t)] # "working"
    BY <1>12, CoidFacts DEF SessionClose
  <2> QED  BY <1>12, <2>1 DEF SessionClose, BetweenPasses, AllowInv, PassUnderWay
<1>13. CASE NextDay
  <2>1. \A t \in Tickets : order'[OpenId(t)] # "working"
    BY <1>13 DEF NextDay, AllowInv
  <2> QED  BY <1>13, <2>1 DEF NextDay, BetweenPasses, AllowInv, PassUnderWay
<1>14. CASE UNCHANGED vars
  BY <1>14, AllowFrame DEF vars
<1> QED
  BY <1>1, <1>2, <1>3, <1>4, <1>5, <1>6, <1>7, <1>8, <1>9, <1>10, <1>11, <1>12, <1>13, <1>14
     DEF Next, Pass, Broker

\* The verdict, the ticket it is for and its ALLOW entry belong together in every
\* reachable state.
THEOREM AllowInvariant == Spec => [](TypeOK /\ AllowInv)
<1>1. Init => TypeOK /\ AllowInv
  BY InitialTypes, InitialAllow
<1>2. TypeOK /\ AllowInv /\ [Next]_vars => (TypeOK /\ AllowInv)'
  BY StepTypes, StepAllow
<1> QED  BY <1>1, <1>2, PTL DEF Spec

\* Whatever crashes, an opening order the broker is working was allowed by the
\* officer today, and the journal says so (consider_new_entry, _submit).
THEOREM OrdersWereAllowed == Spec => []WorkingOrdersWereAllowed
<1>1. AllowInv => WorkingOrdersWereAllowed
  BY DEF AllowInv, WorkingOrdersWereAllowed
<1> QED  BY <1>1, AllowInvariant, PTL

--------------------------------------------------------------------------------
(* No structure is closed twice, as long as client order ids are unique.      *)

\* Nothing is held and no close was sent at first.
LEMMA InitialClosedOnce == Init => ClosedOnceInv
  BY DEF Init, ClosedOnceInv, Flat, CloseIds

\* Positions, orders and what was read of them stay as they are, or what was
\* read is forgotten.
LEMMA ClosedOnceFrame ==
    ASSUME ClosedOnceInv, UNCHANGED <<day, order, closing, net>>,
           snap' \in {snap, Flat}
    PROVE  ClosedOnceInv'
<1>1. CASE snap' = snap
  BY <1>1 DEF ClosedOnceInv
<1>2. CASE snap' = Flat
  BY <1>2 DEF ClosedOnceInv, Flat
<1> QED  BY <1>1, <1>2

\* Sending an order under an id that was never used: no order that is done is
\* touched, and none that was sent becomes unsent.
LEMMA SentIsNew ==
    ASSUME ReusableIds = FALSE, TypeOK, NEW c \in Coids, order' = Sent(c)
    PROVE  /\ \A d \in Coids : d # c => order'[d] = order[d]
           /\ \A d \in Coids : order[d] # "none" => order'[d] = order[d]
           /\ order'[c] # "none"
  BY DEF Sent, Accepts, TypeOK, BrokerTypes

\* An opening order, taken or refused, closes nothing.
LEMMA ClosedOncePlaced ==
    ASSUME ReusableIds = FALSE, TypeOK, ClosedOnceInv,
           NEW t \in Tickets, Place(t), snap' \in {snap, Flat}
    PROVE  ClosedOnceInv'
<1>1. order' = Sent(OpenId(t)) /\ UNCHANGED <<day, closing, net>> /\ OpenId(t) \in Coids
  BY CoidFacts DEF Place
<1>2. \A u \in Tickets : order[OpenId(u)] = "filled" => order'[OpenId(u)] = "filled"
  BY <1>1, SentIsNew, CoidFacts
<1>3. \A c \in CloseIds : order'[c] = order[c]
  BY <1>1, SentIsNew, CoidFacts
<1>4. ASSUME NEW u \in Tickets PROVE CloseId(Expiry[u], 1) \in CloseIds
  BY DeskAssumption DEF CloseIds, Expiries
<1>5. \A u \in Tickets : order'[OpenId(u)] # "filled" => order[OpenId(u)] # "filled"
  BY <1>2
<1>6. \A u \in Tickets : snap'[u] \in {snap[u], 0}
  BY DEF Flat
<1>7. \A u \in Tickets : net'[u] \in {0, 1} /\ snap'[u] \in {0, 1}
  BY <1>1, <1>6 DEF ClosedOnceInv
<1>8. \A u \in Tickets : order'[OpenId(u)] # "filled" =>
        net'[u] = 0 /\ snap'[u] = 0 /\ \A c \in CloseIds : closing'[c][u] = 0
  BY <1>1, <1>5, <1>6 DEF ClosedOnceInv
<1>9. \A c \in CloseIds, u \in Tickets : closing'[c][u] # 0 =>
        /\ c = CloseId(Expiry[u], 1) /\ closing'[c][u] = 1 /\ order'[c] = "working"
        /\ net'[u] = 1 \/ day' > Expiry[u]
  BY <1>1, <1>3 DEF ClosedOnceInv
<1>10. \A u \in Tickets : snap'[u] = 1 =>
        net'[u] = 1 \/ order'[CloseId(Expiry[u], 1)] # "none" \/ day' > Expiry[u]
  BY <1>1, <1>3, <1>4, <1>6 DEF ClosedOnceInv
<1> QED  BY <1>7, <1>8, <1>9, <1>10 DEF ClosedOnceInv

\* The closing order of a group, sent from what was read.
LEMMA ClosedOnceManaged ==
    ASSUME ReusableIds = FALSE, TypeOK, ClosedOnceInv,
           NEW e \in Expiries, NEW n \in 1..MaxQty, IsLots(snap, e, n),
           SendClose(CloseId(e, n), CloseOf(snap, e, n)), UNCHANGED <<day, net, snap>>
    PROVE  ClosedOnceInv'
<1> DEFINE c == CloseId(e, n)
<1>1. c \in CloseIds /\ c \in Coids
  BY CoidFacts DEF CloseIds
<1>2. n = 1
  <2>1. PICK t \in Tickets : Expiry[t] = e /\ snap[t] # 0 /\ Size(snap[t]) = n
    BY DEF IsLots, Group
  <2>2. snap[t] = 1
    BY <2>1 DEF ClosedOnceInv
  <2> QED  BY <2>1, <2>2 DEF Size
<1>3. CASE ~Accepts(c)
  BY <1>3, ClosedOnceFrame DEF SendClose, Sent
<1>4. CASE Accepts(c)
  <2>1. order[c] = "none" /\ order' = [order EXCEPT ![c] = "working"]
        /\ closing' = [closing EXCEPT ![c] = CloseOf(snap, e, n)]
    BY <1>4 DEF SendClose, Sent, Accepts
  <2>2. order'[c] = "working" /\ \A d \in Coids : d # c => order'[d] = order[d]
    BY <1>1, <2>1 DEF TypeOK, BrokerTypes
  <2>3. \A d \in CloseIds : closing'[d] = IF d = c THEN CloseOf(snap, e, n) ELSE closing[d]
    BY <2>1 DEF TypeOK, BrokerTypes
  <2>4. \A t \in Tickets : CloseOf(snap, e, n)[t] =
                             IF Expiry[t] = e /\ snap[t] = 1 THEN 1 ELSE 0
    BY <1>2 DEF CloseOf, ClosedOnceInv
  <2>5. ASSUME NEW t \in Tickets, Expiry[t] = e, snap[t] = 1
        PROVE  c = CloseId(Expiry[t], 1) /\ (net[t] = 1 \/ day > Expiry[t])
    BY <1>2, <2>1, <2>5 DEF ClosedOnceInv
  <2>6. \A t \in Tickets : order'[OpenId(t)] = order[OpenId(t)]
    BY <2>2, <1>1, CoidFacts
  <2>7. ASSUME NEW d \in CloseIds, NEW t \in Tickets, closing'[d][t] # 0
        PROVE  /\ d = CloseId(Expiry[t], 1) /\ closing'[d][t] = 1 /\ order'[d] = "working"
               /\ net'[t] = 1 \/ day' > Expiry[t]
    <3>1. CASE d = c
      BY <3>1, <2>2, <2>3, <2>4, <2>5, <2>7
    <3>2. CASE d # c
      BY <3>2, <2>2, <2>3, <2>7, CoidFacts DEF ClosedOnceInv
    <3> QED  BY <3>1, <3>2
  <2>8. \A t \in Tickets : order'[OpenId(t)] # "filled" =>
          net'[t] = 0 /\ snap'[t] = 0 /\ \A d \in CloseIds : closing'[d][t] = 0
    BY <2>3, <2>4, <2>6 DEF ClosedOnceInv
  <2>9. ASSUME NEW t \in Tickets PROVE CloseId(Expiry[t], 1) \in Coids
    BY DeskAssumption, CoidFacts DEF CloseIds, Expiries
  <2>10. \A t \in Tickets : snap'[t] = 1 =>
          net'[t] = 1 \/ order'[CloseId(Expiry[t], 1)] # "none" \/ day' > Expiry[t]
    BY <2>2, <2>9 DEF ClosedOnceInv
  <2>11. \A t \in Tickets : net'[t] \in {0, 1} /\ snap'[t] \in {0, 1}
    BY DEF ClosedOnceInv
  <2> QED  BY <2>7, <2>8, <2>10, <2>11 DEF ClosedOnceInv
<1> QED  BY <1>3, <1>4

\* A structure opened by a fill is held once and has no close under way.
LEMMA ClosedOnceOpened ==
    ASSUME TypeOK, ClosedOnceInv, NEW t \in Tickets, FillOpen(t) PROVE ClosedOnceInv'
<1>1. /\ order[OpenId(t)] = "working" /\ order' = [order EXCEPT ![OpenId(t)] = "filled"]
      /\ net' = [net EXCEPT ![t] = @ + 1]
      /\ UNCHANGED <<day, closing, snap>>
  BY DEF FillOpen, pass
<1>2. \A d \in Coids : d # OpenId(t) => order'[d] = order[d]
  BY <1>1, CoidFacts DEF TypeOK, BrokerTypes
<1>3. net[t] = 0 /\ snap[t] = 0 /\ \A c \in CloseIds : closing[c][t] = 0
  BY <1>1 DEF ClosedOnceInv
<1>4. net'[t] = 1 /\ \A u \in Tickets : u # t => net'[u] = net[u]
  BY <1>1, <1>3 DEF TypeOK, BrokerTypes, Holding
<1>5. order'[OpenId(t)] = "filled"
  BY <1>1, CoidFacts DEF TypeOK, BrokerTypes
<1>6. \A c \in CloseIds : order'[c] = order[c]
  BY <1>2, CoidFacts
<1>7. \A u \in Tickets : u # t => order'[OpenId(u)] = order[OpenId(u)]
  BY <1>2, CoidFacts
<1>8. \A u \in Tickets : CloseId(Expiry[u], 1) \in CloseIds
  BY DeskAssumption DEF CloseIds, Expiries
<1> QED  BY <1>1, <1>3, <1>4, <1>5, <1>6, <1>7, <1>8 DEF ClosedOnceInv

\* A close that fills takes off what is on and cannot be sent again.
LEMMA ClosedOnceClosed ==
    ASSUME TypeOK, ClosedOnceInv, NEW c \in CloseIds, FillClose(c) PROVE ClosedOnceInv'
<1>1. /\ order[c] = "working" /\ order' = [order EXCEPT ![c] = "filled"]
      /\ net' = [t \in Tickets |-> net[t] - closing[c][t]]
      /\ closing' = [closing EXCEPT ![c] = Flat]
      /\ \A t \in Tickets : closing[c][t] # 0 => day =< Expiry[t]
      /\ UNCHANGED <<day, snap>>
  BY DEF FillClose, pass
<1>2. ASSUME NEW t \in Tickets, closing[c][t] # 0
      PROVE  c = CloseId(Expiry[t], 1) /\ closing[c][t] = 1 /\ net[t] = 1
  <2>1. day =< Expiry[t] /\ day \in Int /\ Expiry[t] \in Int
    BY <1>1, <1>2, DeskAssumption DEF TypeOK, BrokerTypes
  <2> QED  BY <1>2, <2>1 DEF ClosedOnceInv
<1>3. ASSUME NEW t \in Tickets
      PROVE  net'[t] = IF closing[c][t] = 0 THEN net[t] ELSE 0
  BY <1>1, <1>2 DEF ClosedOnceInv
<1>4. \A d \in CloseIds, t \in Tickets :
        closing'[d][t] = IF d = c THEN 0 ELSE closing[d][t]
  BY <1>1 DEF Flat, TypeOK, BrokerTypes
<1>5. order'[c] = "filled" /\ \A d \in Coids : d # c => order'[d] = order[d]
  BY <1>1, CoidFacts DEF TypeOK, BrokerTypes
<1>6. \A t \in Tickets : order'[OpenId(t)] = order[OpenId(t)]
  BY <1>5, CoidFacts
<1>7. \A t \in Tickets : net'[t] \in {0, 1} /\ snap'[t] \in {0, 1}
  BY <1>1, <1>3 DEF ClosedOnceInv
<1>8. \A t \in Tickets : order'[OpenId(t)] # "filled" =>
        net'[t] = 0 /\ snap'[t] = 0 /\ \A d \in CloseIds : closing'[d][t] = 0
  BY <1>1, <1>3, <1>4, <1>6 DEF ClosedOnceInv
<1>9. ASSUME NEW d \in CloseIds, NEW t \in Tickets, closing'[d][t] # 0
      PROVE  /\ d = CloseId(Expiry[t], 1) /\ closing'[d][t] = 1 /\ order'[d] = "working"
             /\ net'[t] = 1 \/ day' > Expiry[t]
  <2>1. d # c /\ closing[d][t] # 0
    BY <1>4, <1>9
  <2>2. d = CloseId(Expiry[t], 1) /\ closing[d][t] = 1 /\ order[d] = "working"
        /\ (net[t] = 1 \/ day > Expiry[t])
    BY <2>1 DEF ClosedOnceInv
  <2>3. closing[c][t] = 0
    BY <1>2, <2>1, <2>2
  <2> QED  BY <1>1, <1>3, <1>4, <1>5, <2>1, <2>2, <2>3, CoidFacts
<1>10. \A t \in Tickets : CloseId(Expiry[t], 1) \in Coids
  BY DeskAssumption, CoidFacts DEF CloseIds, Expiries
<1>11. ASSUME NEW t \in Tickets, snap'[t] = 1
       PROVE  net'[t] = 1 \/ order'[CloseId(Expiry[t], 1)] # "none" \/ day' > Expiry[t]
  <2>1. net[t] = 1 \/ order[CloseId(Expiry[t], 1)] # "none" \/ day > Expiry[t]
    BY <1>1, <1>11 DEF ClosedOnceInv
  <2> QED  BY <1>1, <1>2, <1>3, <1>5, <1>10, <2>1
<1> QED  BY <1>7, <1>8, <1>9, <1>11 DEF ClosedOnceInv

\* A structure settled after its expiry, and the calendar.
LEMMA ClosedOnceByTime ==
    ASSUME TypeOK, ClosedOnceInv,
           (\E t \in Tickets : Settle(t)) \/ SessionClose \/ NextDay
    PROVE  ClosedOnceInv'
<1> USE DEF pass
<1>1. ASSUME NEW t \in Tickets, Settle(t) PROVE ClosedOnceInv'
  <2>1. \A u \in Tickets : net'[u] = IF u = t THEN 0 ELSE net[u]
    BY <1>1 DEF Settle, TypeOK, BrokerTypes, Holding
  <2> QED  BY <1>1, <2>1 DEF Settle, ClosedOnceInv
<1>2. CASE SessionClose
  <2>1. /\ order' = [c \in Coids |-> IF order[c] = "working" THEN "expired" ELSE order[c]]
        /\ \A c \in CloseIds, t \in Tickets : closing'[c][t] = 0
        /\ UNCHANGED <<day, net, snap>>
    BY <1>2 DEF SessionClose, Flat
  <2>2. \A c \in Coids : /\ order'[c] = "filled" <=> order[c] = "filled"
                         /\ order'[c] = "none" <=> order[c] = "none"
    BY <2>1
  <2>3. \A t \in Tickets : CloseId(Expiry[t], 1) \in Coids
    BY DeskAssumption, CoidFacts DEF CloseIds, Expiries
  <2> QED  BY <2>1, <2>2, <2>3, CoidFacts DEF ClosedOnceInv
<1>3. CASE NextDay
  <2>1. day' > day /\ day \in Int /\ day' \in Int /\ UNCHANGED <<order, closing, net, snap>>
    BY <1>3 DEF NextDay, TypeOK, BrokerTypes
  <2>2. \A t \in Tickets : day > Expiry[t] => day' > Expiry[t]
    BY <2>1, DeskAssumption
  <2> QED  BY <2>1, <2>2 DEF ClosedOnceInv
<1> QED  BY <1>1, <1>2, <1>3

\* No step closes what is not on, while ids are unique.
LEMMA StepClosedOnce ==
    ASSUME ReusableIds = FALSE, TypeOK, ClosedOnceInv, [Next]_vars
    PROVE  ClosedOnceInv'
<1> USE DEF broker, memory, pass, journal, history
<1>1. CASE Start \/ Crash \/ Reconcile \/ ReadOrders \/ ReadOrdersFails \/ FillsRecorded
  BY <1>1, ClosedOnceFrame
     DEF Start, Crash, Reconcile, ReadOrders, ReadOrdersFails, FillsRecorded
<1>2. CASE Fetch
  <2>1. snap' = net /\ UNCHANGED <<day, order, closing, net>>
    BY <1>2 DEF Fetch
  <2> QED  BY <2>1 DEF ClosedOnceInv
<1>3. CASE ReconcileFails \/ NoEntry \/ SubmitBlocked \/ RecordSubmit
  BY <1>3, ClosedOnceFrame DEF ReconcileFails, NoEntry, SubmitBlocked, RecordSubmit, EndPass
<1>4. ASSUME NEW c \in Coids, RecordFill(c) PROVE ClosedOnceInv'
  BY <1>4, ClosedOnceFrame DEF RecordFill
<1>5. ASSUME NEW t \in Tickets, Allow(t) PROVE ClosedOnceInv'
  BY <1>5, ClosedOnceFrame DEF Allow
<1>6. CASE Submit \/ SubmitTimesOut
  <2>1. pick \in Tickets
    BY <1>6 DEF Submit, SubmitTimesOut, TypeOK, DeskTypes
  <2> QED  BY <1>6, <2>1, ClosedOncePlaced DEF Submit, SubmitTimesOut, EndPass
<1>7. ASSUME NEW e \in Expiries, NEW n \in 1..MaxQty, Manage(e, n) PROVE ClosedOnceInv'
  <2>1. IsLots(snap, e, n) /\ UNCHANGED <<day, net, snap>>
    BY <1>7 DEF Manage
  <2>2. CASE UNCHANGED <<order, closing>>
    BY <2>1, <2>2, ClosedOnceFrame
  <2>3. CASE SendClose(CloseId(e, n), CloseOf(snap, e, n))
    BY <2>1, <2>3, ClosedOnceManaged
  <2> QED  BY <1>7, <2>2, <2>3 DEF Manage
<1>8. ASSUME NEW t \in Tickets, FillOpen(t) PROVE ClosedOnceInv'
  BY <1>8, ClosedOnceOpened
<1>9. ASSUME NEW c \in CloseIds, FillClose(c) PROVE ClosedOnceInv'
  BY <1>9, ClosedOnceClosed
<1>10. CASE (\E t \in Tickets : Settle(t)) \/ SessionClose \/ NextDay
  BY <1>10, ClosedOnceByTime
<1>11. CASE UNCHANGED vars
  BY <1>11, ClosedOnceFrame DEF vars
<1> QED
  BY <1>1, <1>2, <1>3, <1>4, <1>5, <1>6, <1>7, <1>8, <1>9, <1>10, <1>11
     DEF Next, Pass, Broker

\* What is held, what is working and what was ever closed agree, with unique ids.
THEOREM ClosedOnceInvariant ==
    ASSUME ReusableIds = FALSE PROVE Spec => [](TypeOK /\ ClosedOnceInv)
<1>1. Init => TypeOK /\ ClosedOnceInv
  BY InitialTypes, InitialClosedOnce
<1>2. TypeOK /\ ClosedOnceInv /\ [Next]_vars => (TypeOK /\ ClosedOnceInv)'
  BY StepTypes, StepClosedOnce
<1> QED  BY <1>1, <1>2, PTL DEF Spec

\* While the broker never takes the same client order id twice, no structure is
\* closed more often than it was opened, whatever was read before it was closed
\* and however often a close is sent again (manage_open_positions, _close).
THEOREM NothingReversed == ASSUME ReusableIds = FALSE PROVE Spec => []NeverReversed
<1>1. ClosedOnceInv => NeverReversed
  BY DEF ClosedOnceInv, NeverReversed
<1> QED  BY <1>1, ClosedOnceInvariant, PTL

--------------------------------------------------------------------------------
(* The daily budget, as long as client order ids are unique.                  *)

\* The day's budget is a number of dollar-basis-points.
LEMMA BudgetIsNat == DailyNewRiskBp * Equity \in Nat
<1>1. DailyNewRiskBp \in Nat
  <2>1. {MaxLossBp, DailyNewRiskBp, DrawdownFlattenBp, TakeProfitBp} \subseteq 1..Whole
    BY ConfigAssumption DEF Consistent
  <2>2. DailyNewRiskBp \in 1..Whole
    BY <2>1
  <2> QED  BY <2>2 DEF Whole
<1>2. Equity \in Nat
  BY DeskAssumption
<1> QED  BY <1>1, <1>2

\* Nothing is charged and nothing is open at first.
LEMMA InitialBudget == Init => BudgetInv
  BY BudgetIsNat DEF Init, BudgetInv, PassUnderWay, Whole

\* An order once sent stays sent, whoever acts on it.
LEMMA OrdersStaySent ==
    ASSUME TypeOK, [Next]_vars, ReusableIds = FALSE
    PROVE  \A c \in Coids : order[c] # "none" => order'[c] # "none"
<1> USE DEF broker, memory, pass, journal, history, TypeOK, BrokerTypes
<1>1. ASSUME NEW c \in Coids, order' = Sent(c)
      PROVE  \A d \in Coids : order[d] # "none" => order'[d] # "none"
  BY <1>1, SentIsNew
<1>2. ASSUME NEW c \in Coids, order' = [order EXCEPT ![c] = "filled"]
      PROVE  \A d \in Coids : order[d] # "none" => order'[d] # "none"
  BY <1>2
<1>3. CASE Submit \/ SubmitTimesOut
  <2>1. pick \in Tickets /\ order' = Sent(OpenId(pick))
    BY <1>3 DEF Submit, SubmitTimesOut, Place, DeskTypes
  <2> QED  BY <1>1, <2>1, CoidFacts
<1>4. ASSUME NEW e \in Expiries, NEW n \in 1..MaxQty, Manage(e, n)
      PROVE  \A d \in Coids : order[d] # "none" => order'[d] # "none"
  <2>1. CloseId(e, n) \in Coids
    BY CoidFacts DEF CloseIds
  <2> QED  BY <1>1, <1>4, <2>1 DEF Manage, SendClose
<1>5. ASSUME NEW t \in Tickets, FillOpen(t)
      PROVE  \A d \in Coids : order[d] # "none" => order'[d] # "none"
  BY <1>2, <1>5, CoidFacts DEF FillOpen
<1>6. ASSUME NEW c \in CloseIds, FillClose(c)
      PROVE  \A d \in Coids : order[d] # "none" => order'[d] # "none"
  BY <1>2, <1>6, CoidFacts DEF FillClose
<1>7. CASE SessionClose
  BY <1>7 DEF SessionClose
<1>8. ASSUME NEW c \in Coids, RecordFill(c) PROVE UNCHANGED order
  BY <1>8 DEF RecordFill
<1>9. ASSUME NEW t \in Tickets, Allow(t) \/ Settle(t) PROVE UNCHANGED order
  BY <1>9 DEF Allow, Settle
<1>10. CASE Start \/ Crash \/ Fetch \/ Reconcile \/ ReconcileFails \/ ReadOrders
            \/ ReadOrdersFails \/ FillsRecorded \/ NoEntry \/ SubmitBlocked
            \/ RecordSubmit \/ NextDay \/ UNCHANGED vars
  BY <1>10 DEF Start, Crash, Fetch, Reconcile, ReconcileFails, ReadOrders, ReadOrdersFails,
               FillsRecorded, NoEntry, SubmitBlocked, RecordSubmit, NextDay, vars
<1> QED
  BY <1>3, <1>4, <1>5, <1>6, <1>7, <1>8, <1>9, <1>10 DEF Next, Pass, Broker

\* Steps that neither charge nor open, and send, allow or reconcile nothing.
LEMMA BudgetFrame ==
    ASSUME BudgetInv, UNCHANGED <<charge, dayRisk, opened, lost>>,
           \A c \in Coids : order[c] # "none" => order'[c] # "none",
           \A c \in Coids : fills'[c] > 0 => order'[c] # "none",
           \A c \in listing' : fills'[c] > 0,
           \/ UNCHANGED <<pc, book, pick>>
           \/ pc # "sent" /\ pc' \notin PassUnderWay
           \/ pc \in PassUnderWay \ {"sent"} /\ UNCHANGED book /\ pc' \notin {"allowed", "sent"}
    PROVE  BudgetInv'
  BY CoidFacts DEF BudgetInv, PassUnderWay

\* No step opens more than is charged, lost or on its way to the journal.
LEMMA StepBudget ==
    ASSUME ReusableIds = FALSE, TypeOK, BudgetInv, [Next]_vars PROVE BudgetInv'
<1> USE DEF broker, memory, pass, journal, history
<1>s. \A c \in Coids : order[c] # "none" => order'[c] # "none"
  BY OrdersStaySent
<1>f. ASSUME UNCHANGED fills
      PROVE  \A c \in Coids : fills'[c] > 0 => order'[c] # "none"
  BY <1>s, <1>f DEF BudgetInv
<1>1. CASE Start \/ Fetch \/ NoEntry
  <2>1. /\ pc' \notin PassUnderWay /\ pc # "sent"
        /\ UNCHANGED <<charge, dayRisk, opened, lost, fills>>
        /\ listing' \subseteq listing
    BY <1>1 DEF Start, Fetch, NoEntry, EndPass, Managing, PassUnderWay
  <2> QED  BY <1>s, <1>f, <2>1, BudgetFrame DEF BudgetInv
<1>2. CASE ReconcileFails \/ ReadOrdersFails \/ SubmitBlocked
  <2>1. /\ pc # "sent" /\ UNCHANGED <<charge, dayRisk, opened, lost, fills>>
        /\ listing' \subseteq listing
        /\ pc' \notin PassUnderWay \/ (pc = "reconciled" /\ UNCHANGED book /\ pc' = "recording")
    BY <1>2 DEF ReconcileFails, ReadOrdersFails, SubmitBlocked, EndPass, PassUnderWay
  <2> QED  BY <1>s, <1>f, <2>1, BudgetFrame DEF BudgetInv, PassUnderWay
<1>c. CASE Crash
  <2>1. /\ crashes < MaxCrashes /\ pc' = "off" /\ listing' = {}
        /\ lost' = IF pc = "sent" THEN lost + MaxLoss[pick] ELSE lost
        /\ UNCHANGED <<order, fills, charge, dayRisk, opened>>
    BY <1>c DEF Crash
  <2>2. opened \in Nat /\ dayRisk \in Nat /\ lost \in Nat /\ crashes \in Nat
    BY DEF TypeOK, JournalTypes
  <2>3. pc = "sent" => MaxLoss[pick] \in Nat
    BY DeskAssumption DEF TypeOK, DeskTypes
  <2>4. opened' =< dayRisk' + lost'
    BY <2>1, <2>2, <2>3 DEF BudgetInv
  <2>5. MaxCrashes # 0
    BY <2>1, <2>2
  <2> QED  BY <2>1, <2>4, <2>5 DEF BudgetInv, PassUnderWay
<1>3. CASE Reconcile
  <2>1. /\ book'.dayRisk = dayRisk /\ pc' = "reconciled" /\ pc = "fetched"
        /\ UNCHANGED <<order, fills, listing, charge, dayRisk, opened, lost>>
    BY <1>3 DEF Reconcile
  <2> QED  BY <2>1 DEF BudgetInv
<1>4. CASE ReadOrders
  <2>1. \A c \in listing' : fills'[c] > 0
    BY <1>4 DEF ReadOrders, FilledOrders
  <2> QED  BY <1>4, <1>s, <1>f, <2>1, BudgetFrame DEF ReadOrders, PassUnderWay
<1>5. CASE FillsRecorded
  BY <1>5, <1>s, <1>f, BudgetFrame DEF FillsRecorded, PassUnderWay, BudgetInv
<1>6. ASSUME NEW c \in Coids, RecordFill(c) PROVE BudgetInv'
  <2>1. /\ pc = "recording" /\ listing' \subseteq listing /\ charge' = Charged(c, "nothing")
        /\ UNCHANGED <<order, fills, pc, book, pick, dayRisk, opened, lost>>
    BY <1>6 DEF RecordFill
  <2>2. order[c] # "none"
    BY <1>6 DEF RecordFill, BudgetInv
  <2>3. \A t \in Tickets : charge'[t] # "none" => order'[OpenId(t)] # "none"
    BY <2>1, <2>2 DEF Charged, BudgetInv
  <2> QED  BY <2>1, <2>3 DEF BudgetInv
<1>7. ASSUME NEW e \in Expiries, NEW n \in 1..MaxQty, Manage(e, n) PROVE BudgetInv'
  BY <1>7, <1>s, <1>f, BudgetFrame DEF Manage, BudgetInv
<1>8. ASSUME NEW t \in Tickets, Allow(t) PROVE BudgetInv'
  <2>1. /\ pc = "managing" /\ pc' = "allowed" /\ pick' = t
        /\ DailyRiskOk(book.dayRisk, MaxLoss[t], Equity)
        /\ UNCHANGED <<order, fills, listing, book, charge, dayRisk, opened, lost>>
    BY <1>8 DEF Allow, Managing, OfficerAllows
  <2>2. DailyRiskOk(dayRisk, MaxLoss[t], Equity)
    BY <2>1 DEF BudgetInv, PassUnderWay
  <2>3. DailyRiskOk(dayRisk, MaxLoss[t], Equity)'
    BY <2>1, <2>2 DEF DailyRiskOk
  <2> QED  BY <2>1, <2>2, <2>3 DEF BudgetInv, PassUnderWay, DailyRiskOk
<1>p. ASSUME Place(pick), pick \in Tickets, pc = "allowed"
      PROVE  opened' =< dayRisk + lost
                        + (IF Accepts(OpenId(pick)) /\ charge[pick] = "none"
                              THEN MaxLoss[pick] ELSE 0)
  <2>1. MaxLoss[pick] \in Nat /\ opened \in Nat /\ dayRisk \in Nat /\ lost \in Nat
    BY <1>p, DeskAssumption DEF TypeOK, JournalTypes
  <2>2. opened =< dayRisk + lost /\ (charge[pick] # "none" => order[OpenId(pick)] # "none")
    BY <1>p DEF BudgetInv
  <2>3. Accepts(OpenId(pick)) => charge[pick] = "none"
    BY <2>2 DEF Accepts
  <2> QED  BY <1>p, <2>1, <2>2, <2>3 DEF Place
<1>t. CASE SubmitTimesOut
  <2>1. /\ pc = "allowed" /\ pc' = "idle" /\ pick \in Tickets /\ Place(pick) /\ CallsMayFail
        /\ lost' = IF Accepts(OpenId(pick)) THEN lost + MaxLoss[pick] ELSE lost
        /\ listing' = {} /\ UNCHANGED <<fills, charge, dayRisk>>
    BY <1>t DEF SubmitTimesOut, EndPass, Place, TypeOK, DeskTypes
  <2>2. MaxLoss[pick] \in Nat /\ opened \in Nat /\ dayRisk \in Nat /\ lost \in Nat
    BY <2>1, DeskAssumption DEF TypeOK, JournalTypes
  <2>3. opened' =< dayRisk' + lost'
    <3>1. CASE Accepts(OpenId(pick))
      BY <1>p, <2>1, <2>2, <3>1 DEF Place, BudgetInv
    <3>2. CASE ~Accepts(OpenId(pick))
      BY <1>p, <2>1, <2>2, <3>2
    <3> QED  BY <3>1, <3>2
  <2> QED  BY <1>s, <1>f, <2>1, <2>3, CoidFacts DEF BudgetInv, PassUnderWay
<1>9. CASE Submit
  <2>1. /\ pc = "allowed" /\ pc' = "sent" /\ pick \in Tickets /\ Place(pick)
        /\ UNCHANGED <<fills, listing, book, pick, charge, dayRisk, lost>>
    BY <1>9 DEF Submit, Place, TypeOK, DeskTypes
  <2>2. MaxLoss[pick] \in Nat /\ opened \in Nat /\ dayRisk \in Nat /\ lost \in Nat
    BY <2>1, DeskAssumption DEF TypeOK, JournalTypes
  <2>3. OpenId(pick) \in Coids /\ order'[OpenId(pick)] # "none"
    BY <2>1, CoidFacts, SentIsNew DEF Place
  <2>5. opened' =< dayRisk + lost + (IF charge[pick] = "none" THEN MaxLoss[pick] ELSE 0)
    <3>1. TypeOK' /\ opened' \in Nat
      BY StepTypes DEF TypeOK, JournalTypes
    <3> QED  BY <1>p, <2>1, <2>2, <3>1
  <2>6. DailyRiskOk(dayRisk, MaxLoss[pick], Equity)'
    BY <2>1 DEF BudgetInv, DailyRiskOk
  <2> QED  BY <1>s, <1>f, <2>1, <2>3, <2>5, <2>6, CoidFacts DEF BudgetInv, PassUnderWay
<1>10. CASE RecordSubmit
  <2>1. /\ pc = "sent" /\ pc' = "idle" /\ pick \in Tickets /\ listing' = {}
        /\ charge' = Charged(OpenId(pick), "max_loss")
        /\ dayRisk' = IF charge[pick] = "none" THEN dayRisk + MaxLoss[pick] ELSE dayRisk
        /\ UNCHANGED <<order, fills, opened, lost>>
    BY <1>10 DEF RecordSubmit, EndPass, TypeOK, DeskTypes
  <2>2. MaxLoss[pick] \in Nat /\ opened \in Nat /\ dayRisk \in Nat /\ lost \in Nat
    BY <2>1, DeskAssumption DEF TypeOK, JournalTypes
  <2>3. \A t \in Tickets : charge'[t] # "none" => order'[OpenId(t)] # "none"
    BY <2>1, CoidFacts DEF Charged, BudgetInv
  <2>4. opened' =< dayRisk' + lost'
    BY <2>1, <2>2 DEF BudgetInv
  <2>5. dayRisk' * Whole =< DailyNewRiskBp * Equity
    BY <2>1, <2>2 DEF BudgetInv, DailyRiskOk
  <2> QED  BY <2>1, <2>3, <2>4, <2>5 DEF BudgetInv, PassUnderWay
<1>11. ASSUME NEW t \in Tickets, FillOpen(t) PROVE BudgetInv'
  <2>1. OpenId(t) \in Coids /\ order[OpenId(t)] = "working"
    BY <1>11, CoidFacts DEF FillOpen
  <2>2. \A c \in Coids : c # OpenId(t) => fills'[c] = fills[c]
    BY <1>11 DEF FillOpen, TypeOK, BrokerTypes
  <2>3. \A c \in Coids : fills'[c] > 0 => order'[c] # "none"
    BY <1>s, <2>1, <2>2 DEF BudgetInv
  <2>4. \A c \in listing : fills'[c] > 0
    BY <1>11 DEF FillOpen, BudgetInv, TypeOK, BrokerTypes, DeskTypes
  <2> QED  BY <1>11, <1>s, <2>3, <2>4, BudgetFrame DEF FillOpen
<1>12. ASSUME NEW c \in CloseIds, FillClose(c) PROVE BudgetInv'
  <2>1. c \in Coids /\ order[c] = "working"
    BY <1>12, CoidFacts DEF FillClose
  <2>2. \A d \in Coids : d # c => fills'[d] = fills[d]
    BY <1>12 DEF FillClose, TypeOK, BrokerTypes
  <2>3. \A d \in Coids : fills'[d] > 0 => order'[d] # "none"
    BY <1>s, <2>1, <2>2 DEF BudgetInv
  <2>4. \A d \in listing : fills'[d] > 0
    BY <1>12 DEF FillClose, BudgetInv, TypeOK, BrokerTypes, DeskTypes
  <2> QED  BY <1>12, <1>s, <2>3, <2>4, BudgetFrame DEF FillClose
<1>13. CASE (\E t \in Tickets : Settle(t)) \/ SessionClose \/ UNCHANGED vars
  BY <1>13, <1>s, <1>f, BudgetFrame DEF Settle, SessionClose, vars, BudgetInv
<1>14. CASE NextDay
  <2>1. /\ charge' = [t \in Tickets |-> "none"] /\ dayRisk' = 0 /\ opened' = 0 /\ lost' = 0
        /\ pc \notin PassUnderWay /\ UNCHANGED <<order, fills, listing, pc>>
    BY <1>14 DEF NextDay, BetweenPasses, PassUnderWay
  <2> QED  BY <2>1, BudgetIsNat DEF BudgetInv, PassUnderWay, Whole
<1> QED
  BY <1>1, <1>2, <1>3, <1>4, <1>5, <1>6, <1>7, <1>8, <1>9, <1>10, <1>11, <1>12, <1>13, <1>14,
     <1>c, <1>t
     DEF Next, Pass, Broker

\* The accounts of the day's risk hold in every reachable state.
THEOREM BudgetInvariant == ASSUME ReusableIds = FALSE PROVE Spec => [](TypeOK /\ BudgetInv)
<1>1. Init => TypeOK /\ BudgetInv
  BY InitialTypes, InitialBudget
<1>2. TypeOK /\ BudgetInv /\ [Next]_vars => (TypeOK /\ BudgetInv)'
  BY StepTypes, StepBudget
<1> QED  BY <1>1, <1>2, PTL DEF Spec

\* What the broker was asked to open on a day stays within the day's budget but
\* for the orders whose answer was lost, whatever fails and crashes: the charge
\* is written only after the broker answered (officer check 4, _submit).
THEOREM BudgetHoldsButForLost ==
    ASSUME ReusableIds = FALSE PROVE Spec => []BudgetButForLost
<1>1. TypeOK /\ BudgetInv => BudgetButForLost
  <2> SUFFICES ASSUME TypeOK, BudgetInv PROVE BudgetButForLost
    OBVIOUS
  <2>1. opened \in Nat /\ dayRisk \in Nat /\ lost \in Nat
    BY DEF TypeOK, JournalTypes
  <2>2. CASE pc # "sent"
    BY <2>1, <2>2, BudgetIsNat DEF BudgetInv, BudgetButForLost, Whole
  <2>3. CASE pc = "sent"
    <3>1. MaxLoss[pick] \in Nat /\ opened =< dayRisk + lost + MaxLoss[pick]
          /\ (dayRisk + MaxLoss[pick]) * Whole =< DailyNewRiskBp * Equity
      BY <2>1, <2>3, DeskAssumption DEF BudgetInv, DailyRiskOk
    <3> QED  BY <2>1, <3>1, BudgetIsNat DEF BudgetButForLost, Whole
  <2> QED  BY <2>2, <2>3
<1> QED  BY <1>1, BudgetInvariant, PTL

\* Where no answer is lost the budget holds as the README states it.
THEOREM BudgetHolds ==
    ASSUME ReusableIds = FALSE, CallsMayFail = FALSE, MaxCrashes = 0
    PROVE  Spec => []DailyBudget
<1>1. TypeOK /\ BudgetInv /\ BudgetButForLost => DailyBudget
  BY DEF TypeOK, JournalTypes, BudgetInv, BudgetButForLost, DailyBudget
<1> QED  BY <1>1, BudgetInvariant, BudgetHoldsButForLost, PTL

--------------------------------------------------------------------------------
(* What must go before expiry has its order.                                  *)

\* In the forced-flatten zone the decision is to flatten, whatever the marks are.
LEMMA FlattenIsSent ==
    ASSUME NEW dte \in 0..ForceFlattenDte, NEW flattenOnly, NEW credit, NEW cost,
           NEW breached, NEW rollCount
    PROVE  SendsClose(Decide(dte, flattenOnly, credit, cost, breached, rollCount))
  BY DEF Decide, SendsClose

\* An order that has been sent is working if an id can be used again, and it takes
\* no other off.
LEMMA SentIsWorking ==
    ASSUME TypeOK, ReusableIds = TRUE, NEW c \in Coids
    PROVE  /\ Sent(c)[c] = "working"
           /\ \A d \in Coids : order[d] = "working" => Sent(c)[d] = "working"
  BY DEF Sent, Accepts, TypeOK, BrokerTypes

LEMMA CloseIdIsCoid ==
    ASSUME NEW e \in Expiries, NEW n \in 1..MaxQty
    PROVE  CloseId(e, n) \in Coids /\ CloseId(e, n) \notin OpenIds
<1>1. CloseId(e, n) \in CloseIds
  BY DEF CloseIds
<1> QED  BY <1>1, CoidFacts

\* Nothing is to be covered where no pass is managing.
LEMMA CoverOutside == pc' # "managing" /\ todo' = {} => CoverInv'
  BY DEF CoverInv

\* What happens to other orders does not uncover anything.
LEMMA CoverFrame ==
    ASSUME CoverInv, UNCHANGED <<day, session, pc, snap, todo>>,
           closedSince \subseteq closedSince',
           \A e \in Expiries : \A n \in 1..MaxQty :
              CloseId(e, n) \in closedSince'
                  \/ (order[CloseId(e, n)] = "working" => order'[CloseId(e, n)] = "working")
    PROVE  CoverInv'
<1>1. Managed(snap)' = Managed(snap) /\ Managed(snap) \subseteq Expiries
  BY DEF Managed, OpenExpiries, Group, LegCount
<1>2. ASSUME pc = "managing", NEW e \in Managed(snap) \ todo, FlattenDue(e)'
      PROVE  CloseWorking(e)'
  <2>1. FlattenDue(e)
    BY <1>2 DEF FlattenDue
  <2>2. PICK n \in 1..MaxQty : order[CloseId(e, n)] = "working"
    BY <1>2, <2>1 DEF CoverInv, CloseWorking
  <2>3. CloseId(e, n) \notin closedSince'
    BY <1>2 DEF FlattenDue
  <2>4. order'[CloseId(e, n)] = "working"
    BY <1>1, <1>2, <2>2, <2>3
  <2> QED  BY <2>4 DEF CloseWorking
<1> QED  BY <1>1, <1>2 DEF CoverInv

\* Managing a group that is due sends its close, or finds it working.
LEMMA CoverManaged ==
    ASSUME TypeOK, CoverInv, ReusableIds = TRUE, CallsMayFail = FALSE,
           NEW e \in Expiries, NEW n \in 1..MaxQty, Manage(e, n)
    PROVE  CoverInv'
<1>1. /\ pc = "managing" /\ e \in todo /\ todo' = todo \ {e}
      /\ UNCHANGED <<day, session, pc, snap, closedSince>>
  BY DEF Manage
<1>2. Managed(snap)' = Managed(snap) /\ Managed(snap) \subseteq Expiries
  BY <1>1 DEF Managed, OpenExpiries, Group, LegCount
<1>3. CloseId(e, n) \in Coids
  BY CloseIdIsCoid
<1>4. order' = order \/ order' = Sent(CloseId(e, n))
  BY DEF Manage, SendClose
<1>5. \A d \in Coids : order[d] = "working" => order'[d] = "working"
  BY <1>3, <1>4, SentIsWorking
<1>6. e - day \in 0..ForceFlattenDte => order'[CloseId(e, n)] = "working"
  <2> SUFFICES ASSUME e - day \in 0..ForceFlattenDte
               PROVE  order'[CloseId(e, n)] = "working"
    OBVIOUS
  <2>1. order' = Sent(CloseId(e, n))
    BY FlattenIsSent DEF Manage, SendClose
  <2> QED  BY <1>3, <2>1, SentIsWorking
<1>7. ASSUME NEW f \in Managed(snap) \ todo', FlattenDue(f)' PROVE CloseWorking(f)'
  <2>1. CASE f = e
    <3>1. order'[CloseId(e, n)] = "working"
      BY <1>1, <1>6, <1>7, <2>1 DEF FlattenDue
    <3> QED  BY <2>1, <3>1 DEF CloseWorking
  <2>2. CASE f # e
    <3>1. FlattenDue(f) /\ f \in Managed(snap) \ todo
      BY <1>1, <1>7, <2>2 DEF FlattenDue
    <3>2. PICK m \in 1..MaxQty : order[CloseId(f, m)] = "working"
      BY <1>1, <3>1 DEF CoverInv, CloseWorking
    <3>3. order'[CloseId(f, m)] = "working"
      BY <1>2, <1>5, <3>1, <3>2, CloseIdIsCoid
    <3> QED  BY <3>3 DEF CloseWorking
  <2> QED  BY <2>1, <2>2
<1> QED  BY <1>1, <1>2, <1>7 DEF CoverInv

LEMMA StepCover ==
    ASSUME ReusableIds = TRUE, CallsMayFail = FALSE
    PROVE  TypeOK /\ CoverInv /\ [Next]_vars => CoverInv'
<1> SUFFICES ASSUME TypeOK, CoverInv, [Next]_vars PROVE CoverInv'
  OBVIOUS
<1>1. CASE Start \/ Crash \/ Fetch \/ Reconcile \/ ReconcileFails \/ ReadOrders
           \/ ReadOrdersFails \/ NoEntry \/ Submit \/ SubmitTimesOut \/ SubmitBlocked
           \/ RecordSubmit \/ (\E t \in Tickets : Allow(t)) \/ SessionClose \/ NextDay
  <2>1. pc' # "managing" /\ todo' = {}
    BY <1>1 DEF Start, Crash, Fetch, Reconcile, ReconcileFails, ReadOrders, ReadOrdersFails,
                NoEntry, Submit, SubmitTimesOut, SubmitBlocked, RecordSubmit, Allow, Managing,
                EndPass, SessionClose, NextDay, BetweenPasses, pass, CoverInv
  <2> QED  BY <2>1, CoverOutside
<1>2. CASE FillsRecorded
  <2>1. pc' = "managing" /\ todo' = Managed(snap) /\ snap' = snap
    BY <1>2 DEF FillsRecorded
  <2>2. Managed(snap)' = Managed(snap)
    BY <2>1 DEF Managed, OpenExpiries, Group, LegCount
  <2> QED  BY <2>1, <2>2 DEF CoverInv
<1>3. ASSUME NEW c \in Coids, RecordFill(c) PROVE CoverInv'
  BY <1>3, CoverFrame DEF RecordFill, broker
<1>4. ASSUME NEW e \in Expiries, NEW n \in 1..MaxQty, Manage(e, n) PROVE CoverInv'
  BY <1>4, CoverManaged
<1>5. ASSUME NEW t \in Tickets, FillOpen(t) PROVE CoverInv'
  <2>1. \A e \in Expiries : \A n \in 1..MaxQty : order'[CloseId(e, n)] = order[CloseId(e, n)]
    <3>1. OpenId(t) \in OpenIds
      BY CoidFacts
    <3> QED  BY <1>5, <3>1, CloseIdIsCoid DEF FillOpen, TypeOK, BrokerTypes
  <2> QED  BY <1>5, <2>1, CoverFrame DEF FillOpen, pass
<1>6. ASSUME NEW c \in CloseIds, FillClose(c) PROVE CoverInv'
  <2>1. CASE BetweenPasses
    <3>1. pc' # "managing" /\ todo' = {}
      BY <1>6, <2>1 DEF FillClose, BetweenPasses, CoverInv
    <3> QED  BY <3>1, CoverOutside
  <2>2. CASE ~BetweenPasses
    <3>1. closedSince' = closedSince \cup {c} /\ order' = [order EXCEPT ![c] = "filled"]
      BY <1>6, <2>2 DEF FillClose
    <3>2. \A e \in Expiries : \A n \in 1..MaxQty :
             c # CloseId(e, n) => order'[CloseId(e, n)] = order[CloseId(e, n)]
      BY <3>1, CloseIdIsCoid DEF TypeOK, BrokerTypes
    <3> QED  BY <1>6, <3>1, <3>2, CoverFrame DEF FillClose
  <2> QED  BY <2>1, <2>2
<1>7. ASSUME NEW t \in Tickets, Settle(t) PROVE CoverInv'
  BY <1>7, CoverFrame DEF Settle, pass
<1>8. CASE UNCHANGED vars
  BY <1>8, CoverFrame DEF vars, broker, pass
<1> QED
  BY <1>1, <1>2, <1>3, <1>4, <1>5, <1>6, <1>7, <1>8 DEF Next, Pass, Broker

\* What a pass has managed and is due has its close, at every point of the pass.
THEOREM CoverInvariant ==
    ASSUME ReusableIds = TRUE, CallsMayFail = FALSE
    PROVE  Spec => [](TypeOK /\ CoverInv)
<1>1. Init => TypeOK /\ CoverInv
  BY InitialTypes DEF Init, CoverInv
<1>2. TypeOK /\ CoverInv /\ [Next]_vars => (TypeOK /\ CoverInv)'
  BY StepTypes, StepCover
<1> QED  BY <1>1, <1>2, PTL DEF Spec

\* Where ids can be used again and calls arrive, no managed structure is left in the
\* forced-flatten zone without a working close: manage_open_positions passes none
\* over, and nothing but a fill ends an order while the pass lasts.
THEOREM FlattenZoneIsCovered ==
    ASSUME ReusableIds = TRUE, CallsMayFail = FALSE
    PROVE  Spec => []FlattenZoneCovered
<1>1. CoverInv => FlattenZoneCovered
  BY DEF CoverInv, FlattenZoneCovered, Managing
<1> QED  BY <1>1, CoverInvariant, PTL
================================================================================
