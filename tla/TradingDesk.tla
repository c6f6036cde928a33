------------------------------ MODULE TradingDesk ------------------------------
(***************************************************************************)
(* The trading loop (main.py, loop.py, reconcile.py) between a broker that *)
(* acts on its own and an append-only journal that survives a crash.       *)
(*                                                                         *)
(* A pass is a sequence of reads and writes that the broker's fills        *)
(* interleave with: positions are read (Fetch), then account, clock and    *)
(* positions again (Reconcile), then fills are journalled one by one, then *)
(* every managed structure gets its decision, and last a new entry is      *)
(* considered.  The process may die between any two of these steps.        *)
(*                                                                         *)
(* A ticket is one concrete structure; its id is a hash of its legs, so    *)
(* the same structure built on two passes is the same ticket.  Every order *)
(* is for one lot (config max_lots is 1).  Prices appear only as the marks *)
(* the lifecycle decision tells apart.                                     *)
(***************************************************************************)
EXTENDS Lifecycle, RiskOfficer

CONSTANTS
    Tickets,          \* the structures the desk may ever propose
    NoTicket,         \* no pick
    Expiry,           \* [Tickets -> Nat]: expiry day
    MaxLoss,          \* [Tickets -> Nat]: dollars at risk for one lot
    Legs,             \* [Tickets -> set of leg symbols]
    Marks,            \* what a position may be marked at: [credit, cost, breached]
    Equity,           \* start-of-day equity, which sets the daily budget
    ReusableIds,      \* may a client order id be used again once its order is done?
    CallsMayFail,     \* may a call fail, be refused, or time out after it was obeyed?
    LastDay,          \* bound on the calendar
    MaxCrashes,       \* bound on process deaths
    MaxQty,           \* bound on lots held of one structure, and
    MaxFills          \* on fills under one id (both bind only with reusable ids)

ASSUME DeskAssumption ==
    /\ NoTicket \notin Tickets
    /\ Expiry \in [Tickets -> Nat]
    /\ MaxLoss \in [Tickets -> Nat]
    /\ \A m \in Marks : m.credit \in Int /\ m.cost \in Nat /\ m.breached \in BOOLEAN
    /\ Equity \in Nat
    /\ ReusableIds \in BOOLEAN /\ CallsMayFail \in BOOLEAN
    /\ LastDay \in Nat /\ MaxCrashes \in Nat /\ {MaxQty, MaxFills} \subseteq Nat \ {0}

Expiries == {Expiry[t] : t \in Tickets}

\* Client order ids, derived from what is traded and never from when:
\* og-{ticket}-{lots} with one lot, and og-close-{underlying}-{expiry}-{lots}.
OpenId(t) == <<"og", t>>
CloseId(e, lots) == <<"og-close", e, lots>>
OpenIds == {OpenId(t) : t \in Tickets}
CloseIds == {CloseId(e, n) : e \in Expiries, n \in 1..MaxQty}
Coids == OpenIds \cup CloseIds

VARIABLES
    (* the broker *)
    day,          \* calendar day
    session,      \* "open" or "closed"
    order,        \* [Coids -> status of the last order under that id]
    fills,        \* [Coids -> number of fills reported under that id]
    closing,      \* [CloseIds -> what the order takes off, per ticket]
    net,          \* [Tickets -> lots held]; negative would be a reversed structure
    (* the desk process *)
    pc,           \* where in the pass the process is
    snap,         \* positions as main.py read them, before the pass
    book,         \* what reconcile returned
    listing,      \* filled orders read and not yet looked at by record_fills
    scanned,      \* has _recorded_fill_ids been seeded from the journal?
    seen,         \* _recorded_fill_ids
    todo,         \* expiries still to be managed on this pass
    pick,         \* the ticket the officer allowed
    (* the journal *)
    jFills,       \* [Coids -> number of FILL entries]
    charge,       \* [Tickets -> what today's first SUBMIT or FILL charges]
    dayRisk,      \* risk_opened_on(today)
    allowed,      \* tickets with an ALLOW entry today
    (* history *)
    closedSince,  \* closes filled since the positions were read, while the pass lasts
    opened,       \* dollars at risk in the opening orders the broker took today
    lost,         \* dollars at risk in those sent today and never answered for
    crashes

broker  == <<day, session, order, fills, closing, net>>
memory  == <<scanned, seen>>
pass    == <<snap, book, listing, todo, pick, closedSince>>
journal == <<jFills, charge, dayRisk, allowed>>
history == <<opened, lost, crashes>>
vars    == <<broker, memory, pc, pass, journal, history>>

Statuses == {"none", "working", "filled", "expired"}
Holding == [Tickets -> (0 - MaxQty)..MaxQty]
Flat == [t \in Tickets |-> 0]
NoBook == [open |-> {}, flattenOnly |-> FALSE, marketOpen |-> FALSE, dayRisk |-> 0]

--------------------------------------------------------------------------------
(* Positions as the desk sees them: legs grouped by expiry.                   *)

\* The structures of one expiry that are on in the holding p.
Group(p, e) == {t \in Tickets : Expiry[t] = e /\ p[t] # 0}

\* group_positions_into_structures: one structure per expiry, however many legs.
OpenExpiries(p) == {e \in Expiries : Group(p, e) # {}}

\* rebuild_positions: a group is managed only if it has two or four legs.
LegCount(p, e) == Cardinality(UNION {Legs[t] : t \in Group(p, e)})
Managed(p) == {e \in OpenExpiries(p) : LegCount(p, e) \in {2, 4}}

Size(n) == IF n < 0 THEN 0 - n ELSE n

\* The lots of a group: the largest quantity of any of its legs.
IsLots(p, e, n) ==
    /\ \E t \in Group(p, e) : Size(p[t]) = n
    /\ \A t \in Group(p, e) : Size(p[t]) =< n

\* Mutant: the ratio of every leg counted into the quantity again.
CloseOfPerLeg(p, e, n) ==
    [t \in Tickets |-> IF Expiry[t] # e \/ p[t] = 0 THEN 0
                       ELSE n * Cardinality(Legs[t])]

\* Mutant: closes what was ever proposed for the expiry instead of what is held.
CloseOfProposed(p, e, n) ==
    [t \in Tickets |-> IF Expiry[t] # e THEN 0 ELSE n]

\* Its closing order takes that many off every leg.
CloseOf(p, e, n) ==
    [t \in Tickets |-> IF Expiry[t] # e \/ p[t] = 0 THEN 0
                       ELSE IF p[t] > 0 THEN n ELSE 0 - n]

--------------------------------------------------------------------------------
(* The broker, external to src/.                                              *)

\* A new order is refused while its client order id is taken.
Accepts(c) == IF ReusableIds THEN order[c] # "working" ELSE order[c] = "none"

FillOpen(t) ==
    /\ session = "open"
    /\ order[OpenId(t)] = "working"
    /\ day =< Expiry[t]
    /\ net[t] < MaxQty /\ fills[OpenId(t)] < MaxFills
    /\ order' = [order EXCEPT ![OpenId(t)] = "filled"]
    /\ fills' = [fills EXCEPT ![OpenId(t)] = @ + 1]
    /\ net' = [net EXCEPT ![t] = @ + 1]
    /\ UNCHANGED <<day, session, closing, memory, pc, pass, journal, history>>

BetweenPasses == pc \in {"off", "idle"}

FillClose(c) ==
    /\ session = "open"
    /\ order[c] = "working"
    /\ \A t \in Tickets : closing[c][t] # 0 => day =< Expiry[t]
    /\ \A t \in Tickets : Size(net[t] - closing[c][t]) =< MaxQty
    /\ fills[c] < MaxFills
    /\ order' = [order EXCEPT ![c] = "filled"]
    /\ fills' = [fills EXCEPT ![c] = @ + 1]
    /\ net' = [t \in Tickets |-> net[t] - closing[c][t]]
    /\ closing' = [closing EXCEPT ![c] = Flat]
    /\ closedSince' = IF BetweenPasses THEN {} ELSE closedSince \cup {c}
    /\ UNCHANGED <<day, session, memory, pc, snap, book, listing, todo, pick,
                   journal, history>>

\* Every order is a day order.  What the desk sends after the close waits for
\* the next session.  A pass takes seconds and the officer keeps entries out of
\* the last minutes, so the calendar moves between passes.
SessionClose ==
    /\ BetweenPasses /\ session = "open"
    /\ session' = "closed"
    /\ order' = [c \in Coids |-> IF order[c] = "working" THEN "expired" ELSE order[c]]
    /\ closing' = [c \in CloseIds |-> Flat]
    /\ UNCHANGED <<day, fills, net, memory, pc, pass, journal, history>>

\* The journal's per-day reads (risk_opened_on filters on the date) start over.
NextDay ==
    /\ BetweenPasses /\ session = "closed" /\ day < LastDay
    /\ day' = day + 1
    /\ session' = "open"
    /\ charge' = [t \in Tickets |-> "none"]
    /\ dayRisk' = 0
    /\ allowed' = {}
    /\ opened' = 0 /\ lost' = 0
    /\ UNCHANGED <<order, fills, closing, net, memory, pc, pass, jFills, crashes>>

\* A structure carried past its expiry is settled by the broker.
Settle(t) ==
    /\ day > Expiry[t] /\ net[t] # 0
    /\ net' = [net EXCEPT ![t] = 0]
    /\ UNCHANGED <<day, session, order, fills, closing, memory, pc, pass, journal, history>>

--------------------------------------------------------------------------------
(* The desk.                                                                  *)

\* What a pass holds in local variables is gone when it ends.
EndPass ==
    /\ pc' = "idle"
    /\ snap' = Flat /\ book' = NoBook /\ listing' = {} /\ todo' = {}
    /\ pick' = NoTicket /\ closedSince' = {}

Start ==
    /\ pc = "off"
    /\ pc' = "idle"
    /\ scanned' = FALSE /\ seen' = {}
    /\ UNCHANGED <<broker, pass, journal, history>>

\* Everything the process held in memory is lost.  An order already sent, and
\* every journal entry already written, is not.
Crash ==
    /\ pc # "off" /\ crashes < MaxCrashes
    /\ crashes' = crashes + 1
    /\ lost' = IF pc = "sent" THEN lost + MaxLoss[pick] ELSE lost
    /\ pc' = "off"
    /\ scanned' = FALSE /\ seen' = {}
    /\ snap' = Flat /\ book' = NoBook /\ listing' = {} /\ todo' = {}
    /\ pick' = NoTicket /\ closedSince' = {}
    /\ UNCHANGED <<broker, journal, opened>>

\* main.py reads the positions to manage before the pass reconciles.  When a
\* read fails here the process only sleeps, which is a stuttering step.
Fetch ==
    /\ pc = "idle"
    /\ pc' = "fetched"
    /\ snap' = net
    /\ UNCHANGED <<broker, memory, book, listing, todo, pick, closedSince, journal, history>>

\* The drawdown breaker is an input here; Drawdown.tla says where it comes from.
Reconcile ==
    /\ pc = "fetched"
    /\ pc' = "reconciled"
    /\ \E breaker \in BOOLEAN :
          book' = [open       |-> OpenExpiries(net),
                   flattenOnly |-> breaker,
                   marketOpen |-> session = "open",
                   dayRisk    |-> dayRisk]
    /\ UNCHANGED <<broker, memory, snap, listing, todo, pick, closedSince, journal, history>>

\* A reconcile that raises ends the pass; nothing is managed.
ReconcileFails ==
    /\ CallsMayFail
    /\ pc = "fetched"
    /\ EndPass
    /\ UNCHANGED <<broker, memory, journal, history>>

\* Mutant: a restarted process starts from an empty set.
AlreadyRecordedInMemory == IF scanned THEN seen ELSE {}

\* _recorded_fill_ids: the journal's FILL entries, scanned once per process.
AlreadyRecorded == IF scanned THEN seen ELSE {c \in Coids : jFills[c] > 0}

\* Mutant: the broker's default listing, open orders only.
FilledOrdersStillOpen == {c \in Coids : fills[c] > 0 /\ order[c] = "working"}

\* The orders get_open_orders(status="all") returns that record_fills looks at.
FilledOrders == {c \in Coids : fills[c] > 0}

ReadOrders ==
    /\ pc = "reconciled"
    /\ pc' = "recording"
    /\ listing' = FilledOrders \ AlreadyRecorded
    /\ seen' = AlreadyRecorded
    /\ scanned' = TRUE
    /\ UNCHANGED <<broker, snap, book, todo, pick, closedSince, journal, history>>

\* The lookup raises: fills wait for a later pass, this one goes on.
ReadOrdersFails ==
    /\ CallsMayFail
    /\ pc = "reconciled"
    /\ pc' = "recording"
    /\ UNCHANGED <<broker, memory, pass, journal, history>>

\* risk_opened_on looks at the first SUBMIT or FILL of an id and skips the rest.
Charged(c, entry) ==
    [t \in Tickets |-> IF c = OpenId(t) /\ charge[t] = "none" THEN entry ELSE charge[t]]

\* One FILL entry, then its id is remembered.  A FILL carries no max_loss.
RecordFill(c) ==
    /\ pc = "recording"
    /\ c \in listing
    /\ listing' = listing \ {c}
    /\ jFills' = [jFills EXCEPT ![c] = @ + 1]
    /\ seen' = seen \cup {c}
    /\ charge' = Charged(c, "nothing")
    /\ UNCHANGED <<broker, scanned, pc, snap, book, todo, pick, closedSince,
                   dayRisk, allowed, history>>

FillsRecorded ==
    /\ pc = "recording" /\ listing = {}
    /\ pc' = "managing"
    /\ todo' = Managed(snap)
    /\ UNCHANGED <<broker, memory, snap, book, listing, pick, closedSince, journal, history>>

\* Sending: the broker takes the order if the id is free, and the desk carries
\* on the same way when it does not.
Sent(c) == IF Accepts(c) THEN [order EXCEPT ![c] = "working"] ELSE order

SendClose(c, legs) ==
    /\ order' = Sent(c)
    /\ closing' = IF Accepts(c) THEN [closing EXCEPT ![c] = legs] ELSE closing

\* manage_open_positions: expiries in order, one decision each.  A HOLD or a
\* DEFEND sends nothing; the others send the close of the group as read by
\* Fetch.  A failed dry run, a refusal or a timeout before the broker is
\* reached sends nothing either and the loop goes on.
Manage(e, n) ==
    /\ pc = "managing"
    /\ e \in todo /\ \A f \in todo : e =< f
    /\ IsLots(snap, e, n)
    /\ todo' = todo \ {e}
    /\ \E m \in Marks :
          LET action == Decide(e - day, book.flattenOnly, m.credit, m.cost, m.breached, 0)
          IN \/ /\ ~SendsClose(action)
                /\ UNCHANGED <<order, closing>>
             \/ /\ SendsClose(action)
                /\ SendClose(CloseId(e, n), CloseOf(snap, e, n))
             \/ /\ SendsClose(action) /\ CallsMayFail
                /\ UNCHANGED <<order, closing>>
    /\ UNCHANGED <<day, session, fills, net, memory, pc, snap, book, listing, pick,
                   closedSince, journal, history>>

Managing == pc = "managing" /\ todo = {}

\* evaluate(), as far as it reads the book.
OfficerAllows(t) ==
    /\ ~book.flattenOnly
    /\ book.marketOpen
    /\ DailyRiskOk(book.dayRisk, MaxLoss[t], Equity)
    /\ NoOverlappingShort(Expiry[t], book.open)
    /\ DteOk(Expiry[t] - day)
    /\ RoomForOneMore(book.open)

\* consider_new_entry without an entry: flatten-only, no candidate, or a DENY.
\* Regime, quotes and prices can always be the reason, so this is always possible.
NoEntry ==
    /\ Managing
    /\ EndPass
    /\ UNCHANGED <<broker, memory, journal, history>>

\* Mutant: the verdict is sent on without being written down.
AllowUnwritten(t) ==
    /\ Managing
    /\ OfficerAllows(t)
    /\ pc' = "allowed"
    /\ pick' = t
    /\ UNCHANGED <<broker, memory, snap, book, listing, todo, closedSince,
                   journal, history>>

\* A ticket was built, ranked and allowed, and the ALLOW is on disk.
Allow(t) ==
    /\ Managing
    /\ OfficerAllows(t)
    /\ pc' = "allowed"
    /\ pick' = t
    /\ allowed' = allowed \cup {t}
    /\ UNCHANGED <<broker, memory, snap, book, listing, todo, closedSince,
                   jFills, charge, dayRisk, history>>

\* The broker takes the pick if its id is free.
Place(t) ==
    /\ order' = Sent(OpenId(t))
    /\ opened' = IF Accepts(OpenId(t)) THEN opened + MaxLoss[t] ELSE opened
    /\ UNCHANGED <<day, session, fills, closing, net, crashes>>

Submit ==
    /\ pc = "allowed"
    /\ Place(pick)
    /\ pc' = "sent"
    /\ UNCHANGED <<memory, pass, journal, lost>>

\* The order was taken and the call still raised (TimeoutExpired): only an
\* ERROR is journalled.
SubmitTimesOut ==
    /\ CallsMayFail
    /\ pc = "allowed"
    /\ Place(pick)
    /\ lost' = IF Accepts(OpenId(pick)) THEN lost + MaxLoss[pick] ELSE lost
    /\ EndPass
    /\ UNCHANGED <<memory, journal>>

\* The dry run failed or the call raised before the broker was reached.
SubmitBlocked ==
    /\ CallsMayFail
    /\ pc = "allowed"
    /\ EndPass
    /\ UNCHANGED <<broker, memory, journal, history>>

\* Mutant: a working order is not charged, only a filled one would be.
RecordSubmitUncharged ==
    /\ pc = "sent"
    /\ charge' = Charged(OpenId(pick), "nothing")
    /\ EndPass
    /\ UNCHANGED <<broker, memory, jFills, dayRisk, allowed, history>>

\* The SUBMIT entry, whatever the exit code was.
RecordSubmit ==
    /\ pc = "sent"
    /\ charge' = Charged(OpenId(pick), "max_loss")
    /\ dayRisk' = IF charge[pick] = "none" THEN dayRisk + MaxLoss[pick] ELSE dayRisk
    /\ EndPass
    /\ UNCHANGED <<broker, memory, jFills, allowed, history>>

--------------------------------------------------------------------------------
Init ==
    /\ day = 0 /\ session = "open"
    /\ order = [c \in Coids |-> "none"]
    /\ fills = [c \in Coids |-> 0]
    /\ closing = [c \in CloseIds |-> Flat]
    /\ net = Flat
    /\ pc = "off"
    /\ snap = Flat /\ book = NoBook /\ listing = {} /\ todo = {}
    /\ pick = NoTicket /\ closedSince = {}
    /\ scanned = FALSE /\ seen = {}
    /\ jFills = [c \in Coids |-> 0]
    /\ charge = [t \in Tickets |-> "none"]
    /\ dayRisk = 0 /\ allowed = {}
    /\ opened = 0 /\ lost = 0 /\ crashes = 0

Pass ==
    \/ Fetch \/ Reconcile \/ ReconcileFails
    \/ ReadOrders \/ ReadOrdersFails \/ FillsRecorded
    \/ \E c \in Coids : RecordFill(c)
    \/ \E e \in Expiries, n \in 1..MaxQty : Manage(e, n)
    \/ NoEntry \/ \E t \in Tickets : Allow(t)
    \/ Submit \/ SubmitTimesOut \/ SubmitBlocked \/ RecordSubmit

Broker ==
    \/ \E t \in Tickets : FillOpen(t) \/ Settle(t)
    \/ \E c \in CloseIds : FillClose(c)
    \/ SessionClose \/ NextDay

Next == Start \/ Crash \/ Pass \/ Broker

Spec == Init /\ [][Next]_vars

--------------------------------------------------------------------------------
(* Properties.                                                                *)

PCs == {"off", "idle", "fetched", "reconciled", "recording", "managing", "allowed", "sent"}

Books == [open : SUBSET Expiries, flattenOnly : BOOLEAN, marketOpen : BOOLEAN, dayRisk : Nat]

BrokerTypes ==
    /\ day \in 0..LastDay /\ session \in {"open", "closed"}
    /\ order \in [Coids -> Statuses]
    /\ fills \in [Coids -> Nat]
    /\ closing \in [CloseIds -> Holding]
    /\ net \in Holding

DeskTypes ==
    /\ pc \in PCs
    /\ snap \in Holding /\ book \in Books
    /\ listing \subseteq Coids
    /\ scanned \in BOOLEAN /\ seen \subseteq Coids
    /\ todo \subseteq Expiries
    /\ pick \in IF pc \in {"allowed", "sent"} THEN Tickets ELSE {NoTicket}
    /\ closedSince \subseteq CloseIds /\ (BetweenPasses => closedSince = {})

JournalTypes ==
    /\ jFills \in [Coids -> Nat]
    /\ charge \in [Tickets -> {"none", "max_loss", "nothing"}]
    /\ dayRisk \in Nat /\ allowed \subseteq Tickets
    /\ opened \in Nat /\ lost \in Nat /\ crashes \in Nat

\* Every variable has its type, and a ticket is picked exactly from the verdict
\* to the SUBMIT entry (consider_new_entry passes it on to _submit).
TypeOK == BrokerTypes /\ DeskTypes /\ JournalTypes

\* The journal never reports more fills of an order than the broker made, over
\* any number of passes, failed lookups and restarts (loop.record_fills and
\* Journal.client_order_ids): realised P&L is summed over these entries.
FillsNotInvented == \A c \in Coids : jFills[c] =< fills[c]

\* As long as orders can be looked up again and again, every fill the broker reports
\* is journalled in the end, whatever failed lookups and crashes come between
\* (record_fills: "journal any newly filled order").  That lookups succeed is a
\* condition and no fairness: nothing in the program makes a dead session answer
\* (mcp_stdio.py:168) or a torn journal parse.
LookupsSucceed == []<><<ReadOrders>>_vars
FillsReachTheJournal ==
    LookupsSucceed => \A c \in Coids : fills[c] > 0 ~> jFills[c] > 0

\* The same, as an implementation of FillLedger.
Ledger == INSTANCE FillLedger WITH Ids <- Coids, made <- fills, told <- jFills
LedgerSpec == Ledger!Spec

\* No structure is ever closed twice.  Positions to close were read before
\* reconcile and may have been closed since; what stops the second close is the
\* client order id (build_close_command).
NeverReversed == \A t \in Tickets : net[t] >= 0

\* An opening order the broker is working has its ALLOW on disk, even when the
\* process died between the two ("no ALLOW means no broker command").
WorkingOrdersWereAllowed ==
    \A t \in Tickets : order[OpenId(t)] = "working" => t \in allowed

\* Check 4 as the README states it: what the broker was asked to open today is
\* within 2% of equity (risk_opened_on is how the officer knows).
DailyBudget == opened * Whole =< DailyNewRiskBp * Equity

\* The same whatever fails and crashes: nothing exceeds the budget but orders
\* whose answer never reached the journal.
BudgetButForLost == (opened - lost) * Whole =< DailyNewRiskBp * Equity

\* A group must be on its way out: what was read has neither expired nor changed.
FlattenDue(e) ==
    /\ e - day \in 0..ForceFlattenDte /\ session = "open"
    /\ \A n \in 1..MaxQty : CloseId(e, n) \notin closedSince

CloseWorking(e) == \E n \in 1..MaxQty : order[CloseId(e, n)] = "working"

\* After a pass has managed its positions, every structure it managed that is
\* inside the forced-flatten zone has a closing order working, unless one of its
\* closing orders was filled since the positions were read
\* (lifecycle.decide: "never_held_into_settlement").
FlattenZoneCovered ==
    Managing => \A e \in Managed(snap) : FlattenDue(e) => CloseWorking(e)

--------------------------------------------------------------------------------
(* Inductive invariants: what the proofs of the properties above rest on.     *)

PassUnderWay == {"reconciled", "recording", "managing", "allowed", "sent"}

\* The journal, the memory of the process and what is left to record agree, so
\* that no fill is ever written down a second time.
RecordingInv ==
    /\ \A c \in Coids : jFills[c] =< 1 /\ (jFills[c] > 0 => fills[c] > 0)
    /\ \A c \in listing : c \in Coids /\ fills[c] > 0 /\ jFills[c] = 0
    /\ listing # {} => pc = "recording" /\ scanned
    /\ seen = IF scanned THEN {c \in Coids : jFills[c] > 0} ELSE {}

\* From the verdict to the order the session stays open and the verdict stays
\* on disk, so what is working in the open session was allowed.
AllowInv ==
    /\ pc \in PassUnderWay /\ book.marketOpen => session = "open"
    /\ pc = "allowed" => pick \in allowed /\ session = "open"
    /\ \A t \in Tickets : order[OpenId(t)] = "working" => session = "open" /\ t \in allowed

\* With client order ids that are never free again: a position that was read is
\* still on, or its one closing order has been sent, or it has expired; and a
\* closing order takes off what is on.
ClosedOnceInv ==
    /\ \A t \in Tickets : net[t] \in {0, 1} /\ snap[t] \in {0, 1}
    /\ \A t \in Tickets : order[OpenId(t)] # "filled" =>
          /\ net[t] = 0 /\ snap[t] = 0
          /\ \A c \in CloseIds : closing[c][t] = 0
    /\ \A c \in CloseIds, t \in Tickets : closing[c][t] # 0 =>
          /\ c = CloseId(Expiry[t], 1) /\ closing[c][t] = 1 /\ order[c] = "working"
          /\ net[t] = 1 \/ day > Expiry[t]
    /\ \A t \in Tickets : snap[t] = 1 =>
          net[t] = 1 \/ order[CloseId(Expiry[t], 1)] # "none" \/ day > Expiry[t]

\* With client order ids that are free again, and calls that do not fail: what the
\* pass has managed is covered, and what it has still to manage is of its own list.
CoverInv ==
    /\ pc = "managing" => \A e \in Managed(snap) \ todo : FlattenDue(e) => CloseWorking(e)
    /\ todo # {} => pc = "managing" /\ todo \subseteq Managed(snap)

\* With unique client order ids: what the broker was asked to open is charged or
\* its answer was lost, but for the order this pass has just sent, and for that
\* one the officer has checked that there is room.
BudgetInv ==
    /\ CallsMayFail = FALSE /\ MaxCrashes = 0 => lost = 0
    /\ \A c \in Coids : fills[c] > 0 => order[c] # "none"
    /\ \A c \in listing : fills[c] > 0
    /\ \A t \in Tickets : charge[t] # "none" => order[OpenId(t)] # "none"
    /\ pc \in PassUnderWay => book.dayRisk = dayRisk
    /\ pc \in {"allowed", "sent"} =>
          pick \in Tickets /\ DailyRiskOk(dayRisk, MaxLoss[pick], Equity)
    /\ dayRisk * Whole =< DailyNewRiskBp * Equity
    /\ pc # "sent" => opened =< dayRisk + lost
    /\ pc = "sent" =>
          /\ order[OpenId(pick)] # "none"
          /\ opened =< dayRisk + lost + (IF charge[pick] = "none" THEN MaxLoss[pick] ELSE 0)

--------------------------------------------------------------------------------
(* What the documents say of the program and the program does not do.         *)

\* WRITEUP: three open structures, no overlapping short exposure.
NoOverlapHeld ==
    \A s, t \in Tickets :
        (s # t /\ net[s] # 0 /\ net[t] # 0)
            => Gap(Expiry[s], Expiry[t]) > AdjacentExpiryDays
================================================================================
