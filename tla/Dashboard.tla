------------------------------- MODULE Dashboard -------------------------------
(***************************************************************************)
(* api.py: what the read-only dashboard makes of the journal of a running  *)
(* desk.  It keeps no state: every request reads the file as it is.        *)
(***************************************************************************)
EXTENDS DeskService, SequencesExt

CONSTANTS
    GateWindow,       \* lines api_gate looks at (5000)
    DecisionWindow    \* lines api_decision looks at (400)

ASSUME DashboardAssumption == GateWindow \in Nat \ {0} /\ DecisionWindow \in Nat \ {0}

\* Journal.tail: of the last lines of the file, those that parse.
Window(limit) == {i \in DOMAIN lines : i > Len(lines) - limit /\ lines[i] # Corrupt}

\* The lines that say an event.
Saying(event, at) == {i \in at : says[lines[i]].event = event}

NoEntry == 0

\* The last entry of an event, and the first one: by_event keeps what came first.
LastOf(event, at) ==
    IF Saying(event, at) = {} THEN NoEntry ELSE lines[Max(Saying(event, at))]

FirstOf(event, at) ==
    IF Saying(event, at) = {} THEN NoEntry ELSE lines[Min(Saying(event, at))]

\* api_gate: the STARTUP entry it reports, or its own process's gate.
GateView == LastOf("STARTUP", Window(GateWindow))

Regimes == Saying("REGIME", Window(DecisionWindow))

\* Mutant: the chain starts at the first REGIME of the window.
ChainFromFirst ==
    {i \in Window(DecisionWindow) : Regimes # {} /\ i >= Min(Regimes)}

\* api_decision: everything from the last REGIME on ...
Chain == {i \in Window(DecisionWindow) : Regimes # {} /\ i >= Max(Regimes)}

\* ... and of each event the first.
DecisionView ==
    [regime     |-> FirstOf("REGIME", Chain),
     candidates |-> FirstOf("CANDIDATES", Chain),
     rank       |-> FirstOf("RANK", Chain),
     verdict    |-> IF FirstOf("ALLOW", Chain) # NoEntry THEN FirstOf("ALLOW", Chain)
                    ELSE FirstOf("DENY", Chain),
     submit     |-> FirstOf("SUBMIT", Chain)]

--------------------------------------------------------------------------------
(* _pair_fills.                                                               *)

\* The lines of Journal.events("FILL"), an id once.
Fills ==
    {i \in Saying("FILL", DOMAIN lines) :
        \A j \in Saying("FILL", 1..(i - 1)) : says[lines[j]].id # says[lines[i]].id}

\* Mutant: the fills are walked as they were journalled.
EarlierAsWritten(i, j) == i < j

\* The key of the sort, which is stable.
Earlier(i, j) ==
    LET at(k) == says[lines[k]].at
    IN  at(i) < at(j) \/ (at(i) = at(j) /\ i < j)

InTime ==
    [n \in 1..Cardinality(Fills) |->
        says[lines[CHOOSE i \in Fills : Cardinality({j \in Fills : Earlier(j, i)}) = n - 1]]]

\* Mutant: the first open and the first close are the trade, and what was opened after
\* a close is none.
SettleOnce(books, fill) ==
    IF fill.what = "open"
    THEN IF books.done = {} THEN [books EXCEPT !.out = Append(@, fill.at)] ELSE books
    ELSE IF books.out = <<>> THEN books
    ELSE [out |-> Tail(books.out), done |-> books.done \cup {<<Head(books.out), fill.at>>}]

\* A close settles the oldest open outstanding; one without any is passed over.
Settle(books, fill) ==
    IF fill.what = "open" THEN [books EXCEPT !.out = Append(@, fill.at)]
    ELSE IF books.out = <<>> THEN books
    ELSE [out |-> Tail(books.out), done |-> books.done \cup {<<Head(books.out), fill.at>>}]

\* The books after the first n fills.
Books[n \in 0..Cardinality(Fills)] ==
    IF n = 0 THEN [out |-> <<>>, done |-> {}] ELSE Settle(Books[n - 1], InTime[n])

\* Each trade is its opening fill and its closing one, or 0 while it is on.
Trades ==
    LET books == Books[Cardinality(Fills)]
    IN  books.done \cup {<<books.out[i], 0>> : i \in DOMAIN books.out}

--------------------------------------------------------------------------------
(* Properties.                                                                *)

\* What the broker did: each open up to the close that follows it.
RoundTrips ==
    {<<k, IF k < Len(filled) THEN k + 1 ELSE 0>> :
        k \in {j \in DOMAIN filled : filled[j].intent = "open"}}

OneAtATime ==
    \A k \in DOMAIN filled : k > 1 => filled[k].intent # filled[k - 1].intent

Journalled(k) == \E e \in Readable : says[e].event = "FILL" /\ says[e].at = k

\* When every fill is in the journal and no two structures were on at once, the
\* trades table is what happened, in whatever order the fills were recorded and
\* over any restart: one expiry, left and entered again, is as many round trips
\* (api.py:402-409).
TradesAreTrue ==
    ~ReadRaises /\ OneAtATime /\ (\A k \in DOMAIN filled : Journalled(k))
        => Trades = RoundTrips

\* And every fill does get there: when a lookup has found nothing left to record, the
\* table is what happened.  This needs ids that are used once: a fill whose id is in
\* the journal is taken for one already recorded (loop.py:240).
TripsAreShown ==
    [][OrdersRead /\ todo' = {} /\ OneAtATime /\ ~ReusableIds
        => Trades = RoundTrips]_serviceVars

\* While a pass is under way /api/gate shows the gate of the process that runs it,
\* or, once that is out of the window, admits to know none: never that of an
\* earlier process (api.py:95-103).
GateViewIsDesks ==
    pc \in {"read", "allowed", "sent"} =>
        \/ GateView = NoEntry
        \/ /\ says[GateView].what = "READY"
           /\ \A e \in (GateView + 1)..(next - 1) : says[e].event # "STARTUP"

\* The decision shown is that of one pass: shortlist, pick and verdict are of the
\* pass of the REGIME shown, though another pass proposed the same ticket, and an
\* opening order is shown only with its own ALLOW (api.py:266-273).
DecisionIsOnePass ==
    LET view == DecisionView
        OfPass(e) == e # NoEntry => says[e].at = view.regime
    IN  view.regime # NoEntry =>
            /\ OfPass(view.candidates) /\ OfPass(view.rank) /\ OfPass(view.verdict)
            /\ view.submit # NoEntry /\ says[view.submit].what = "open" =>
                  /\ OfPass(view.submit)
                  /\ view.verdict # NoEntry /\ says[view.verdict].event = "ALLOW"
================================================================================
