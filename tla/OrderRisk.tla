------------------------------- MODULE OrderRisk -------------------------------
(***************************************************************************)
(* One opening order from proposal to the end of its position: the regime's *)
(* permission, the officer's fifteen checks and its sizing, the limit price *)
(* and the charge to the day's budget, the fill, and what is lost when the  *)
(* position settles, or what is left when it is closed.                     *)
(*                                                                         *)
(* Per-share prices are cents.  One lot is a hundred shares, so a loss of   *)
(* c cents per share is c dollars per lot.                                  *)
(***************************************************************************)
EXTENDS RiskOfficer, Structures

CONSTANTS
    MaxLots,             \* max_lots
    RegimeMaxLots,       \* regime_max_lots
    MinCreditToWidthBp,  \* min_credit_to_width
    MaxSpreadBp,         \* max_short_leg_spread_pct
    MaxQuoteAgeMs,       \* max_quote_age_ms
    FinalSessionMinutes, \* final_session_minutes
    Cases,               \* what is proposed, and into which market
    Settlements          \* where the underlying may settle, in dollars

Regimes == {"INCOME", "COMPRESSION", "MOMENTUM", "EVENT"}
AllowedStructures == {"put_credit_spread", "iron_condor"}

\* A name a ticket claims: any string, those that mean something to the desk first.
Names == AllowedStructures \cup Regimes \cup STRING

\* A ticket, and what the officer is given to hold it against.
Tickets ==
    [legs : SUBSET Legs, type : Names, series : STRING, width : Int, dte : Int,
     credit : Int, maxLoss : Int, proposed : Int, regime : Names]

Markets ==
    [equity : Int, startOfDay : Int, highWater : Int, dayRisk : Int,
     quoted : BOOLEAN, credit : Int, spread : Int, quoteAge : Int,
     minutes : Int, open : BOOLEAN, ownAccount : BOOLEAN,
     expiry : Int, today : Int, openExpiries : SUBSET Int,
     signals : [{"eventNear", "trending", "ivLow", "cheap"} -> BOOLEAN]]

\* _validate, for the limits only this module reads.
LimitsConsistent ==
    /\ MaxLots \in Nat \ {0}
    /\ RegimeMaxLots \in [Regimes -> 0..MaxLots]
    /\ RegimeMaxLots["MOMENTUM"] = 0 /\ RegimeMaxLots["EVENT"] = 0
    /\ {MinCreditToWidthBp, MaxSpreadBp} \subseteq 1..Whole
    /\ MaxQuoteAgeMs \in Nat \ {0} /\ FinalSessionMinutes \in Int

ASSUME LimitsAssumption == LimitsConsistent

ASSUME CasesAssumption ==
    /\ Cases \subseteq [ticket : Tickets, market : Markets]
    /\ \A case \in Cases : IsFiniteSet(case.ticket.legs)

ASSUME SettlementsAssumption == Settlements \subseteq Int

VARIABLES
    stage,     \* "proposed", "denied", "allowed", "working", "held", "settled", "closed"
               \* (and what comes before a ticket: see Unproposed)
    ticket,    \* the ticket: its legs, and what it claims of them
    market,    \* quotes, book, account and signals, as they are
    lots,      \* allowed_lots
    limit,     \* credit asked for, per share
    charge,    \* max_loss in the SUBMIT entry
    price,     \* credit received, per share
    held,      \* [symbols -> contracts held], shorts negative
    loss       \* what settlement took, in dollars

vars == <<stage, ticket, market, lots, limit, charge, price, held, loss>>

Clamp(n) == IF n < 1 THEN 1 ELSE n
Near(a, b, tolerance) == a - b =< tolerance /\ b - a =< tolerance

--------------------------------------------------------------------------------
(* MarketDNA.                                                                 *)

\* classify: the first condition that matches.
Classify(signals) ==
    IF signals.eventNear THEN "EVENT"
    ELSE IF signals.trending THEN "MOMENTUM"
    ELSE IF signals.ivLow THEN "COMPRESSION"
    ELSE "INCOME"

\* permissions_for: no lots where premium is too cheap, and no strategy without lots.
RegimeLots(signals) ==
    IF signals.cheap THEN 0 ELSE RegimeMaxLots[Classify(signals)]
Strategies(signals) == IF RegimeLots(signals) > 0 THEN AllowedStructures ELSE {}

--------------------------------------------------------------------------------
(* _recalculate.                                                              *)

Shape(t) == StructureOf(t.legs)
Recalculable(t, m) == Shape(t) # "none" /\ m.quoted

\* Dollars at risk in one lot, from the legs and the quotes.
LossPerLot(t, m) == 100 * Width(t.legs) - m.credit

\* compute_sizing.
AllowedLots(t, m) ==
    LET budget == DailyNewRiskBp * m.startOfDay - m.dayRisk * Whole
        riskLots == budget \div (LossPerLot(t, m) * Whole)
    IN IF ~Recalculable(t, m) \/ LossPerLot(t, m) =< 0 \/ budget =< 0 THEN 0
       ELSE Min({MaxLots, RegimeLots(m.signals), riskLots})

LossOf(t, m) == LossPerLot(t, m) * Clamp(AllowedLots(t, m))

--------------------------------------------------------------------------------
(* The checks the book's module does not have.                                *)

\* Check 1.
RegimePermits(t, m) ==
    /\ RegimeLots(m.signals) > 0
    /\ t.type \in Strategies(m.signals)
    /\ t.regime = Classify(m.signals)

\* Check 2.
OnAllowlist(t) ==
    /\ t.type \in AllowedStructures
    /\ Shape(t) \in AllowedStructures \cup {"none"}

\* Mutant: the cap is applied to what the ticket says of itself.
WithinCapAsClaimed(t, m) == m.equity > 0 /\ t.maxLoss * Whole =< MaxLossBp * m.equity

\* Check 3.
WithinCap(t, m) ==
    /\ Recalculable(t, m) /\ m.equity > 0
    /\ LossOf(t, m) * Whole =< MaxLossBp * m.equity

\* Check 5.
DrawdownOk(m) ==
    m.highWater =< 0 \/ m.equity * Whole > m.highWater * (Whole - DrawdownFlattenBp)

\* Check 7.
CreditOk(t, m) ==
    /\ Recalculable(t, m) /\ Width(t.legs) > 0 /\ m.credit > 0
    /\ m.credit * Whole >= MinCreditToWidthBp * Width(t.legs) * 100

\* Check 8: the widest market of a short leg, against the net credit.
SpreadOk(t, m) ==
    /\ m.quoted /\ \E leg \in t.legs : IsShort(leg)
    /\ m.credit > 0 => m.spread * Whole =< MaxSpreadBp * m.credit

\* MAX_CLOCK_SKEW_MS
MaxClockSkewMs == 2000

\* Check 9.
QuotesFresh(m) == m.quoted /\ 0 - MaxClockSkewMs =< m.quoteAge /\ m.quoteAge < MaxQuoteAgeMs

\* Check 11.
SessionOk(m) == m.open /\ m.minutes > FinalSessionMinutes

\* Check 15: to the cent in prices (CLAIM_TOLERANCE), to the dollar in losses.
ClaimsMatch(t, m) ==
    /\ Shape(t) # "none" /\ t.type = Shape(t)
    /\ \A leg \in t.legs : leg.series = t.series
    /\ t.width = Width(t.legs) /\ t.dte = m.expiry - m.today
    /\ m.quoted =>
          /\ Near(t.credit, m.credit, 1)
          /\ Near(t.maxLoss, LossPerLot(t, m) * Clamp(t.proposed), 1)
    /\ t.proposed >= 1

\* The fifteen checks, none of which stops at another's reason.
NoReason(t, m) ==
    /\ RegimePermits(t, m) /\ OnAllowlist(t) /\ WithinCap(t, m)
    /\ DailyRiskOk(m.dayRisk, LossOf(t, m), m.startOfDay)
    /\ DrawdownOk(m)
    /\ NoOverlappingShort(m.expiry, m.openExpiries)
    /\ CreditOk(t, m) /\ SpreadOk(t, m) /\ QuotesFresh(m)
    /\ DteOk(m.expiry - m.today) /\ SessionOk(m)
    /\ RoomForOneMore(m.openExpiries)
    /\ IsReduced(t.legs) /\ m.ownAccount
    /\ ClaimsMatch(t, m)

\* Mutant: the checks pass, whatever lots are left.
AllowsAnyLots(t, m) == NoReason(t, m)

\* evaluate.
Allows(t, m) == NoReason(t, m) /\ AllowedLots(t, m) >= 1

\* _build_ticket: what the desk's own builder claims of the same legs.
Honest(t, m) ==
    [t EXCEPT !.type = Shape(t), !.width = Width(t.legs), !.dte = m.expiry - m.today,
              !.credit = m.credit, !.maxLoss = LossPerLot(t, m), !.proposed = 1,
              !.regime = Classify(m.signals)]

--------------------------------------------------------------------------------
(* The order.                                                                 *)

Concession == 5     \* LIMIT_CONCESSION, in percent

\* Mutant: the limit is a debit cap, which any credit satisfies.
LimitPricesUnsigned(credit) == {1}

\* limit_price_for_credit: shaved and rounded to the cent, a tie either way.
LimitPrices(credit) ==
    {p \in 1..Clamp(credit) :
        \/ Near(100 * p, (100 - Concession) * credit, 50)
        \/ p = 1 /\ (100 - Concession) * credit < 100}

Evaluate ==
    /\ stage = "proposed"
    /\ IF Allows(ticket, market)
          THEN stage' = "allowed" /\ lots' = AllowedLots(ticket, market)
          ELSE stage' = "denied" /\ lots' = 0
    /\ UNCHANGED <<ticket, market, limit, charge, price, held, loss>>

\* Mutant: the entry charges one lot.
SendChargingOneLot ==
    /\ stage = "allowed" /\ ticket.credit > 0 /\ stage' = "working"
    /\ limit' \in LimitPrices(ticket.credit)
    /\ charge' = ticket.maxLoss
    /\ UNCHANGED <<ticket, market, lots, price, held, loss>>

\* build_submit_command, submit and the SUBMIT entry.
Send ==
    /\ stage = "allowed" /\ ticket.credit > 0 /\ stage' = "working"
    /\ limit' \in LimitPrices(ticket.credit)
    /\ charge' = ticket.maxLoss * lots
    /\ UNCHANGED <<ticket, market, lots, price, held, loss>>

Contracts(leg, n) == IF IsShort(leg) THEN 0 - n * leg.ratio ELSE n * leg.ratio

\* The broker fills at the limit, or at the middle of the market if that is better.
Fill ==
    /\ stage = "working" /\ stage' = "held"
    /\ price' \in {limit, Max({limit, market.credit})}
    /\ held' = {<<leg, Contracts(leg, lots)>> : leg \in ticket.legs}
    /\ UNCHANGED <<ticket, market, lots, limit, charge, loss>>

\* The position expires: the broker settles every leg.
Settle ==
    /\ stage = "held" /\ stage' = "settled"
    /\ \E s \in Settlements :
          loss' = 0 - lots * (100 * Payoff(ticket.legs, s) + price)
    /\ UNCHANGED <<ticket, market, lots, limit, charge, price, held>>

\* The size of a leg's position, and the lots rebuild_positions reads off it.
Size(contracts) == IF contracts < 0 THEN 0 - contracts ELSE contracts
HeldLots == Max({Size(h[2]) : h \in held} \cup {1})

\* rebuild_positions: a leg per position, short where the quantity is negative,
\* every ratio one; a count of legs that is neither two nor four is skipped.
Rebuilt ==
    {[h[1] EXCEPT !.ratio = 1,
                  !.side = IF h[2] < 0 THEN "sell" ELSE "buy",
                  !.intent = IF h[2] < 0 THEN "sell_to_open" ELSE "buy_to_open"] : h \in held}

\* build_close_command, and its fill.
Close ==
    /\ stage = "held" /\ stage' = "closed"
    /\ Cardinality(held) \in {2, 4}
    /\ LET closing(h) == CHOOSE c \in ClosingLegs(Rebuilt) : Symbol(c) = Symbol(h[1])
       IN held' = {<<h[1], h[2] + Contracts(closing(h), HeldLots)>> : h \in held}
    /\ UNCHANGED <<ticket, market, lots, limit, charge, price, loss>>

Init ==
    /\ \E case \in Cases : ticket = case.ticket /\ market = case.market
    /\ stage = "proposed" /\ lots = 0 /\ limit = 0 /\ charge = 0 /\ price = 0
    /\ held = {} /\ loss = 0

Next == Evaluate \/ Send \/ Fill \/ Settle \/ Close

Spec == Init /\ [][Next]_vars

--------------------------------------------------------------------------------
(* Properties.                                                                *)

Sent == {"working", "held", "settled", "closed"}

\* Before there is a ticket (Candidates).
Unproposed == {"reading", "offered", "no_candidate"}

\* Every variable has its type, and no order asks for less than a cent.
TypeOK ==
    /\ stage \in Unproposed \cup {"proposed", "denied", "allowed"} \cup Sent
    /\ lots \in 0..MaxLots /\ (stage \in {"allowed"} \cup Sent => lots >= 1)
    /\ limit \in Nat /\ (stage \in Sent => limit >= 1)
    /\ price \in Int /\ charge \in Int /\ loss \in Int

\* Wherever the underlying settles, an allowed position loses no more than the
\* officer calculated from width and mid, and what the limit price conceded of
\* the credit: the width of the wider wing is the worst case (derive_geometry).
LossWithinConcession ==
    stage = "settled" =>
        loss =< lots * (LossPerLot(ticket, market)
                            + (Concession * market.credit) \div 100 + 3)

\* The day's budget is charged for all that is at risk, to a dollar per lot,
\* though what it is charged is the ticket's own claim (_submit, check 15).
ChargeCoversRisk ==
    stage \in Sent => charge >= lots * (LossPerLot(ticket, market) - 1)

\* No claim gets a ticket past the officer that its own legs would not: what is
\* allowed is allowed for what it is, and in the same size.
LyingNeverHelps ==
    stage \in {"allowed"} \cup Sent =>
        /\ Allows(Honest(ticket, market), market)
        /\ lots = AllowedLots(Honest(ticket, market), market)

\* The closing order rebuilt from the broker's positions leaves nothing behind
\* of anything the officer allows, of whatever ratios and lots.
FlatAfterClose == stage = "closed" => \A h \in held : h[2] = 0
================================================================================
