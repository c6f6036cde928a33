------------------------------ MODULE Candidates ------------------------------
(***************************************************************************)
(* rolldesk/candidates.py and ranker.py: from an option chain to the ticket *)
(* that is proposed, which then goes the way of every order in OrderRisk.   *)
(*                                                                         *)
(* Quotes are cents an even number of cents wide, so that mids are cents;  *)
(* deltas are absolute, in thousandths.  Scores are fractions, compared by *)
(* cross-multiplication.                                                   *)
(***************************************************************************)
EXTENDS OrderRisk

CONSTANT Chains      \* what a pass may read: the chain, the account and the book

\* The broker lists a contract once, by its symbol.
QuotesOK(quotes) ==
    /\ IsFiniteSet(quotes)
    /\ quotes \subseteq [series : STRING, expiry : Int, right : {"P", "C"}, strike : Nat,
                          bid : Nat, ask : Nat, delta : Int]
    /\ \A q, other \in quotes : Symbol(q) = Symbol(other) => q = other

ASSUME ChainsAssumption ==
    \A c \in Chains : QuotesOK(c.quotes) /\ c.market \in Markets

VARIABLES
    chain,           \* the quotes of this pass
    offered          \* the shortlist: candidates, as Candidate has them

passVars == <<stage, ticket, market, lots, limit, charge, price, held, loss, chain, offered>>

\* TARGET_SHORT_DELTAS, CANDIDATE_WIDTHS, MAX_LEG_RELATIVE_SPREAD in percent,
\* MAX_CANDIDATES_DEFAULT.
TargetShortDeltas == {160, 220, 280}
CandidateWidths == {5, 10}
MaxLegRelativeSpread == 35
MaxCandidates == 3

NoDelta == -1        \* the broker gave no greek

--------------------------------------------------------------------------------
(* Reading the chain.                                                         *)

\* _liquid: two-sided, and not too wide for its middle.
Liquid(q) ==
    /\ q.bid > 0 /\ q.ask >= q.bid
    /\ 200 * (q.ask - q.bid) =< MaxLegRelativeSpread * (q.ask + q.bid)

Mid(q) == (q.bid + q.ask) \div 2

\* Mutant: the window as it is configured, with the zone that is flattened.
ExpiriesConfigured(quotes, today) ==
    {e \in {q.expiry : q \in quotes} : e - today \in EntryDteLow..EntryDteHigh}

\* eligible_expiries.
EligibleExpiries(quotes, today) ==
    {e \in {q.expiry : q \in quotes} : e - today \in MinEntryDte..EntryDteHigh}

Live(quotes, expiry, right) ==
    {q \in quotes : q.expiry = expiry /\ q.right = right /\ Liquid(q)}

\* The nearest by a distance, the lowest strike of those that tie: the code takes
\* the first minimum of a list sorted by strike.
Nearest(distance) ==
    CHOOSE q \in DOMAIN distance : \A other \in DOMAIN distance :
        \/ distance[q] < distance[other]
        \/ distance[q] = distance[other] /\ q.strike =< other.strike

\* _nearest_by_delta and _nearest_by_strike: at most one.
NearestByDelta(quotes, target) ==
    LET known == {q \in quotes : q.delta # NoDelta}
    IN IF known = {} THEN {} ELSE {Nearest([q \in known |-> Gap(q.delta, target)])}
NearestByStrike(quotes, target) ==
    IF quotes = {} THEN {} ELSE {Nearest([q \in quotes |-> Gap(q.strike, target)])}

--------------------------------------------------------------------------------
(* Building tickets.                                                          *)

Sold(q) ==
    [series |-> q.series, right |-> q.right, strike |-> q.strike,
     side |-> "sell", intent |-> "sell_to_open", ratio |-> 1]
Bought(q) == [Sold(q) EXCEPT !.side = "buy", !.intent = "buy_to_open"]

QuoteOf(quotes, leg) == CHOOSE q \in quotes : Symbol(q) = Symbol(leg)

\* The credit of the legs at their mids.
NetCredit(quotes, legs) ==
    Total([leg \in legs |-> (IF IsShort(leg) THEN 1 ELSE -1) * Mid(QuoteOf(quotes, leg))])

\* _build_ticket: one ticket, or none of what is no structure or no credit.
Build(quotes, legs, today, signals) ==
    LET credit == NetCredit(quotes, legs)
        any == CHOOSE leg \in legs : TRUE
    IN IF StructureOf(legs) = "none" \/ credit =< 0 \/ credit >= 100 * Width(legs) THEN {}
       ELSE {[legs |-> legs, type |-> StructureOf(legs), series |-> any.series,
              width |-> Width(legs), dte |-> QuoteOf(quotes, any).expiry - today,
              credit |-> credit, maxLoss |-> 100 * Width(legs) - credit, proposed |-> 1,
              regime |-> Classify(signals)]}

\* What is sold nearest the target, and the wing nearest the width away from it.
PutWings(quotes, target, width) ==
    UNION {{{Sold(short), Bought(long)} :
               long \in NearestByStrike({q \in quotes : q.strike < short.strike},
                                        short.strike - width)} :
           short \in NearestByDelta(quotes, target)}
CallWings(quotes, target, width) ==
    UNION {{{Sold(short), Bought(long)} :
               long \in NearestByStrike({q \in quotes : q.strike > short.strike},
                                        short.strike + width)} :
           short \in NearestByDelta(quotes, target)}

\* What the builders try ...
Attempts(quotes, today, signals) ==
    [expiry : EligibleExpiries(quotes, today), structure : Strategies(signals),
     target : TargetShortDeltas, width : CandidateWidths]

\* ... in this order: expiries, spreads before condors, targets, widths ...
TriedBefore(a, b) ==
    \/ a.expiry < b.expiry
    \/ /\ a.expiry = b.expiry
       /\ \/ a.structure = "put_credit_spread" /\ b.structure = "iron_condor"
          \/ /\ a.structure = b.structure
             /\ \/ a.target < b.target
                \/ a.target = b.target /\ a.width < b.width

\* ... and the legs it comes to, if there are any: build_put_credit_spreads and
\* build_iron_condors, which a structure's own rules keep from crossing.
LegsFor(quotes, a) ==
    LET puts == PutWings(Live(quotes, a.expiry, "P"), a.target, a.width)
        calls == CallWings(Live(quotes, a.expiry, "C"), a.target, a.width)
    IN IF a.structure = "put_credit_spread" THEN puts
       ELSE {put \cup call : put \in puts, call \in calls}

\* viable_for: nothing below the officer's own floor of credit to width.
Worthwhile(quotes, a, today, signals) ==
    {t \in UNION {Build(quotes, legs, today, signals) : legs \in LegsFor(quotes, a)} :
        t.credit * Whole >= MinCreditToWidthBp * t.width * 100}

\* round_trip_friction.
Friction(quotes, t) ==
    Total([leg \in t.legs |-> QuoteOf(quotes, leg).ask - QuoteOf(quotes, leg).bid])

\* A bucket: the short delta to the percent, and the width.  Half a percent goes up;
\* the code's floats may round it either way, but one delta always the same way.
Bucket(quotes, t) ==
    <<(Max({QuoteOf(quotes, leg).delta : leg \in {l \in t.legs : IsShort(l)}}) + 5) \div 10,
      t.width>>

\* A ticket with what the shortlist goes by: when it was built, what it keeps of its
\* credit when both crossings are paid, and its bucket.
Candidate(quotes, a, t) ==
    [attempt |-> a, ticket |-> t, kept |-> t.credit - Friction(quotes, t),
     bucket |-> Bucket(quotes, t)]

Viable(quotes, today, signals) ==
    {Candidate(quotes, a, CHOOSE t \in Worthwhile(quotes, a, today, signals) : TRUE) :
        a \in {a \in Attempts(quotes, today, signals) :
                  Worthwhile(quotes, a, today, signals) # {}}}

--------------------------------------------------------------------------------
(* The shortlist.                                                             *)

\* net_credit_on_risk: it keeps more of its credit per dollar at risk.
KeepsMore(x, y) == x.kept * y.ticket.maxLoss > y.kept * x.ticket.maxLoss

\* Mutant: candidates stay in the order they were built.
AsBuilt(x, y) == TriedBefore(x.attempt, y.attempt)

\* sorted: those that tie stay in the order they were built.
Ahead(x, y) ==
    \/ KeepsMore(x, y)
    \/ ~KeepsMore(y, x) /\ TriedBefore(x.attempt, y.attempt)

\* The first of the same legs, and the first of each bucket.
Unique(viable) ==
    {x \in viable : \A y \in viable : Ahead(y, x) => y.ticket.legs # x.ticket.legs}
FirstOfBucket(viable) ==
    {x \in Unique(viable) : \A y \in Unique(viable) : Ahead(y, x) => y.bucket # x.bucket}

\* The place of x among others, and the first n of them, in the order of before.
Place(x, others, before) == Cardinality({y \in others : <<y, x>> \in before}) + 1

Foremost(n, candidates, before) ==
    [i \in 1..Min({n, Cardinality(candidates)}) |->
        CHOOSE x \in candidates : Place(x, candidates, before) = i]

\* Mutant: the best are taken, whatever they have in common.
BestOnly(viable) ==
    Foremost(MaxCandidates, Unique(viable),
             {p \in Unique(viable) \X Unique(viable) : Ahead(p[1], p[2])})

\* _diversify: the best of each bucket first, then what is left.
Diversify(viable) ==
    LET unique == Unique(viable)
        spread == FirstOfBucket(viable)
        before == {p \in unique \X unique :
                      \/ p[1] \in spread /\ p[2] \notin spread
                      \/ (p[1] \in spread <=> p[2] \in spread) /\ Ahead(p[1], p[2])}
    IN Foremost(MaxCandidates, unique, before)

--------------------------------------------------------------------------------
(* The pass.                                                                  *)

\* generate_candidates, and no new entry while the breaker is tripped.
Generate ==
    /\ stage = "reading"
    /\ offered' = IF DrawdownOk(market)
                     THEN Diversify(Viable(chain, market.today, market.signals)) ELSE <<>>
    /\ stage' = IF offered' = <<>> THEN "no_candidate" ELSE "offered"
    /\ UNCHANGED <<ticket, market, lots, limit, charge, price, held, loss, chain>>

\* rank: the model's choice, or the first; the officer holds it against the
\* quotes of the same pass.
Rank ==
    /\ stage = "offered" /\ stage' = "proposed"
    /\ \E i \in DOMAIN offered :
          LET t == offered[i].ticket
              quote == [leg \in t.legs |-> QuoteOf(chain, leg)]
              shorts == {quote[leg] : leg \in {l \in t.legs : IsShort(l)}} IN
          /\ ticket' = t
          /\ market' = [market EXCEPT
                !.quoted = \A leg \in t.legs :
                              quote[leg] \in chain /\ quote[leg].bid > 0
                              /\ quote[leg].ask >= quote[leg].bid,
                !.credit = NetCredit(chain, t.legs),
                !.spread = Max({q.ask - q.bid : q \in shorts}),
                !.expiry = (CHOOSE q \in shorts : TRUE).expiry]
    /\ UNCHANGED <<lots, limit, charge, price, held, loss, chain, offered>>

PassInit ==
    \/ Init /\ chain = {} /\ offered = <<>>
    \/ /\ \E c \in Chains : chain = c.quotes /\ market = c.market
       /\ stage = "reading" /\ ticket = [legs |-> {}] /\ offered = <<>>
       /\ lots = 0 /\ limit = 0 /\ charge = 0 /\ price = 0 /\ held = {} /\ loss = 0

PassNext == Generate \/ Rank \/ (Next /\ UNCHANGED <<chain, offered>>)

PassSpec == PassInit /\ [][PassNext]_passVars

--------------------------------------------------------------------------------
(* Properties.                                                                *)

\* The officer never refuses what the desk's own builder offers for anything the
\* builder could have seen: expiries, credit, ratios and claims that one of
\* them filters by are the ones the other checks (eligible_expiries, viable_for
\* and _build_ticket against checks 1, 2, 7, 10, 13 and 15).
BuiltTicketsAreBelieved ==
    stage = "denied" /\ offered # <<>> =>
        /\ RegimePermits(ticket, market) /\ OnAllowlist(ticket)
        /\ CreditOk(ticket, market) /\ DteOk(market.expiry - market.today)
        /\ IsReduced(ticket.legs) /\ ClaimsMatch(ticket, market)

\* What the pass could choose from.
Choice == Viable(chain, market.today, market.signals)

\* Two candidates of one delta and width are offered only when every delta and
\* width that is viable is offered too (_diversify).
ShortlistIsDiverse ==
    \A i, j \in DOMAIN offered :
        i < j /\ offered[i].bucket = offered[j].bucket =>
            {x.bucket : x \in Choice} = {offered[k].bucket : k \in DOMAIN offered}

\* Whatever the ranker's model does, its fallback is the best there is: nothing
\* viable keeps more of its credit than the first candidate (rank, _diversify).
FallbackIsBest ==
    stage = "offered" => \A x \in Choice : ~KeepsMore(x, offered[1])
===============================================================================
