----------------------------- MODULE MCOrderRisk -----------------------------
(***************************************************************************)
(* What is proposed: every set of up to four legs with the desk's own      *)
(* claims, three good structures with every kind of wrong claim, two of    *)
(* them in every kind of unfit market, and what the desk builds from chains *)
(* of five puts and five calls with one thing wrong.  Limits are the shipped ones, but    *)
(* for two lots, so that claims per lot and per order differ.              *)
(***************************************************************************)
EXTENDS Candidates

Leg(right, strike, side, ratio) ==
    [series |-> "near", right |-> right, strike |-> strike, side |-> side,
     intent |-> IF side = "buy" THEN "buy_to_open" ELSE "sell_to_open", ratio |-> ratio]

MCRegimeMaxLots ==
    [r \in Regimes |-> CASE r = "INCOME" -> 2 [] r = "COMPRESSION" -> 1 [] OTHER -> 0]

\* Every leg over four strikes of one expiry, and every set of two, three or four.
AnyLeg == {Leg(r, k, s, 1) : r \in {"P", "C"}, k \in {595, 600, 605, 615}, s \in {"buy", "sell"}}
LegSets == {{a, b, c, d} : a, b, c, d \in AnyLeg}

Spread(low, high, ratioLow, ratioHigh) ==
    {Leg("P", high, "sell", ratioHigh), Leg("P", low, "buy", ratioLow)}
Condor(low, putHigh, callLow, high) ==
    Spread(low, putHigh, 1, 1) \cup {Leg("C", callLow, "sell", 1), Leg("C", high, "buy", 1)}

\* Legs that break one of parse_legs' rules, or have ratios other than one.
OddLegSets ==
    {Spread(595, 600, n, k) : n, k \in 0..3}
    \cup {{[l EXCEPT !.series = IF l.strike = 600 THEN "next" ELSE @] : l \in Spread(595, 600, 1, 1)},
          {[l EXCEPT !.intent = Mirrored(@)] : l \in Spread(595, 600, 1, 1)},
          ClosingLegs(Spread(595, 600, 1, 1)), {}}

Good(credit) ==
    [equity |-> 100000, startOfDay |-> 100000, highWater |-> 100000, dayRisk |-> 0,
     quoted |-> TRUE, credit |-> credit, spread |-> 1, quoteAge |-> 100,
     minutes |-> 200, open |-> TRUE, ownAccount |-> TRUE,
     expiry |-> 5, today |-> 0, openExpiries |-> {},
     signals |-> [eventNear |-> FALSE, trending |-> FALSE, ivLow |-> FALSE, cheap |-> FALSE]]

Raw(legs) ==
    [legs |-> legs, type |-> "none", series |-> "near", width |-> 0, dte |-> 0,
     credit |-> 0, maxLoss |-> 0, proposed |-> 1, regime |-> "INCOME"]

Case(legs, m) == [ticket |-> Honest(Raw(legs), m), market |-> m]

Credits == {70, 75, 125, 249, 250, 500, 501}

\* The desk's own claims of every set of legs.
HonestCases ==
    {Case(legs, Good(c)) : legs \in LegSets, c \in {75, 250}}
    \cup {Case(legs, Good(c)) :
             legs \in OddLegSets \cup {Spread(605, 615, 1, 1), Condor(595, 600, 605, 615)},
             c \in Credits}

\* One claim in which the ticket is not what its legs are.
Lies(t) ==
    {[t EXCEPT !.type = x] : x \in {"put_credit_spread", "iron_condor", "naked_put"}}
    \cup {[t EXCEPT !.series = "next"], [t EXCEPT !.dte = @ - 1]}
    \cup {[t EXCEPT !.width = x] : x \in {5, 10, 15}}
    \cup {[t EXCEPT !.credit = @ + x] : x \in {-2, -1, 1, 2}}
    \cup {[t EXCEPT !.maxLoss = @ + x] : x \in {-100, -2, -1, 1, 2}}
    \cup {[t EXCEPT !.proposed = x, !.maxLoss = @ * k] : x \in 0..2, k \in 1..2}
    \cup {[t EXCEPT !.regime = x] : x \in Regimes}

LyingCases ==
    UNION {{[ticket |-> t, market |-> Good(c)] : t \in Lies(Honest(Raw(legs), Good(c)))} :
              legs \in {Spread(595, 600, 1, 1), Spread(605, 615, 1, 1),
                        Condor(595, 600, 605, 615)},
              c \in Credits}

\* One thing about the market, the account or the book moved across its limit.
Worse(m) ==
    {[m EXCEPT !.equity = x] : x \in {-1, 0, 50000, 95000, 95001, 99999}}
    \cup {[m EXCEPT !.startOfDay = x] : x \in {0, 18750, 37500, 50000}}
    \cup {[m EXCEPT !.highWater = x] : x \in {0, 105263, 105264}}
    \cup {[m EXCEPT !.dayRisk = x] : x \in {1250, 1251, 1625, 1626, 2000}}
    \cup {[m EXCEPT !.quoted = FALSE]}
    \cup {[m EXCEPT !.spread = x] : x \in {15, 16, 25, 50, 51}}
    \cup {[m EXCEPT !.quoteAge = x] : x \in {-2001, -2000, 4999, 5000}}
    \cup {[m EXCEPT !.minutes = x] : x \in {15, 16}}
    \cup {[m EXCEPT !.open = FALSE], [m EXCEPT !.ownAccount = FALSE]}
    \cup {[m EXCEPT !.today = x] : x \in {-14, -13} \cup 1..5}
    \cup {[m EXCEPT !.openExpiries = x] : x \in {{5}, {6}, {7}, {8}, {8, 11}, {8, 11, 14}}}
    \cup {[m EXCEPT !.signals = s] :
             s \in [{"eventNear", "trending", "ivLow", "cheap"} -> BOOLEAN]}

MarketCases ==
    {Case(legs, m) :
        legs \in {Spread(595, 600, 1, 1), Condor(595, 600, 605, 615)},
        m \in UNION {Worse(Good(c)) : c \in {125, 250, 300}}}

MCCases == HonestCases \cup LyingCases \cup MarketCases

\* A ladder of one expiry: mids and deltas fall away from the money at 602.
Ladder(series, expiry) ==
    LET away(right, strike) == IF right = "P" THEN 600 - strike ELSE strike - 605
        mid(d) == CASE d = 0 -> 600 [] d = 5 -> 430 [] d = 10 -> 300 [] d = 15 -> 200 [] d = 20 -> 130
        delta(d) == CASE d = 0 -> 302 [] d = 5 -> 231 [] d = 10 -> 166 [] d = 15 -> 112 [] d = 20 -> 71
        quote(right, strike) ==
            [series |-> series, expiry |-> expiry, right |-> right, strike |-> strike,
             bid |-> mid(away(right, strike)) - 2, ask |-> mid(away(right, strike)) + 2,
             delta |-> delta(away(right, strike))]
    IN {quote("P", k) : k \in {580, 585, 590, 595, 600}}
       \cup {quote("C", k) : k \in {605, 610, 615, 620, 625}}

\* One quote missing, one-sided, wide, dear or without a greek.
Disturbed(quotes) ==
    UNION {{quotes \ {q}}
           \cup {(quotes \ {q}) \cup {x} :
                    x \in {[q EXCEPT !.bid = 0], [q EXCEPT !.ask = @ + 40],
                           [q EXCEPT !.bid = @ + 200, !.ask = @ + 200],
                           [q EXCEPT !.delta = NoDelta], [q EXCEPT !.ask = @ * 2]}} :
           q \in quotes}

\* Greeks for one put and one call alone: fewer deltas than candidates.
Sparse(quotes) ==
    {{IF q.strike \in {p, c} THEN q ELSE [q EXCEPT !.delta = NoDelta] : q \in quotes} :
        p \in {590, 595, 600}, c \in {605, 610, 615}}

MCChains ==
    LET income == Good(0)
        compression == [income EXCEPT !.signals.ivLow = TRUE]
        rich == [income EXCEPT !.equity = 200000, !.startOfDay = 200000, !.highWater = 200000]
        near == Ladder("near", 5)
    IN {[quotes |-> c, market |-> m] : c \in Disturbed(near) \cup Sparse(near),
                                             m \in {income, rich}}
       \cup {[quotes |-> near \cup Ladder("next", e), market |-> m] :
                e \in {1, 2, 9, 18, 19},
                m \in {compression, rich, [rich EXCEPT !.openExpiries = {5}],
                       [income EXCEPT !.signals.trending = TRUE],
                       [rich EXCEPT !.equity = 189999]}}
       \cup {[quotes |-> Ladder("near", e), market |-> rich] : e \in {1, 2, 18, 19}}
       \cup {[quotes |-> {[q EXCEPT !.delta = NoDelta] : q \in near}, market |-> rich],
             [quotes |-> {q \in near : q.right = "C"}, market |-> rich],
             [quotes |-> {IF q.right = "C" THEN [q EXCEPT !.strike = @ - 20] ELSE q : q \in near},
              market |-> rich],
             [quotes |-> {}, market |-> rich]}

MCSettlements == {590, 595, 598, 600, 603, 605, 610, 615, 620}
===============================================================================
