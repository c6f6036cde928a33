--------------------------- MODULE OrderRisk_proofs ---------------------------
(***************************************************************************)
(* What the officer allows, for every ticket and market of the given types: *)
(* claims do not help, and the budget is charged for what is at risk.      *)
(***************************************************************************)
EXTENDS OrderRisk, FiniteSetTheorems, TLAPS

(***************************************************************************)
(* compute_sizing: lots are an integer, and there are none where the loss  *)
(* of a lot is not positive.                                               *)
(***************************************************************************)
LEMMA LotsAreInt ==
    ASSUME NEW t \in Tickets, NEW m \in Markets, Width(t.legs) \in Int,
           AllowedLots(t, m) >= 1
    PROVE  /\ AllowedLots(t, m) \in Nat \ {0} /\ AllowedLots(t, m) =< MaxLots
           /\ LossPerLot(t, m) \in Nat \ {0}
<1> DEFINE budget == DailyNewRiskBp * m.startOfDay - m.dayRisk * Whole
           riskLots == budget \div (LossPerLot(t, m) * Whole)
<1>1. LossPerLot(t, m) \in Int
  BY DEF LossPerLot, Markets
<1>2. budget \in Int
  <2>1. DailyNewRiskBp \in Int /\ Whole \in Int
    <3>1. DailyNewRiskBp \in 1..Whole
      BY ConfigAssumption DEF Consistent
    <3> QED  BY <3>1 DEF Whole
  <2>2. m.startOfDay \in Int /\ m.dayRisk \in Int
    BY DEF Markets
  <2> QED  BY <2>1, <2>2
<1>3. Recalculable(t, m) /\ LossPerLot(t, m) > 0 /\ budget > 0
  BY <1>1, <1>2 DEF AllowedLots
<1>4. riskLots \in Int
  <2>1. LossPerLot(t, m) * Whole \in Nat \ {0}
    BY <1>1, <1>3 DEF Whole
  <2> HIDE DEF budget
  <2> QED  BY <1>2, <2>1
<1>5. RegimeLots(m.signals) \in Int
  <2>1. Classify(m.signals) \in Regimes
    BY DEF Classify, Regimes
  <2>2. RegimeMaxLots[Classify(m.signals)] \in 0..MaxLots
    BY <2>1, LimitsAssumption DEF LimitsConsistent
  <2> QED  BY <2>2 DEF RegimeLots
<1>6. AllowedLots(t, m) = Min({MaxLots, RegimeLots(m.signals), riskLots})
  BY <1>1, <1>3 DEF AllowedLots
<1>7. ASSUME NEW a \in Int, NEW b \in Int, NEW c \in Int
      PROVE  Min({a, b, c}) \in Int /\ Min({a, b, c}) =< a
  <2>1. \E x \in {a, b, c} : \A y \in {a, b, c} : x =< y
    <3>1. CASE a =< b /\ a =< c  BY <3>1
    <3>2. CASE b =< a /\ b =< c  BY <3>2
    <3>3. CASE c =< a /\ c =< b  BY <3>3
    <3> QED  BY <3>1, <3>2, <3>3
  <2> QED  BY <2>1 DEF Min
<1>8. MaxLots \in Int
  BY LimitsAssumption DEF LimitsConsistent
<1>9. /\ Min({MaxLots, RegimeLots(m.signals), riskLots}) \in Int
      /\ Min({MaxLots, RegimeLots(m.signals), riskLots}) =< MaxLots
  BY <1>4, <1>5, <1>7, <1>8
<1> QED  BY <1>1, <1>3, <1>6, <1>9

(***************************************************************************)
(* What passes the checks passes them with the claims the desk's own       *)
(* builder would make of the same legs, in the same size.                  *)
(***************************************************************************)
LEMMA HonestIsAllowed ==
    ASSUME NEW t \in Tickets, NEW m \in Markets, Allows(t, m)
    PROVE  /\ Allows(Honest(t, m), m)
           /\ AllowedLots(t, m) = AllowedLots(Honest(t, m), m)
<1> DEFINE h == Honest(t, m)
<1>1. /\ h.legs = t.legs /\ h.series = t.series
      /\ h.type = Shape(t) /\ h.width = Width(t.legs) /\ h.dte = m.expiry - m.today
      /\ h.credit = m.credit /\ h.maxLoss = LossPerLot(t, m) /\ h.proposed = 1
      /\ h.regime = Classify(m.signals)
  BY DEF Honest, Tickets
<1> HIDE DEF h
<1>2. Shape(h) = Shape(t) /\ LossPerLot(h, m) = LossPerLot(t, m)
  BY <1>1 DEF Shape, LossPerLot
<1>3. Recalculable(h, m) <=> Recalculable(t, m)
  BY <1>2 DEF Recalculable
<1>4. AllowedLots(h, m) = AllowedLots(t, m)
  BY <1>2, <1>3 DEF AllowedLots
<1>5. LossOf(h, m) = LossOf(t, m)
  BY <1>2, <1>4 DEF LossOf
<1>6. NoReason(t, m) /\ AllowedLots(t, m) >= 1
  BY DEF Allows
<1>7. ClaimsMatch(t, m) /\ RegimePermits(t, m) /\ OnAllowlist(t) /\ WithinCap(t, m)
      /\ CreditOk(t, m) /\ SpreadOk(t, m)
  BY <1>6 DEF NoReason
<1>8. RegimePermits(h, m) /\ OnAllowlist(h)
  BY <1>1, <1>2, <1>7 DEF RegimePermits, OnAllowlist, ClaimsMatch
<1>9. WithinCap(h, m) /\ CreditOk(h, m) /\ SpreadOk(h, m)
  BY <1>1, <1>3, <1>5, <1>7 DEF WithinCap, CreditOk, SpreadOk
<1>10. ClaimsMatch(h, m)
  <2>1. LossPerLot(t, m) \in Int /\ m.credit \in Int
    BY <1>7 DEF LossPerLot, ClaimsMatch, Tickets, Markets
  <2>2. Near(h.credit, m.credit, 1) /\ Near(h.maxLoss, LossPerLot(h, m) * Clamp(h.proposed), 1)
    BY <1>1, <1>2, <2>1 DEF Near, Clamp
  <2> QED  BY <1>1, <1>2, <1>7, <2>2 DEF ClaimsMatch
<1>11. NoReason(h, m)
  BY <1>1, <1>5, <1>6, <1>8, <1>9, <1>10 DEF NoReason
<1> QED  BY <1>4, <1>6, <1>11 DEF Allows, h

(***************************************************************************)
(* A ticket keeps its legs and claims, and goes nowhere without an ALLOW.  *)
(***************************************************************************)
AllowedInv ==
    /\ ticket \in Tickets /\ IsFiniteSet(ticket.legs) /\ market \in Markets
    /\ stage \in {"allowed"} \cup Sent =>
          Allows(ticket, market) /\ lots = AllowedLots(ticket, market)
    /\ stage \in Sent => charge = ticket.maxLoss * lots

\* No step takes more than an ALLOW gives.
LEMMA StepAllowed ==
    ASSUME AllowedInv, [Next]_vars PROVE AllowedInv'
<1>1. CASE Evaluate
  BY <1>1 DEF Evaluate, AllowedInv, Sent
<1>2. CASE Send
  BY <1>2 DEF Send, AllowedInv, Sent
<1>3. CASE Fill
  BY <1>3 DEF Fill, AllowedInv, Sent
<1>4. CASE Settle
  BY <1>4 DEF Settle, AllowedInv, Sent
<1>5. CASE Close
  BY <1>5 DEF Close, AllowedInv, Sent
<1>6. CASE UNCHANGED vars
  BY <1>6 DEF vars, AllowedInv, Sent
<1> QED  BY <1>1, <1>2, <1>3, <1>4, <1>5, <1>6 DEF Next

\* The invariant holds from the proposal to the end of the position.
LEMMA AllowedInvariant == Spec => []AllowedInv
<1>1. Init => AllowedInv
  <2> SUFFICES ASSUME Init PROVE AllowedInv
    OBVIOUS
  <2>1. ticket \in Tickets /\ IsFiniteSet(ticket.legs) /\ market \in Markets
    BY CasesAssumption DEF Init
  <2> QED  BY <2>1 DEF Init, AllowedInv, Sent
<1>2. AllowedInv /\ [Next]_vars => AllowedInv'
  BY StepAllowed
<1> QED  BY <1>1, <1>2, PTL DEF Spec

\* What is allowed would be allowed with honest claims.
LEMMA AllowedIsHonest ==
    ASSUME AllowedInv PROVE LyingNeverHelps
<1> SUFFICES ASSUME AllowedInv, stage \in {"allowed"} \cup Sent
             PROVE  /\ Allows(Honest(ticket, market), market)
                    /\ lots = AllowedLots(Honest(ticket, market), market)
  BY DEF LyingNeverHelps
<1>1. /\ ticket \in Tickets /\ market \in Markets
      /\ Allows(ticket, market) /\ lots = AllowedLots(ticket, market)
  BY DEF AllowedInv
<1> QED  BY <1>1, HonestIsAllowed

(***************************************************************************)
(* No claim gets a ticket past the officer that its legs would not, for     *)
(* every configuration that loads, every ticket and every market.          *)
(***************************************************************************)
THEOREM ClaimsDoNotHelp == Spec => []LyingNeverHelps
<1>1. AllowedInv => LyingNeverHelps
  BY AllowedIsHonest
<1> QED  BY <1>1, AllowedInvariant, PTL

\* A claim that is believed is no more than a dollar short of the loss.
LEMMA AllowedIsCharged ==
    ASSUME AllowedInv PROVE ChargeCoversRisk
<1> SUFFICES ASSUME AllowedInv, stage \in Sent
             PROVE  charge >= lots * (LossPerLot(ticket, market) - 1)
  BY DEF ChargeCoversRisk
<1> DEFINE L == LossPerLot(ticket, market)
           p == ticket.proposed
<1>1. /\ ticket \in Tickets /\ market \in Markets
      /\ Allows(ticket, market) /\ lots = AllowedLots(ticket, market)
      /\ charge = ticket.maxLoss * lots
  BY DEF AllowedInv, Sent
<1>2. ClaimsMatch(ticket, market) /\ market.quoted /\ lots >= 1
  BY <1>1 DEF Allows, NoReason, QuotesFresh
<1>3. Width(ticket.legs) \in Int
  BY <1>1, <1>2 DEF ClaimsMatch, Tickets
<1>4. lots \in Nat \ {0} /\ L \in Nat \ {0}
  BY <1>1, <1>2, <1>3, LotsAreInt
<1>5. p \in Nat \ {0} /\ ticket.maxLoss \in Int /\ L * p - ticket.maxLoss =< 1
  <2>1. p \in Int /\ p >= 1 /\ ticket.maxLoss \in Int
    BY <1>1, <1>2 DEF ClaimsMatch, Tickets
  <2>2. Near(ticket.maxLoss, L * Clamp(p), 1) /\ Clamp(p) = p
    BY <1>2, <2>1 DEF ClaimsMatch, Clamp
  <2> QED  BY <1>4, <2>1, <2>2 DEF Near
<1> HIDE DEF L, p
<1>6. L * p >= L
  <2>1. L * (p - 1) >= 0
    BY <1>4, <1>5
  <2>2. L * p = L * (p - 1) + L
    BY <1>4, <1>5
  <2> QED  BY <1>4, <1>5, <2>1, <2>2
<1>7. ticket.maxLoss - (L - 1) >= 0
  BY <1>4, <1>5, <1>6
<1>8. (ticket.maxLoss - (L - 1)) * lots >= 0
  BY <1>4, <1>5, <1>7
<1>9. ticket.maxLoss * lots - lots * (L - 1) = (ticket.maxLoss - (L - 1)) * lots
  BY <1>4, <1>5
<1>10. ticket.maxLoss * lots >= lots * (L - 1)
  BY <1>4, <1>5, <1>8, <1>9
<1> QED  BY <1>1, <1>10 DEF L

(***************************************************************************)
(* The SUBMIT entry charges at least what is at risk, to a dollar a lot.   *)
(***************************************************************************)
THEOREM BudgetIsCharged == Spec => []ChargeCoversRisk
<1>1. AllowedInv => ChargeCoversRisk
  BY AllowedIsCharged
<1> QED  BY <1>1, AllowedInvariant, PTL
(***************************************************************************)
(* Equal ratios in lowest terms are ones.                                  *)
(***************************************************************************)
LEMMA RatiosAreOnes ==
    ASSUME NEW legs \in SUBSET Legs, EqualRatios(legs)
    PROVE  \A leg \in legs : leg.ratio = 1
<1> SUFFICES ASSUME NEW leg \in legs, leg.ratio # 1 PROVE FALSE
  OBVIOUS
<1> DEFINE r == leg.ratio
<1>1. r \in Int /\ r > 0 /\ \A other \in legs : other.ratio = r
  BY DEF EqualRatios, IsReduced, Legs
<1>2. r \in 2..r
  BY <1>1
<1>3. \E other \in legs : other.ratio % r # 0
  BY <1>2 DEF EqualRatios, IsReduced
<1> HIDE DEF r
<1>4. r % r = 0
  BY <1>1
<1> QED  BY <1>1, <1>3, <1>4

(***************************************************************************)
(* A leg of what is allowed opens the position on its own side, one        *)
(* contract a lot, and no other leg has its symbol.                        *)
(***************************************************************************)
LEMMA AllowedLegs ==
    ASSUME NEW t \in Tickets, NEW m \in Markets, Allows(t, m)
    PROVE  /\ t.legs \in SUBSET Legs
           /\ \A leg \in t.legs :
                 /\ leg.ratio = 1
                 /\ leg.intent = IF IsShort(leg) THEN "sell_to_open" ELSE "buy_to_open"
           /\ \A a, b \in t.legs : Symbol(a) = Symbol(b) => a = b
<1>1. t.legs \in SUBSET Legs
  BY DEF Tickets
<1>2. StructureOf(t.legs) # "none"
  BY DEF Allows, NoReason, ClaimsMatch, Shape
<1>3. LegsParse(t.legs) /\ (IsPutCreditSpread(t.legs) \/ IsIronCondor(t.legs))
  BY <1>2 DEF StructureOf
<1>4. EqualRatios(t.legs)
  BY <1>3 DEF IsPutCreditSpread, IsIronCondor
<1>5. ASSUME NEW leg \in t.legs
      PROVE  leg.intent = IF IsShort(leg) THEN "sell_to_open" ELSE "buy_to_open"
  BY <1>1, <1>3 DEF LegsParse, Legs, SideOf, IsOpening, IsShort
<1> QED  BY <1>1, <1>3, <1>4, <1>5, RatiosAreOnes DEF LegsParse

\* The broker holds what the ticket's legs say, and nothing once it is closed.
HeldInv ==
    /\ stage \in {"held", "settled"} =>
          held = {<<leg, Contracts(leg, lots)>> : leg \in ticket.legs}
    /\ FlatAfterClose

(***************************************************************************)
(* The legs rebuilt from what is held are the legs of the ticket.          *)
(***************************************************************************)
LEMMA RebuiltAreTheLegs ==
    ASSUME AllowedInv, HeldInv, stage = "held", lots \in Nat \ {0}
    PROVE  Rebuilt = ticket.legs /\ (ticket.legs # {} => HeldLots = lots)
<1> DEFINE legs == ticket.legs
<1>1. /\ held = {<<leg, Contracts(leg, lots)>> : leg \in legs}
      /\ legs \in SUBSET Legs
      /\ \A leg \in legs :
            /\ leg.ratio = 1
            /\ leg.intent = IF IsShort(leg) THEN "sell_to_open" ELSE "buy_to_open"
  BY AllowedLegs DEF AllowedInv, HeldInv, Sent
<1> HIDE DEF legs
<1>2. \A leg \in legs : Contracts(leg, lots) = IF leg.side = "sell" THEN 0 - lots ELSE lots
  BY <1>1 DEF Contracts, IsShort
<1> DEFINE OfLeg(leg, n) ==
        [leg EXCEPT !.ratio = 1,
                    !.side = IF n < 0 THEN "sell" ELSE "buy",
                    !.intent = IF n < 0 THEN "sell_to_open" ELSE "buy_to_open"]
<1>3. ASSUME NEW leg \in legs PROVE OfLeg(leg, Contracts(leg, lots)) = leg
  <2>1. leg \in Legs /\ leg.ratio = 1
        /\ leg.intent = IF leg.side = "sell" THEN "sell_to_open" ELSE "buy_to_open"
    BY <1>1 DEF IsShort
  <2>2. CASE leg.side = "sell"
    <3>1. Contracts(leg, lots) < 0
      BY <1>2, <2>2
    <3> QED  BY <2>1, <2>2, <3>1 DEF Legs
  <2>3. CASE leg.side = "buy"
    <3>1. ~(Contracts(leg, lots) < 0)
      BY <1>2, <2>3
    <3> QED  BY <2>1, <2>3, <3>1 DEF Legs
  <2> QED  BY <2>1, <2>2, <2>3 DEF Legs
<1>4. Rebuilt = {OfLeg(h[1], h[2]) : h \in held}
  BY DEF Rebuilt
<1>5. Rebuilt = {OfLeg(leg, Contracts(leg, lots)) : leg \in legs}
  <2> HIDE DEF OfLeg
  <2>1. \A h \in held : \E leg \in legs : h[1] = leg /\ h[2] = Contracts(leg, lots)
    BY <1>1
  <2>2. \A leg \in legs : \E h \in held : h[1] = leg /\ h[2] = Contracts(leg, lots)
    <3>1. \A leg \in legs : <<leg, Contracts(leg, lots)>> \in held
      BY <1>1
    <3>2. \A leg \in legs : LET h == <<leg, Contracts(leg, lots)>>
                          IN  h[1] = leg /\ h[2] = Contracts(leg, lots)
      OBVIOUS
    <3> QED  BY <3>1, <3>2
  <2> QED  BY <1>4, <2>1, <2>2
<1>6. Rebuilt = legs
  <2> HIDE DEF OfLeg
  <2> QED  BY <1>3, <1>5
<1>7. ASSUME legs # {} PROVE HeldLots = lots
  <2>1. \A h \in held : Size(h[2]) = lots
    BY <1>1, <1>2 DEF Size, Legs
  <2>2. held # {}
    BY <1>1, <1>7
  <2>3. {Size(h[2]) : h \in held} = {lots}
    BY <2>1, <2>2
  <2>4. Max({lots} \cup {1}) = lots
    BY DEF Max
  <2> QED  BY <2>3, <2>4 DEF HeldLots
<1> QED  BY <1>6, <1>7 DEF legs
(***************************************************************************)
(* A closing order mirrors every leg, so that nothing of it is left.       *)
(***************************************************************************)
LEMMA ClosedIsFlat ==
    ASSUME AllowedInv, HeldInv, Close, lots \in Nat \ {0}
    PROVE  \A h \in held' : h[2] = 0
<1> DEFINE legs == ticket.legs
           closing(h) == CHOOSE c \in ClosingLegs(Rebuilt) : Symbol(c) = Symbol(h[1])
<1>1. stage = "held" /\ Cardinality(held) \in {2, 4}
      /\ held' = {<<h[1], h[2] + Contracts(closing(h), HeldLots)>> : h \in held}
  BY DEF Close
<1>2. /\ held = {<<leg, Contracts(leg, lots)>> : leg \in legs}
      /\ legs \in SUBSET Legs
      /\ \A leg \in legs : leg.ratio = 1
      /\ \A a, b \in legs : Symbol(a) = Symbol(b) => a = b
  BY <1>1, AllowedLegs DEF AllowedInv, HeldInv, Sent
<1>3. Rebuilt = legs /\ (legs # {} => HeldLots = lots)
  BY <1>1, RebuiltAreTheLegs
<1> SUFFICES ASSUME NEW leg \in legs
             PROVE  Contracts(leg, lots) + Contracts(closing(<<leg, Contracts(leg, lots)>>), lots) = 0
  <2> HIDE DEF legs, closing
  <2> QED  BY <1>1, <1>2, <1>3
<1> DEFINE Mirror(l) == [l EXCEPT !.side = IF l.side = "buy" THEN "sell" ELSE "buy",
                                  !.intent = Mirrored(l.intent)]
<1>4. ClosingLegs(legs) = {Mirror(l) : l \in legs}
  BY DEF ClosingLegs
<1>5. \A l \in legs : Symbol(Mirror(l)) = Symbol(l) /\ Mirror(l).ratio = l.ratio
                    /\ Mirror(l).side = IF l.side = "buy" THEN "sell" ELSE "buy"
  BY <1>2 DEF Symbol, Legs
<1>6. closing(<<leg, Contracts(leg, lots)>>) = Mirror(leg)
  <2> HIDE DEF Mirror
  <2>1. Mirror(leg) \in ClosingLegs(legs) /\ Symbol(Mirror(leg)) = Symbol(leg)
    BY <1>4, <1>5
  <2>2. \A c \in ClosingLegs(legs) : Symbol(c) = Symbol(leg) => c = Mirror(leg)
    BY <1>2, <1>4, <1>5
  <2> QED  BY <1>3, <2>1, <2>2
<1> HIDE DEF Mirror, closing
<1>7. leg.side \in {"buy", "sell"} /\ leg.ratio = 1
  BY <1>2 DEF Legs
<1> QED  BY <1>5, <1>6, <1>7 DEF Contracts, IsShort

\* A fill holds the legs, and a close lets go of them.
LEMMA StepHeld ==
    ASSUME AllowedInv, HeldInv, [Next]_vars PROVE HeldInv'
<1>1. CASE Evaluate \/ Send
  BY <1>1 DEF Evaluate, Send, HeldInv, FlatAfterClose
<1>2. CASE Fill
  BY <1>2 DEF Fill, HeldInv, FlatAfterClose
<1>3. CASE Settle
  BY <1>3 DEF Settle, HeldInv, FlatAfterClose
<1>4. CASE Close
  <2>1. lots \in Nat \ {0}
    <3>1. ticket \in Tickets /\ market \in Markets
          /\ lots = AllowedLots(ticket, market) /\ Allows(ticket, market)
      BY <1>4 DEF Close, AllowedInv, Sent
    <3>2. Width(ticket.legs) \in Int
      BY <3>1 DEF Allows, NoReason, ClaimsMatch, Tickets
    <3> QED  BY <3>1, <3>2, LotsAreInt DEF Allows
  <2> QED  BY <1>4, <2>1, ClosedIsFlat DEF Close, HeldInv, FlatAfterClose
<1>5. CASE UNCHANGED vars
  BY <1>5 DEF vars, HeldInv, FlatAfterClose
<1> QED  BY <1>1, <1>2, <1>3, <1>4, <1>5 DEF Next

(***************************************************************************)
(* The closing order the desk rebuilds from the broker's positions leaves  *)
(* nothing behind, for every ticket the officer allows (build_close_command). *)
(***************************************************************************)
THEOREM ClosesAreComplete == Spec => []FlatAfterClose
<1>1. Init => HeldInv
  BY DEF Init, HeldInv, FlatAfterClose
<1>2. AllowedInv /\ HeldInv /\ [Next]_vars => HeldInv'
  BY StepHeld
<1>3. HeldInv => FlatAfterClose
  BY DEF HeldInv
<1> QED  BY <1>1, <1>2, <1>3, AllowedInvariant, PTL DEF Spec

--------------------------------------------------------------------------------
(* What a position can lose.                                                  *)

\* The member that a sum takes next.
One(T) == CHOOSE x \in T : TRUE

\* v is a function on S.
IsOn(v, S) == v = [x \in S |-> v[x]]

\* F[T] is the sum of v over T, for every T within S.
Solves(F, v, S) ==
    \A T \in SUBSET S : F[T] = IF T = {} THEN 0 ELSE v[One(T)] + F[T \ {One(T)}]

(***************************************************************************)
(* There is one such F at most: the smallest set on which two differ would *)
(* differ from a smaller one's.                                            *)
(***************************************************************************)
LEMMA SolutionsAgree ==
    ASSUME NEW S, IsFiniteSet(S), NEW v, NEW F, NEW G, Solves(F, v, S), Solves(G, v, S)
    PROVE  \A T \in SUBSET S : F[T] = G[T]
<1> DEFINE Bad == {T \in SUBSET S : F[T] # G[T]}
<1>1. ASSUME Bad # {} PROVE FALSE
  <2>1. PICK T \in Bad : \A U \in Bad : <<U, T>> \notin StrictSubsetOrdering(S)
    <3>1. IsWellFoundedOn(StrictSubsetOrdering(S), FiniteSubsetsOf(S))
      BY FS_StrictSubsetOrderingWellFounded
    <3>2. Bad \subseteq FiniteSubsetsOf(S)
      BY FS_Subset DEF FiniteSubsetsOf
    <3> HIDE DEF Bad
    <3> QED  BY <1>1, <3>1, <3>2, WFMin
  <2>2. T \in SUBSET S /\ F[T] # G[T]
    OBVIOUS
  <2>3. T # {}
    BY <2>2 DEF Solves
  <2>4. One(T) \in T
    BY <2>3 DEF One
  <2>5. T \ {One(T)} \in SUBSET S /\ T \ {One(T)} # T /\ T \ {One(T)} \subseteq T
    BY <2>2, <2>4
  <2>6. <<T \ {One(T)}, T>> \in StrictSubsetOrdering(S)
    BY <2>2, <2>5 DEF StrictSubsetOrdering
  <2>7. F[T \ {One(T)}] = G[T \ {One(T)}]
    BY <2>1, <2>5, <2>6
  <2> QED  BY <2>2, <2>3, <2>7 DEF Solves
<1> QED  BY <1>1

\* What solves the equation is what the sum is defined as.
LEMMA SumIsSolution ==
    ASSUME NEW S, IsFiniteSet(S), NEW v, IsOn(v, S),
           NEW G, G = [T \in SUBSET S |-> G[T]], Solves(G, v, S)
    PROVE  Total(v) = G[S]
<1> DEFINE Iter(f) == [T \in SUBSET S |->
                          IF T = {} THEN 0 ELSE v[One(T)] + f[T \ {One(T)}]]
           F == CHOOSE f : f = Iter(f)
<1>1. Total(v) = F[S]
  BY DEF Total, MapThenSumSet, MapThenFoldSet, One, IsOn
<1>2. G = Iter(G)
  BY DEF Solves
<1>3. F = Iter(F)
  <2> HIDE DEF Iter
  <2> QED  BY <1>2
<1> HIDE DEF F
<1>4. Solves(F, v, S)
  BY <1>3 DEF Solves
<1> QED  BY <1>1, <1>4, SolutionsAgree

(***************************************************************************)
(* And there is one: the smallest set without would have one, put together *)
(* from those of its subsets.                                              *)
(***************************************************************************)
LEMMA SolutionExists ==
    ASSUME NEW S, IsFiniteSet(S), NEW v \in [S -> Int]
    PROVE  \E G \in [SUBSET S -> Int] : Solves(G, v, S)
<1> DEFINE Has(U) == \E G \in [SUBSET U -> Int] : Solves(G, v, U)
           Bad == {U \in SUBSET S : ~Has(U)}
<1>1. ASSUME Bad # {} PROVE FALSE
  <2>1. PICK T \in Bad : \A U \in Bad : <<U, T>> \notin StrictSubsetOrdering(S)
    <3>1. IsWellFoundedOn(StrictSubsetOrdering(S), FiniteSubsetsOf(S))
      BY FS_StrictSubsetOrderingWellFounded
    <3>2. Bad \subseteq FiniteSubsetsOf(S)
      BY FS_Subset DEF FiniteSubsetsOf
    <3> HIDE DEF Bad
    <3> QED  BY <1>1, <3>1, <3>2, WFMin
  <2> DEFINE H(U) == CHOOSE G \in [SUBSET U -> Int] : Solves(G, v, U)
             Rest(U) == U \ {One(U)}
             G == [U \in SUBSET T |->
                      IF U = {} THEN 0 ELSE v[One(U)] + H(Rest(U))[Rest(U)]]
  <2>2. T \in SUBSET S /\ ~Has(T)
    OBVIOUS
  <2>3. ASSUME NEW U \in SUBSET T, U # T
        PROVE  H(U) \in [SUBSET U -> Int] /\ Solves(H(U), v, U)
    <3>1. U \in SUBSET S /\ <<U, T>> \in StrictSubsetOrdering(S)
      BY <2>2, <2>3 DEF StrictSubsetOrdering
    <3>2. Has(U)
      BY <2>1, <3>1
    <3> QED  BY <3>2
  <2>4. ASSUME NEW U \in SUBSET T, U # {}
        PROVE  /\ One(U) \in U /\ v[One(U)] \in Int
               /\ Rest(U) \in SUBSET T /\ Rest(U) # T /\ Rest(U) \in SUBSET U
    <3>1. One(U) \in U
      BY <2>4 DEF One
    <3> QED  BY <2>2, <3>1
  <2> HIDE DEF H, Rest
  <2>5. G \in [SUBSET T -> Int]
    <3> SUFFICES ASSUME NEW U \in SUBSET T, U # {}
                 PROVE  v[One(U)] + H(Rest(U))[Rest(U)] \in Int
      OBVIOUS
    <3>1. H(Rest(U)) \in [SUBSET Rest(U) -> Int] /\ v[One(U)] \in Int
      BY <2>3, <2>4
    <3> QED  BY <3>1
  <2>6. ASSUME NEW W \in SUBSET T, W # T PROVE G[W] = H(W)[W]
    <3>1. Solves(H(W), v, W)
      BY <2>3, <2>6
    <3>2. CASE W = {}
      BY <3>1, <3>2 DEF Solves
    <3>3. CASE W # {}
      <4>1. Rest(W) \in SUBSET W /\ Rest(W) \in SUBSET T /\ Rest(W) # T
        BY <2>4, <3>3
      <4>2. Solves(H(W), v, Rest(W)) /\ Solves(H(Rest(W)), v, Rest(W))
        <5>1. \A X \in SUBSET Rest(W) : X \in SUBSET W
          BY <4>1
        <5> QED  BY <2>3, <3>1, <4>1, <5>1 DEF Solves
      <4>3. IsFiniteSet(Rest(W))
        BY <2>2, <4>1, FS_Subset
      <4>4. H(W)[Rest(W)] = H(Rest(W))[Rest(W)]
        BY <4>2, <4>3, SolutionsAgree
      <4>5. H(W)[W] = v[One(W)] + H(W)[Rest(W)]
        BY <3>1, <3>3 DEF Solves, Rest
      <4>6. G[W] = v[One(W)] + H(Rest(W))[Rest(W)]
        BY <3>3
      <4> QED  BY <4>4, <4>5, <4>6
    <3> QED  BY <3>2, <3>3
  <2>7. ASSUME NEW U \in SUBSET T
        PROVE  G[U] = IF U = {} THEN 0 ELSE v[One(U)] + G[Rest(U)]
    <3>1. U # {} => G[Rest(U)] = H(Rest(U))[Rest(U)]
      BY <2>4, <2>6
    <3> QED  BY <3>1
  <2> HIDE DEF G
  <2>8. Solves(G, v, T)
    BY <2>7 DEF Solves, Rest
  <2> QED  BY <2>2, <2>5, <2>8
<1>2. Has(S)
  BY <1>1
<1> QED  BY <1>2

\* A sum of integers is an integer.
LEMMA TotalIsInt ==
    ASSUME NEW S, IsFiniteSet(S), NEW v \in [S -> Int]
    PROVE  Total(v) \in Int
<1>1. PICK G \in [SUBSET S -> Int] : Solves(G, v, S)
  BY SolutionExists
<1>2. IsOn(v, S) /\ G = [T \in SUBSET S |-> G[T]]
  BY <1>1 DEF IsOn
<1>3. Total(v) = G[S]
  BY <1>1, <1>2, SumIsSolution
<1> QED  BY <1>3

\* Two legs, and four.
LEMMA PayoffOfTwo ==
    ASSUME NEW a, NEW b, NEW s,
           a # b,
           Pays(a, s) \in Int, Pays(b, s) \in Int
    PROVE  Payoff({a, b}, s) = Pays(a, s) + Pays(b, s)
<1> DEFINE S == {a, b}
           v == [leg \in S |-> Pays(leg, s)]
           In(x, T) == IF x \in T THEN Pays(x, s) ELSE 0
           All(T) == In(a, T) + In(b, T)
           G == [T \in SUBSET S |-> All(T)]
<1>1. ASSUME NEW T \in SUBSET S, NEW x \in T PROVE All(T) = Pays(x, s) + All(T \ {x})
  OBVIOUS
<1>2. ASSUME NEW T \in SUBSET S
      PROVE  G[T] = IF T = {} THEN 0 ELSE v[One(T)] + G[T \ {One(T)}]
  <2>1. CASE T = {}
    BY <2>1
  <2>2. CASE T # {}
    <3>1. One(T) \in T
      BY <2>2 DEF One
    <3>2. T \ {One(T)} \in SUBSET S /\ v[One(T)] = Pays(One(T), s)
      BY <3>1
    <3>3. All(T) = Pays(One(T), s) + All(T \ {One(T)})
      BY <1>1, <3>1
    <3> HIDE DEF All, v
    <3> QED  BY <2>2, <3>2, <3>3
  <2> QED  BY <2>1, <2>2
<1>3. IsFiniteSet(S)
  <2>1. IsFiniteSet({a}) /\ \A X, x : IsFiniteSet(X) => IsFiniteSet(X \cup {x})
    BY FS_Singleton, FS_AddElement
  <2>2. IsFiniteSet({a} \cup {b})
    BY <2>1
  <2>3. S = {a} \cup {b}
    OBVIOUS
  <2> QED  BY <2>2, <2>3
<1>4. G[S] = Pays(a, s) + Pays(b, s)
  OBVIOUS
<1>5. IsOn(v, S) /\ G = [T \in SUBSET S |-> G[T]] /\ Payoff(S, s) = Total(v)
  BY DEF IsOn, Payoff
<1>6. Total(v) = G[S]
  <2> HIDE DEF G, v, S
  <2>1. Solves(G, v, S)
    BY <1>2 DEF Solves
  <2> QED  BY <1>3, <1>5, <2>1, SumIsSolution
<1> QED  BY <1>4, <1>5, <1>6

LEMMA PayoffOfFour ==
    ASSUME NEW a, NEW b, NEW c, NEW d, NEW s,
           a # b, a # c, a # d, b # c, b # d, c # d,
           Pays(a, s) \in Int, Pays(b, s) \in Int,
           Pays(c, s) \in Int, Pays(d, s) \in Int
    PROVE  Payoff({a, b, c, d}, s) = Pays(a, s) + Pays(b, s) + Pays(c, s) + Pays(d, s)
<1> DEFINE S == {a, b, c, d}
           v == [leg \in S |-> Pays(leg, s)]
           In(x, T) == IF x \in T THEN Pays(x, s) ELSE 0
           All(T) == In(a, T) + In(b, T) + In(c, T) + In(d, T)
           G == [T \in SUBSET S |-> All(T)]
<1>1. ASSUME NEW T \in SUBSET S, NEW x \in T PROVE All(T) = Pays(x, s) + All(T \ {x})
  OBVIOUS
<1>2. ASSUME NEW T \in SUBSET S
      PROVE  G[T] = IF T = {} THEN 0 ELSE v[One(T)] + G[T \ {One(T)}]
  <2>1. CASE T = {}
    BY <2>1
  <2>2. CASE T # {}
    <3>1. One(T) \in T
      BY <2>2 DEF One
    <3>2. T \ {One(T)} \in SUBSET S /\ v[One(T)] = Pays(One(T), s)
      BY <3>1
    <3>3. All(T) = Pays(One(T), s) + All(T \ {One(T)})
      BY <1>1, <3>1
    <3> HIDE DEF All, v
    <3> QED  BY <2>2, <3>2, <3>3
  <2> QED  BY <2>1, <2>2
<1>3. IsFiniteSet(S)
  <2>1. IsFiniteSet({a}) /\ \A X, x : IsFiniteSet(X) => IsFiniteSet(X \cup {x})
    BY FS_Singleton, FS_AddElement
  <2>2. IsFiniteSet((({a} \cup {b}) \cup {c}) \cup {d})
    BY <2>1
  <2>3. S = (({a} \cup {b}) \cup {c}) \cup {d}
    OBVIOUS
  <2> QED  BY <2>2, <2>3
<1>4. G[S] = Pays(a, s) + Pays(b, s) + Pays(c, s) + Pays(d, s)
  OBVIOUS
<1>5. IsOn(v, S) /\ G = [T \in SUBSET S |-> G[T]] /\ Payoff(S, s) = Total(v)
  BY DEF IsOn, Payoff
<1>6. Total(v) = G[S]
  <2> HIDE DEF G, v, S
  <2>1. Solves(G, v, S)
    BY <1>2 DEF Solves
  <2> QED  BY <1>3, <1>5, <2>1, SumIsSolution
<1> QED  BY <1>4, <1>5, <1>6

\* A leg of one contract a lot pays its intrinsic value, or costs it.
LEMMA PaysOne ==
    ASSUME NEW leg \in Legs, leg.ratio = 1, NEW s \in Int
    PROVE  /\ Intrinsic(leg, s) = IF leg.right = "P"
                                  THEN (IF leg.strike - s > 0 THEN leg.strike - s ELSE 0)
                                  ELSE (IF s - leg.strike > 0 THEN s - leg.strike ELSE 0)
           /\ Pays(leg, s) = IF IsShort(leg) THEN 0 - Intrinsic(leg, s) ELSE Intrinsic(leg, s)
           /\ Pays(leg, s) \in Int /\ leg.strike \in Int /\ leg.right \in {"P", "C"}
<1>1. leg.strike \in Int /\ leg.right \in {"P", "C"}
  BY DEF Legs
<1>2. Intrinsic(leg, s) = IF leg.right = "P"
                          THEN (IF leg.strike - s > 0 THEN leg.strike - s ELSE 0)
                          ELSE (IF s - leg.strike > 0 THEN s - leg.strike ELSE 0)
  BY DEF Intrinsic
<1>3. Intrinsic(leg, s) \in Int
  BY <1>1, <1>2
<1>4. Pays(leg, s) = IF IsShort(leg) THEN 0 - Intrinsic(leg, s) ELSE Intrinsic(leg, s)
  BY <1>3 DEF Pays
<1> QED  BY <1>1, <1>2, <1>3, <1>4

\* Two legs that are all there is.
LEMMA TheTwo ==
    ASSUME NEW S, IsFiniteSet(S), Cardinality(S) = 2, NEW a \in S, NEW b \in S, a # b
    PROVE  S = {a, b}
<1>1. IsFiniteSet({a}) /\ Cardinality({a}) = 1
  BY FS_Singleton
<1>2. IsFiniteSet({a} \cup {b}) /\ Cardinality({a} \cup {b}) = 2
  BY <1>1, FS_AddElement
<1>3. {a} \cup {b} \in SUBSET S
  OBVIOUS
<1>4. S = {a} \cup {b}
  BY <1>2, <1>3, FS_Subset
<1> QED  BY <1>4

\* The width is an integer, and no leg is further from another of its right.
LEMMA WidthOfSpans ==
    ASSUME NEW legs, NEW p \in Int, NEW c \in Int, p >= 0, c >= 0,
           Spans(Puts(legs)) \subseteq {0, p, 0 - p},
           Spans(Calls(legs)) \subseteq {0, c, 0 - c},
           p # 0 => p \in Spans(Puts(legs)), c # 0 => c \in Spans(Calls(legs))
    PROVE  Width(legs) \in Int /\ Width(legs) >= p /\ Width(legs) >= c
<1> DEFINE W == Spans(Puts(legs)) \cup Spans(Calls(legs)) \cup {0}
<1>1. W \subseteq {0, p, 0 - p, c, 0 - c} /\ p \in W /\ c \in W
  OBVIOUS
<1> HIDE DEF W
<1>2. \E x \in W : \A y \in W : x >= y
  <2>1. CASE p >= c
    BY <1>1, <2>1
  <2>2. CASE c >= p
    BY <1>1, <2>2
  <2> QED  BY <2>1, <2>2
<1>3. Max(W) \in W /\ \A y \in W : Max(W) >= y
  BY <1>2 DEF Max
<1>4. Width(legs) = Max(W)
  BY DEF Width, W
<1>5. \A x \in {0, p, 0 - p, c, 0 - c} : x \in Int
  OBVIOUS
<1>6. Max(W) \in Int
  BY <1>1, <1>3, <1>5
<1>7. Max(W) >= p /\ Max(W) >= c
  BY <1>1, <1>3
<1> QED  BY <1>4, <1>6, <1>7

\* The two kinds of structure lose the width of their wider wing at most, for whatever
\* strikes, and wherever the underlying settles.
LEMMA SpreadLosesWidth ==
    ASSUME NEW legs \in SUBSET Legs, IsFiniteSet(legs), IsPutCreditSpread(legs), NEW s \in Int
    PROVE  Payoff(legs, s) \in Int /\ Width(legs) \in Int /\ Payoff(legs, s) >= 0 - Width(legs)
<1>1. PICK short \in legs, long \in legs :
         IsShort(short) /\ ~IsShort(long) /\ short.strike > long.strike
  BY DEF IsPutCreditSpread
<1>2. short # long /\ legs = {short, long} /\ Puts(legs) = legs
  BY <1>1, TheTwo DEF IsPutCreditSpread
<1>3. short.ratio = 1 /\ long.ratio = 1
  BY RatiosAreOnes DEF IsPutCreditSpread
<1>4. short.right = "P" /\ long.right = "P"
  BY <1>2 DEF Puts
<1> DEFINE w == short.strike - long.strike
<1>5. short.strike \in Int /\ long.strike \in Int
  BY DEF Legs
<1>6. Pays(short, s) \in Int /\ Pays(long, s) \in Int /\ Pays(short, s) + Pays(long, s) >= 0 - w
  <2>1. /\ Pays(short, s) = 0 - (IF short.strike - s > 0 THEN short.strike - s ELSE 0)
        /\ Pays(long, s) = IF long.strike - s > 0 THEN long.strike - s ELSE 0
    BY <1>1, <1>3, <1>4, PaysOne
  <2> QED  BY <1>1, <1>5, <2>1
<1>7. Width(legs) \in Int /\ Width(legs) >= w
  <2>1. Calls(legs) = {}
    BY <1>2, <1>4 DEF Calls
  <2>2. Spans(Puts(legs)) = {0, w, 0 - w}
    <3>1. Spans(Puts(legs)) = {a.strike - b.strike : a, b \in {short, long}}
      BY <1>2 DEF Spans
    <3> QED  BY <1>5, <3>1
  <2>3. Spans(Calls(legs)) = {}
    BY <2>1 DEF Spans
  <2>4. w \in Int /\ w >= 0
    BY <1>1, <1>5
  <2> HIDE DEF w
  <2> QED  BY <2>2, <2>3, <2>4, WidthOfSpans
<1>8. Payoff(legs, s) = Pays(short, s) + Pays(long, s)
  BY <1>2, <1>6, PayoffOfTwo
<1> QED  BY <1>5, <1>6, <1>7, <1>8

LEMMA CondorLosesWidth ==
    ASSUME NEW legs \in SUBSET Legs, IsFiniteSet(legs), IsIronCondor(legs), NEW s \in Int
    PROVE  Payoff(legs, s) \in Int /\ Width(legs) \in Int /\ Payoff(legs, s) >= 0 - Width(legs)
<1>1. PICK longPut \in Puts(legs), shortPut \in Puts(legs),
           shortCall \in Calls(legs), longCall \in Calls(legs) :
         /\ longPut.strike < shortPut.strike /\ shortCall.strike < longCall.strike
         /\ ~IsShort(longPut) /\ IsShort(shortPut)
         /\ IsShort(shortCall) /\ ~IsShort(longCall)
         /\ shortPut.strike < shortCall.strike
  BY DEF IsIronCondor
<1>2. /\ \A leg \in Puts(legs) : leg \in legs /\ leg.right = "P"
      /\ \A leg \in Calls(legs) : leg \in legs /\ leg.right = "C"
  BY DEF Puts, Calls
<1>3. \A leg \in legs : leg.ratio = 1
  BY RatiosAreOnes DEF IsIronCondor
<1>4. Puts(legs) = {longPut, shortPut} /\ Calls(legs) = {shortCall, longCall}
  <2>1. IsFiniteSet(Puts(legs)) /\ IsFiniteSet(Calls(legs))
    BY <1>2, FS_Subset
  <2> QED  BY <1>1, <2>1, TheTwo DEF IsIronCondor
<1>5. legs = {longPut, shortPut, shortCall, longCall}
  <2>1. legs = Puts(legs) \cup Calls(legs)
    BY DEF Puts, Calls, Legs
  <2> QED  BY <1>4, <2>1
<1>6. /\ longPut \in Legs /\ shortPut \in Legs /\ shortCall \in Legs /\ longCall \in Legs
      /\ longPut.strike \in Int /\ shortPut.strike \in Int
      /\ shortCall.strike \in Int /\ longCall.strike \in Int
  BY <1>5 DEF Legs
<1> DEFINE p == shortPut.strike - longPut.strike
           c == longCall.strike - shortCall.strike
<1>7. /\ Pays(longPut, s) = IF longPut.strike - s > 0 THEN longPut.strike - s ELSE 0
      /\ Pays(shortPut, s) = 0 - (IF shortPut.strike - s > 0 THEN shortPut.strike - s ELSE 0)
  BY <1>1, <1>2, <1>3, <1>6, PaysOne
<1>8. /\ Pays(shortCall, s) = 0 - (IF s - shortCall.strike > 0 THEN s - shortCall.strike ELSE 0)
      /\ Pays(longCall, s) = IF s - longCall.strike > 0 THEN s - longCall.strike ELSE 0
  <2>1. shortCall.right # "P" /\ longCall.right # "P"
    BY <1>2
  <2> QED  BY <1>1, <1>2, <1>3, <1>6, <2>1, PaysOne
<1>9. /\ Pays(longPut, s) \in Int /\ Pays(shortPut, s) \in Int
      /\ Pays(shortCall, s) \in Int /\ Pays(longCall, s) \in Int
      /\ \/ Pays(longPut, s) + Pays(shortPut, s) + Pays(shortCall, s) + Pays(longCall, s) >= 0 - p
         \/ Pays(longPut, s) + Pays(shortPut, s) + Pays(shortCall, s) + Pays(longCall, s) >= 0 - c
  BY <1>1, <1>6, <1>7, <1>8
<1>10. Width(legs) \in Int /\ Width(legs) >= p /\ Width(legs) >= c
  <2>1. Spans(Puts(legs)) = {0, p, 0 - p}
    <3>1. Spans(Puts(legs)) = {a.strike - b.strike : a, b \in {longPut, shortPut}}
      BY <1>4 DEF Spans
    <3> QED  BY <1>6, <3>1
  <2>2. Spans(Calls(legs)) = {0, c, 0 - c}
    <3>1. Spans(Calls(legs)) = {a.strike - b.strike : a, b \in {shortCall, longCall}}
      BY <1>4 DEF Spans
    <3> QED  BY <1>6, <3>1
  <2>3. p \in Int /\ c \in Int /\ p >= 0 /\ c >= 0
    BY <1>1, <1>6
  <2> HIDE DEF p, c
  <2> QED  BY <2>1, <2>2, <2>3, WidthOfSpans
<1>11. /\ longPut # shortPut /\ shortCall # longCall /\ longPut # shortCall
       /\ longPut # longCall /\ shortPut # shortCall /\ shortPut # longCall
  BY <1>1, <1>2, <1>6
<1>12. Payoff(legs, s)
         = Pays(longPut, s) + Pays(shortPut, s) + Pays(shortCall, s) + Pays(longCall, s)
  BY <1>5, <1>9, <1>11, PayoffOfFour
<1>13. p \in Int /\ c \in Int
  BY <1>6
<1> HIDE DEF p, c
<1> QED  BY <1>9, <1>10, <1>12, <1>13

LEMMA AllowedLosesWidth ==
    ASSUME NEW t \in Tickets, IsFiniteSet(t.legs), NEW m \in Markets, Allows(t, m), NEW s \in Int
    PROVE  Payoff(t.legs, s) \in Int /\ Width(t.legs) \in Int
           /\ Payoff(t.legs, s) >= 0 - Width(t.legs)
<1>1. t.legs \in SUBSET Legs /\ StructureOf(t.legs) # "none"
  BY DEF Tickets, Allows, NoReason, ClaimsMatch, Shape
<1>2. IsPutCreditSpread(t.legs) \/ IsIronCondor(t.legs)
  BY <1>1 DEF StructureOf
<1> QED  BY <1>1, <1>2, SpreadLosesWidth, CondorLosesWidth

(***************************************************************************)
(* The limit gives away no more of the credit than it says, although the   *)
(* ticket's credit is a cent off the market's and the limit a tie away.    *)
(***************************************************************************)
LEMMA LimitConcedes ==
    ASSUME NEW c \in Int, NEW m \in Int, c > 0, Near(c, m, 1), NEW p \in LimitPrices(c)
    PROVE  p \in Nat \ {0} /\ p >= m - ((Concession * m) \div 100 + 3)
<1>1. p \in Nat \ {0}
  BY DEF LimitPrices, Clamp
<1>2. m - c =< 1 /\ m \in Nat
  BY DEF Near
<1>3. \/ 95 * c - 100 * p =< 50
      \/ p = 1 /\ 95 * c < 100
  BY DEF LimitPrices, Near, Concession
<1> DEFINE q == (5 * m) \div 100
<1>4. q \in Int /\ 100 * q > 5 * m - 100 /\ q >= 0
  BY <1>2
<1> HIDE DEF q
<1>5. p >= m - (q + 3)
  BY <1>1, <1>2, <1>3, <1>4
<1> QED  BY <1>1, <1>5 DEF q, Concession

\* From the ALLOW to the end of the position: what was asked for, received and lost.
PriceInv ==
    /\ stage \in Sent => ticket.credit > 0 /\ limit \in LimitPrices(ticket.credit)
    /\ stage \in Sent \ {"working"} => price \in Int /\ price >= limit
    /\ stage = "settled" =>
          \E s \in Settlements : loss = 0 - lots * (100 * Payoff(ticket.legs, s) + price)

LEMMA AllowedTypes ==
    ASSUME AllowedInv, stage \in {"allowed"} \cup Sent
    PROVE  /\ lots \in 1..MaxLots /\ LossPerLot(ticket, market) \in Int
           /\ ticket.credit \in Int /\ market.credit \in Int /\ ticket.maxLoss \in Int
           /\ Near(ticket.credit, market.credit, 1)
<1>1. /\ ticket \in Tickets /\ market \in Markets /\ Allows(ticket, market)
      /\ lots = AllowedLots(ticket, market)
  BY DEF AllowedInv
<1>2. ClaimsMatch(ticket, market) /\ market.quoted /\ lots >= 1
  BY <1>1 DEF Allows, NoReason, QuotesFresh
<1>3. Width(ticket.legs) \in Int
  BY <1>1, <1>2 DEF ClaimsMatch, Tickets
<1>4. lots \in Nat \ {0} /\ lots =< MaxLots /\ LossPerLot(ticket, market) \in Int
  BY <1>1, <1>2, <1>3, LotsAreInt
<1>5. ticket.credit \in Int /\ market.credit \in Int /\ ticket.maxLoss \in Int
  BY <1>1 DEF Tickets, Markets
<1>6. MaxLots \in Nat
  BY LimitsAssumption DEF LimitsConsistent
<1> QED  BY <1>2, <1>4, <1>5, <1>6 DEF ClaimsMatch

LEMMA StepPrices ==
    ASSUME AllowedInv, TypeOK, PriceInv, [Next]_vars PROVE TypeOK' /\ PriceInv'
<1> USE DEF TypeOK, PriceInv, Sent, Unproposed
<1>1. CASE Evaluate
  <2>1. CASE Allows(ticket, market)
    <3>1. stage' = "allowed" /\ lots' = AllowedLots(ticket, market)
      BY <1>1, <2>1 DEF Evaluate
    <3>2. Width(ticket.legs) \in Int /\ AllowedLots(ticket, market) >= 1
      BY <2>1 DEF AllowedInv, Allows, NoReason, ClaimsMatch, Tickets
    <3>3. lots' \in 0..MaxLots /\ lots' >= 1
      <4>1. MaxLots \in Nat
        BY LimitsAssumption DEF LimitsConsistent
      <4> QED  BY <3>1, <3>2, <4>1, LotsAreInt DEF AllowedInv
    <3> QED  BY <1>1, <3>1, <3>3 DEF Evaluate
  <2>2. CASE ~Allows(ticket, market)
    <3>1. 0 \in 0..MaxLots
      BY LimitsAssumption DEF LimitsConsistent
    <3> QED  BY <1>1, <2>2, <3>1 DEF Evaluate
  <2> QED  BY <2>1, <2>2
<1>2. CASE Send
  <2>1. /\ lots \in 1..MaxLots /\ ticket.credit \in Int /\ market.credit \in Int
        /\ ticket.maxLoss \in Int /\ Near(ticket.credit, market.credit, 1)
    BY <1>2, AllowedTypes DEF Send
  <2>2. limit' \in Nat /\ limit' >= 1 /\ limit' \in LimitPrices(ticket.credit)
    <3>1. ticket.credit > 0 /\ limit' \in LimitPrices(ticket.credit)
      BY <1>2 DEF Send
    <3> QED  BY <2>1, <3>1, LimitConcedes
  <2>3. charge' \in Int
    <3>1. charge' = ticket.maxLoss * lots
      BY <1>2 DEF Send
    <3> QED  BY <2>1, <3>1
  <2> QED  BY <1>2, <2>1, <2>2, <2>3 DEF Send
<1>3. CASE Fill
  <2>1. market.credit \in Int
    BY <1>3, AllowedTypes DEF Fill
  <2>2. /\ Max({limit, market.credit}) \in {limit, market.credit}
        /\ Max({limit, market.credit}) >= limit
    <3>1. \E x \in {limit, market.credit} : \A y \in {limit, market.credit} : x >= y
      <4>1. limit \in Int /\ market.credit \in Int
        BY <2>1
      <4>2. CASE limit >= market.credit
        BY <4>1, <4>2
      <4>3. CASE market.credit >= limit
        BY <4>1, <4>3
      <4> QED  BY <4>1, <4>2, <4>3
    <3> QED  BY <3>1 DEF Max
  <2>3. price' \in Int /\ price' >= limit
    BY <1>3, <2>1, <2>2 DEF Fill
  <2> QED  BY <1>3, <2>3 DEF Fill
<1>4. CASE Settle
  <2>1. PICK s \in Settlements : loss' = 0 - lots * (100 * Payoff(ticket.legs, s) + price)
    BY <1>4 DEF Settle
  <2>2. Payoff(ticket.legs, s) \in Int
    BY <1>4, AllowedLosesWidth, SettlementsAssumption DEF Settle, AllowedInv
  <2>3. loss' \in Int
    BY <2>1, <2>2
  <2> QED  BY <1>4, <2>1, <2>3 DEF Settle
<1>5. CASE Close
  BY <1>5 DEF Close
<1>6. CASE UNCHANGED vars
  BY <1>6 DEF vars
<1> QED  BY <1>1, <1>2, <1>3, <1>4, <1>5, <1>6 DEF Next

LEMMA PricesInvariant == Spec => [](TypeOK /\ PriceInv)
<1>1. Init => TypeOK /\ PriceInv
  <2>1. 0 \in 0..MaxLots
    BY LimitsAssumption DEF LimitsConsistent
  <2> QED  BY <2>1 DEF Init, TypeOK, PriceInv, Sent, Unproposed
<1> QED  BY <1>1, StepPrices, AllowedInvariant, PTL DEF Spec

(***************************************************************************)
(* Every lot that is sent is within max_lots, and no order asks for less   *)
(* than a cent, for every ticket and market (compute_sizing, limit_price_for_credit). *)
(***************************************************************************)
THEOREM OrderTypes == Spec => []TypeOK
  BY PricesInvariant, PTL

\* The width, less what was received, is the most that a lot can lose.
LEMMA SettledLoss ==
    ASSUME AllowedInv, TypeOK, PriceInv PROVE LossWithinConcession
<1> SUFFICES ASSUME AllowedInv, TypeOK, PriceInv, stage = "settled"
             PROVE  loss =< lots * (LossPerLot(ticket, market)
                                        + (Concession * market.credit) \div 100 + 3)
  BY DEF LossWithinConcession
<1> DEFINE L == LossPerLot(ticket, market)
           W == Width(ticket.legs)
           q == (Concession * market.credit) \div 100
<1>1. /\ lots \in 1..MaxLots /\ L \in Int /\ ticket.credit \in Int /\ market.credit \in Int
      /\ Near(ticket.credit, market.credit, 1)
  BY AllowedTypes DEF Sent
<1>2. PICK s \in Settlements : loss = 0 - lots * (100 * Payoff(ticket.legs, s) + price)
  BY DEF PriceInv
<1> DEFINE P == Payoff(ticket.legs, s)
<1>3. P \in Int /\ W \in Int /\ P >= 0 - W
  BY AllowedLosesWidth, SettlementsAssumption DEF AllowedInv, Sent
<1>4. price \in Int /\ price >= market.credit - (q + 3)
  <2>1. price \in Int /\ price >= limit /\ ticket.credit > 0
        /\ limit \in LimitPrices(ticket.credit)
    BY DEF PriceInv, Sent
  <2>2. limit \in Nat /\ limit >= market.credit - (q + 3)
    BY <1>1, <2>1, LimitConcedes
  <2>3. q \in Int
    BY <1>1 DEF Concession
  <2> QED  BY <1>1, <2>1, <2>2, <2>3
<1>5. q \in Int
  BY <1>1 DEF Concession
<1>6. L = 100 * W - market.credit
  BY DEF LossPerLot
<1>7. loss = 0 - lots * (100 * P + price)
  BY <1>2
<1> HIDE DEF L, W, q, P
<1>8. L + q + 3 + (100 * P + price) >= 0
  BY <1>1, <1>3, <1>4, <1>5, <1>6
<1>9. MaxLots \in Nat
  BY LimitsAssumption DEF LimitsConsistent
<1>10. lots * (L + q + 3 + (100 * P + price)) >= 0
  BY <1>1, <1>3, <1>4, <1>5, <1>8, <1>9
<1>11. lots * (L + q + 3 + (100 * P + price))
         = lots * (L + q + 3) + lots * (100 * P + price)
  BY <1>1, <1>3, <1>4, <1>5, <1>9
<1>12. loss =< lots * (L + q + 3)
  BY <1>1, <1>3, <1>4, <1>5, <1>7, <1>9, <1>10, <1>11
<1> QED  BY <1>12 DEF L, q

(***************************************************************************)
(* Wherever the underlying settles, an allowed position loses no more than *)
(* the officer calculated and the limit price conceded: for all strikes,   *)
(* ratios, credits and claims (officer.py, structures.py, alpaca_cli.py).  *)
(***************************************************************************)
THEOREM WorstCaseIsKnown == Spec => []LossWithinConcession
<1>1. AllowedInv /\ TypeOK /\ PriceInv => LossWithinConcession
  BY SettledLoss
<1> QED  BY <1>1, AllowedInvariant, PricesInvariant, PTL
================================================================================
