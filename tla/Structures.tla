------------------------------ MODULE Structures ------------------------------
(***************************************************************************)
(* rolldesk/structures.py and ratios.py: what the legs of a ticket are,    *)
(* derived from the legs alone, and broker/alpaca_cli.py's closing legs.   *)
(*                                                                         *)
(* A leg is [series, right, strike, side, intent, ratio]: the series stands *)
(* for underlying and expiry, strikes are dollars.  The order of legs does *)
(* not matter to the code, so legs are a set.                              *)
(***************************************************************************)
EXTENDS Integers, FiniteSets, FiniteSetsExt

Legs ==
    [series : STRING, right : {"P", "C"}, strike : Int, side : {"buy", "sell"},
     intent : {"buy_to_open", "sell_to_open", "buy_to_close", "sell_to_close"},
     ratio : Int]

IsShort(leg) == leg.side = "sell"

\* The sum of what a function gives.
Total(f) == MapThenSumSet(LAMBDA x : f[x], DOMAIN f)

\* What PositionIntent.side and is_open say of an intent.
SideOf(intent) == IF intent \in {"buy_to_open", "buy_to_close"} THEN "buy" ELSE "sell"
IsOpening(intent) == intent \in {"buy_to_open", "sell_to_open"}

Symbol(leg) == <<leg.series, leg.right, leg.strike>>

\* parse_legs: each leg on its own, then one series and no symbol twice.
LegsParse(legs) ==
    /\ legs # {}
    /\ \A leg \in legs : /\ SideOf(leg.intent) = leg.side
                         /\ IsOpening(leg.intent)
                         /\ leg.ratio > 0
    /\ \A a, b \in legs : /\ a.series = b.series
                          /\ Symbol(a) = Symbol(b) => a = b

\* is_reduced: no number but 1 divides every ratio.
IsReduced(legs) ==
    /\ legs # {} /\ \A leg \in legs : leg.ratio > 0
    /\ \A leg \in legs : \A d \in 2..leg.ratio : \E other \in legs : other.ratio % d # 0

\* Mutant: the ratios are reduced, and need not be equal.
ReducedRatios(legs) == IsReduced(legs)

\* _require_equal_ratios.
EqualRatios(legs) ==
    /\ \A a, b \in legs : a.ratio = b.ratio
    /\ IsReduced(legs)

Puts(legs)  == {leg \in legs : leg.right = "P"}
Calls(legs) == {leg \in legs : leg.right = "C"}

\* _validate_put_credit_spread.
IsPutCreditSpread(legs) ==
    /\ Cardinality(legs) = 2 /\ Puts(legs) = legs
    /\ \E short, long \in legs :
          IsShort(short) /\ ~IsShort(long) /\ short.strike > long.strike
    /\ EqualRatios(legs)

\* _validate_iron_condor.
IsIronCondor(legs) ==
    /\ Cardinality(Puts(legs)) = 2 /\ Cardinality(Calls(legs)) = 2
    /\ Cardinality(legs) = 4
    /\ EqualRatios(legs)
    /\ \E longPut, shortPut \in Puts(legs), shortCall, longCall \in Calls(legs) :
          /\ longPut.strike < shortPut.strike /\ shortCall.strike < longCall.strike
          /\ ~IsShort(longPut) /\ IsShort(shortPut)
          /\ IsShort(shortCall) /\ ~IsShort(longCall)
          /\ shortPut.strike < shortCall.strike

\* derive_geometry: the number of legs says which of the two it must be.
StructureOf(legs) ==
    IF ~LegsParse(legs)             THEN "none"
    ELSE IF IsPutCreditSpread(legs) THEN "put_credit_spread"
    ELSE IF IsIronCondor(legs)      THEN "iron_condor"
    ELSE "none"

Spans(legs) == {a.strike - b.strike : a, b \in legs}

\* Geometry.width: the wider of the wings.
Width(legs) == Max(Spans(Puts(legs)) \cup Spans(Calls(legs)) \cup {0})

--------------------------------------------------------------------------------
(* What the position is worth, as a reference.                                *)

Intrinsic(leg, settle) ==
    LET value == IF leg.right = "P" THEN leg.strike - settle ELSE settle - leg.strike
    IN IF value > 0 THEN value ELSE 0

\* What a leg and all the legs of one lot pay when the underlying settles there.
Pays(leg, settle) ==
    leg.ratio * (IF IsShort(leg) THEN 0 - Intrinsic(leg, settle) ELSE Intrinsic(leg, settle))

Payoff(legs, settle) == Total([leg \in legs |-> Pays(leg, settle)])

--------------------------------------------------------------------------------
(* Closing.                                                                   *)

Mirrored(intent) ==
    CASE intent = "sell_to_open"  -> "buy_to_close"
      [] intent = "buy_to_open"   -> "sell_to_close"
      [] intent = "buy_to_close"  -> "sell_to_open"
      [] intent = "sell_to_close" -> "buy_to_open"

\* closing_legs.
ClosingLegs(legs) ==
    {[leg EXCEPT !.side = IF @ = "buy" THEN "sell" ELSE "buy",
                 !.intent = Mirrored(@)] : leg \in legs}
================================================================================
