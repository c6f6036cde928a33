------------------------------ MODULE DeskConfig ------------------------------
(***************************************************************************)
(* config/config.yaml as the rest of the model sees it: the frozen limits, *)
(* and what src/src/config.py refuses to load.                             *)
(*                                                                         *)
(* Units.  Fractions are basis points (0.0075 is 75), money is whole       *)
(* dollars, so every comparison the code makes between floats is made here *)
(* between integers by cross-multiplication.                               *)
(***************************************************************************)
EXTENDS Integers

CONSTANTS
    EntryDteLow,          \* entry_dte[0]
    EntryDteHigh,         \* entry_dte[1]
    ForceFlattenDte,      \* force_flatten_dte
    MaxLossBp,            \* max_loss_pct
    DailyNewRiskBp,       \* daily_new_risk_pct
    DrawdownFlattenBp,    \* dd_flatten_pct
    TakeProfitBp,         \* tp_frac_of_credit
    DefendBp,             \* defend_mult, as a multiple of 10000
    MaxOpenStructures     \* max_open_structures

Whole == 10000

\* The lowest DTE that can actually be opened (Config.min_entry_dte).
MinEntryDte == IF EntryDteLow > ForceFlattenDte + 1
                  THEN EntryDteLow ELSE ForceFlattenDte + 1

\* _validate: what it asks of these limits.
Consistent ==
    /\ EntryDteLow \in Int /\ EntryDteHigh \in Int
    /\ EntryDteLow =< EntryDteHigh
    /\ ForceFlattenDte \in Nat
    /\ MinEntryDte =< EntryDteHigh
    /\ {MaxLossBp, DailyNewRiskBp, DrawdownFlattenBp, TakeProfitBp} \subseteq 1..Whole
    /\ MaxLossBp =< DailyNewRiskBp
    /\ DefendBp \in Int /\ DefendBp > Whole
    /\ MaxOpenStructures \in Nat \ {0}

\* An inconsistent configuration never reaches the desk.
ASSUME ConfigAssumption == Consistent
===============================================================================
