------------------------------- MODULE Lifecycle -------------------------------
(***************************************************************************)
(* rolldesk/lifecycle.py: the one decision taken for each open structure   *)
(* on each pass.  credit and cost are dollars for the whole position.      *)
(***************************************************************************)
EXTENDS DeskConfig

Actions == {"HOLD", "TAKE_PROFIT", "DEFEND", "ROLL", "FLATTEN", "EXPIRE"}

\* loss_multiple >= defend_mult; no credit at all counts as an infinite loss.
StopHit(credit, cost) ==
    \/ credit =< 0
    \/ cost * Whole >= DefendBp * credit

\* profit_captured >= tp_frac_of_credit; no credit captures nothing.
TargetHit(credit, cost) ==
    /\ credit > 0
    /\ (credit - cost) * Whole >= TakeProfitBp * credit

\* Mutant: the forced flatten starts a day late.
DecideLate(dte, flattenOnly, credit, cost, breached, rollCount) ==
    IF dte < 0                                              THEN "EXPIRE"
    ELSE IF dte < ForceFlattenDte \/ flattenOnly            THEN "FLATTEN"
    ELSE IF StopHit(credit, cost)                           THEN "FLATTEN"
    ELSE IF TargetHit(credit, cost)                         THEN "TAKE_PROFIT"
    ELSE IF breached                                        THEN "DEFEND"
    ELSE IF dte = ForceFlattenDte + 1 /\ rollCount < 1      THEN "ROLL"
    ELSE "HOLD"

\* decide(): the first rule that matches wins.
Decide(dte, flattenOnly, credit, cost, breached, rollCount) ==
    IF dte < 0                                              THEN "EXPIRE"
    ELSE IF dte =< ForceFlattenDte \/ flattenOnly           THEN "FLATTEN"
    ELSE IF StopHit(credit, cost)                           THEN "FLATTEN"
    ELSE IF TargetHit(credit, cost)                         THEN "TAKE_PROFIT"
    ELSE IF breached                                        THEN "DEFEND"
    ELSE IF dte = ForceFlattenDte + 1 /\ rollCount < 1      THEN "ROLL"
    ELSE "HOLD"

\* Mutant: a flatten is recorded, as a defence is, and not acted on.
SendsCloseButFlatten(action) == action \in {"TAKE_PROFIT", "EXPIRE", "ROLL"}

\* The actions for which the loop sends a closing order: the ones that
\* close_position names, and ROLL.  DEFEND is recorded and not acted on.
SendsClose(action) == action \in {"TAKE_PROFIT", "FLATTEN", "EXPIRE", "ROLL"}
================================================================================
