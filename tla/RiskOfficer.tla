------------------------------ MODULE RiskOfficer ------------------------------
(***************************************************************************)
(* risk/officer.py: the checks that read the book and the day's budget.    *)
(* One operator per check, TRUE when the check finds no reason to deny.    *)
(***************************************************************************)
EXTENDS DeskConfig, FiniteSets

\* ADJACENT_EXPIRY_DAYS
AdjacentExpiryDays == 2

Gap(d, e) == IF d > e THEN d - e ELSE e - d

\* Check 4: risk already opened today plus this trade, against the budget.
DailyRiskOk(dayOpenRisk, maxLoss, startOfDayEquity) ==
    (dayOpenRisk + maxLoss) * Whole =< DailyNewRiskBp * startOfDayEquity

\* Check 6: no open structure of this underlying on or next to the expiry.
NoOverlappingShort(expiry, openExpiries) ==
    \A e \in openExpiries : Gap(e, expiry) > AdjacentExpiryDays

\* Check 10: inside the entry window and outside the forced-flatten zone.
DteOk(dte) ==
    /\ EntryDteLow =< dte /\ dte =< EntryDteHigh
    /\ dte > ForceFlattenDte

\* Check 12.
RoomForOneMore(openExpiries) == Cardinality(openExpiries) < MaxOpenStructures
================================================================================
