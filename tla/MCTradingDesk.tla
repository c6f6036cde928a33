---------------------------- MODULE MCTradingDesk ----------------------------
(***************************************************************************)
(* Small desks for TLC: a two-leg and a four-leg structure on one expiry,  *)
(* a two-leg structure far enough away for the officer to accept both, and *)
(* a cheaper two-leg one on the first expiry, which the desk cannot tell   *)
(* from the other half of a condor.                                        *)
(***************************************************************************)
EXTENDS TradingDesk

MCExpiry  == [t \in Tickets |-> IF t = "far_spread" THEN 5 ELSE 2]
MCMaxLoss == [t \in Tickets |-> IF t = "near_other" THEN 500 ELSE 700]
MCLegs    == [t \in Tickets |->
                CASE t = "near_spread" -> {"P60", "P55"}
                  [] t = "near_other"  -> {"P58", "P53"}
                  [] t = "near_condor" -> {"P58", "P53", "C70", "C75"}
                  [] OTHER             -> {"Q60", "Q55"}]

\* One mark for each branch of the lifecycle decision that reads prices.
MCMarks ==
    {[credit |-> 100, cost |-> 80,  breached |-> FALSE],    \* nothing to do
     [credit |-> 100, cost |-> 80,  breached |-> TRUE],     \* tested
     [credit |-> 100, cost |-> 50,  breached |-> FALSE],    \* target
     [credit |-> 100, cost |-> 200, breached |-> FALSE]}    \* stop
================================================================================
