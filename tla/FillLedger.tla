------------------------------ MODULE FillLedger ------------------------------
(***************************************************************************)
(* What journalling the broker's fills promises: an order that filled is   *)
(* told to the journal once, never before it filled and, in the end,       *)
(* always.  loop.record_fills implements it over any number of passes and  *)
(* restarts of the process.                                                *)
(***************************************************************************)
EXTENDS Naturals

CONSTANT Ids        \* client order ids

VARIABLES
    made,           \* [Ids -> fills the broker made under that id]
    told            \* [Ids -> FILL entries the journal holds for it]

ledger == <<made, told>>

Init ==
    /\ made = [c \in Ids |-> 0]
    /\ told = [c \in Ids |-> 0]

\* The broker fills an order.
Fill(c) ==
    /\ made' = [made EXCEPT ![c] = @ + 1]
    /\ UNCHANGED told

\* The desk writes the fill down, once.
Tell(c) ==
    /\ made[c] > 0 /\ told[c] = 0
    /\ told' = [told EXCEPT ![c] = 1]
    /\ UNCHANGED made

Next == \E c \in Ids : Fill(c) \/ Tell(c)

Spec == Init /\ [][Next]_ledger
===============================================================================
