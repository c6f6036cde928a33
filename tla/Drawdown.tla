-------------------------------- MODULE Drawdown --------------------------------
(***************************************************************************)
(* The drawdown breaker (reconcile.py): equity moves at the broker, every  *)
(* reconcile compares it with a high-water mark rebuilt from the journal,  *)
(* and nothing but the journal outlives the process.                       *)
(***************************************************************************)
EXTENDS DeskConfig

CONSTANTS
    Equities,         \* what the account may be worth, in dollars
    LastDay,          \* bound on the calendar
    MaxCrashes        \* bound on process deaths

ASSUME DrawdownAssumption ==
    /\ Equities \subseteq Nat \ {0} /\ Equities # {}
    /\ LastDay \in Nat /\ MaxCrashes \in Nat

VARIABLES
    day,
    equity,           \* at the broker
    lastEquity,       \* at yesterday's close, as the broker reports it
    pc,               \* "off", "idle", "read", "decided"
    account,          \* the account the last reconcile built
    written,          \* equities of the journal's RECONCILE entries
    state,            \* what the last reconcile that returned decided
    seen,             \* history: the equity it saw, and
    peak,             \* the highest equity any such reconcile has seen
    crashes

world == <<day, equity, lastEquity>>
history == <<seen, peak>>
vars  == <<world, pc, account, written, state, history, crashes>>

Accounts == [equity : Nat, startOfDay : Nat, highWater : Nat]

\* Mutant: the journal's past is not asked.
CandidatesToday == {0, equity, lastEquity}

\* Mutant: today's equity is left out.
CandidatesPast == {0, lastEquity} \cup written

\* Mutant: the start-of-day equity is left out.
CandidatesNoClose == {0, equity} \cup written

\* high_water_mark: journalled peak (0 for an empty journal), start-of-day
\* equity and current equity.  The persisted argument is never passed.
Candidates == {0, equity, lastEquity} \cup written

Highest(h, S) == h \in S /\ \A x \in S : x =< h

\* drawdown_state: Account.drawdown >= dd_flatten_pct.
Breached(e, h) == h > 0 /\ e * Whole =< h * (Whole - DrawdownFlattenBp)

StateOf(a) == IF Breached(a.equity, a.highWater) THEN "FLATTEN_ONLY" ELSE "READY"

--------------------------------------------------------------------------------
(* The account, external to src/.                                             *)

Move ==
    /\ equity' \in Equities \ {equity}
    /\ UNCHANGED <<day, lastEquity, pc, account, written, state, history, crashes>>

\* A pass takes seconds: the day does not turn under one.
NextDay ==
    /\ day < LastDay /\ pc \in {"off", "idle"}
    /\ day' = day + 1
    /\ lastEquity' = equity
    /\ UNCHANGED <<equity, pc, account, written, state, history, crashes>>

(* The desk.                                                                  *)

Start ==
    /\ pc = "off" /\ pc' = "idle"
    /\ UNCHANGED <<world, account, written, state, history, crashes>>

\* build_account: the account is read and the journal replayed for its peak.
BuildAccount ==
    /\ pc = "idle" /\ pc' = "read"
    /\ \E h \in Candidates :
          /\ Highest(h, Candidates)
          /\ account' = [equity |-> equity, startOfDay |-> lastEquity, highWater |-> h]
    /\ UNCHANGED <<world, written, state, history, crashes>>

\* The clock or the positions cannot be read: nothing is journalled.
ReconcileFails ==
    /\ pc = "read" /\ pc' = "idle"
    /\ UNCHANGED <<world, account, written, state, history, crashes>>

\* The RECONCILE entry, and the state it returns.
ReconcileReturns ==
    /\ pc = "read" /\ pc' = "decided"
    /\ written' = written \cup {account.equity}
    /\ state' = StateOf(account)
    /\ seen' = account.equity
    /\ peak' = IF account.equity > peak THEN account.equity ELSE peak
    /\ UNCHANGED <<world, account, crashes>>

\* The process dies after the RECONCILE entry and before anything came of it.
ReconcileLost ==
    /\ pc = "read" /\ crashes < MaxCrashes
    /\ pc' = "off" /\ crashes' = crashes + 1
    /\ written' = written \cup {account.equity}
    /\ UNCHANGED <<world, account, state, history>>

PassEnds ==
    /\ pc = "decided" /\ pc' = "idle"
    /\ UNCHANGED <<world, account, written, state, history, crashes>>

Crash ==
    /\ pc # "off" /\ crashes < MaxCrashes
    /\ pc' = "off" /\ crashes' = crashes + 1
    /\ UNCHANGED <<world, account, written, state, history>>

Init ==
    /\ day = 0
    /\ equity \in Equities /\ lastEquity \in Equities
    /\ pc = "off" /\ state = "none"
    /\ account = [equity |-> 0, startOfDay |-> 0, highWater |-> 0]
    /\ written = {} /\ seen = 0 /\ peak = 0 /\ crashes = 0

Next ==
    \/ Move \/ NextDay \/ Start \/ BuildAccount \/ ReconcileFails \/ ReconcileReturns
    \/ ReconcileLost \/ PassEnds \/ Crash

Spec == Init /\ [][Next]_vars

--------------------------------------------------------------------------------
(* Properties.                                                                *)

\* Every variable has its type, and no account sits above its own high-water
\* mark, which would make the drawdown negative.
TypeOK ==
    /\ day \in 0..LastDay /\ equity \in Equities /\ lastEquity \in Equities
    /\ pc \in {"off", "idle", "read", "decided"}
    /\ account \in Accounts /\ account.equity =< account.highWater
    /\ written \subseteq Nat /\ seen \in Nat /\ peak \in Nat
    /\ state \in {"none", "READY", "FLATTEN_ONLY"} /\ crashes \in Nat

\* A pass trades only if equity is within the limit of every equity an earlier
\* pass saw, whatever process ran it: a restart resets no drawdown (reconcile.py:5-6).
RestartKeepsDrawdown ==
    pc = "decided" /\ Breached(account.equity, peak) => state = "FLATTEN_ONLY"

\* Nor does the first pass of a day forget yesterday's close (high_water_mark).
CloseCounts ==
    pc = "decided" /\ Breached(account.equity, account.startOfDay)
        => state = "FLATTEN_ONLY"

\* What the two rest on.
MarkInv ==
    /\ peak = 0 \/ peak \in written
    /\ pc = "read" => \A x \in written : x =< account.highWater
    /\ pc \in {"read", "decided"} => account.startOfDay =< account.highWater
    /\ pc = "decided" => peak =< account.highWater /\ state = StateOf(account)

--------------------------------------------------------------------------------
(* What the documents say of the program and the program does not do.         *)

\* reconcile.py:65-68: yesterday's close is a known prior high and must count.
\* Once tripped, the breaker resets only after equity has risen.
StaysTripped ==
    [][(state = "FLATTEN_ONLY" /\ state' = "READY") => account.equity > seen]_vars
================================================================================
