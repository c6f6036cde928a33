---------------------------- MODULE Drawdown_proofs ----------------------------
(***************************************************************************)
(* That no restart and no new day hides a drawdown from the breaker, for   *)
(* every set of equities, limit, calendar and number of crashes.           *)
(***************************************************************************)
EXTENDS Drawdown, TLAPS

\* Multiplying by a natural number keeps the order.
LEMMA TimesMonotone ==
    ASSUME NEW a \in Nat, NEW b \in Nat, NEW c \in Nat, a =< b
    PROVE  a * c =< b * c
<1>1. b * c = a * c + (b - a) * c
  OBVIOUS
<1>2. (b - a) * c \in Nat
  OBVIOUS
<1> QED  BY <1>1, <1>2

\* A drawdown that breaches the limit against one mark breaches it against every
\* higher one.
LEMMA HigherMarkBreached ==
    ASSUME NEW e \in Nat, NEW a \in Nat, NEW b \in Nat, a =< b, Breached(e, a)
    PROVE  Breached(e, b)
<1>1. Whole - DrawdownFlattenBp \in Nat
  <2>1. DrawdownFlattenBp \in 1..Whole
    BY ConfigAssumption DEF Consistent
  <2> QED  BY <2>1 DEF Whole
<1>2. a * (Whole - DrawdownFlattenBp) =< b * (Whole - DrawdownFlattenBp)
  BY <1>1, TimesMonotone
<1>3. /\ e * Whole \in Nat
      /\ a * (Whole - DrawdownFlattenBp) \in Nat
      /\ b * (Whole - DrawdownFlattenBp) \in Nat
  BY <1>1 DEF Whole
<1> QED  BY <1>2, <1>3 DEF Breached

\* The initial state has the right types and both marks.
LEMMA InitialMark == Init => TypeOK /\ MarkInv
  BY DrawdownAssumption DEF Init, TypeOK, MarkInv, Accounts

\* Every step keeps the types and the marks.
LEMMA StepMark == TypeOK /\ MarkInv /\ [Next]_vars => TypeOK' /\ MarkInv'
<1> SUFFICES ASSUME TypeOK, MarkInv, [Next]_vars PROVE TypeOK' /\ MarkInv'
  OBVIOUS
<1> USE DrawdownAssumption DEF world, history
<1>1. CASE Move
  BY <1>1 DEF Move, TypeOK, MarkInv
<1>2. CASE NextDay
  BY <1>2 DEF NextDay, TypeOK, MarkInv
<1>3. CASE Start
  BY <1>3 DEF Start, TypeOK, MarkInv
<1>4. CASE BuildAccount
  <2>1. PICK h \in Candidates :
           /\ Highest(h, Candidates)
           /\ account' = [equity |-> equity, startOfDay |-> lastEquity, highWater |-> h]
    BY <1>4 DEF BuildAccount
  <2>2. /\ h \in Nat /\ equity \in Nat /\ lastEquity \in Nat
        /\ equity =< h /\ lastEquity =< h
        /\ \A x \in written : x =< h
    BY <2>1 DEF TypeOK, Candidates, Highest
  <2>3. TypeOK'
    BY <1>4, <2>1, <2>2 DEF BuildAccount, TypeOK, Accounts
  <2>4. MarkInv'
    BY <1>4, <2>1, <2>2 DEF BuildAccount, MarkInv
  <2> QED  BY <2>3, <2>4
<1>5. CASE ReconcileFails
  BY <1>5 DEF ReconcileFails, TypeOK, MarkInv
<1>6. CASE ReconcileReturns
  <2>1. account.equity \in Nat /\ account.highWater \in Nat
    BY DEF TypeOK, Accounts
  <2>2. TypeOK'
    BY <1>6, <2>1 DEF ReconcileReturns, TypeOK, StateOf
  <2>3. peak' = 0 \/ peak' \in written'
    BY <1>6 DEF ReconcileReturns, MarkInv
  <2>4. peak' =< account'.highWater
    BY <1>6, <2>1 DEF ReconcileReturns, TypeOK, MarkInv
  <2> QED  BY <1>6, <2>2, <2>3, <2>4 DEF ReconcileReturns, MarkInv, StateOf
<1>7. CASE ReconcileLost
  <2>1. account.equity \in Nat
    BY DEF TypeOK, Accounts
  <2>2. written' \subseteq Nat
    BY <1>7, <2>1 DEF ReconcileLost, TypeOK
  <2>3. TypeOK'
    BY <1>7, <2>2 DEF ReconcileLost, TypeOK
  <2>4. MarkInv'
    BY <1>7 DEF ReconcileLost, MarkInv
  <2> QED  BY <2>3, <2>4
<1>8. CASE PassEnds
  BY <1>8 DEF PassEnds, TypeOK, MarkInv
<1>9. CASE Crash
  BY <1>9 DEF Crash, TypeOK, MarkInv
<1>10. CASE UNCHANGED vars
  BY <1>10 DEF vars, TypeOK, MarkInv, StateOf
<1> QED
  BY <1>1, <1>2, <1>3, <1>4, <1>5, <1>6, <1>7, <1>8, <1>9, <1>10 DEF Next

\* Types and marks hold in every reachable state: no account built by
\* build_account has a negative drawdown.
THEOREM MarkInvariant == Spec => [](TypeOK /\ MarkInv)
  BY InitialMark, StepMark, PTL DEF Spec

\* No account the desk builds sits above its own high-water mark, so that no drawdown
\* is ever negative and hides a later one (reconcile.build_account).
THEOREM NoDrawdownIsNegative == Spec => []TypeOK
  BY MarkInvariant, PTL

\* A pass after a restart trades only if equity is within the limit of every
\* equity a pass of any process saw: nothing of the peak lives in memory only
\* (high_water_mark, Journal.high_water_mark).
THEOREM RestartsKeepDrawdown == Spec => []RestartKeepsDrawdown
<1>1. TypeOK /\ MarkInv => RestartKeepsDrawdown
  <2> SUFFICES ASSUME TypeOK, MarkInv, pc = "decided", Breached(account.equity, peak)
               PROVE  state = "FLATTEN_ONLY"
    BY DEF RestartKeepsDrawdown
  <2>1. /\ account.equity \in Nat /\ account.highWater \in Nat /\ peak \in Nat
        /\ peak =< account.highWater
    BY DEF TypeOK, Accounts, MarkInv
  <2>2. Breached(account.equity, account.highWater)
    BY <2>1, HigherMarkBreached
  <2> QED  BY <2>2 DEF MarkInv, StateOf
<1> QED  BY <1>1, MarkInvariant, PTL

\* A pass trades only if equity is within the limit of yesterday's close, on the
\* first day of an empty journal too.
THEOREM YesterdayCounts == Spec => []CloseCounts
<1>1. TypeOK /\ MarkInv => CloseCounts
  <2> SUFFICES ASSUME TypeOK, MarkInv, pc = "decided",
                      Breached(account.equity, account.startOfDay)
               PROVE  state = "FLATTEN_ONLY"
    BY DEF CloseCounts
  <2>1. /\ account.equity \in Nat /\ account.highWater \in Nat
        /\ account.startOfDay \in Nat /\ account.startOfDay =< account.highWater
    BY DEF TypeOK, Accounts, MarkInv
  <2>2. Breached(account.equity, account.highWater)
    BY <2>1, HigherMarkBreached
  <2> QED  BY <2>2 DEF MarkInv, StateOf
<1> QED  BY <1>1, MarkInvariant, PTL
================================================================================
