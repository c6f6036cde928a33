---------------------------- MODULE Dashboard_proofs ----------------------------
(***************************************************************************)
(* What the dashboard shows of a running desk, for every size of its       *)
(* windows, any number of processes, and whatever is torn.                 *)
(***************************************************************************)
EXTENDS Dashboard, DeskService_proofs, FiniteSetTheorems, FunctionTheorems

--------------------------------------------------------------------------------
(* The first and the last of some lines.                                      *)

LEMMA LeastExists ==
    ASSUME NEW T, T \subseteq Nat, T # {}
    PROVE  \E x \in T : \A y \in T : x =< y
<1> DEFINE R == {p \in Nat \X Nat : p[1] < p[2]}
<1>1. IsWellFoundedOn(R, Nat)
  BY NatLessThanWellFounded DEF OpToRel
<1>2. \A x, y \in Nat : <<y, x>> \notin R => x =< y
  OBVIOUS
<1> HIDE DEF R
<1>3. \E x \in T : \A y \in T : <<y, x>> \notin R
  BY <1>1, WFMin
<1> QED  BY <1>2, <1>3

LEMMA MinIsFirst ==
    ASSUME NEW T, T \subseteq Nat, T # {}
    PROVE  Min(T) \in T /\ \A y \in T : Min(T) =< y
  BY LeastExists DEF Min

LEMMA MaxIsLast ==
    ASSUME NEW n \in Nat, NEW T, T \subseteq 1..n, T # {}
    PROVE  Max(T) \in T /\ \A y \in T : y =< Max(T)
<1> DEFINE M == {n - y : y \in T}
<1>1. M \subseteq Nat /\ M # {}
  <2>1. \A y \in T : n - y \in Nat
    OBVIOUS
  <2>2. PICK y \in T : TRUE
    OBVIOUS
  <2>3. n - y \in M
    OBVIOUS
  <2> QED  BY <2>1, <2>3
<1>2. PICK m \in M : \A x \in M : m =< x
  BY <1>1, LeastExists
<1>3. PICK t \in T : m = n - t
  OBVIOUS
<1>4. \A y \in T : t >= y
  <2> SUFFICES ASSUME NEW y \in T PROVE t >= y
    OBVIOUS
  <2>1. m =< n - y
    BY <1>2
  <2> QED  BY <1>3, <2>1
<1> HIDE DEF M
<1>5. \E x \in T : \A y \in T : x >= y
  BY <1>4
<1>6. Max(T) \in T /\ \A y \in T : Max(T) >= y
  BY <1>5 DEF Max
<1> QED  BY <1>6

--------------------------------------------------------------------------------
(* The gate.                                                                  *)

\* What a line holds, if it parses, is an entry that was said.
LEMMA LinesAreSaid ==
    ASSUME TypeOK, FileInv, EntriesOK
    PROVE  /\ Len(lines) \in Nat /\ DOMAIN lines = 1..Len(lines)
           /\ Len(says) \in Nat /\ DOMAIN says = 1..Len(says) /\ Len(says) = next - 1
           /\ \A i \in 1..Len(lines) : lines[i] # Corrupt => lines[i] \in 1..(next - 1)
<1>1. PICK S : says \in Seq(S)
  BY DEF EntriesOK
<1>2. Len(says) \in Nat /\ DOMAIN says = 1..Len(says)
  BY <1>1
<1>3. Len(lines) \in Nat /\ DOMAIN lines = 1..Len(lines) /\ next \in Nat
  BY DEF TypeOK
<1>4. \A i \in 1..Len(lines) : lines[i] \in Nat /\ lines[i] < next
  BY DEF TypeOK, FileInv
<1> QED  BY <1>2, <1>3, <1>4 DEF EntriesOK, Corrupt

\* Lines further down hold later entries.
LEMMA LaterIsBelow ==
    ASSUME TypeOK, FileInv, NEW i \in 1..Len(lines), NEW j \in 1..Len(lines),
           lines[i] # Corrupt, lines[j] # Corrupt, lines[i] < lines[j]
    PROVE  i < j
<1>1. lines[i] \in Nat /\ lines[j] \in Nat /\ Len(lines) \in Nat
  BY DEF TypeOK
<1>2. j < i => lines[j] < lines[i]
  BY DEF FileInv, InOrder
<1> QED  BY <1>1, <1>2

LEMMA GateIsDesks ==
    ASSUME TypeOK, FileInv, NothingLost, ServiceTypeInv, ReadyInv
    PROVE  GateViewIsDesks
<1> SUFFICES ASSUME pc \in {"read", "allowed", "sent"}, GateView # NoEntry
             PROVE  /\ says[GateView].what = "READY"
                    /\ \A e \in (GateView + 1)..(next - 1) : says[e].event # "STARTUP"
  BY DEF GateViewIsDesks
<1> DEFINE n == Len(lines)
           T == Saying("STARTUP", Window(GateWindow))
           g == Max(T)
<1>1. /\ n \in Nat /\ DOMAIN lines = 1..n /\ Len(says) = next - 1
      /\ \A i \in 1..n : lines[i] # Corrupt => lines[i] \in 1..(next - 1)
  BY LinesAreSaid DEF ServiceTypeInv
<1>2. T \subseteq 1..n /\ T # {} /\ GateView = lines[g]
  BY <1>1 DEF GateView, LastOf, Saying, Window
<1>3. g \in T /\ \A i \in T : i =< g
  BY <1>1, <1>2, MaxIsLast
<1>4. /\ g \in 1..n /\ g > n - GateWindow /\ lines[g] # Corrupt
      /\ says[lines[g]].event = "STARTUP"
  BY <1>1, <1>3 DEF Saying, Window
<1>5. GateWindow \in Nat /\ next \in Nat
  BY DashboardAssumption DEF TypeOK
<1> HIDE DEF n, g
<1>6. ASSUME NEW e \in (lines[g] + 1)..(next - 1), says[e].event = "STARTUP"
      PROVE  FALSE
  <2>1. e \in 1..(next - 1) /\ lines[g] < e
    BY <1>1, <1>4, <1>5
  <2>2. ~ReadRaises
    BY DEF FileInv
  <2>3. PICK i \in 1..n : lines[i] = e /\ e # Corrupt
    BY <2>1, <2>2 DEF NothingLost, Readable, n
  <2>4. g < i
    BY <1>4, <2>1, <2>3, LaterIsBelow DEF n
  <2>5. i > n - GateWindow
    BY <1>1, <1>4, <1>5, <2>4
  <2>6. i \in T
    BY <1>1, <1>6, <2>3, <2>5 DEF Saying, Window, n
  <2> QED  BY <1>1, <1>3, <1>4, <2>4, <2>6
<1>7. stage \notin Before
  BY DEF ServiceTypeInv, PlaceOK, Before
<1>8. PICK s \in 1..Len(says) : Started(says, s, Len(says))
  BY <1>7 DEF ReadyInv
<1>9. s = lines[g]
  <2>1. s \notin (lines[g] + 1)..(next - 1)
    BY <1>6, <1>8 DEF Started
  <2>2. lines[g] \notin (s + 1)..(next - 1)
    BY <1>1, <1>4, <1>8 DEF Started
  <2> QED  BY <1>1, <1>4, <1>5, <1>8, <2>1, <2>2
<1> QED  BY <1>2, <1>6, <1>8, <1>9 DEF Started

--------------------------------------------------------------------------------
(* The passes in the file.                                                    *)

\* Line i of a file parses and says an event.
Shows(file_, said, i, event) == file_[i] # Corrupt /\ said[file_[i]].event = event

\* Line i holds the REGIME of a pass, and there is no other one up to line n; and so it
\* does, with an ALLOW in between.
Opened(file_, said, id, i, n) ==
    /\ i \in 1..n /\ file_[i] = id /\ Shows(file_, said, i, "REGIME")
    /\ \A j \in (i + 1)..n : ~Shows(file_, said, j, "REGIME")

Permitted(file_, said, id, i, n) ==
    /\ Opened(file_, said, id, i, n)
    /\ \E j \in (i + 1)..n : Shows(file_, said, j, "ALLOW")

\* What line n says of a ticket stands below the REGIME of its pass.
LineOK(file_, said, n) ==
    LET entry == said[file_[n]] IN
    file_[n] # Corrupt =>
        /\ entry.event \in {"CANDIDATES", "RANK", "ALLOW", "DENY"}
              => \E i \in 1..n : Opened(file_, said, entry.at, i, n)
        /\ entry.event = "SUBMIT" /\ entry.what = "open"
              => \E i \in 1..n : Permitted(file_, said, entry.at, i, n)

PassStages == {"candidates", "rank", "verdict", "submit", "sent"}

\* The lines of earlier passes, and how far this one has come.
PassInv ==
    /\ \A n \in 1..Len(lines) : LineOK(lines, says, n)
    /\ stage \in PassStages =>
          \E i \in 1..Len(lines) : Opened(lines, says, regime, i, Len(lines))
    /\ stage \in {"submit", "sent"} =>
          \E i \in 1..Len(lines) : Permitted(lines, says, regime, i, Len(lines))

\* Files that agree up to line n agree on what stands up to there.
LEMMA Agreeing ==
    ASSUME NEW f, NEW g, NEW s, NEW t, NEW n \in Nat,
           \A j \in 1..n : f[j] = g[j] /\ (f[j] # Corrupt => s[f[j]] = t[g[j]]),
           NEW id, NEW i \in 1..n
    PROVE  /\ Opened(f, s, id, i, n) => Opened(g, t, id, i, n)
           /\ Permitted(f, s, id, i, n) => Permitted(g, t, id, i, n)
<1>1. \A event : \A j \in 1..n : Shows(f, s, j, event) <=> Shows(g, t, j, event)
  BY DEF Shows
<1>2. \A j \in (i + 1)..n : j \in 1..n
  OBVIOUS
<1>3. Opened(f, s, id, i, n) => Opened(g, t, id, i, n)
  BY <1>1, <1>2 DEF Opened
<1> QED  BY <1>1, <1>2, <1>3 DEF Permitted

LEMMA AgreeingLines ==
    ASSUME NEW f, NEW g, NEW s, NEW t, NEW n \in Nat \ {0},
           \A j \in 1..n : f[j] = g[j] /\ (f[j] # Corrupt => s[f[j]] = t[g[j]]),
           LineOK(f, s, n)
    PROVE  LineOK(g, t, n)
<1>1. f[n] = g[n] /\ (f[n] # Corrupt => s[f[n]] = t[g[n]])
  OBVIOUS
<1>2. \A id, i : i \in 1..n =>
         /\ Opened(f, s, id, i, n) => Opened(g, t, id, i, n)
         /\ Permitted(f, s, id, i, n) => Permitted(g, t, id, i, n)
  BY Agreeing
<1> QED  BY <1>1, <1>2 DEF LineOK

\* A pass has a number from its REGIME on; it is allowed by its ALLOW.
TicketStep ==
    stage' \in PassStages =>
        \/ stage = "entry" /\ Say(RegimeEntry) /\ Record /\ regime' = next
           /\ stage' = "candidates"
        \/ /\ stage \in PassStages /\ regime' = regime
           /\ \/ says' = says /\ UNCHANGED file
                 /\ (stage' \in {"submit", "sent"} => stage \in {"submit", "sent"})
              \/ \E entry : /\ Say(entry) /\ Record /\ entry.event # "REGIME"
                            /\ stage' \in {"submit", "sent"} => entry.event = "ALLOW"

LEMMA TicketSteps ==
    ASSUME ServiceTypeInv, [ServiceNext]_serviceVars PROVE TicketStep
<1> USE DEF TicketStep, PassStages
<1>1. CASE UNCHANGED serviceVars
  BY <1>1 DEF serviceVars, vars, service, pass
<1>2. CASE \/ Boot \/ ConnectFails \/ ReadAccount \/ GateReady \/ GateHalts \/ Unwritten
           \/ BuildDesk \/ AskMarket \/ MarketFails \/ JournalFails \/ MarketRead
           \/ ReconcileFails \/ Reconcile \/ AskOrders \/ OrdersFail \/ OrdersRead
  BY <1>2 DEF Boot, ConnectFails, ReadAccount, GateReady, GateHalts, Unwritten, BuildDesk,
              AskMarket, MarketFails, JournalFails, MarketRead, ReconcileFails, Reconcile, AskOrders,
              OrdersFail, OrdersRead, Goto
<1>3. CASE \/ \E k \in DOMAIN filled : RecordFill(k)
           \/ Hold \/ Defend \/ TakeProfit
           \/ CloseFails \/ SendClose \/ CloseLost \/ SubmitClose
  BY <1>3 DEF RecordFill, Hold, Defend, TakeProfit, CloseFails, SendClose, CloseLost,
              SubmitClose, Goto
<1>4. CASE Regime
  BY <1>4 DEF Regime, Goto, PassRecords
<1>5. CASE CandidatesFound
  BY <1>5 DEF CandidatesFound, Goto, PassRecords, CandidatesEntry, Entry, pass
<1>6. CASE Rank
  BY <1>6 DEF Rank, Goto, PassRecords, RankEntry, Entry, pass
<1>7. CASE Allow
  BY <1>7 DEF Allow, Goto, RecordAllow, AllowEntry, Entry, pass
<1>8. CASE SendEntry
  BY <1>8 DEF SendEntry, Goto, Send, file, pass
<1>9. CASE Deny \/ SubmitBlocked \/ SubmitLost \/ Submit \/ ProcessDies \/ DiesWriting
  BY <1>9 DEF Deny, SubmitBlocked, SubmitLost, Submit, ProcessDies, DiesWriting, Goto
<1>10. CASE ThreadStep \/ StartReturns \/ Answered \/ Noticed \/ TimesOut \/ Bounded
  BY <1>10 DEF ThreadStep, StartReturns, Answered, Noticed, TimesOut, Bounded, AtBound,
               vars, service, pass
<1>11. CASE Late \/ ServerLost
  BY <1>11 DEF Late, ServerLost, vars, pass
<1>12. ASSUME NEW order, Fill(order) PROVE TicketStep
  BY <1>12 DEF Fill, vars, pass
<1> QED
  BY <1>1, <1>2, <1>3, <1>4, <1>5, <1>6, <1>7, <1>8, <1>9, <1>10, <1>11, <1>12
     DEF ServiceNext

\* What is said next does not change what was said.
LEMMA SaidNext ==
    ASSUME TypeOK, FileInv, EntriesOK, NEW entry, Say(entry)
    PROVE  /\ says'[next] = entry
           /\ \A e \in 1..(next - 1) : says'[e] = says[e]
           /\ \A j \in 1..Len(lines) : lines[j] # Corrupt => says'[lines[j]] = says[lines[j]]
<1>1. PICK S : says \in Seq(S)
  BY DEF EntriesOK
<1>2. says \in Seq(S \cup {entry}) /\ entry \in S \cup {entry}
  BY <1>1
<1>3. says' = Append(says, entry) /\ Len(says) = next - 1 /\ next \in Nat
  BY DEF Say, EntriesOK, TypeOK
<1>4. Len(says) + 1 = next
  BY <1>3
<1>5. says'[next] = entry /\ \A e \in 1..(next - 1) : says'[e] = says[e]
  BY <1>2, <1>3, <1>4
<1> QED  BY <1>5, LinesAreSaid

\* The file grows by a line that is no REGIME: the pass is as far as it was, or allowed.
LEMMA PassGrows ==
    ASSUME TypeOK, FileInv, EntriesOK, NEW entry, Say(entry),
           lines' = Append(lines, next), entry.event # "REGIME",
           NEW id, NEW i \in 1..Len(lines), Opened(lines, says, id, i, Len(lines))
    PROVE  /\ Len(lines') = Len(lines) + 1 /\ i \in 1..Len(lines')
           /\ Opened(lines', says', id, i, Len(lines'))
           /\ Permitted(lines, says, id, i, Len(lines)) \/ entry.event = "ALLOW"
                 => Permitted(lines', says', id, i, Len(lines'))
<1> DEFINE n == Len(lines)
<1>1. /\ n \in Nat /\ Len(lines') = n + 1 /\ lines'[n + 1] = next
      /\ \A j \in 1..n : lines'[j] = lines[j]
  BY Appended
<1>2. /\ says'[next] = entry
      /\ \A j \in 1..n : lines[j] # Corrupt => says'[lines[j]] = says[lines[j]]
  BY SaidNext
<1>3. next # Corrupt
  BY DEF TypeOK, Corrupt
<1> HIDE DEF n
<1>4. /\ Opened(lines', says', id, i, n)
      /\ Permitted(lines, says, id, i, n) => Permitted(lines', says', id, i, n)
  BY <1>1, <1>2, Agreeing DEF n
<1>5. \A event : Shows(lines', says', n + 1, event) <=> entry.event = event
  BY <1>1, <1>2, <1>3 DEF Shows
<1>6. \A j \in (i + 1)..(n + 1) : j = n + 1 \/ j \in (i + 1)..n
  BY <1>1
<1>7. i \in 1..n /\ i \in 1..(n + 1) /\ n + 1 \in (i + 1)..(n + 1)
      /\ (i + 1)..n \subseteq (i + 1)..(n + 1)
  BY <1>1 DEF n
<1>8. Opened(lines', says', id, i, n + 1)
  BY <1>4, <1>5, <1>6, <1>7 DEF Opened
<1>9. Permitted(lines, says, id, i, n) => Permitted(lines', says', id, i, n + 1)
  BY <1>4, <1>7, <1>8 DEF Permitted
<1>10. entry.event = "ALLOW" => Permitted(lines', says', id, i, n + 1)
  BY <1>5, <1>7, <1>8 DEF Permitted
<1> QED  BY <1>1, <1>7, <1>8, <1>9, <1>10 DEF n

\* Every line stays in order, and the new one is.
LEMMA LinesOfPasses ==
    ASSUME TypeOK, FileInv, EntriesOK, PassInv, SaysOne
    PROVE  \A n \in 1..Len(lines') : LineOK(lines', says', n)
<1>1. CASE says' = says /\ UNCHANGED file
  BY <1>1 DEF file, PassInv
<1>2. ASSUME NEW entry, Say(entry), Record \/ RecordTorn, OfPass(entry)
      PROVE  \A n \in 1..Len(lines') : LineOK(lines', says', n)
  <2>1. \A j \in 1..Len(lines) : lines[j] # Corrupt => says'[lines[j]] = says[lines[j]]
    BY <1>2, SaidNext
  <2>2. Len(lines) \in Nat
    BY DEF TypeOK
  <2>3. ASSUME NEW n \in 1..Len(lines), \A j \in 1..n : lines'[j] = lines[j]
        PROVE  LineOK(lines', says', n)
    <3>1. n \in Nat \ {0} /\ 1..n \subseteq 1..Len(lines)
      BY <2>2
    <3>2. \A j \in 1..n : lines[j] = lines'[j]
                          /\ (lines[j] # Corrupt => says[lines[j]] = says'[lines'[j]])
      BY <2>1, <2>3, <3>1
    <3>3. LineOK(lines, says, n)
      BY DEF PassInv
    <3> QED  BY <3>1, <3>2, <3>3, AgreeingLines
  <2>4. CASE unended
    <3>1. Len(lines) > 0 /\ lines' = [lines EXCEPT ![Len(lines)] = Corrupt]
      BY <1>2, <2>4 DEF Record, RecordTorn, FileInv
    <3>2. /\ Len(lines') = Len(lines) /\ lines'[Len(lines)] = Corrupt
          /\ \A i \in 1..(Len(lines) - 1) : lines'[i] = lines[i]
      BY <3>1, RunTogether
    <3>3. LineOK(lines', says', Len(lines))
      BY <3>2 DEF LineOK
    <3>4. ASSUME NEW n \in 1..Len(lines), n # Len(lines) PROVE LineOK(lines', says', n)
      <4>1. 1..n \subseteq 1..(Len(lines) - 1)
        BY <2>2, <3>4
      <4> QED  BY <2>3, <3>2, <4>1
    <3> QED  BY <3>2, <3>3, <3>4
  <2>5. CASE ~unended
    <3>1. PICK x \in {Corrupt, next} : lines' = Append(lines, x)
      BY <1>2, <2>5 DEF Record, RecordTorn
    <3>2. /\ Len(lines') = Len(lines) + 1 /\ lines'[Len(lines) + 1] = x
          /\ \A i \in 1..Len(lines) : lines'[i] = lines[i]
      BY <3>1, Appended
    <3>3. CASE x = Corrupt
      <4>1. LineOK(lines', says', Len(lines) + 1)
        BY <3>2, <3>3 DEF LineOK
      <4>2. ASSUME NEW n \in 1..Len(lines) PROVE LineOK(lines', says', n)
        <5>1. 1..n \subseteq 1..Len(lines)
          BY <2>2
        <5> QED  BY <2>3, <3>2, <5>1
      <4> QED  BY <2>2, <3>2, <4>1, <4>2
    <3>4. CASE x = next
      <4>1. says'[lines'[Len(lines) + 1]] = entry
        BY <1>2, <3>2, <3>4, SaidNext
      <4>2. ASSUME entry.event \in {"CANDIDATES", "RANK", "ALLOW", "DENY"}
            PROVE  \E i \in 1..Len(lines') : Opened(lines', says', entry.at, i, Len(lines'))
        <5>1. entry.at = regime /\ stage \in PassStages
          BY <1>2, <4>2 DEF OfPass, PassStages
        <5>2. PICK i \in 1..Len(lines) : Opened(lines, says, regime, i, Len(lines))
          BY <5>1 DEF PassInv
        <5> QED  BY <1>2, <3>1, <3>4, <4>2, <5>1, <5>2, PassGrows
      <4>3. ASSUME entry.event = "SUBMIT", entry.what = "open"
            PROVE  \E i \in 1..Len(lines') : Permitted(lines', says', entry.at, i, Len(lines'))
        <5>1. entry.at = regime /\ stage = "sent"
          BY <1>2, <4>3 DEF OfPass
        <5>2. PICK i \in 1..Len(lines) : Permitted(lines, says, regime, i, Len(lines))
          BY <5>1 DEF PassInv
        <5>3. Opened(lines, says, regime, i, Len(lines))
          BY <5>2 DEF Permitted
        <5> QED  BY <1>2, <3>1, <3>4, <4>3, <5>1, <5>2, <5>3, PassGrows
      <4>4. LineOK(lines', says', Len(lines) + 1)
        BY <3>2, <4>1, <4>2, <4>3 DEF LineOK
      <4>5. ASSUME NEW n \in 1..Len(lines) PROVE LineOK(lines', says', n)
        <5>1. 1..n \subseteq 1..Len(lines)
          BY <2>2
        <5> QED  BY <2>3, <3>2, <5>1
      <4> QED  BY <2>2, <3>2, <4>4, <4>5
    <3> QED  BY <3>3, <3>4
  <2> QED  BY <2>4, <2>5
<1> QED  BY <1>1, <1>2 DEF SaysOne

\* And the pass under way is as far in the file as main() is.
LEMMA PassUnderWay ==
    ASSUME TypeOK, FileInv, ServiceTypeInv, PassInv, TicketStep, stage' \in PassStages
    PROVE  \E i \in 1..Len(lines') :
              /\ Opened(lines', says', regime', i, Len(lines'))
              /\ stage' \in {"submit", "sent"}
                    => Permitted(lines', says', regime', i, Len(lines'))
<1>1. stage \in PassStages \cup {"entry"} => ~unended
  BY DEF PassStages, ServiceTypeInv, PlaceOK, FileInv
<1>2. CASE /\ stage = "entry" /\ Say(RegimeEntry) /\ Record /\ regime' = next
           /\ stage' = "candidates"
  <2>1. lines' = Append(lines, next)
    BY <1>1, <1>2 DEF Record
  <2>2. /\ Len(lines) \in Nat /\ Len(lines') = Len(lines) + 1
        /\ lines'[Len(lines) + 1] = next
    BY <2>1, Appended
  <2>3. says'[next] = RegimeEntry /\ RegimeEntry.event = "REGIME"
    BY <1>2, SaidNext DEF RegimeEntry, Entry, ServiceTypeInv
  <2>4. Shows(lines', says', Len(lines) + 1, "REGIME")
    BY <2>2, <2>3 DEF Shows, TypeOK, Corrupt
  <2>5. Len(lines) + 1 \in 1..(Len(lines) + 1)
        /\ (Len(lines) + 1 + 1)..(Len(lines) + 1) = {}
    BY <2>2
  <2>6. Opened(lines', says', next, Len(lines) + 1, Len(lines'))
    BY <2>2, <2>4, <2>5 DEF Opened
  <2> QED  BY <1>2, <2>2, <2>5, <2>6
<1>3. CASE stage \in PassStages /\ regime' = regime
  <2>1. PICK i \in 1..Len(lines) :
           /\ Opened(lines, says, regime, i, Len(lines))
           /\ stage \in {"submit", "sent"} => Permitted(lines, says, regime, i, Len(lines))
    BY <1>3 DEF PassInv, PassStages, Permitted
  <2>2. CASE /\ says' = says /\ UNCHANGED file
             /\ stage' \in {"submit", "sent"} => stage \in {"submit", "sent"}
    BY <1>3, <2>1, <2>2 DEF file
  <2>3. ASSUME NEW entry, Say(entry), Record, entry.event # "REGIME",
               stage' \in {"submit", "sent"} => entry.event = "ALLOW"
        PROVE  \E k \in 1..Len(lines') :
                  /\ Opened(lines', says', regime', k, Len(lines'))
                  /\ stage' \in {"submit", "sent"}
                        => Permitted(lines', says', regime', k, Len(lines'))
    <3>1. lines' = Append(lines, next)
      BY <1>1, <1>3, <2>3 DEF Record
    <3>2. /\ Len(lines') = Len(lines) + 1 /\ i \in 1..Len(lines')
          /\ Opened(lines', says', regime, i, Len(lines'))
          /\ Permitted(lines, says, regime, i, Len(lines)) \/ entry.event = "ALLOW"
                => Permitted(lines', says', regime, i, Len(lines'))
      BY <2>1, <2>3, <3>1, PassGrows DEF ServiceTypeInv
    <3> QED  BY <1>3, <2>3, <3>2
  <2>4. \/ says' = says /\ UNCHANGED file
           /\ (stage' \in {"submit", "sent"} => stage \in {"submit", "sent"})
        \/ \E entry : /\ Say(entry) /\ Record /\ entry.event # "REGIME"
                      /\ stage' \in {"submit", "sent"} => entry.event = "ALLOW"
    <3>1. stage # "entry"
      BY <1>3 DEF PassStages
    <3> QED  BY <3>1 DEF TicketStep
  <2> QED  BY <2>2, <2>3, <2>4
<1> QED  BY <1>2, <1>3 DEF TicketStep

LEMMA StepPass ==
    TypeOK /\ FileInv /\ ServiceTypeInv /\ PassInv /\ [ServiceNext]_serviceVars => PassInv'
<1> SUFFICES ASSUME TypeOK, FileInv, ServiceTypeInv, PassInv, [ServiceNext]_serviceVars
             PROVE  PassInv'
  OBVIOUS
<1>1. SaysOne /\ TicketStep
  BY StepTypes, TicketSteps
<1>2. \A n \in 1..Len(lines') : LineOK(lines', says', n)
  BY <1>1, LinesOfPasses DEF ServiceTypeInv
<1> QED  BY <1>1, <1>2, PassUnderWay DEF PassInv, PassStages

\* Passes stand in the file one below the other, each under its REGIME and each opening
\* order under its ALLOW, whatever is torn (loop.consider_new_entry, Journal.record).
THEOREM PassesInOrder == ServiceSpec => []PassInv
<1>1. ServiceInit => PassInv
  <2> SUFFICES ASSUME ServiceInit PROVE PassInv
    OBVIOUS
  <2>1. Len(lines) = 0 /\ stage = "off"
    BY DEF ServiceInit, Init
  <2> QED  BY <2>1 DEF PassInv, PassStages
<1>2. ServiceSpec => []FileInv
  BY ImplementsJournal, FileInvariant, PTL DEF JournalSpec
<1> QED  BY <1>1, <1>2, StepPass, ServiceTypesInvariant, PTL DEF ServiceSpec

--------------------------------------------------------------------------------
(* What is shown.                                                             *)

\* What is shown of an event is a line of the chain.
LEMMA FirstIsThere ==
    ASSUME NEW event, NEW at, at \subseteq Nat
    PROVE  /\ FirstOf(event, at) # NoEntry
                 => \E n \in at : FirstOf(event, at) = lines[n] /\ says[lines[n]].event = event
           /\ (\E n \in at : says[lines[n]].event = event)
                 => \E n \in at : FirstOf(event, at) = lines[n] /\ says[lines[n]].event = event
<1> DEFINE T == Saying(event, at)
<1>1. T \subseteq Nat /\ (\A n \in at : says[lines[n]].event = event => n \in T)
  BY DEF Saying
<1>2. CASE T # {}
  <2>1. Min(T) \in T /\ FirstOf(event, at) = lines[Min(T)]
    BY <1>1, <1>2, MinIsFirst DEF FirstOf
  <2> QED  BY <2>1 DEF Saying
<1>3. CASE T = {}
  BY <1>1, <1>3 DEF FirstOf
<1> QED  BY <1>2, <1>3

LEMMA DecisionIsPass ==
    ASSUME TypeOK, FileInv, ServiceTypeInv, PassInv PROVE DecisionIsOnePass
<1> DEFINE n == Len(lines)
           W == Window(DecisionWindow)
           R == Max(Regimes)
           view == DecisionView
<1>1. /\ n \in Nat /\ DOMAIN lines = 1..n
      /\ \A i \in 1..n : lines[i] # Corrupt => lines[i] \in 1..(next - 1)
  BY LinesAreSaid DEF ServiceTypeInv
<1>2. DecisionWindow \in Nat
  BY DashboardAssumption
<1>3. W \subseteq 1..n /\ Regimes \subseteq W /\ Chain \subseteq W
  BY <1>1 DEF Window, Regimes, Saying, Chain
<1> SUFFICES ASSUME view.regime # NoEntry
             PROVE  /\ \A e \in {view.candidates, view.rank, view.verdict} :
                          e # NoEntry => says[e].at = view.regime
                    /\ view.submit # NoEntry /\ says[view.submit].what = "open" =>
                          /\ says[view.submit].at = view.regime
                          /\ view.verdict # NoEntry /\ says[view.verdict].event = "ALLOW"
  BY DEF DecisionIsOnePass
<1>4. view = [regime     |-> FirstOf("REGIME", Chain),
              candidates |-> FirstOf("CANDIDATES", Chain),
              rank       |-> FirstOf("RANK", Chain),
              verdict    |-> IF FirstOf("ALLOW", Chain) # NoEntry
                             THEN FirstOf("ALLOW", Chain) ELSE FirstOf("DENY", Chain),
              submit     |-> FirstOf("SUBMIT", Chain)]
  BY DEF DecisionView
<1> HIDE DEF view
<1>5. Regimes # {}
  BY <1>3, <1>4, FirstIsThere DEF Chain
<1>6. R \in Regimes /\ \A i \in Regimes : i =< R
  BY <1>1, <1>3, <1>5, MaxIsLast
<1>7. /\ R \in 1..n /\ R > n - DecisionWindow /\ Shows(lines, says, R, "REGIME")
      /\ \A i \in Chain : i \in 1..n /\ i >= R /\ lines[i] # Corrupt
      /\ R \in Chain
  BY <1>1, <1>3, <1>6 DEF Regimes, Saying, Window, Chain, Shows
<1> HIDE DEF n, R, W
\* No other REGIME stands in the chain, nor one of an earlier pass' lines.
<1>8. \A i \in (R + 1)..n : ~Shows(lines, says, i, "REGIME")
  <2> SUFFICES ASSUME NEW i \in (R + 1)..n, Shows(lines, says, i, "REGIME") PROVE FALSE
    OBVIOUS
  <2>1. i \in 1..n /\ i > R /\ i > n - DecisionWindow
    BY <1>1, <1>2, <1>7
  <2>2. i \in Regimes
    BY <1>1, <2>1 DEF Regimes, Saying, Window, Shows, n
  <2> QED  BY <1>1, <1>6, <1>7, <2>1, <2>2
<1>9. \A i \in Chain : says[lines[i]].event = "REGIME" => i = R
  BY <1>1, <1>7, <1>8 DEF Shows
<1>10. view.regime = lines[R]
  <2>1. says[lines[R]].event = "REGIME" /\ Chain \subseteq Nat
    BY <1>1, <1>3, <1>7 DEF Shows
  <2>2. PICK i \in Chain :
           FirstOf("REGIME", Chain) = lines[i] /\ says[lines[i]].event = "REGIME"
    BY <1>7, <2>1, FirstIsThere
  <2> QED  BY <1>4, <1>9, <2>2
<1>11. ASSUME NEW i \in Chain, NEW id, NEW k \in 1..i, Opened(lines, says, id, k, i)
       PROVE  id = lines[R] /\ k = R
  <2>1. i \in 1..n /\ i >= R /\ k \in 1..n
    BY <1>1, <1>7
  <2>2. ~(k < R)
    BY <1>1, <1>7, <1>11, <2>1 DEF Opened
  <2>3. ~(R < k)
    BY <1>1, <1>7, <1>8, <1>11, <2>1 DEF Opened
  <2>4. k = R
    BY <1>1, <1>7, <2>1, <2>2, <2>3
  <2> QED  BY <1>11, <2>4 DEF Opened
<1>12. \A i \in Chain : LineOK(lines, says, i)
  BY <1>7 DEF PassInv, n
<1>13. ASSUME NEW i \in Chain, says[lines[i]].event \in {"CANDIDATES", "RANK", "ALLOW", "DENY"}
       PROVE  says[lines[i]].at = lines[R]
  <2>1. PICK k \in 1..i : Opened(lines, says, says[lines[i]].at, k, i)
    BY <1>7, <1>12, <1>13 DEF LineOK
  <2> QED  BY <1>11, <2>1
<1>14. ASSUME NEW i \in Chain, says[lines[i]].event = "SUBMIT", says[lines[i]].what = "open"
       PROVE  /\ says[lines[i]].at = lines[R]
              /\ \E j \in Chain : says[lines[j]].event = "ALLOW"
  <2>1. PICK k \in 1..i : Permitted(lines, says, says[lines[i]].at, k, i)
    BY <1>7, <1>12, <1>14 DEF LineOK
  <2>2. says[lines[i]].at = lines[R] /\ k = R
    BY <1>11, <2>1 DEF Permitted
  <2>3. PICK j \in (R + 1)..i : Shows(lines, says, j, "ALLOW")
    BY <2>1, <2>2 DEF Permitted
  <2>4. i \in 1..n /\ j \in 1..n /\ j >= R /\ j > n - DecisionWindow
    BY <1>1, <1>2, <1>7
  <2>5. j \in Chain
    BY <1>1, <1>5, <2>3, <2>4 DEF Chain, Window, Shows, n, R
  <2> QED  BY <2>2, <2>3, <2>5 DEF Shows
<1>15. Chain \subseteq Nat
  BY <1>1, <1>3
<1>16. ASSUME NEW event \in {"CANDIDATES", "RANK", "ALLOW", "DENY"},
              FirstOf(event, Chain) # NoEntry
       PROVE  says[FirstOf(event, Chain)].at = view.regime
  <2>1. PICK i \in Chain : FirstOf(event, Chain) = lines[i] /\ says[lines[i]].event = event
    BY <1>15, <1>16, FirstIsThere
  <2> QED  BY <1>10, <1>13, <1>16, <2>1
<1>17. \A e \in {view.candidates, view.rank, view.verdict} :
          e # NoEntry => says[e].at = view.regime
  BY <1>4, <1>16
<1>18. ASSUME view.submit # NoEntry, says[view.submit].what = "open"
       PROVE  /\ says[view.submit].at = view.regime
              /\ view.verdict # NoEntry /\ says[view.verdict].event = "ALLOW"
  <2>1. PICK i \in Chain : view.submit = lines[i] /\ says[lines[i]].event = "SUBMIT"
    BY <1>4, <1>15, <1>18, FirstIsThere
  <2>2. /\ says[lines[i]].at = lines[R]
        /\ \E j \in Chain : says[lines[j]].event = "ALLOW"
    BY <1>14, <1>18, <2>1
  <2>3. PICK j \in Chain : FirstOf("ALLOW", Chain) = lines[j] /\ says[lines[j]].event = "ALLOW"
    BY <1>15, <2>2, FirstIsThere
  <2>4. lines[j] # NoEntry
    BY <1>7 DEF NoEntry, Corrupt
  <2> QED  BY <1>4, <1>10, <2>1, <2>2, <2>3, <2>4
<1> QED  BY <1>17, <1>18

\* /api/gate never shows the gate of an earlier process while a pass is under way
\* (api.py:95-103), for every window and any number of restarts.
THEOREM GateOfThisProcess == ServiceSpec => []GateViewIsDesks
<1>1. ServiceSpec => [](FileInv /\ NothingLost)
  BY ImplementsJournal, FileInvariant, LossIsSeen, PTL DEF JournalSpec
<1> QED  BY <1>1, GateIsDesks, ServiceTypesInvariant, ReadyInvariant, PTL

\* /api/decision never mixes two passes, and never shows an opening order without its own
\* ALLOW (api.py:266-294), for every window, any number of restarts and whatever is torn.
THEOREM DecisionOfOnePass == ServiceSpec => []DecisionIsOnePass
<1>1. ServiceSpec => []FileInv
  BY ImplementsJournal, FileInvariant, PTL DEF JournalSpec
<1> QED  BY <1>1, DecisionIsPass, ServiceTypesInvariant, PassesInOrder, PTL
--------------------------------------------------------------------------------
(* The fills in the journal.                                                  *)

FillsIn(said) == {e \in 1..Len(said) : said[e].event = "FILL"}

\* What FillEntry makes of fill k.
Recorded(fills, k) == Entry("FILL", fills[k].id, fills[k].intent, k)

\* A FILL entry is one of the broker's fills, no two have the same id, and those that
\* are still to be recorded have none; the broker opens before it closes.
FillsInv ==
    /\ \A e \in FillsIn(says) :
          says[e].at \in DOMAIN filled /\ says[e] = Recorded(filled, says[e].at)
    /\ \A e, f \in FillsIn(says) : says[e].id = says[f].id => e = f
    /\ stage = "record" => \A k \in todo, e \in FillsIn(says) : says[e].id # filled[k].id

BrokerInv ==
    /\ \A order \in working : order.intent \in {"open", "close"}
    /\ \A k \in DOMAIN filled : filled[k].intent \in {"open", "close"}
    /\ filled # <<>> => filled[1].intent = "open"

\* The broker gets an order, fills one, or nothing of the kind.
BrokerStep ==
    \/ UNCHANGED broker
    \/ \E id : \E intent \in {"open", "close"} : Accept(Order(id, intent))
    \/ \E order \in working : Fill(order)

\* What is still to be recorded was asked for, is one fill less, or is what it was.
RecordStep ==
    stage' = "record" =>
        \/ OrdersRead
        \/ \E k \in DOMAIN filled : RecordFill(k)
        \/ stage = "record" /\ says' = says /\ todo' = todo

LEMMA FillSteps ==
    ASSUME ServiceTypeInv, [ServiceNext]_serviceVars PROVE BrokerStep /\ RecordStep
<1> USE DEF BrokerStep, RecordStep
<1>1. CASE UNCHANGED serviceVars
  BY <1>1 DEF serviceVars, vars, service, pass, broker
<1>2. CASE \/ Boot \/ ConnectFails \/ ReadAccount \/ GateReady \/ GateHalts \/ Unwritten
           \/ BuildDesk
           \/ AskMarket \/ MarketFails \/ JournalFails \/ MarketRead
           \/ ReconcileFails \/ Reconcile \/ AskOrders \/ OrdersFail
  BY <1>2 DEF Boot, ConnectFails, ReadAccount, GateReady, GateHalts, Unwritten, BuildDesk,
              AskMarket, MarketFails, JournalFails, MarketRead, ReconcileFails, Reconcile, AskOrders,
              OrdersFail, Goto
<1>3. CASE OrdersRead
  BY <1>3 DEF OrdersRead
<1>4. ASSUME NEW k \in DOMAIN filled, RecordFill(k) PROVE BrokerStep /\ RecordStep
  BY <1>4 DEF RecordFill
<1>5. CASE Hold \/ Defend \/ TakeProfit \/ CloseFails \/ CloseLost \/ SubmitClose
  BY <1>5 DEF Hold, Defend, TakeProfit, CloseFails, CloseLost, SubmitClose, Goto, broker
<1>6. CASE SendClose \/ SendEntry
  BY <1>6 DEF SendClose, SendEntry, Goto
<1>7. CASE Regime \/ CandidatesFound \/ Rank \/ Deny \/ Allow
           \/ SubmitBlocked \/ SubmitLost \/ Submit
  BY <1>7 DEF Regime, CandidatesFound, Rank, Deny, Allow, SubmitBlocked, SubmitLost, Submit,
              Goto, broker
<1>8. CASE ThreadStep \/ StartReturns \/ Answered \/ Noticed \/ TimesOut \/ Bounded
  BY <1>8 DEF ThreadStep, StartReturns, Answered, Noticed, TimesOut, Bounded, service,
              pass, broker
<1>9. CASE Late \/ ServerLost
  BY <1>9 DEF Late, ServerLost, pass
<1>10. CASE ProcessDies \/ DiesWriting
  BY <1>10 DEF ProcessDies, DiesWriting, Goto
<1>11. ASSUME NEW order \in working, Fill(order) PROVE BrokerStep /\ RecordStep
  BY <1>11 DEF Fill, pass
<1> QED
  BY <1>1, <1>2, <1>3, <1>4, <1>5, <1>6, <1>7, <1>8, <1>9, <1>10, <1>11 DEF ServiceNext

LEMMA StepBroker ==
    ASSUME ServiceTypeInv, BrokerInv, BrokerStep
    PROVE  /\ BrokerInv'
           /\ DOMAIN filled \subseteq DOMAIN filled'
           /\ \A k \in DOMAIN filled : filled'[k] = filled[k]
<1>1. CASE UNCHANGED broker
  BY <1>1 DEF BrokerInv, broker
<1>2. ASSUME NEW id, NEW intent \in {"open", "close"}, Accept(Order(id, intent))
      PROVE  BrokerInv' /\ filled' = filled
  BY <1>2 DEF BrokerInv, Accept, Order
<1>3. ASSUME NEW order \in working, Fill(order)
      PROVE  /\ BrokerInv'
             /\ DOMAIN filled \subseteq DOMAIN filled'
             /\ \A k \in DOMAIN filled : filled'[k] = filled[k]
  <2>1. PICK S : filled \in Seq(S)
    BY DEF ServiceTypeInv, ValuesOK
  <2>2. filled \in Seq(S \cup {order}) /\ order \in S \cup {order}
    BY <2>1
  <2>3. filled' = Append(filled, order) /\ working' \subseteq working
    BY <1>3 DEF Fill
  <2>4. /\ Len(filled) \in Nat /\ DOMAIN filled = 1..Len(filled)
        /\ DOMAIN filled' = 1..(Len(filled) + 1)
        /\ filled'[Len(filled) + 1] = order
        /\ \A k \in 1..Len(filled) : filled'[k] = filled[k]
    BY <2>2, <2>3
  <2>5. order.intent \in {"open", "close"}
    BY DEF BrokerInv
  <2>6. \A k \in DOMAIN filled' : filled'[k].intent \in {"open", "close"}
    BY <2>4, <2>5 DEF BrokerInv
  <2>7. filled'[1].intent = "open"
    <3>1. CASE filled = <<>>
      <4>1. order.intent = "open"
        BY <1>3, <2>5, <3>1 DEF Fill, Held
      <4>2. Len(filled) = 0
        BY <3>1
      <4> QED  BY <2>4, <4>1, <4>2
    <3>2. CASE filled # <<>>
      <4>1. 1 \in 1..Len(filled)
        BY <2>1, <2>4, <3>2
      <4> QED  BY <2>4, <3>2, <4>1 DEF BrokerInv
    <3> QED  BY <3>1, <3>2
  <2>8. \A o \in working' : o.intent \in {"open", "close"}
    BY <2>3 DEF BrokerInv
  <2> QED  BY <2>4, <2>6, <2>7, <2>8 DEF BrokerInv
<1> QED  BY <1>1, <1>2, <1>3 DEF BrokerStep, broker

LEMMA LongerBy ==
    ASSUME ServiceTypeInv, NEW entry, Say(entry) PROVE Len(says') = Len(says) + 1
<1>1. PICK S : says \in Seq(S)
  BY DEF ServiceTypeInv, EntriesOK
<1>2. says \in Seq(S \cup {entry}) /\ entry \in S \cup {entry}
  BY <1>1
<1> QED  BY <1>2 DEF Say

LEMMA StepFills ==
    ASSUME TypeOK, FileInv, NothingLost, ServiceTypeInv, FillsInv, SaysOne, RecordStep,
           DOMAIN filled \subseteq DOMAIN filled',
           \A k \in DOMAIN filled : filled'[k] = filled[k]
    PROVE  FillsInv'
<1> DEFINE n == Len(says)
<1>1. n \in Nat /\ n = next - 1 /\ next \in Nat
  BY LinesAreSaid DEF ServiceTypeInv, TypeOK
<1>2. \A k \in DOMAIN filled : Recorded(filled', k) = Recorded(filled, k)
  BY DEF Recorded
<1>3. todo \subseteq DOMAIN filled
  BY DEF ServiceTypeInv, ValuesOK
<1>4. CASE says' = says
  <2>1. FillsIn(says') = FillsIn(says)
    BY <1>4 DEF FillsIn
  <2>2. \A e \in FillsIn(says') :
           says'[e].at \in DOMAIN filled' /\ says'[e] = Recorded(filled', says'[e].at)
    BY <1>2, <1>4, <2>1 DEF FillsInv
  <2>3. ASSUME stage' = "record", NEW k \in todo', NEW e \in FillsIn(says')
        PROVE  says'[e].id # filled'[k].id
    <3>1. CASE OrdersRead
      <4>1. stage = "orders" /\ k \in DOMAIN filled /\ filled[k].id \notin RecordedIds
        BY <2>3, <3>1 DEF OrdersRead
      <4>2. ~ReadRaises
        BY <4>1 DEF ServiceTypeInv, PlaceOK, TypeOK, FileInv
      <4>3. e \in Readable
        BY <1>1, <2>1, <2>3, <4>2 DEF NothingLost, FillsIn
      <4>4. says[e].id \in RecordedIds
        BY <2>1, <2>3, <4>3 DEF RecordedIds, FillsIn
      <4> QED  BY <1>4, <4>1, <4>4
    <3>2. ASSUME NEW j \in DOMAIN filled, RecordFill(j) PROVE FALSE
      <4>1. Say(FillEntry(j))
        BY <3>2 DEF RecordFill
      <4>2. Len(says') = n + 1
        BY <4>1, LongerBy
      <4> QED  BY <1>1, <1>4, <4>2
    <3>3. CASE stage = "record" /\ todo' = todo
      BY <1>3, <1>4, <2>1, <2>3, <3>3 DEF FillsInv
    <3> QED  BY <2>3, <3>1, <3>2, <3>3 DEF RecordStep
  <2>4. \A e, f \in FillsIn(says') : says'[e].id = says'[f].id => e = f
    BY <1>4, <2>1 DEF FillsInv
  <2> QED  BY <2>2, <2>3, <2>4 DEF FillsInv
<1>5. ASSUME NEW entry, Say(entry), OfPass(entry) PROVE FillsInv'
  <2>1. /\ says'[next] = entry /\ \A e \in 1..n : says'[e] = says[e]
    BY <1>1, <1>5, SaidNext DEF ServiceTypeInv
  <2>2. Len(says') = n + 1
    BY <1>5, LongerBy
  <2> HIDE DEF n
  <2>3. \A e : e \in FillsIn(says') <=> e \in FillsIn(says) \/ (e = next /\ entry.event = "FILL")
    <3>1. \A e : e \in 1..(n + 1) <=> e \in 1..n \/ e = next
      BY <1>1
    <3>2. \A e : e \in 1..n => e # next
      BY <1>1
    <3> QED  BY <2>1, <2>2, <3>1, <3>2 DEF FillsIn, n
  <2>4. \A e \in FillsIn(says) : says'[e] = says[e]
    BY <2>1 DEF FillsIn, n
  <2>5. entry.event = "FILL" =>
           /\ stage = "record"
           /\ \E k \in todo : entry = Recorded(filled, k) /\ entry.at = k /\ entry.id = filled[k].id
    BY <1>5 DEF OfPass, FillEntry, Entry, Recorded
  <2>6. ASSUME NEW e \in FillsIn(says')
        PROVE  says'[e].at \in DOMAIN filled' /\ says'[e] = Recorded(filled', says'[e].at)
    <3>1. CASE e \in FillsIn(says)
      BY <1>2, <2>4, <3>1 DEF FillsInv
    <3>2. CASE e = next /\ entry.event = "FILL"
      BY <1>2, <1>3, <2>1, <2>5, <3>2
    <3> QED  BY <2>3, <2>6, <3>1, <3>2
  <2>7. ASSUME entry.event = "FILL", NEW e \in FillsIn(says) PROVE says[e].id # entry.id
    BY <2>5, <2>7 DEF FillsInv
  <2>8. \A e, f \in FillsIn(says') : says'[e].id = says'[f].id => e = f
    BY <2>1, <2>3, <2>4, <2>7 DEF FillsInv
  <2>9. ASSUME stage' = "record", NEW k \in todo', NEW e \in FillsIn(says')
        PROVE  says'[e].id # filled'[k].id
    <3>1. says' # says
      BY <1>1, <2>2 DEF n
    <3>2. PICK j \in DOMAIN filled : RecordFill(j)
      BY <2>9, <3>1 DEF RecordStep, OrdersRead
    <3>3. /\ stage = "record" /\ k \in todo /\ filled[k].id # filled[j].id
          /\ says' = Append(says, FillEntry(j))
      BY <2>9, <3>2 DEF RecordFill, Say
    <3>4. entry = FillEntry(j)
      <4>1. Say(FillEntry(j))
        BY <3>2 DEF RecordFill
      <4>2. says'[next] = FillEntry(j)
        BY <4>1, SaidNext DEF ServiceTypeInv
      <4> QED  BY <2>1, <4>2
    <3>5. entry.id = filled[j].id
      BY <3>4 DEF FillEntry, Entry
    <3>6. filled'[k] = filled[k]
      BY <1>3, <3>3
    <3>7. CASE e \in FillsIn(says)
      BY <2>4, <3>3, <3>6, <3>7 DEF FillsInv
    <3>8. CASE e = next
      BY <2>1, <3>3, <3>5, <3>6, <3>8
    <3> QED  BY <2>3, <2>9, <3>7, <3>8
  <2> QED  BY <2>6, <2>8, <2>9 DEF FillsInv
<1> QED  BY <1>4, <1>5 DEF SaysOne

\* No fill is journalled twice, and what is journalled of a fill is the broker's: for any
\* number of passes and restarts (loop.py:214-250, journal.py:159-165).
THEOREM FillsInvariant == ServiceSpec => [](FillsInv /\ BrokerInv)
<1>1. ServiceInit => FillsInv /\ BrokerInv
  <2> SUFFICES ASSUME ServiceInit PROVE FillsInv /\ BrokerInv
    OBVIOUS
  <2>1. says = <<>> /\ stage = "off" /\ working = {} /\ filled = <<>>
    BY DEF ServiceInit
  <2>2. FillsIn(says) = {}
    BY <2>1 DEF FillsIn
  <2> QED  BY <2>1, <2>2 DEF FillsInv, BrokerInv
<1>2. /\ TypeOK /\ FileInv /\ NothingLost /\ ServiceTypeInv /\ FillsInv /\ BrokerInv
      /\ [ServiceNext]_serviceVars
      => FillsInv' /\ BrokerInv'
  BY FillSteps, StepBroker, StepFills, StepTypes
<1>3. ServiceSpec => [](FileInv /\ NothingLost)
  BY ImplementsJournal, FileInvariant, LossIsSeen, PTL DEF JournalSpec
<1> QED  BY <1>1, <1>2, <1>3, ServiceTypesInvariant, PTL DEF ServiceSpec

--------------------------------------------------------------------------------
(* The trades.                                                                *)

\* Things numbered 1 to N, each number once: there are N of them, and k - 1 come before
\* the one with number k.
LEMMA Numbered ==
    ASSUME NEW N \in Nat, NEW F, NEW f \in [F -> 1..N],
           \A i, j \in F : f[i] = f[j] => i = j,
           \A k \in 1..N : \E i \in F : f[i] = k
    PROVE  /\ Cardinality(F) = N
           /\ \A k \in 1..N : Cardinality({j \in F : f[j] < k}) = k - 1
<1>1. ASSUME NEW m \in 0..N PROVE Cardinality({j \in F : f[j] =< m}) = m
  <2> DEFINE G == {j \in F : f[j] =< m}
             g == [k \in 1..m |-> CHOOSE j \in F : f[j] = k]
  <2>1. \A k \in 1..m : g[k] \in F /\ f[g[k]] = k
    OBVIOUS
  <2>2. \A k \in 1..m : g[k] \in G
    BY <2>1
  <2>3. g \in [1..m -> G]
    BY <2>2
  <2>4. \A k, l \in 1..m : g[k] = g[l] => k = l
    BY <2>1
  <2>5. \A j \in G : \E k \in 1..m : g[k] = j
    <3> SUFFICES ASSUME NEW j \in G PROVE g[f[j]] = j /\ f[j] \in 1..m
      OBVIOUS
    <3>1. f[j] \in 1..m
      OBVIOUS
    <3>2. g[f[j]] \in F /\ f[g[f[j]]] = f[j]
      BY <2>1, <3>1
    <3> QED  BY <3>1, <3>2
  <2> HIDE DEF G, g
  <2>6. g \in Bijection(1..m, G)
    BY <2>3, <2>4, <2>5, Fun_IsBij
  <2>7. ExistsBijection(1..m, G)
    BY <2>6 DEF ExistsBijection
  <2>8. IsFiniteSet(1..m) /\ Cardinality(1..m) = m
    BY FS_Interval
  <2>9. Cardinality(G) = m
    BY <2>7, <2>8, FS_Bijection
  <2> QED  BY <2>9 DEF G
<1>2. F = {j \in F : f[j] =< N}
  OBVIOUS
<1>3. Cardinality(F) = N
  BY <1>1, <1>2
<1>4. ASSUME NEW k \in 1..N PROVE Cardinality({j \in F : f[j] < k}) = k - 1
  <2>1. {j \in F : f[j] < k} = {j \in F : f[j] =< k - 1}
    OBVIOUS
  <2> QED  BY <1>1, <2>1
<1> QED  BY <1>3, <1>4

\* When every fill is journalled, the FILL lines and the broker's fills are the same,
\* one for one.
LEMMA FillsAreBrokers ==
    ASSUME TypeOK, FileInv, ServiceTypeInv, FillsInv,
           ~ReadRaises, \A k \in DOMAIN filled : Journalled(k)
    PROVE  LET N == Len(filled)
               at(i) == says[lines[i]].at
           IN  /\ N \in Nat /\ DOMAIN filled = 1..N
               /\ \A i \in Fills : at(i) \in 1..N /\ says[lines[i]] = Recorded(filled, at(i))
               /\ \A i, j \in Fills : at(i) = at(j) => i = j
               /\ \A k \in 1..N : \E i \in Fills : at(i) = k
<1> DEFINE N == Len(filled)
           at(i) == says[lines[i]].at
           F == Saying("FILL", DOMAIN lines)
<1>1. N \in Nat /\ DOMAIN filled = 1..N
  BY DEF ServiceTypeInv, ValuesOK
<1>2. /\ Len(lines) \in Nat /\ DOMAIN lines = 1..Len(lines)
      /\ Len(says) \in Nat /\ Len(says) = next - 1
      /\ \A i \in 1..Len(lines) : lines[i] # Corrupt => lines[i] \in 1..(next - 1)
  BY LinesAreSaid DEF ServiceTypeInv
<1>3. \A i \in 1..Len(lines) : lines[i] # Corrupt
  BY DEF ReadRaises
<1>4. \A i \in F : i \in 1..Len(lines) /\ lines[i] \in FillsIn(says)
  BY <1>2, <1>3 DEF FillsIn, Saying
<1>5. ASSUME NEW i \in F, NEW j \in F, says[lines[i]].id = says[lines[j]].id PROVE i = j
  <2>1. lines[i] = lines[j]
    BY <1>4, <1>5 DEF FillsInv
  <2>2. lines[i] \in Nat /\ lines[j] \in Nat
    BY <1>2, <1>4 DEF FillsIn
  <2>3. ~(i < j) /\ ~(j < i)
    BY <1>3, <1>4, <2>1, <2>2 DEF FileInv, InOrder
  <2> QED  BY <1>4, <2>3
<1>6. Fills = F
  <2>1. ASSUME NEW i \in F, NEW j \in Saying("FILL", 1..(i - 1))
        PROVE  says[lines[j]].id # says[lines[i]].id
    <3>1. j \in F /\ j # i
      BY <1>2, <1>4 DEF Saying
    <3> QED  BY <1>5, <3>1
  <2> QED  BY <2>1 DEF Fills
<1>7. \A i \in F : at(i) \in 1..N /\ says[lines[i]] = Recorded(filled, at(i))
  BY <1>1, <1>4 DEF FillsInv
<1>8. ASSUME NEW i \in F, NEW j \in F, at(i) = at(j) PROVE i = j
  <2>1. says[lines[i]] = says[lines[j]]
    BY <1>7, <1>8
  <2> QED  BY <1>5, <2>1
<1>9. ASSUME NEW k \in 1..N PROVE \E i \in F : at(i) = k
  <2>1. PICK e \in Readable : says[e].event = "FILL" /\ says[e].at = k
    BY <1>1 DEF Journalled
  <2>2. PICK i \in 1..Len(lines) : lines[i] = e
    BY <2>1 DEF Readable
  <2> QED  BY <1>2, <2>1, <2>2 DEF Saying
<1> HIDE DEF F
<1> QED  BY <1>1, <1>6, <1>7, <1>8, <1>9

\* Sorted, they are the broker's in the order it made them.
LEMMA SortedAsFilled ==
    ASSUME TypeOK, FileInv, ServiceTypeInv, FillsInv,
           ~ReadRaises, \A k \in DOMAIN filled : Journalled(k)
    PROVE  /\ Len(filled) \in Nat /\ DOMAIN filled = 1..Len(filled)
           /\ Cardinality(Fills) = Len(filled)
           /\ \A k \in 1..Len(filled) : InTime[k] = Recorded(filled, k)
<1> DEFINE N == Len(filled)
           at(i) == says[lines[i]].at
           f == [i \in Fills |-> at(i)]
<1>1. /\ N \in Nat /\ DOMAIN filled = 1..N
      /\ \A i \in Fills : at(i) \in 1..N /\ says[lines[i]] = Recorded(filled, at(i))
      /\ \A i, j \in Fills : at(i) = at(j) => i = j
      /\ \A k \in 1..N : \E i \in Fills : at(i) = k
  BY FillsAreBrokers
<1> HIDE DEF N
<1>2. f \in [Fills -> 1..N]
  BY <1>1
<1>3. \A i \in Fills : f[i] = at(i)
  OBVIOUS
<1> HIDE DEF f
<1>4. /\ Cardinality(Fills) = N
      /\ \A k \in 1..N : Cardinality({j \in Fills : f[j] < k}) = k - 1
  <2>1. \A i, j \in Fills : f[i] = f[j] => i = j
    BY <1>1, <1>3
  <2>2. \A k \in 1..N : \E i \in Fills : f[i] = k
    BY <1>1, <1>3
  <2>3. N \in Nat
    BY <1>1
  <2> HIDE DEF at
  <2> QED  BY <1>2, <2>1, <2>2, <2>3, Numbered
<1>5. ASSUME NEW i \in Fills
      PROVE  Cardinality({j \in Fills : Earlier(j, i)}) = at(i) - 1
  <2>1. \A j \in Fills : Earlier(j, i) <=> f[j] < at(i)
    <3> SUFFICES ASSUME NEW j \in Fills PROVE Earlier(j, i) <=> f[j] < at(i)
      OBVIOUS
    <3>1. at(j) = at(i) => j = i
      BY <1>1
    <3>2. i \in Nat
      <4>1. i \in DOMAIN lines /\ DOMAIN lines = 1..Len(lines)
        BY DEF Fills, Saying, TypeOK
      <4> QED  BY <4>1
    <3> QED  BY <1>1, <1>3, <3>1, <3>2 DEF Earlier
  <2>2. {j \in Fills : Earlier(j, i)} = {j \in Fills : f[j] < at(i)}
    BY <2>1
  <2> QED  BY <1>1, <1>4, <2>2
<1>6. ASSUME NEW k \in 1..N PROVE InTime[k] = Recorded(filled, k)
  <2> DEFINE Preceding(i) == Cardinality({j \in Fills : Earlier(j, i)})
             c == CHOOSE i \in Fills : Preceding(i) = k - 1
  <2>1. PICK i \in Fills : at(i) = k
    BY <1>1
  <2>2. Preceding(i) = k - 1
    BY <1>5, <2>1
  <2>3. c \in Fills /\ Preceding(c) = k - 1
    BY <2>2
  <2>4. Preceding(c) = at(c) - 1
    BY <1>5, <2>3
  <2>5. at(c) \in 1..N /\ at(c) - 1 = k - 1
    BY <1>1, <2>3, <2>4
  <2>6. at(c) = k
    BY <2>5
  <2>7. InTime[k] = says[lines[c]]
    BY <1>4 DEF InTime
  <2> QED  BY <1>1, <2>3, <2>6, <2>7
<1> QED  BY <1>1, <1>4, <1>6 DEF N

\* The books after the first n fills, when they were open and close by turns: the last
\* one is on if it is an open, and every open before it was closed by the next.
BooksOf(n) ==
    [out  |-> IF n > 0 /\ filled[n].intent = "open" THEN <<n>> ELSE <<>>,
     done |-> {<<k, k + 1>> : k \in {j \in 1..(n - 1) : filled[j].intent = "open"}}]

LEMMA BooksByTurns ==
    ASSUME BrokerInv, OneAtATime, NEW N \in Nat, DOMAIN filled = 1..N, Cardinality(Fills) = N,
           \A k \in 1..N : InTime[k] = Recorded(filled, k)
    PROVE  \A n \in 0..N : Books[n] = BooksOf(n)
<1> DEFINE empty == [out |-> <<>>, done |-> {}]
           Walk(b) == [n \in 0..N |-> IF n = 0 THEN empty ELSE Settle(b[n - 1], InTime[n])]
           G == [n \in 0..N |-> BooksOf(n)]
<1>1. BooksOf(0) = empty
  <2>1. {j \in 1..(0 - 1) : filled[j].intent = "open"} = {}
    OBVIOUS
  <2>2. BooksOf(0).done = {}
    BY <2>1 DEF BooksOf
  <2>3. BooksOf(0) = [out |-> <<>>, done |-> BooksOf(0).done]
    BY DEF BooksOf
  <2> QED  BY <2>2, <2>3
<1>2. ASSUME NEW n \in 1..N PROVE BooksOf(n) = Settle(BooksOf(n - 1), InTime[n])
  <2>1. InTime[n].what = filled[n].intent /\ InTime[n].at = n
    <3>1. InTime[n] = Entry("FILL", filled[n].id, filled[n].intent, n)
      BY DEF Recorded
    <3> QED  BY <3>1 DEF Entry
  <2>2. n > 1 => filled[n].intent # filled[n - 1].intent
    BY DEF OneAtATime
  <2>3. filled[n].intent \in {"open", "close"}
    BY DEF BrokerInv
  <2>4. n > 1 => filled[n - 1].intent \in {"open", "close"}
    BY DEF BrokerInv
  <2>5. CASE filled[n].intent = "open"
    <3>1. BooksOf(n - 1).out = <<>>
      BY <2>2, <2>5 DEF BooksOf
    <3>2. {j \in 1..(n - 1) : filled[j].intent = "open"}
            = {j \in 1..(n - 1 - 1) : filled[j].intent = "open"}
      BY <2>2, <2>5
    <3>3. Append(<<>>, n) = <<n>>
      OBVIOUS
    <3>4. BooksOf(n - 1) = [out |-> <<>>, done |-> BooksOf(n - 1).done]
      BY <3>1 DEF BooksOf
    <3>5. Settle(BooksOf(n - 1), InTime[n]) = [out |-> <<n>>, done |-> BooksOf(n - 1).done]
      BY <2>1, <2>5, <3>3, <3>4 DEF Settle
    <3>6. BooksOf(n).done = BooksOf(n - 1).done
      BY <3>2 DEF BooksOf
    <3>7. BooksOf(n) = [out |-> <<n>>, done |-> BooksOf(n).done]
      <4>1. n > 0
        OBVIOUS
      <4>2. BooksOf(n).out = <<n>>
        BY <2>5, <4>1 DEF BooksOf
      <4> QED  BY <4>2 DEF BooksOf
    <3> QED  BY <3>5, <3>6, <3>7
  <2>6. CASE filled[n].intent = "close"
    <3>1. filled # <<>>
      OBVIOUS
    <3>2. n > 1
      BY <2>6, <3>1 DEF BrokerInv
    <3>3. filled[n - 1].intent = "open"
      BY <2>2, <2>4, <2>6, <3>2
    <3>4. BooksOf(n - 1).out = <<n - 1>>
      BY <3>2, <3>3 DEF BooksOf
    <3>5. {j \in 1..(n - 1) : filled[j].intent = "open"}
            = {j \in 1..(n - 1 - 1) : filled[j].intent = "open"} \cup {n - 1}
      BY <3>2, <3>3
    <3>6. Head(<<n - 1>>) = n - 1 /\ Tail(<<n - 1>>) = <<>> /\ <<n - 1>> # <<>>
      OBVIOUS
    <3>7. n - 1 + 1 = n
      OBVIOUS
    <3>8. BooksOf(n).done = BooksOf(n - 1).done \cup {<<n - 1, n>>}
      BY <3>5, <3>7 DEF BooksOf
    <3>9. Settle(BooksOf(n - 1), InTime[n])
            = [out |-> <<>>, done |-> BooksOf(n - 1).done \cup {<<n - 1, n>>}]
      BY <2>1, <2>6, <3>4, <3>6 DEF Settle
    <3>10. BooksOf(n) = [out |-> <<>>, done |-> BooksOf(n).done]
      BY <2>6 DEF BooksOf
    <3> QED  BY <3>8, <3>9, <3>10
  <2> QED  BY <2>3, <2>5, <2>6
<1>3. G = Walk(G)
  <2>1. \A n \in 1..N : n - 1 \in 0..N
    OBVIOUS
  <2>2. \A n \in 0..N : n = 0 \/ n \in 1..N
    OBVIOUS
  <2> QED  BY <1>1, <1>2, <2>1, <2>2
<1> HIDE DEF G
<1>4. Books = Walk(Books)
  <2>1. Books = CHOOSE b : b = Walk(b)
    BY DEF Books
  <2> QED  BY <1>3, <2>1
<1>5. \A n \in 0..N :
         Books[n] = IF n = 0 THEN empty ELSE Settle(Books[n - 1], InTime[n])
  BY <1>4
<1> DEFINE T == {n \in 0..N : Books[n] # BooksOf(n)}
<1>6. ASSUME T # {} PROVE FALSE
  <2>1. T \subseteq Nat
    OBVIOUS
  <2>2. PICK m \in T : \A n \in T : m =< n
    BY <1>6, <2>1, LeastExists
  <2>3. m # 0
    BY <1>1, <1>5
  <2>4. m - 1 \in 0..N /\ m - 1 \notin T /\ m \in 1..N
    BY <2>2, <2>3
  <2>5. Books[m - 1] = BooksOf(m - 1)
    BY <2>4
  <2>6. Books[m] = Settle(BooksOf(m - 1), InTime[m])
    BY <1>5, <2>3, <2>5
  <2> QED  BY <1>2, <2>4, <2>6
<1> QED  BY <1>6

LEMMA TradesByTurns ==
    ASSUME TypeOK, FileInv, ServiceTypeInv, FillsInv, BrokerInv PROVE TradesAreTrue
<1> SUFFICES ASSUME ~ReadRaises, OneAtATime, \A k \in DOMAIN filled : Journalled(k)
             PROVE  Trades = RoundTrips
  BY DEF TradesAreTrue
<1> DEFINE N == Len(filled)
           Opens(n) == {j \in 1..n : filled[j].intent = "open"}
<1>1. /\ N \in Nat /\ DOMAIN filled = 1..N /\ Cardinality(Fills) = N
      /\ \A k \in 1..N : InTime[k] = Recorded(filled, k)
  BY SortedAsFilled
<1> HIDE DEF N
<1>2. Books[N] = BooksOf(N)
  BY <1>1, BooksByTurns
<1>3. Trades = {<<k, k + 1>> : k \in Opens(N - 1)}
               \cup {<<BooksOf(N).out[i], 0>> : i \in DOMAIN BooksOf(N).out}
  BY <1>1, <1>2 DEF Trades, BooksOf
<1>4. RoundTrips = {<<k, IF k < N THEN k + 1 ELSE 0>> : k \in Opens(N)}
  BY <1>1 DEF RoundTrips, N
<1>5. CASE N > 0 /\ filled[N].intent = "open"
  <2>1. BooksOf(N).out = <<N>>
    BY <1>5 DEF BooksOf
  <2>2. {<<BooksOf(N).out[i], 0>> : i \in DOMAIN BooksOf(N).out} = {<<N, 0>>}
    BY <2>1
  <2>3. Opens(N) = Opens(N - 1) \cup {N} /\ \A k \in Opens(N - 1) : k < N
    BY <1>1, <1>5
  <2>4. ~(N < N)
    BY <1>1
  <2> HIDE DEF Opens
  <2> QED  BY <1>3, <1>4, <2>2, <2>3, <2>4
<1>6. CASE ~(N > 0 /\ filled[N].intent = "open")
  <2>1. BooksOf(N).out = <<>>
    BY <1>6 DEF BooksOf
  <2>2. {<<BooksOf(N).out[i], 0>> : i \in DOMAIN BooksOf(N).out} = {}
    BY <2>1
  <2>3. Opens(N) = Opens(N - 1) /\ \A k \in Opens(N - 1) : k < N
    BY <1>1, <1>6
  <2> HIDE DEF Opens
  <2> QED  BY <1>3, <1>4, <2>2, <2>3
<1> QED  BY <1>5, <1>6

\* /api/trades shows what happened, in whatever order and over how many restarts the
\* fills were recorded, once they all are and no two structures were on at once
\* (api.py:391-489).
THEOREM TradesTable == ServiceSpec => []TradesAreTrue
<1>1. ServiceSpec => []FileInv
  BY ImplementsJournal, FileInvariant, PTL DEF JournalSpec
<1> QED  BY <1>1, TradesByTurns, FillsInvariant, ServiceTypesInvariant, PTL

--------------------------------------------------------------------------------
(* Every fill gets there.                                                     *)

\* An id is of one fill or of one working order.
UniqueInv ==
    ~ReusableIds =>
        /\ \A j, k \in DOMAIN filled : filled[j].id = filled[k].id => j = k
        /\ \A order \in working, k \in DOMAIN filled : order.id # filled[k].id
        /\ \A order, other \in working : order.id = other.id => order = other

LEMMA StepUnique ==
    ASSUME ServiceTypeInv, UniqueInv, BrokerStep PROVE UniqueInv'
<1> SUFFICES ASSUME ~ReusableIds PROVE UniqueInv'
  BY DEF UniqueInv
<1>1. CASE UNCHANGED broker
  BY <1>1 DEF UniqueInv, broker
<1>2. ASSUME NEW id, NEW intent \in {"open", "close"}, Accept(Order(id, intent))
      PROVE  UniqueInv'
  <2> DEFINE order == Order(id, intent)
  <2>1. filled' = filled
    BY <1>2 DEF Accept
  <2>2. CASE working' = working
    BY <2>1, <2>2 DEF UniqueInv
  <2>3. CASE working' = working \cup {order} /\ order.id \notin UsedIds
    <3>1. /\ \A k \in DOMAIN filled : order.id # filled[k].id
          /\ \A other \in working : order.id # other.id
      BY <2>3 DEF UsedIds
    <3> HIDE DEF order
    <3> QED  BY <2>1, <2>3, <3>1 DEF UniqueInv
  <2> QED  BY <1>2, <2>2, <2>3 DEF Accept
<1>3. ASSUME NEW order \in working, Fill(order) PROVE UniqueInv'
  <2>1. PICK S : filled \in Seq(S)
    BY DEF ServiceTypeInv, ValuesOK
  <2>2. filled \in Seq(S \cup {order}) /\ order \in S \cup {order}
    BY <2>1
  <2>3. filled' = Append(filled, order) /\ working' = working \ {order}
    BY <1>3 DEF Fill
  <2>4. /\ Len(filled) \in Nat /\ DOMAIN filled = 1..Len(filled)
        /\ DOMAIN filled' = 1..(Len(filled) + 1)
        /\ filled'[Len(filled) + 1] = order
        /\ \A k \in 1..Len(filled) : filled'[k] = filled[k]
    BY <2>2, <2>3
  <2>5. \A k \in DOMAIN filled' :
           (k \in DOMAIN filled /\ filled'[k] = filled[k])
           \/ (k = Len(filled) + 1 /\ filled'[k] = order)
    BY <2>4
  <2>6. \A k \in DOMAIN filled : order.id # filled[k].id
    BY DEF UniqueInv
  <2>7. \A j, k \in DOMAIN filled' : filled'[j].id = filled'[k].id => j = k
    BY <2>5, <2>6 DEF UniqueInv
  <2>8. \A o \in working', k \in DOMAIN filled' : o.id # filled'[k].id
    BY <2>3, <2>5 DEF UniqueInv
  <2>9. \A o, p \in working' : o.id = p.id => o = p
    BY <2>3 DEF UniqueInv
  <2> QED  BY <2>7, <2>8, <2>9 DEF UniqueInv
<1> QED  BY <1>1, <1>2, <1>3 DEF BrokerStep

LEMMA UniqueInvariant == ServiceSpec => []UniqueInv
<1>1. ServiceInit => UniqueInv
  BY DEF ServiceInit, UniqueInv
<1>2. ServiceTypeInv /\ UniqueInv /\ [ServiceNext]_serviceVars => UniqueInv'
  BY FillSteps, StepUnique
<1> QED  BY <1>1, <1>2, ServiceTypesInvariant, PTL DEF ServiceSpec

\* A lookup that finds nothing to record found an entry for every fill.
LEMMA LookupIsComplete ==
    ASSUME TypeOK, FileInv, ServiceTypeInv, FillsInv, UniqueInv, ~ReusableIds,
           OrdersRead, todo' = {}
    PROVE  ~ReadRaises /\ \A k \in DOMAIN filled : Journalled(k)
<1>1. ~ReadRaises
  BY DEF OrdersRead, ServiceTypeInv, PlaceOK, TypeOK, FileInv
<1>2. ASSUME NEW k \in DOMAIN filled PROVE Journalled(k)
  <2>1. filled[k].id \in RecordedIds
    BY DEF OrdersRead
  <2>2. PICK e \in Readable : says[e].event = "FILL" /\ says[e].id = filled[k].id
    BY <2>1 DEF RecordedIds
  <2>3. e \in FillsIn(says)
    BY <2>2, LinesAreSaid DEF FillsIn, ServiceTypeInv, TypeOK, FileInv, InOrder, Readable
  <2>4. says[e].at \in DOMAIN filled /\ says[e].id = filled[says[e].at].id
    <3>1. says[e].at \in DOMAIN filled /\ says[e] = Recorded(filled, says[e].at)
      BY <2>3 DEF FillsInv
    <3>2. \A j : Recorded(filled, j).id = filled[j].id
      BY DEF Recorded, Entry
    <3> QED  BY <3>1, <3>2
  <2>5. says[e].at = k
    BY <2>2, <2>4 DEF UniqueInv
  <2> QED  BY <2>2, <2>5 DEF Journalled
<1> QED  BY <1>1, <1>2

\* With ids that are used once, the table is what happened whenever a lookup has left
\* nothing to record (loop.py:214-250, api.py:391-489).
THEOREM TripsGetThere == ServiceSpec => TripsAreShown
<1>1. ServiceSpec => []FileInv
  BY ImplementsJournal, FileInvariant, PTL DEF JournalSpec
<1>2. /\ TypeOK /\ FileInv /\ ServiceTypeInv /\ FillsInv /\ BrokerInv /\ UniqueInv
      /\ TradesAreTrue
      => [OrdersRead /\ todo' = {} /\ OneAtATime /\ ~ReusableIds
            => Trades = RoundTrips]_serviceVars
  BY LookupIsComplete DEF TradesAreTrue
<1> QED
  BY <1>1, <1>2, FillsInvariant, UniqueInvariant, TradesTable, ServiceTypesInvariant, PTL
     DEF TripsAreShown
================================================================================
