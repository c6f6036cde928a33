--------------------------- MODULE DeskService_proofs ---------------------------
(***************************************************************************)
(* What holds of main.py for every deployment, server and number of        *)
(* passes: it uses the journal and the bridge as their modules say, and    *)
(* sends no order before a READY gate.                                     *)
(***************************************************************************)
EXTENDS DeskService, Journal_proofs, McpBridge_proofs

--------------------------------------------------------------------------------
(* The gate and the tools.                                                    *)

\* The tool chosen for a capability is one that call_tool does not refuse for its name.
LEMMA ChosenPasses == ASSUME NEW c, NEW ts PROVE ~IsWriteTool(ToolFor(c, ts))
<1> DEFINE found == IF Exact(c, ts) # {} THEN Exact(c, ts) ELSE Partial(c, ts)
<1>1. \A p \in found : ~IsWriteTool(ts[p[2]])
  BY DEF Exact, Partial, ReadTools
<1>2. ~IsWriteTool(NoTool)
  BY DEF NoTool, IsWriteTool
<1>3. CASE \E p \in found : IsFirst(p, found)
  <2> DEFINE first == CHOOSE p \in found : IsFirst(p, found)
  <2>1. first \in found
    BY <1>3
  <2>2. ToolFor(c, ts) = ts[first[2]]
    BY <1>3 DEF ToolFor
  <2> HIDE DEF first, found
  <2> QED  BY <2>1, <2>2, <1>1
<1>4. CASE ~ \E p \in found : IsFirst(p, found)
  <2>1. ToolFor(c, ts) = NoTool
    BY <1>4 DEF ToolFor
  <2> QED  BY <2>1, <1>2
<1> QED  BY <1>3, <1>4

\* Nothing is left for build_desk to fail on, nor for the write guard, whatever the
\* deployment is.
LEMMA GateIsEnough ==
    ASSUME NEW d, NEW connected, NEW account, NEW ts
    PROVE  ReadyIsEnough(d, connected, account, ts)
<1> SUFFICES ASSUME Ready(d, connected, account, ts)
             PROVE  /\ ~BuildRaises(d, connected, ts)
                    /\ GuardOk(d, account.id)
                    /\ account.id # Other(d)
  BY DEF ReadyIsEnough
<1> DEFINE gate == Gate(d, connected, account, ts)
<1>1. gate[2] /\ gate[3] /\ gate[6] /\ gate[7] /\ gate[12] /\ gate[13]
  BY DEF Ready
<1>2. /\ gate[2] = ("config" \in d.facts)
      /\ gate[3] = PaperHost(d)
      /\ gate[6] = ModeOk(d)
      /\ gate[7] = (account # NoAccount /\ ModeOk(d) /\ AccountOk(d, account.id))
      /\ gate[12] = (connected /\ Complete(ts))
      /\ gate[13] = CliOk(d)
  BY DEF Gate
<1> HIDE DEF gate
<1>3. "config" \in d.facts /\ PaperHost(d) /\ ModeOk(d) /\ AccountOk(d, account.id)
      /\ connected /\ Complete(ts) /\ CliOk(d)
  BY <1>1, <1>2
<1>4. d.host # NoHost
  BY <1>3 DEF PaperHost, Paper, NoHost
<1>5. "reference" \in d.facts
  BY <1>3 DEF CliOk
<1>6. account.id # Other(d)
  BY <1>3 DEF AccountOk, ModeOk
<1> QED  BY <1>3, <1>4, <1>5, <1>6 DEF BuildRaises, GuardOk

\* A READY gate is never followed by a HALT of the same process (main.py:133, 192).
THEOREM ReadyIsFinal == ServiceSpec => []ReadyBuilds
<1>1. ReadyBuilds
  BY GateIsEnough DEF ReadyBuilds
<1> QED  BY <1>1, PTL
--------------------------------------------------------------------------------
(* What the service does to the journal and to the bridge.                    *)

\* The account is read with a call that is let through.
LEMMA AccountCall == CallTool(IsWriteTool(AccountTool)) => CallTool(FALSE)
  BY ChosenPasses DEF CallTool, AccountTool

LEMMA StepOfStart ==
    ASSUME \/ Boot \/ ConnectFails \/ ReadAccount \/ GateReady \/ GateHalts \/ Unwritten
           \/ BuildDesk
    PROVE  [Next]_vars /\ [BridgeNext]_bridge
<1>1. CASE Boot
  <2>1. Launch /\ \E allowed \in BOOLEAN : StartBridge(allowed)
    BY <1>1 DEF Boot
  <2> QED  BY <2>1 DEF Next, BridgeNext
<1>2. CASE ConnectFails
  BY <1>2 DEF ConnectFails, Next
<1>3. CASE ReadAccount
  BY <1>3, AccountCall DEF ReadAccount, BridgeNext
<1>4. CASE GateReady
  BY <1>4 DEF GateReady, Next, BridgeNext
<1>5. CASE GateHalts
  BY <1>5 DEF GateHalts, Next, BridgeNext
<1>6. CASE BuildDesk
  BY <1>6 DEF BuildDesk
<1>7. CASE Unwritten
  BY <1>7 DEF Unwritten, Next, BridgeNext
<1> QED  BY <1>1, <1>2, <1>3, <1>4, <1>5, <1>6, <1>7

LEMMA StepOfReads ==
    ASSUME \/ AskMarket \/ MarketFails \/ JournalFails \/ MarketRead
           \/ ReconcileFails \/ Reconcile \/ AskOrders \/ OrdersFail \/ OrdersRead
    PROVE  [Next]_vars /\ [BridgeNext]_bridge
<1>1. CASE AskMarket
  BY <1>1 DEF AskMarket, BridgeNext
<1>2. CASE MarketFails
  BY <1>2 DEF MarketFails, Next, BridgeNext
<1>3. CASE JournalFails
  BY <1>3 DEF JournalFails, Next, BridgeNext
<1>4. CASE MarketRead
  BY <1>4 DEF MarketRead, Next, BridgeNext
<1>5. CASE ReconcileFails
  BY <1>5 DEF ReconcileFails, Next, BridgeNext
<1>6. CASE Reconcile
  BY <1>6 DEF Reconcile, Next, BridgeNext
<1>7. CASE AskOrders
  BY <1>7 DEF AskOrders, Next, BridgeNext
<1>8. CASE OrdersFail
  BY <1>8 DEF OrdersFail, Next, BridgeNext
<1>9. CASE OrdersRead
  BY <1>9 DEF OrdersRead, BridgeNext
<1> QED  BY <1>1, <1>2, <1>3, <1>4, <1>5, <1>6, <1>7, <1>8, <1>9

LEMMA StepOfManaging ==
    ASSUME \/ \E k \in DOMAIN filled : RecordFill(k)
           \/ Hold \/ Defend \/ TakeProfit
           \/ CloseFails \/ SendClose \/ CloseLost \/ SubmitClose
           \/ \E order \in working : Fill(order)
    PROVE  [Next]_vars /\ UNCHANGED bridge
<1>1. ASSUME NEW k, RecordFill(k) PROVE [Next]_vars /\ UNCHANGED bridge
  BY <1>1 DEF RecordFill, Next
<1>2. CASE Hold
  BY <1>2 DEF Hold
<1>3. CASE TakeProfit
  BY <1>3 DEF TakeProfit, Next
<1>4. CASE CloseFails
  BY <1>4 DEF CloseFails, Next
<1>5. CASE SendClose
  BY <1>5 DEF SendClose
<1>6. CASE SubmitClose
  BY <1>6 DEF SubmitClose, Next
<1>7. ASSUME NEW order, Fill(order) PROVE [Next]_vars /\ UNCHANGED bridge
  BY <1>7 DEF Fill
<1>8. CASE Defend
  BY <1>8 DEF Defend, Next
<1>9. CASE CloseLost
  BY <1>9 DEF CloseLost, Next
<1> QED  BY <1>1, <1>2, <1>3, <1>4, <1>5, <1>6, <1>7, <1>8, <1>9

LEMMA StepOfEntering ==
    ASSUME \/ Regime \/ CandidatesFound \/ Rank \/ Deny \/ Allow
           \/ SubmitBlocked \/ SendEntry \/ SubmitLost \/ Submit
    PROVE  [Next]_vars /\ UNCHANGED bridge
<1>1. CASE Regime
  BY <1>1 DEF Regime, Next
<1>2. CASE CandidatesFound
  BY <1>2 DEF CandidatesFound, Next
<1>3. CASE Rank
  BY <1>3 DEF Rank, Next
<1>4. CASE Deny
  BY <1>4 DEF Deny, Next
<1>5. CASE Allow
  BY <1>5 DEF Allow, Next
<1>6. CASE SubmitBlocked
  BY <1>6 DEF SubmitBlocked, Next
<1>7. CASE SendEntry
  BY <1>7 DEF SendEntry, Next
<1>8. CASE Submit
  BY <1>8 DEF Submit, Next
<1>9. CASE SubmitLost
  BY <1>9 DEF SubmitLost, Next
<1> QED  BY <1>1, <1>2, <1>3, <1>4, <1>5, <1>6, <1>7, <1>8, <1>9

LEMMA StepOfFailing ==
    ASSUME \/ ThreadStep \/ StartReturns \/ Answered \/ Late \/ ServerLost \/ Noticed
           \/ TimesOut \/ ProcessDies \/ DiesWriting \/ Bounded
    PROVE  [Next]_vars /\ [BridgeNext]_bridge
<1>1. CASE ThreadStep
  BY <1>1 DEF ThreadStep, BridgeNext
<1>2. CASE StartReturns
  BY <1>2 DEF StartReturns, BridgeNext
<1>3. CASE Answered
  BY <1>3 DEF Answered, BridgeNext
<1>4. CASE Late
  BY <1>4 DEF Late, BridgeNext
<1>5. CASE ServerLost
  BY <1>5 DEF ServerLost, BridgeNext
<1>6. CASE Noticed
  BY <1>6 DEF Noticed, BridgeNext
<1>7. CASE TimesOut
  BY <1>7 DEF TimesOut, BridgeNext
<1>8. CASE ProcessDies
  BY <1>8 DEF ProcessDies, Next, BridgeNext
<1>9. CASE DiesWriting
  BY <1>9 DEF DiesWriting, Next, BridgeNext
<1>10. CASE Bounded
  BY <1>10 DEF Bounded, Next
<1> QED  BY <1>1, <1>2, <1>3, <1>4, <1>5, <1>6, <1>7, <1>8, <1>9, <1>10

LEMMA Simulates == [ServiceNext]_serviceVars => [Next]_vars /\ [BridgeNext]_bridge
<1> SUFFICES ASSUME [ServiceNext]_serviceVars PROVE [Next]_vars /\ [BridgeNext]_bridge
  OBVIOUS
<1>1. CASE UNCHANGED serviceVars
  BY <1>1 DEF serviceVars
<1>2. CASE ServiceNext
  BY <1>2, StepOfStart, StepOfReads, StepOfManaging, StepOfEntering, StepOfFailing
     DEF ServiceNext
<1> QED  BY <1>1, <1>2

\* The program implements the specification of its journal: whatever fails, it
\* writes, replays and acts as Journal says (main.py, loop.py).
THEOREM ImplementsJournal == ServiceSpec => JournalSpec
<1>1. ServiceInit => Init
  BY DEF ServiceInit
<1> QED  BY <1>1, Simulates, PTL DEF ServiceSpec, JournalSpec, Spec

\* So what is proved of the journal holds of the program: no pass works from a
\* journal that lost an entry, and the ALLOW of every order sent stays readable.
THEOREM ServiceActsOnRecord == ServiceSpec => [](ReadIsComplete /\ ActedIsReadable)
  BY ImplementsJournal, ReplaysAreComplete, ActedStaysReadable, PTL DEF JournalSpec

\* It uses the bridge as McpBridge says; no more than a started session is needed.
THEOREM SessionIsThere == ServiceSpec => []StartedIsUsable
<1>1. ServiceInit => BridgeInit
  BY DEF ServiceInit
<1> QED  BY <1>1, Simulates, StartIsEnough, PTL DEF ServiceSpec, BridgeSpec
--------------------------------------------------------------------------------
(* No order before a READY gate.                                              *)

\* Entry s of a journal is a READY gate, and no process has started since, up to
\* entry n.
Started(entries, s, n) ==
    /\ entries[s].event = "STARTUP" /\ entries[s].what = "READY"
    /\ \A m \in (s + 1)..n : entries[m].event \notin {"STARTUP", "HALT"}

Before == {"off", "connect", "gate"}

\* Past the gate there is one in the journal, and it is this process's.
ReadyInv ==
    /\ \E S : says \in Seq(S)
    /\ OrdersFollowReady
    /\ stage \notin Before => \E s \in 1..Len(says) : Started(says, s, Len(says))

LEMMA InitialReady == ServiceInit => ReadyInv
<1> SUFFICES ASSUME ServiceInit PROVE ReadyInv
  OBVIOUS
<1>1. says = <<>> /\ stage = "off"
  BY DEF ServiceInit
<1>2. says \in Seq({})
  BY <1>1
<1> QED  BY <1>1, <1>2 DEF ReadyInv, OrdersFollowReady, Before

\* An entry more: every entry that was there is still what it was.
LEMMA Said ==
    ASSUME ReadyInv, NEW entry, Say(entry)
    PROVE  /\ \E S : says' \in Seq(S)
           /\ Len(says) \in Nat /\ Len(says') = Len(says) + 1
           /\ DOMAIN says = 1..Len(says) /\ DOMAIN says' = 1..(Len(says) + 1)
           /\ says'[Len(says) + 1] = entry
           /\ \A e \in 1..Len(says) : says'[e] = says[e]
<1>1. PICK S : says \in Seq(S)
  BY DEF ReadyInv
<1>2. says \in Seq(S \cup {entry}) /\ entry \in S \cup {entry}
  BY <1>1
<1>3. says' = Append(says, entry)
  BY DEF Say
<1>4. says' \in Seq(S \cup {entry})
  BY <1>2, <1>3
<1> QED  BY <1>2, <1>3, <1>4

\* It keeps the invariant if it is a SUBMIT past the gate only, and the gate's own
\* READY is what leads past the gate.
LEMMA SaidInOrder ==
    ASSUME ReadyInv, NEW entry, Say(entry),
           entry.event = "SUBMIT" => stage \notin Before,
           stage' \notin Before =>
               \/ stage \notin Before /\ entry.event \notin {"STARTUP", "HALT"}
               \/ entry.event = "STARTUP" /\ entry.what = "READY"
    PROVE  ReadyInv'
<1> DEFINE n == Len(says)
<1>0. /\ n \in Nat /\ Len(says') = n + 1
      /\ DOMAIN says = 1..n /\ DOMAIN says' = 1..(n + 1)
      /\ says'[n + 1] = entry
      /\ \A e \in 1..n : says'[e] = says[e]
  BY Said
<1> HIDE DEF n
<1>1. ASSUME NEW e \in 1..(n + 1), says'[e].event = "SUBMIT"
      PROVE  \E s \in 1..(e - 1) : Started(says', s, e - 1)
  <2>1. \E s \in 1..(e - 1) : Started(says, s, e - 1)
    <3>1. CASE e = n + 1
      <4>1. stage \notin Before
        BY <1>0, <1>1, <3>1
      <4> QED  BY <1>0, <3>1, <4>1 DEF ReadyInv, n
    <3>2. CASE e \in 1..n
      <4>1. says[e].event = "SUBMIT"
        BY <1>0, <1>1, <3>2
      <4> QED  BY <1>0, <3>2, <4>1 DEF ReadyInv, OrdersFollowReady, Started
    <3> QED  BY <1>0, <3>1, <3>2
  <2>2. PICK s \in 1..(e - 1) : Started(says, s, e - 1)
    BY <2>1
  <2>3. e - 1 =< n /\ e - 1 \in Int /\ s \in 1..n
    BY <1>0
  <2>4. says'[s] = says[s] /\ \A m \in (s + 1)..(e - 1) : says'[m] = says[m]
    BY <1>0, <2>3
  <2>5. Started(says', s, e - 1)
    BY <2>2, <2>3, <2>4 DEF Started
  <2> QED  BY <2>5
<1>2. ASSUME stage' \notin Before
      PROVE  \E s \in 1..(n + 1) : Started(says', s, n + 1)
  <2>1. CASE stage \notin Before /\ entry.event \notin {"STARTUP", "HALT"}
    <3>1. PICK s \in 1..n : Started(says, s, n)
      BY <2>1 DEF ReadyInv, n
    <3>2. \A m \in (s + 1)..(n + 1) : m = n + 1 \/ m \in (s + 1)..n
      BY <1>0, <3>1
    <3>3. \A m \in (s + 1)..n : m \in 1..n
      BY <1>0, <3>1
    <3>4. Started(says', s, n + 1)
      BY <1>0, <2>1, <3>1, <3>2, <3>3 DEF Started
    <3>5. s \in 1..(n + 1)
      BY <1>0
    <3> QED  BY <3>4, <3>5
  <2>2. CASE entry.event = "STARTUP" /\ entry.what = "READY"
    <3>1. Started(says', n + 1, n + 1)
      BY <1>0, <2>2 DEF Started
    <3> QED  BY <1>0, <3>1
  <2> QED  BY <1>2, <2>1, <2>2
<1>3. OrdersFollowReady'
  BY <1>0, <1>1 DEF OrdersFollowReady, Started
<1>4. Len(says') = n + 1
  BY <1>0
<1>5. \E S : says' \in Seq(S)
  BY Said
<1> QED  BY <1>2, <1>3, <1>4, <1>5 DEF ReadyInv

\* Nothing is said.
LEMMA NothingSaid ==
    ASSUME ReadyInv, says' = says, stage' \notin Before => stage \notin Before
    PROVE  ReadyInv'
  BY DEF ReadyInv, OrdersFollowReady, Started
\* The start: the gate's outcome, and nothing before it, leads past the gate.
LEMMA ReadyOfStart ==
    ASSUME ReadyInv,
           \/ Boot \/ ConnectFails \/ ReadAccount \/ GateReady \/ GateHalts \/ Unwritten
           \/ BuildDesk
    PROVE  ReadyInv'
<1>1. CASE Boot
  BY <1>1, NothingSaid DEF Boot, Goto, Before
<1>2. CASE ConnectFails
  BY <1>2, SaidInOrder DEF ConnectFails, HaltEntry, Entry, Goto, Before
<1>3. CASE ReadAccount
  BY <1>3, NothingSaid DEF ReadAccount, Goto, Before
<1>4. CASE GateReady
  <2>1. StartupEntry.event = "STARTUP" /\ StartupEntry.what = "READY"
    BY <1>4 DEF GateReady, StartupEntry, Entry
  <2> QED  BY <1>4, <2>1, SaidInOrder DEF GateReady
<1>5. CASE GateHalts
  <2>1. StartupEntry.event = "STARTUP" /\ stage' = "off"
    BY <1>5 DEF GateHalts, StartupEntry, Entry, Goto
  <2> QED  BY <1>5, <2>1, SaidInOrder DEF GateHalts, Before
<1>6. CASE BuildDesk
  BY <1>6, NothingSaid DEF BuildDesk, Goto, Before
<1>7. CASE Unwritten
  BY <1>7, NothingSaid DEF Unwritten, Goto, Before
<1> QED  BY <1>1, <1>2, <1>3, <1>4, <1>5, <1>6, <1>7

\* The reads of a pass.
LEMMA ReadyOfReads ==
    ASSUME ReadyInv,
           \/ AskMarket \/ MarketFails \/ JournalFails \/ MarketRead
           \/ ReconcileFails \/ Reconcile \/ AskOrders \/ OrdersFail \/ OrdersRead
    PROVE  ReadyInv'
<1>1. CASE AskMarket
  BY <1>1, NothingSaid DEF AskMarket, Goto, Before
<1>2. CASE MarketFails
  BY <1>2, SaidInOrder DEF MarketFails, ErrorEntry, Entry, Goto, Before
<1>3. CASE JournalFails
  BY <1>3, SaidInOrder DEF JournalFails, ErrorEntry, Entry, Goto, Before
<1>4. CASE MarketRead
  BY <1>4, NothingSaid DEF MarketRead, Goto, Before
<1>5. CASE ReconcileFails
  BY <1>5, SaidInOrder DEF ReconcileFails, ErrorEntry, Entry, Goto, Before
<1>6. CASE Reconcile
  BY <1>6, SaidInOrder DEF Reconcile, ReconcileEntry, Entry, Goto, Before
<1>7. CASE AskOrders
  <2>1. CASE flatten
    BY <1>7, <2>1, SaidInOrder DEF AskOrders, StateEntry, Entry, Goto, Before
  <2>2. CASE ~flatten
    BY <1>7, <2>2, NothingSaid DEF AskOrders, Goto, Before
  <2> QED  BY <2>1, <2>2
<1>8. CASE OrdersFail
  BY <1>8, SaidInOrder DEF OrdersFail, ErrorEntry, Entry, Goto, Before
<1>9. CASE OrdersRead
  <2>1. says' = says /\ stage = "orders"
    BY <1>9 DEF OrdersRead
  <2> QED  BY <2>1, NothingSaid DEF Before
<1> QED  BY <1>1, <1>2, <1>3, <1>4, <1>5, <1>6, <1>7, <1>8, <1>9

\* Fills and closing orders.
LEMMA ReadyOfManaging ==
    ASSUME ReadyInv,
           \/ \E k \in DOMAIN filled : RecordFill(k)
           \/ Hold \/ Defend \/ TakeProfit
           \/ CloseFails \/ SendClose \/ CloseLost \/ SubmitClose
           \/ \E order \in working : Fill(order)
    PROVE  ReadyInv'
<1>1. ASSUME NEW k, RecordFill(k) PROVE ReadyInv'
  <2>1. Say(FillEntry(k)) /\ FillEntry(k).event = "FILL" /\ stage = "record"
    BY <1>1 DEF RecordFill, FillEntry, Entry
  <2> QED  BY <2>1, SaidInOrder DEF Before
<1>2. CASE Hold
  BY <1>2, NothingSaid DEF Hold, Goto, Before
<1>3. CASE TakeProfit
  BY <1>3, SaidInOrder DEF TakeProfit, ActionEntry, Entry, Goto, Before
<1>4. CASE CloseFails
  BY <1>4, SaidInOrder DEF CloseFails, ErrorEntry, Entry, Goto, Before
<1>5. CASE SendClose
  BY <1>5, NothingSaid DEF SendClose, Goto, Before
<1>6. CASE SubmitClose
  BY <1>6, SaidInOrder DEF SubmitClose, CloseEntry, Entry, Goto, Before
<1>7. ASSUME NEW order, Fill(order) PROVE ReadyInv'
  BY <1>7, NothingSaid DEF Fill
<1>8. CASE Defend
  BY <1>8, SaidInOrder DEF Defend, DefendEntry, Entry, Goto, Before
<1>9. CASE CloseLost
  BY <1>9, SaidInOrder DEF CloseLost, ErrorEntry, Entry, Goto, Before
<1> QED  BY <1>1, <1>2, <1>3, <1>4, <1>5, <1>6, <1>7, <1>8, <1>9

\* A new entry.
LEMMA ReadyOfEntering ==
    ASSUME ReadyInv,
           \/ Regime \/ CandidatesFound \/ Rank \/ Deny \/ Allow
           \/ SubmitBlocked \/ SendEntry \/ SubmitLost \/ Submit
    PROVE  ReadyInv'
<1>1. CASE Regime
  <2>1. Say(RegimeEntry) /\ RegimeEntry.event = "REGIME" /\ stage = "entry"
    BY <1>1 DEF Regime, RegimeEntry, Entry
  <2> QED  BY <2>1, SaidInOrder DEF Before
<1>2. CASE CandidatesFound
  <2>1. PICK id : Say(CandidatesEntry(id)) /\ stage = "candidates"
    BY <1>2 DEF CandidatesFound
  <2>2. CandidatesEntry(id).event = "CANDIDATES"
    BY DEF CandidatesEntry, Entry
  <2> QED  BY <2>1, <2>2, SaidInOrder DEF Before
<1>3. CASE Rank
  BY <1>3, SaidInOrder DEF Rank, RankEntry, Entry, Goto, Before
<1>4. CASE Deny
  BY <1>4, SaidInOrder DEF Deny, DenyEntry, Entry, Goto, Before
<1>5. CASE Allow
  BY <1>5, SaidInOrder DEF Allow, AllowEntry, Entry, Goto, Before
<1>6. CASE SubmitBlocked
  BY <1>6, SaidInOrder DEF SubmitBlocked, ErrorEntry, Entry, Goto, Before
<1>7. CASE SendEntry
  BY <1>7, NothingSaid DEF SendEntry, Goto, Before
<1>8. CASE Submit
  BY <1>8, SaidInOrder DEF Submit, SubmitEntry, Entry, Goto, Before
<1>9. CASE SubmitLost
  BY <1>9, SaidInOrder DEF SubmitLost, ErrorEntry, Entry, Goto, Before
<1> QED  BY <1>1, <1>2, <1>3, <1>4, <1>5, <1>6, <1>7, <1>8, <1>9

\* What a process dies writing is what it would have written there.
LEMMA ReadyOfFailing ==
    ASSUME ReadyInv,
           \/ ThreadStep \/ StartReturns \/ Answered \/ Late \/ ServerLost \/ Noticed
           \/ TimesOut \/ ProcessDies \/ DiesWriting \/ Bounded
    PROVE  ReadyInv'
<1>1. CASE ThreadStep \/ StartReturns \/ Answered
  BY <1>1, NothingSaid DEF ThreadStep, StartReturns, Answered, service
<1>2. CASE Late \/ ServerLost
  BY <1>2, NothingSaid DEF Late, ServerLost
<1>3. CASE Noticed \/ TimesOut \/ Bounded
  BY <1>3, NothingSaid DEF Noticed, TimesOut, Bounded, service
<1>4. CASE ProcessDies
  BY <1>4, NothingSaid DEF ProcessDies, Goto, Before
<1>5. CASE DiesWriting
  <2>1. PICK entry \in MayWrite : Say(entry)
    BY <1>5 DEF DiesWriting
  <2>2. stage' = "off"
    BY <1>5 DEF DiesWriting, Goto
  <2>3. ASSUME stage \in Before PROVE entry.event # "SUBMIT"
    <3>1. CASE stage = "off"
      BY <2>1, <3>1 DEF MayWrite
    <3>2. CASE stage = "connect"
      BY <2>1, <3>2 DEF MayWrite, HaltEntry, Entry
    <3>3. CASE stage = "gate"
      BY <2>1, <3>3 DEF MayWrite, StartupEntry, Entry
    <3> QED  BY <2>3, <3>1, <3>2, <3>3 DEF Before
  <2> QED  BY <2>1, <2>2, <2>3, SaidInOrder DEF Before
<1> QED  BY <1>1, <1>2, <1>3, <1>4, <1>5

LEMMA StepReady == ReadyInv /\ [ServiceNext]_serviceVars => ReadyInv'
<1> SUFFICES ASSUME ReadyInv, [ServiceNext]_serviceVars PROVE ReadyInv'
  OBVIOUS
<1>1. CASE UNCHANGED serviceVars
  BY <1>1, NothingSaid DEF serviceVars, service
<1>2. CASE ServiceNext
  BY <1>2, ReadyOfStart, ReadyOfReads, ReadyOfManaging, ReadyOfEntering, ReadyOfFailing
     DEF ServiceNext
<1> QED  BY <1>1, <1>2

\* Past the gate, the last STARTUP of the journal is this process's, and READY.
THEOREM ReadyInvariant == ServiceSpec => []ReadyInv
  BY InitialReady, StepReady, PTL DEF ServiceSpec

\* Every SUBMIT stands after a READY gate of the process that wrote it, for every
\* deployment, any number of processes, and whatever is torn (main.py:7, 129-131).
THEOREM OrdersNeedReady == ServiceSpec => []OrdersFollowReady
<1>1. ReadyInv => OrdersFollowReady
  BY DEF ReadyInv
<1> QED  BY <1>1, ReadyInvariant, PTL
--------------------------------------------------------------------------------
(* Where main() is.                                                           *)

\* What ServiceTypeOK says of the entries, of main()'s place and of the rest, with the
\* sequences being sequences.
EntriesOK ==
    /\ \E S : says \in Seq(S)
    /\ Len(says) = next - 1
    /\ \A e \in DOMAIN says : says[e].event \in Events

PlaceOK ==
    /\ stage \in Stages
    /\ pc = "off" <=> stage = "off"
    /\ pc = "starting" <=> stage \in {"connect", "gate"}
    /\ pc = "idle" <=> stage \in {"build", "sleep", "market"}
    /\ pc = "allowed" <=> stage = "submit"
    /\ pc = "sent" <=> stage = "sent"

ValuesOK ==
    /\ world \in Worlds
    /\ held \in BOOLEAN /\ book \in BOOLEAN /\ flatten \in BOOLEAN
    /\ regime \in Nat /\ ticket \in Nat /\ faults \in Nat
    /\ \E S : filled \in Seq(S)
    /\ todo \subseteq DOMAIN filled

ServiceTypeInv == EntriesOK /\ PlaceOK /\ ValuesOK

\* An entry about a ticket is of the pass under way and written where the pass has one, and
\* a fill is one that the broker listed and the journal lacked.
OfPass(entry) ==
    /\ entry.event \in {"CANDIDATES", "RANK", "ALLOW", "DENY"}
          => entry.at = regime /\ stage \in {"candidates", "rank", "verdict"}
    /\ entry.event = "SUBMIT" /\ entry.what = "open" => entry.at = regime /\ stage = "sent"
    /\ entry.event = "FILL" => stage = "record" /\ \E k \in todo : entry = FillEntry(k)

\* The step writes nothing, or one entry or a part of it.
SaysOne ==
    \/ says' = says /\ UNCHANGED file
    \/ \E entry : /\ Say(entry) /\ (Record \/ RecordTorn)
                  /\ entry.event \in Events /\ OfPass(entry)

LEMMA SaysOneKeepsEntries == ASSUME TypeOK, EntriesOK, SaysOne PROVE EntriesOK'
<1>1. CASE says' = says /\ UNCHANGED file
  BY <1>1 DEF EntriesOK, file
<1>2. ASSUME NEW entry, Say(entry), entry.event \in Events, Record \/ RecordTorn
      PROVE  EntriesOK'
  <2>1. PICK S : says \in Seq(S)
    BY DEF EntriesOK
  <2>2. says \in Seq(S \cup {entry}) /\ entry \in S \cup {entry}
    BY <2>1
  <2>3. says' = Append(says, entry)
    BY <1>2 DEF Say
  <2>4. /\ says' \in Seq(S \cup {entry})
        /\ Len(says) \in Nat /\ Len(says') = Len(says) + 1
        /\ DOMAIN says = 1..Len(says) /\ DOMAIN says' = 1..(Len(says) + 1)
        /\ says'[Len(says) + 1] = entry
        /\ \A e \in 1..Len(says) : says'[e] = says[e]
    BY <2>2, <2>3
  <2>5. next' = next + 1
    BY <1>2 DEF Record, RecordTorn
  <2>6. Len(says') = next' - 1
    BY <2>4, <2>5 DEF EntriesOK, TypeOK
  <2>7. \A e \in DOMAIN says' : says'[e].event \in Events
    BY <1>2, <2>4 DEF EntriesOK
  <2> QED  BY <2>4, <2>6, <2>7 DEF EntriesOK
<1> QED  BY <1>1, <1>2 DEF SaysOne

\* Going elsewhere, failing, and filling keep the types of what they set.
LEMMA GotoTypes ==
    ASSUME ValuesOK, NEW place, Goto(place)
    PROVE  /\ held' \in BOOLEAN /\ book' \in BOOLEAN /\ flatten' \in BOOLEAN
           /\ regime' \in Nat /\ ticket' \in Nat /\ todo' \subseteq DOMAIN filled
<1>1. CASE place \in {"off", "sleep"}
  <2>1. held' = FALSE /\ book' = FALSE /\ flatten' = FALSE
    BY <1>1 DEF Goto
  <2>2. regime' \in Nat /\ ticket' \in Nat /\ todo' \subseteq DOMAIN filled
    BY <1>1 DEF Goto, NoTicket
  <2> QED  BY <2>1, <2>2
<1>2. CASE place \notin {"off", "sleep"}
  BY <1>2 DEF Goto, pass, ValuesOK
<1> QED  BY <1>1, <1>2

LEMMA FaultTypes == ASSUME ValuesOK, Fault PROVE faults' \in Nat
  BY DEF ValuesOK, Fault

LEMMA HeldType == Held \in BOOLEAN
  BY DEF Held

LEMMA FilledMore ==
    ASSUME ValuesOK, NEW order, filled' = Append(filled, order)
    PROVE  (\E S : filled' \in Seq(S)) /\ DOMAIN filled \subseteq DOMAIN filled'
<1>1. PICK S : filled \in Seq(S)
  BY DEF ValuesOK
<1>2. filled \in Seq(S \cup {order}) /\ order \in S \cup {order}
  BY <1>1
<1> QED  BY <1>2

\* All that a process may be writing is an event, and of its pass.
LEMMA WritesEvents ==
    ASSUME NEW entry \in MayWrite PROVE entry.event \in Events /\ OfPass(entry)
<1> USE DEF Entry, Events, OfPass
<1>1. CASE stage \in {"connect", "gate", "market", "account", "state", "orders", "record"}
  BY <1>1 DEF MayWrite, HaltEntry, StartupEntry, ErrorEntry, ReconcileEntry, StateEntry,
              FillEntry
<1>2. CASE stage \in {"manage", "close", "closing", "entry", "candidates"}
  BY <1>2 DEF MayWrite, ActionEntry, DefendEntry, ErrorEntry, CloseEntry, RegimeEntry,
              CandidatesEntry
<1>3. CASE stage \in {"rank", "verdict", "submit", "sent"}
  BY <1>3 DEF MayWrite, RankEntry, DenyEntry, AllowEntry, ErrorEntry, SubmitEntry
<1>4. CASE stage \notin {"connect", "gate", "market", "account", "state", "orders", "record",
                         "manage", "close", "closing", "entry", "candidates",
                         "rank", "verdict", "submit", "sent"}
  BY <1>4 DEF MayWrite
<1> QED  BY <1>1, <1>2, <1>3, <1>4

\* main() and its gate.
LEMMA TypesOfStart ==
    ASSUME TypeOK, ServiceTypeInv,
           \/ Boot
           \/ ConnectFails
           \/ ReadAccount
           \/ GateReady
           \/ GateHalts
           \/ Unwritten
           \/ BuildDesk
    PROVE  SaysOne /\ ServiceTypeInv'
<1> USE DEF ServiceTypeInv, vars, file, pass, broker, service, Taken, Accept
<1>1. CASE Boot
  <2>1. SaysOne
    BY <1>1 DEF Boot, Launch, StartBridge, SaysOne
  <2>2. PlaceOK'
    BY <1>1 DEF Boot, Launch, StartBridge, Goto, PlaceOK, Stages
  <2>3. ValuesOK'
    BY <1>1, GotoTypes, FaultTypes DEF Boot, Launch, StartBridge, ValuesOK, TypeOK, NoTicket
  <2> QED  BY <2>1, <2>2, <2>3, SaysOneKeepsEntries
<1>2. CASE ConnectFails
  <2>1. SaysOne
    BY <1>2 DEF ConnectFails, RecordHalt, HaltEntry, Entry, Events, OfPass, SaysOne
  <2>2. PlaceOK'
    BY <1>2 DEF ConnectFails, RecordHalt, Goto, PlaceOK, Stages
  <2>3. ValuesOK'
    BY <1>2, GotoTypes, FaultTypes DEF ConnectFails, RecordHalt, ValuesOK, TypeOK, NoTicket
  <2> QED  BY <2>1, <2>2, <2>3, SaysOneKeepsEntries
<1>3. CASE ReadAccount
  <2>1. SaysOne
    BY <1>3 DEF ReadAccount, CallTool, SaysOne
  <2>2. PlaceOK'
    BY <1>3 DEF ReadAccount, CallTool, Goto, PlaceOK, Stages
  <2>3. ValuesOK'
    BY <1>3, GotoTypes, FaultTypes DEF ReadAccount, CallTool, ValuesOK, TypeOK, NoTicket
  <2> QED  BY <2>1, <2>2, <2>3, SaysOneKeepsEntries
<1>4. CASE GateReady
  <2>1. SaysOne
    BY <1>4 DEF GateReady, Start, StartupEntry, Entry, Events, OfPass, SaysOne
  <2>2. PlaceOK'
    BY <1>4 DEF GateReady, Start, Goto, PlaceOK, Stages
  <2>3. ValuesOK'
    BY <1>4, GotoTypes, FaultTypes DEF GateReady, Start, ValuesOK, TypeOK, NoTicket
  <2> QED  BY <2>1, <2>2, <2>3, SaysOneKeepsEntries
<1>5. CASE GateHalts
  <2>1. SaysOne
    BY <1>5 DEF GateHalts, GiveUp, StartupEntry, Entry, Events, OfPass, SaysOne
  <2>2. PlaceOK'
    BY <1>5 DEF GateHalts, GiveUp, Goto, PlaceOK, Stages
  <2>3. ValuesOK'
    BY <1>5, GotoTypes, FaultTypes DEF GateHalts, GiveUp, ValuesOK, TypeOK, NoTicket
  <2> QED  BY <2>1, <2>2, <2>3, SaysOneKeepsEntries
<1>6. CASE BuildDesk
  <2>1. SaysOne
    BY <1>6 DEF BuildDesk, SaysOne
  <2>2. PlaceOK'
    BY <1>6 DEF BuildDesk, Goto, PlaceOK, Stages
  <2>3. ValuesOK'
    BY <1>6, GotoTypes, FaultTypes DEF BuildDesk, ValuesOK, TypeOK, NoTicket
  <2> QED  BY <2>1, <2>2, <2>3, SaysOneKeepsEntries
<1>7. CASE Unwritten
  <2>1. SaysOne
    BY <1>7 DEF Unwritten, CannotWrite, SaysOne
  <2>2. PlaceOK'
    BY <1>7 DEF Unwritten, CannotWrite, Goto, PlaceOK, Stages
  <2>3. ValuesOK'
    BY <1>7, GotoTypes, FaultTypes DEF Unwritten, CannotWrite, ValuesOK, TypeOK, NoTicket
  <2> QED  BY <2>1, <2>2, <2>3, SaysOneKeepsEntries
<1> QED  BY <1>1, <1>2, <1>3, <1>4, <1>5, <1>6, <1>7

\* The reads of a pass.
LEMMA TypesOfReads ==
    ASSUME TypeOK, ServiceTypeInv,
           \/ AskMarket
           \/ MarketFails
           \/ JournalFails
           \/ MarketRead
           \/ ReconcileFails
           \/ Reconcile
           \/ AskOrders
           \/ OrdersFail
           \/ OrdersRead
    PROVE  SaysOne /\ ServiceTypeInv'
<1> USE DEF ServiceTypeInv, vars, file, pass, broker, service, Taken, Accept
<1>1. CASE AskMarket
  <2>1. SaysOne
    BY <1>1 DEF AskMarket, CallTool, SaysOne
  <2>2. PlaceOK'
    BY <1>1 DEF AskMarket, CallTool, Goto, PlaceOK, Stages
  <2>3. ValuesOK'
    BY <1>1, GotoTypes, FaultTypes DEF AskMarket, CallTool, ValuesOK, TypeOK, NoTicket
  <2> QED  BY <2>1, <2>2, <2>3, SaysOneKeepsEntries
<1>2. CASE MarketFails
  <2>1. SaysOne
    BY <1>2 DEF MarketFails, PassBlind, ErrorEntry, Entry, Events, OfPass, SaysOne
  <2>2. PlaceOK'
    BY <1>2 DEF MarketFails, PassBlind, Goto, PlaceOK, Stages
  <2>3. ValuesOK'
    BY <1>2, GotoTypes, FaultTypes DEF MarketFails, PassBlind, ValuesOK, TypeOK, NoTicket
  <2> QED  BY <2>1, <2>2, <2>3, SaysOneKeepsEntries
<1>3. CASE JournalFails
  <2>1. SaysOne
    BY <1>3 DEF JournalFails, PassFails, ErrorEntry, Entry, Events, OfPass, SaysOne
  <2>2. PlaceOK'
    BY <1>3 DEF JournalFails, PassFails, Goto, PlaceOK, Stages
  <2>3. ValuesOK'
    BY <1>3, GotoTypes, FaultTypes DEF JournalFails, PassFails, ValuesOK, TypeOK, NoTicket
  <2> QED  BY <2>1, <2>2, <2>3, SaysOneKeepsEntries
<1>4. CASE MarketRead
  <2>1. SaysOne
    BY <1>4 DEF MarketRead, ReadJournal, CallTool, SaysOne
  <2>2. PlaceOK'
    BY <1>4 DEF MarketRead, ReadJournal, CallTool, Goto, PlaceOK, Stages
  <2>3. ValuesOK'
    BY <1>4, GotoTypes, FaultTypes, HeldType DEF MarketRead, ReadJournal, CallTool, ValuesOK, TypeOK, NoTicket
  <2> QED  BY <2>1, <2>2, <2>3, SaysOneKeepsEntries
<1>5. CASE ReconcileFails
  <2>1. SaysOne
    BY <1>5 DEF ReconcileFails, PassBlind, ErrorEntry, Entry, Events, OfPass, SaysOne
  <2>2. PlaceOK'
    BY <1>5 DEF ReconcileFails, PassBlind, Goto, PlaceOK, Stages
  <2>3. ValuesOK'
    BY <1>5, GotoTypes, FaultTypes DEF ReconcileFails, PassBlind, ValuesOK, TypeOK, NoTicket
  <2> QED  BY <2>1, <2>2, <2>3, SaysOneKeepsEntries
<1>6. CASE Reconcile
  <2>1. SaysOne
    BY <1>6 DEF Reconcile, PassRecords, ReconcileEntry, Entry, Events, OfPass, SaysOne
  <2>2. PlaceOK'
    BY <1>6 DEF Reconcile, PassRecords, Goto, PlaceOK, Stages
  <2>3. ValuesOK'
    BY <1>6, GotoTypes, FaultTypes, HeldType DEF Reconcile, PassRecords, ValuesOK, TypeOK, NoTicket
  <2> QED  BY <2>1, <2>2, <2>3, SaysOneKeepsEntries
<1>7. CASE AskOrders
  <2>1. SaysOne
    BY <1>7 DEF AskOrders, PassRecords, StateEntry, CallTool, Entry, Events, OfPass, SaysOne
  <2>2. PlaceOK'
    BY <1>7 DEF AskOrders, PassRecords, CallTool, Goto, PlaceOK, Stages
  <2>3. ValuesOK'
    BY <1>7, GotoTypes, FaultTypes DEF AskOrders, PassRecords, CallTool, ValuesOK, TypeOK, NoTicket
  <2> QED  BY <2>1, <2>2, <2>3, SaysOneKeepsEntries
<1>8. CASE OrdersFail
  <2>1. SaysOne
    BY <1>8 DEF OrdersFail, PassRecords, ErrorEntry, Entry, Events, OfPass, SaysOne
  <2>2. PlaceOK'
    BY <1>8 DEF OrdersFail, PassRecords, Goto, PlaceOK, Stages
  <2>3. ValuesOK'
    BY <1>8, GotoTypes, FaultTypes DEF OrdersFail, PassRecords, ValuesOK, TypeOK, NoTicket
  <2> QED  BY <2>1, <2>2, <2>3, SaysOneKeepsEntries
<1>9. CASE OrdersRead
  <2>1. SaysOne
    BY <1>9 DEF OrdersRead, SaysOne
  <2>2. PlaceOK'
    BY <1>9 DEF OrdersRead, Goto, PlaceOK, Stages
  <2>3. ValuesOK'
    BY <1>9, GotoTypes, FaultTypes DEF OrdersRead, ValuesOK, TypeOK, NoTicket
  <2> QED  BY <2>1, <2>2, <2>3, SaysOneKeepsEntries
<1> QED  BY <1>1, <1>2, <1>3, <1>4, <1>5, <1>6, <1>7, <1>8, <1>9

\* Fills and closing orders.
LEMMA TypesOfManaging ==
    ASSUME TypeOK, ServiceTypeInv,
           \/ \E k \in DOMAIN filled : RecordFill(k)
           \/ Hold
           \/ Defend
           \/ TakeProfit
           \/ CloseFails
           \/ SendClose
           \/ CloseLost
           \/ SubmitClose
           \/ \E order \in working : Fill(order)
    PROVE  SaysOne /\ ServiceTypeInv'
<1> USE DEF ServiceTypeInv, vars, file, pass, broker, service, Taken, Accept
<1>1. ASSUME NEW k \in DOMAIN filled, RecordFill(k) PROVE SaysOne /\ ServiceTypeInv'
  <2>1. SaysOne
    BY <1>1 DEF RecordFill, PassRecords, FillEntry, Entry, Events, OfPass, SaysOne
  <2>2. PlaceOK'
    BY <1>1 DEF RecordFill, PassRecords, Goto, PlaceOK, Stages
  <2>3. ValuesOK'
    BY <1>1, GotoTypes, FaultTypes DEF RecordFill, PassRecords, ValuesOK, TypeOK, NoTicket
  <2> QED  BY <2>1, <2>2, <2>3, SaysOneKeepsEntries
<1>2. CASE Hold
  <2>1. SaysOne
    BY <1>2 DEF Hold, SaysOne
  <2>2. PlaceOK'
    BY <1>2 DEF Hold, Goto, PlaceOK, Stages
  <2>3. ValuesOK'
    BY <1>2, GotoTypes, FaultTypes DEF Hold, ValuesOK, TypeOK, NoTicket
  <2> QED  BY <2>1, <2>2, <2>3, SaysOneKeepsEntries
<1>3. CASE Defend
  <2>1. SaysOne
    BY <1>3 DEF Defend, PassRecords, DefendEntry, Entry, Events, OfPass, SaysOne
  <2>2. PlaceOK'
    BY <1>3 DEF Defend, PassRecords, Goto, PlaceOK, Stages
  <2>3. ValuesOK'
    BY <1>3, GotoTypes, FaultTypes DEF Defend, PassRecords, ValuesOK, TypeOK, NoTicket
  <2> QED  BY <2>1, <2>2, <2>3, SaysOneKeepsEntries
<1>4. CASE TakeProfit
  <2>1. SaysOne
    BY <1>4 DEF TakeProfit, PassRecords, ActionEntry, Entry, Events, OfPass, SaysOne
  <2>2. PlaceOK'
    BY <1>4 DEF TakeProfit, PassRecords, Goto, PlaceOK, Stages
  <2>3. ValuesOK'
    BY <1>4, GotoTypes, FaultTypes DEF TakeProfit, PassRecords, ValuesOK, TypeOK, NoTicket
  <2> QED  BY <2>1, <2>2, <2>3, SaysOneKeepsEntries
<1>5. CASE CloseFails
  <2>1. SaysOne
    BY <1>5 DEF CloseFails, PassRecords, ErrorEntry, Entry, Events, OfPass, SaysOne
  <2>2. PlaceOK'
    BY <1>5 DEF CloseFails, PassRecords, Goto, PlaceOK, Stages
  <2>3. ValuesOK'
    BY <1>5, GotoTypes, FaultTypes DEF CloseFails, PassRecords, ValuesOK, TypeOK, NoTicket
  <2> QED  BY <2>1, <2>2, <2>3, SaysOneKeepsEntries
<1>6. CASE SendClose
  <2>1. SaysOne
    BY <1>6 DEF SendClose, SaysOne
  <2>2. PlaceOK'
    BY <1>6 DEF SendClose, Goto, PlaceOK, Stages
  <2>3. ValuesOK'
    BY <1>6, GotoTypes, FaultTypes DEF SendClose, ValuesOK, TypeOK, NoTicket
  <2> QED  BY <2>1, <2>2, <2>3, SaysOneKeepsEntries
<1>7. CASE CloseLost
  <2>1. SaysOne
    BY <1>7 DEF CloseLost, PassRecords, ErrorEntry, Entry, Events, OfPass, SaysOne
  <2>2. PlaceOK'
    BY <1>7 DEF CloseLost, PassRecords, Goto, PlaceOK, Stages
  <2>3. ValuesOK'
    BY <1>7, GotoTypes, FaultTypes DEF CloseLost, PassRecords, ValuesOK, TypeOK, NoTicket
  <2> QED  BY <2>1, <2>2, <2>3, SaysOneKeepsEntries
<1>8. CASE SubmitClose
  <2>1. SaysOne
    BY <1>8 DEF SubmitClose, PassRecords, CloseEntry, Entry, Events, OfPass, SaysOne
  <2>2. PlaceOK'
    BY <1>8 DEF SubmitClose, PassRecords, Goto, PlaceOK, Stages
  <2>3. ValuesOK'
    BY <1>8, GotoTypes, FaultTypes DEF SubmitClose, PassRecords, ValuesOK, TypeOK, NoTicket
  <2> QED  BY <2>1, <2>2, <2>3, SaysOneKeepsEntries
<1>9. ASSUME NEW order \in working, Fill(order) PROVE SaysOne /\ ServiceTypeInv'
  <2>1. SaysOne
    BY <1>9 DEF Fill, SaysOne
  <2>2. PlaceOK'
    BY <1>9 DEF Fill, Goto, PlaceOK, Stages
  <2>3. ValuesOK'
    BY <1>9, GotoTypes, FaultTypes, FilledMore DEF Fill, ValuesOK, TypeOK, NoTicket
  <2> QED  BY <2>1, <2>2, <2>3, SaysOneKeepsEntries
<1> QED  BY <1>1, <1>2, <1>3, <1>4, <1>5, <1>6, <1>7, <1>8, <1>9

\* A new entry.
LEMMA TypesOfEntering ==
    ASSUME TypeOK, ServiceTypeInv,
           \/ Regime
           \/ CandidatesFound
           \/ Rank
           \/ Deny
           \/ Allow
           \/ SubmitBlocked
           \/ SendEntry
           \/ SubmitLost
           \/ Submit
    PROVE  SaysOne /\ ServiceTypeInv'
<1> USE DEF ServiceTypeInv, vars, file, pass, broker, service, Taken, Accept
<1>1. CASE Regime
  <2>1. SaysOne
    BY <1>1 DEF Regime, PassManages, PassRecords, RegimeEntry, Entry, Events, OfPass, SaysOne
  <2>2. PlaceOK'
    BY <1>1 DEF Regime, PassManages, PassRecords, Goto, PlaceOK, Stages
  <2>3. ValuesOK'
    BY <1>1, GotoTypes, FaultTypes DEF Regime, PassManages, PassRecords, ValuesOK, TypeOK, NoTicket
  <2> QED  BY <2>1, <2>2, <2>3, SaysOneKeepsEntries
<1>2. CASE CandidatesFound
  <2>1. SaysOne
    <3>1. PICK id : Say(CandidatesEntry(id)) /\ Record /\ stage = "candidates"
      BY <1>2 DEF CandidatesFound, PassManages, PassRecords
    <3> QED  BY <3>1 DEF CandidatesEntry, Entry, Events, OfPass, SaysOne
  <2>2. PlaceOK'
    BY <1>2 DEF CandidatesFound, PassManages, PassRecords, Goto, PlaceOK, Stages
  <2>3. ValuesOK'
    <3>1. UNCHANGED <<world, filled, faults>>
      BY <1>2 DEF CandidatesFound
    <3>2. CASE Goto("sleep")
      BY <3>1, <3>2, GotoTypes DEF ValuesOK
    <3>3. ASSUME NEW t \in Tickets, ticket' = t,
                 UNCHANGED <<held, book, flatten, regime, todo>>
          PROVE  ValuesOK'
      BY <3>1, <3>3, ServiceAssumption DEF ValuesOK
    <3> QED  BY <1>2, <3>2, <3>3 DEF CandidatesFound
  <2> QED  BY <2>1, <2>2, <2>3, SaysOneKeepsEntries
<1>3. CASE Rank
  <2>1. SaysOne
    BY <1>3 DEF Rank, PassRecords, RankEntry, Entry, Events, OfPass, SaysOne
  <2>2. PlaceOK'
    BY <1>3 DEF Rank, PassRecords, Goto, PlaceOK, Stages
  <2>3. ValuesOK'
    BY <1>3, GotoTypes, FaultTypes DEF Rank, PassRecords, ValuesOK, TypeOK, NoTicket
  <2> QED  BY <2>1, <2>2, <2>3, SaysOneKeepsEntries
<1>4. CASE Deny
  <2>1. SaysOne
    BY <1>4 DEF Deny, PassManages, DenyEntry, Entry, Events, OfPass, SaysOne
  <2>2. PlaceOK'
    BY <1>4 DEF Deny, PassManages, Goto, PlaceOK, Stages
  <2>3. ValuesOK'
    BY <1>4, GotoTypes, FaultTypes DEF Deny, PassManages, ValuesOK, TypeOK, NoTicket
  <2> QED  BY <2>1, <2>2, <2>3, SaysOneKeepsEntries
<1>5. CASE Allow
  <2>1. SaysOne
    BY <1>5 DEF Allow, RecordAllow, AllowEntry, Entry, Events, OfPass, SaysOne
  <2>2. PlaceOK'
    BY <1>5 DEF Allow, RecordAllow, Goto, PlaceOK, Stages
  <2>3. ValuesOK'
    BY <1>5, GotoTypes, FaultTypes DEF Allow, RecordAllow, ValuesOK, TypeOK, NoTicket
  <2> QED  BY <2>1, <2>2, <2>3, SaysOneKeepsEntries
<1>6. CASE SubmitBlocked
  <2>1. SaysOne
    BY <1>6 DEF SubmitBlocked, Blocked, ErrorEntry, Entry, Events, OfPass, SaysOne
  <2>2. PlaceOK'
    BY <1>6 DEF SubmitBlocked, Blocked, Goto, PlaceOK, Stages
  <2>3. ValuesOK'
    BY <1>6, GotoTypes, FaultTypes DEF SubmitBlocked, Blocked, ValuesOK, TypeOK, NoTicket
  <2> QED  BY <2>1, <2>2, <2>3, SaysOneKeepsEntries
<1>7. CASE SendEntry
  <2>1. SaysOne
    BY <1>7 DEF SendEntry, Send, SaysOne
  <2>2. PlaceOK'
    BY <1>7 DEF SendEntry, Send, Goto, PlaceOK, Stages
  <2>3. ValuesOK'
    BY <1>7, GotoTypes, FaultTypes DEF SendEntry, Send, ValuesOK, TypeOK, NoTicket
  <2> QED  BY <2>1, <2>2, <2>3, SaysOneKeepsEntries
<1>8. CASE SubmitLost
  <2>1. SaysOne
    BY <1>8 DEF SubmitLost, RecordSubmit, ErrorEntry, Entry, Events, OfPass, SaysOne
  <2>2. PlaceOK'
    BY <1>8 DEF SubmitLost, RecordSubmit, Goto, PlaceOK, Stages
  <2>3. ValuesOK'
    BY <1>8, GotoTypes, FaultTypes DEF SubmitLost, RecordSubmit, ValuesOK, TypeOK, NoTicket
  <2> QED  BY <2>1, <2>2, <2>3, SaysOneKeepsEntries
<1>9. CASE Submit
  <2>1. SaysOne
    BY <1>9 DEF Submit, RecordSubmit, SubmitEntry, Entry, Events, OfPass, SaysOne
  <2>2. PlaceOK'
    BY <1>9 DEF Submit, RecordSubmit, Goto, PlaceOK, Stages
  <2>3. ValuesOK'
    BY <1>9, GotoTypes, FaultTypes DEF Submit, RecordSubmit, ValuesOK, TypeOK, NoTicket
  <2> QED  BY <2>1, <2>2, <2>3, SaysOneKeepsEntries
<1> QED  BY <1>1, <1>2, <1>3, <1>4, <1>5, <1>6, <1>7, <1>8, <1>9

\* What fails on its own.
LEMMA TypesOfFailing ==
    ASSUME TypeOK, ServiceTypeInv,
           \/ ThreadStep
           \/ StartReturns
           \/ Answered
           \/ Late
           \/ ServerLost
           \/ Noticed
           \/ TimesOut
           \/ ProcessDies
           \/ DiesWriting
           \/ Bounded
    PROVE  SaysOne /\ ServiceTypeInv'
<1> USE DEF ServiceTypeInv, vars, file, pass, broker, service, Taken, Accept
<1>1. CASE ThreadStep
  <2>1. SaysOne
    BY <1>1 DEF ThreadStep, SaysOne
  <2>2. PlaceOK'
    BY <1>1 DEF ThreadStep, Goto, PlaceOK, Stages
  <2>3. ValuesOK'
    BY <1>1, GotoTypes, FaultTypes DEF ThreadStep, ValuesOK, TypeOK, NoTicket
  <2> QED  BY <2>1, <2>2, <2>3, SaysOneKeepsEntries
<1>2. CASE StartReturns
  <2>1. SaysOne
    BY <1>2 DEF StartReturns, SaysOne
  <2>2. PlaceOK'
    BY <1>2 DEF StartReturns, Goto, PlaceOK, Stages
  <2>3. ValuesOK'
    BY <1>2, GotoTypes, FaultTypes DEF StartReturns, ValuesOK, TypeOK, NoTicket
  <2> QED  BY <2>1, <2>2, <2>3, SaysOneKeepsEntries
<1>3. CASE Answered
  <2>1. SaysOne
    BY <1>3 DEF Answered, SaysOne
  <2>2. PlaceOK'
    BY <1>3 DEF Answered, Goto, PlaceOK, Stages
  <2>3. ValuesOK'
    BY <1>3, GotoTypes, FaultTypes DEF Answered, ValuesOK, TypeOK, NoTicket
  <2> QED  BY <2>1, <2>2, <2>3, SaysOneKeepsEntries
<1>4. CASE Late
  <2>1. SaysOne
    BY <1>4 DEF Late, SaysOne
  <2>2. PlaceOK'
    BY <1>4 DEF Late, Goto, PlaceOK, Stages
  <2>3. ValuesOK'
    BY <1>4, GotoTypes, FaultTypes DEF Late, ValuesOK, TypeOK, NoTicket
  <2> QED  BY <2>1, <2>2, <2>3, SaysOneKeepsEntries
<1>5. CASE ServerLost
  <2>1. SaysOne
    BY <1>5 DEF ServerLost, SaysOne
  <2>2. PlaceOK'
    BY <1>5 DEF ServerLost, Goto, PlaceOK, Stages
  <2>3. ValuesOK'
    BY <1>5, GotoTypes, FaultTypes DEF ServerLost, ValuesOK, TypeOK, NoTicket
  <2> QED  BY <2>1, <2>2, <2>3, SaysOneKeepsEntries
<1>6. CASE Noticed
  <2>1. SaysOne
    BY <1>6 DEF Noticed, SaysOne
  <2>2. PlaceOK'
    BY <1>6 DEF Noticed, Goto, PlaceOK, Stages
  <2>3. ValuesOK'
    BY <1>6, GotoTypes, FaultTypes DEF Noticed, ValuesOK, TypeOK, NoTicket
  <2> QED  BY <2>1, <2>2, <2>3, SaysOneKeepsEntries
<1>7. CASE TimesOut
  <2>1. SaysOne
    BY <1>7 DEF TimesOut, SaysOne
  <2>2. PlaceOK'
    BY <1>7 DEF TimesOut, Goto, PlaceOK, Stages
  <2>3. ValuesOK'
    BY <1>7, GotoTypes, FaultTypes DEF TimesOut, ValuesOK, TypeOK, NoTicket
  <2> QED  BY <2>1, <2>2, <2>3, SaysOneKeepsEntries
<1>8. CASE ProcessDies
  <2>1. SaysOne
    BY <1>8 DEF ProcessDies, Crash, Die, SaysOne
  <2>2. PlaceOK'
    BY <1>8 DEF ProcessDies, Crash, Die, Goto, PlaceOK, Stages
  <2>3. ValuesOK'
    BY <1>8, GotoTypes, FaultTypes DEF ProcessDies, Crash, Die, ValuesOK, TypeOK, NoTicket
  <2> QED  BY <2>1, <2>2, <2>3, SaysOneKeepsEntries
<1>9. CASE DiesWriting
  <2>1. SaysOne
    BY <1>9, WritesEvents DEF DiesWriting, CrashWriting, Die, Entry, Events, OfPass, SaysOne
  <2>2. PlaceOK'
    BY <1>9 DEF DiesWriting, CrashWriting, Die, Goto, PlaceOK, Stages
  <2>3. ValuesOK'
    BY <1>9, GotoTypes, FaultTypes DEF DiesWriting, CrashWriting, Die, ValuesOK, TypeOK, NoTicket
  <2> QED  BY <2>1, <2>2, <2>3, SaysOneKeepsEntries
<1>10. CASE Bounded
  <2>1. SaysOne
    BY <1>10 DEF Bounded, AtBound, SaysOne
  <2>2. PlaceOK'
    BY <1>10 DEF Bounded, AtBound, Goto, PlaceOK, Stages
  <2>3. ValuesOK'
    BY <1>10, GotoTypes, FaultTypes DEF Bounded, AtBound, ValuesOK, TypeOK, NoTicket
  <2> QED  BY <2>1, <2>2, <2>3, SaysOneKeepsEntries
<1> QED  BY <1>1, <1>2, <1>3, <1>4, <1>5, <1>6, <1>7, <1>8, <1>9, <1>10

\* What the bridge tells the desk is told in Booleans.
BridgeFlags == {alive, session, ready, error} \subseteq BOOLEAN

LEMMA StepFlags == BridgeFlags /\ [BridgeNext]_bridge => BridgeFlags'
<1> SUFFICES ASSUME BridgeFlags, [BridgeNext]_bridge PROVE BridgeFlags'
  OBVIOUS
<1> USE DEF BridgeFlags
<1>1. CASE Thread
  BY <1>1 DEF Thread, RunLoop, ListTools, SetSession, SetReady, ThreadFails, CloseLoop
<1>2. CASE ServerDies \/ Stop
  BY <1>2 DEF ServerDies, Stop
<1>3. ASSUME NEW allowed \in BOOLEAN, StartBridge(allowed) PROVE BridgeFlags'
  BY <1>3 DEF StartBridge
<1>4. CASE StartEnds \/ ConnectTimesOut \/ CallAnswered \/ CallFails \/ CallTimesOut \/ Taken
  BY <1>4 DEF StartEnds, ConnectTimesOut, CallAnswered, CallFails, CallTimesOut, Taken
<1>5. ASSUME NEW writes \in BOOLEAN, CallTool(writes) PROVE BridgeFlags'
  BY <1>5 DEF CallTool
<1>6. CASE UNCHANGED bridge
  BY <1>6 DEF bridge
<1> QED  BY <1>1, <1>2, <1>3, <1>4, <1>5, <1>6 DEF BridgeNext

LEMMA InitialTypes == ServiceInit => ServiceTypeInv /\ BridgeFlags
<1> SUFFICES ASSUME ServiceInit PROVE ServiceTypeInv /\ BridgeFlags
  OBVIOUS
<1>1. says = <<>> /\ next = 1 /\ filled = <<>> /\ todo = {}
  BY DEF ServiceInit, Init
<1>2. says \in Seq({}) /\ filled \in Seq({})
  BY <1>1
<1>3. EntriesOK
  BY <1>1, <1>2 DEF EntriesOK
<1>4. PlaceOK
  BY DEF ServiceInit, Init, PlaceOK, Stages
<1>5. held = FALSE /\ book = FALSE /\ flatten = FALSE /\ world \in Worlds
  BY DEF ServiceInit
<1>6. regime \in Nat /\ ticket \in Nat /\ faults \in Nat
  BY DEF ServiceInit, NoTicket
<1>7. ValuesOK
  BY <1>1, <1>2, <1>5, <1>6 DEF ValuesOK
<1>8. BridgeFlags
  BY DEF ServiceInit, BridgeInit, BridgeFlags
<1> QED  BY <1>3, <1>4, <1>7, <1>8 DEF ServiceTypeInv

LEMMA StepTypes ==
    TypeOK /\ ServiceTypeInv /\ [ServiceNext]_serviceVars => SaysOne /\ ServiceTypeInv'
<1> SUFFICES ASSUME TypeOK, ServiceTypeInv, [ServiceNext]_serviceVars
             PROVE  SaysOne /\ ServiceTypeInv'
  OBVIOUS
<1>1. CASE UNCHANGED serviceVars
  BY <1>1 DEF serviceVars, vars, file, service, pass, broker, SaysOne,
              ServiceTypeInv, EntriesOK, PlaceOK, ValuesOK
<1>2. CASE ServiceNext
  BY <1>2, TypesOfStart, TypesOfReads, TypesOfManaging, TypesOfEntering, TypesOfFailing
     DEF ServiceNext
<1> QED  BY <1>1, <1>2

\* The parts hold in every reachable state: there is an entry for each number that was
\* used, and no fill is due to be recorded that the broker has not made.
THEOREM ServiceTypesInvariant == ServiceSpec => [](TypeOK /\ ServiceTypeInv)
<1>1. ServiceSpec => []TypeOK
  BY ImplementsJournal, JournalTypes, PTL DEF JournalSpec
<1> QED  BY <1>1, InitialTypes, StepTypes, PTL DEF ServiceSpec

\* main() is where its journal has it, whatever fails and whenever: the process and its
\* journal never disagree on whether a pass, an ALLOW or a broker command is under way
\* (main.py:92-207, loop.py).
THEOREM ServiceTypes == ServiceSpec => []ServiceTypeOK
<1>1. ServiceTypeInv /\ BridgeFlags => ServiceTypeOK
  BY DEF ServiceTypeInv, EntriesOK, PlaceOK, ValuesOK, BridgeFlags, ServiceTypeOK
<1>2. ServiceSpec => []BridgeFlags
  BY InitialTypes, StepFlags, Simulates, PTL DEF ServiceSpec
<1> QED  BY <1>1, <1>2, ServiceTypesInvariant, PTL
================================================================================
