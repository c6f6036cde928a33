------------------------------ MODULE DeskService ------------------------------
(***************************************************************************)
(* main.py from its start to its end, over the journal, the MCP bridge and *)
(* the startup gate: which call is made when, what is journalled in which  *)
(* order, and what the process does when one of them fails.                *)
(*                                                                         *)
(* One underlying and one expiry are traded.  A ticket is its id, which is *)
(* derived from its legs: the same structure has the same id on every      *)
(* pass, and its opening order has that id too.  The id of a closing order *)
(* is the same for every close of the expiry.                              *)
(*                                                                         *)
(* An entry says [event, id, what, at].  at is the place of a FILL in the  *)
(* order the broker filled; of an entry about a pass's opening it is the   *)
(* number of that pass's REGIME entry, a history no reader looks at.       *)
(***************************************************************************)
EXTENDS Journal, McpBridge, StartupGate

CONSTANTS
    Worlds,           \* the deployments considered
    Tickets,          \* ids of the structures that may be proposed
    ReusableIds,      \* may the id of an order that has filled be used again?
    MaxFaults,        \* bound on calls that fail, server deaths, process deaths
    FaultsUntil       \* and the entry up to which they happen

ASSUME ServiceAssumption ==
    /\ "get_account" \in Capability
    /\ Tickets \subseteq Nat \ {0}
    /\ ReusableIds \in BOOLEAN /\ MaxFaults \in Nat /\ FaultsUntil \in Nat

VARIABLES
    world,            \* the deployment
    stage,            \* where main() is
    says,             \* what each entry says
    held,             \* positions as main() read them before the pass
    book,             \* and as reconcile() read them in the pass
    flatten,          \* FLATTEN_ONLY
    regime,           \* number of the pass's REGIME entry
    ticket,           \* the pass's ticket
    todo,             \* fills listed by the broker and not journalled yet
    working, filled,  \* the broker: working orders, filled ones as they filled
    faults

pass == <<held, book, flatten, regime, ticket, todo>>
broker == <<working, filled>>
service == <<world, stage, says, pass, broker, faults>>
serviceVars == <<vars, bridge, service>>

CloseId == 0
NoTicket == 0

Entry(event, id, what, at) == [event |-> event, id |-> id, what |-> what, at |-> at]
Order(id, intent) == [id |-> id, intent |-> intent]

\* Record's argument.
Say(entry) == says' = Append(says, entry)

Fault ==
    /\ faults < MaxFaults /\ next =< FaultsUntil
    /\ faults' = faults + 1

\* Between two passes nothing of a pass is left.
Goto(place) ==
    /\ stage' = place
    /\ IF place \in {"off", "sleep"}
       THEN /\ held' = FALSE /\ book' = FALSE /\ flatten' = FALSE
            /\ regime' = 0 /\ ticket' = NoTicket /\ todo' = {}
       ELSE UNCHANGED pass

--------------------------------------------------------------------------------
(* The broker.                                                                *)

\* A close takes off all there is of the expiry.
Held == filled # <<>> /\ filled[Len(filled)].intent = "open"

UsedIds == {o.id : o \in working} \cup
           (IF ReusableIds THEN {} ELSE {filled[k].id : k \in DOMAIN filled})

\* An order whose id is taken is refused; the command exits with an error.
Accept(order) ==
    /\ working' = IF order.id \in UsedIds THEN working ELSE working \cup {order}
    /\ UNCHANGED filled

Fill(order) ==
    /\ order \in working
    /\ order.intent = "close" => Held
    /\ working' = working \ {order}
    /\ filled' = Append(filled, order)
    /\ UNCHANGED <<vars, bridge, world, stage, says, pass, faults>>

--------------------------------------------------------------------------------
(* Start.                                                                     *)

Boot ==
    /\ Launch
    /\ StartBridge({"mcp paper", "mcp command"} \subseteq world.facts)
    /\ Goto("connect")
    /\ UNCHANGED <<world, says, broker, faults>>

HaltEntry == Entry("HALT", 0, "none", 0)

Writable == "journal writable" \in world.facts

\* start() raised: the gate is run without a bridge.
ConnectFails ==
    /\ stage = "connect" /\ client = "refused" /\ Writable
    /\ RecordHalt /\ Say(HaltEntry)
    /\ Goto("gate")
    /\ UNCHANGED <<bridge, world, broker, faults>>

AccountTool == ToolFor("get_account", tools)

\* account_snapshot: a call, if some tool serves it.
ReadAccount ==
    /\ stage = "connect" /\ client = "up"
    /\ IF AccountTool = NoTool THEN UNCHANGED bridge ELSE CallTool(IsWriteTool(AccountTool))
    /\ Goto("gate")
    /\ UNCHANGED <<vars, world, says, broker, faults>>

Connected == client = "up"
Account == IF answer = "ok" THEN world.account ELSE NoAccount
GateDue ==
    /\ stage = "gate" /\ client # "calling"
    /\ Connected /\ AccountTool # NoTool => answer # "none"
IsReady == Ready(world, Connected, Account, tools)
StartupEntry == Entry("STARTUP", 0, IF IsReady THEN "READY" ELSE "HALTED", 0)

\* Mutant: the outcome is journalled, and only build_desk keeps the desk from its loop.
GateReadyAnyway ==
    /\ GateDue /\ ~BuildRaises(world, Connected, tools)
    /\ Start /\ Say(StartupEntry)
    /\ Taken
    /\ Goto("build")
    /\ UNCHANGED <<world, broker, faults>>

\* run_gate, its STARTUP entry, and the way into the loop ...
GateReady ==
    /\ GateDue /\ IsReady
    /\ Start /\ Say(StartupEntry)
    /\ Taken
    /\ Goto("build")
    /\ UNCHANGED <<world, broker, faults>>

\* ... or out of the process.
GateHalts ==
    /\ GateDue /\ ~IsReady /\ Writable
    /\ GiveUp /\ Say(StartupEntry)
    /\ Stop
    /\ Goto("off")
    /\ UNCHANGED <<world, broker, faults>>

\* The first entry of such a process cannot be written: it ends without one.
Unwritten ==
    /\ ~Writable
    /\ (stage = "connect" /\ client = "refused") \/ GateDue
    /\ CannotWrite
    /\ Stop
    /\ Goto("off")
    /\ UNCHANGED <<world, says, broker, faults>>

\* build_desk.  There is no step for its raising: ReadyBuilds.
BuildDesk ==
    /\ stage = "build" /\ ~BuildRaises(world, Connected, tools)
    /\ Goto("sleep")
    /\ UNCHANGED <<vars, bridge, world, says, broker, faults>>

--------------------------------------------------------------------------------
(* A pass up to the reconciled state.                                         *)

ErrorEntry == Entry("ERROR", 0, "none", 0)

\* Bars, chain, spot and positions: one call stands for them all.
AskMarket ==
    /\ stage = "sleep"
    /\ CallTool(FALSE)
    /\ Goto("market")
    /\ UNCHANGED <<vars, world, says, broker, faults>>

MarketFails ==
    /\ stage = "market" /\ answer = "failed"
    /\ PassBlind /\ Say(ErrorEntry)
    /\ Taken /\ Goto("sleep")
    /\ UNCHANGED <<world, broker, faults>>

JournalFails ==
    /\ stage = "market" /\ answer = "ok"
    /\ PassFails /\ Say(ErrorEntry)
    /\ Taken /\ Goto("sleep")
    /\ UNCHANGED <<world, broker, faults>>

\* The journal is replayed, the positions are rebuilt, and reconcile() asks for
\* the account.
MarketRead ==
    /\ stage = "market" /\ answer = "ok"
    /\ ReadJournal
    /\ CallTool(FALSE)
    /\ stage' = "account" /\ held' = Held
    /\ UNCHANGED <<world, says, book, flatten, regime, ticket, todo, broker, faults>>

ReconcileFails ==
    /\ stage = "account" /\ answer = "failed"
    /\ PassBlind /\ Say(ErrorEntry)
    /\ Taken /\ Goto("sleep")
    /\ UNCHANGED <<world, broker, faults>>

ReconcileEntry == Entry("RECONCILE", 0, "none", 0)

\* reconcile(): with the breaker tripped or not.
Reconcile ==
    /\ stage = "account" /\ answer = "ok"
    /\ PassRecords /\ Say(ReconcileEntry)
    /\ Taken
    /\ stage' = "state" /\ book' = Held
    /\ flatten' \in BOOLEAN
    /\ UNCHANGED <<world, held, regime, ticket, todo, broker, faults>>

StateEntry == Entry("STATE", 0, "none", 0)

\* run_once: STATE, if it has, and record_fills asks for the orders.
AskOrders ==
    /\ stage = "state"
    /\ IF flatten THEN PassRecords /\ Say(StateEntry) ELSE UNCHANGED <<vars, says>>
    /\ CallTool(FALSE)
    /\ Goto("orders")
    /\ UNCHANGED <<world, broker, faults>>

--------------------------------------------------------------------------------
(* Fills and open positions.                                                  *)

OrdersFail ==
    /\ stage = "orders" /\ answer = "failed"
    /\ PassRecords /\ Say(ErrorEntry)
    /\ Taken /\ Goto("manage")
    /\ UNCHANGED <<world, broker, faults>>

\* Mutant: the ids of every event count, as when client_order_ids is asked for none.
RecordedIdsOfAll == {says[e].id : e \in Readable}

\* Journal.client_order_ids("FILL"); TradingDesk's RecordingInv says that what the
\* process remembers of it is no different.
RecordedIds == {says[e].id : e \in {r \in Readable : says[r].event = "FILL"}}

OrdersRead ==
    /\ stage = "orders" /\ answer = "ok"
    /\ Taken
    /\ todo' = {k \in DOMAIN filled : filled[k].id \notin RecordedIds}
    /\ stage' = IF todo' = {} THEN "manage" ELSE "record"
    /\ UNCHANGED <<vars, world, says, held, book, flatten, regime, ticket, broker, faults>>

FillEntry(k) == Entry("FILL", filled[k].id, filled[k].intent, k)

\* record_fills: in the order of the broker's listing, an id once.
RecordFill(k) ==
    /\ stage = "record" /\ k \in todo
    /\ PassRecords /\ Say(FillEntry(k))
    /\ todo' = {j \in todo : filled[j].id # filled[k].id}
    /\ stage' = IF todo' = {} THEN "manage" ELSE "record"
    /\ UNCHANGED <<bridge, world, held, book, flatten, regime, ticket, broker, faults>>

\* manage_open_positions: nothing is held, or HOLD.
Hold ==
    /\ stage = "manage"
    /\ Goto("entry")
    /\ UNCHANGED <<vars, bridge, world, says, broker, faults>>

ActionEntry == Entry("TAKE_PROFIT", 0, "none", 0)

DefendEntry == Entry("DEFEND", 0, "none", 0)

\* A verdict that is written down and nothing else.
Defend ==
    /\ stage = "manage" /\ held
    /\ PassRecords /\ Say(DefendEntry)
    /\ Goto("entry")
    /\ UNCHANGED <<bridge, world, broker, faults>>

\* A verdict that closes the position: TAKE_PROFIT stands for FLATTEN and ROLL too.
TakeProfit ==
    /\ stage = "manage" /\ held
    /\ PassRecords /\ Say(ActionEntry)
    /\ Goto("close")
    /\ UNCHANGED <<bridge, world, broker, faults>>

\* _close: no command, no dry run, or the command raises before the broker has it ...
CloseFails ==
    /\ stage = "close" /\ Fault
    /\ PassRecords /\ Say(ErrorEntry)
    /\ Goto("entry")
    /\ UNCHANGED <<bridge, world, broker>>

SendClose ==
    /\ stage = "close"
    /\ Accept(Order(CloseId, "close"))
    /\ Goto("closing")
    /\ UNCHANGED <<vars, bridge, world, says, faults>>

\* ... or after.
CloseLost ==
    /\ stage = "closing" /\ Fault
    /\ PassRecords /\ Say(ErrorEntry)
    /\ Goto("entry")
    /\ UNCHANGED <<bridge, world, broker>>

CloseEntry == Entry("SUBMIT", CloseId, "close", 0)

SubmitClose ==
    /\ stage = "closing"
    /\ PassRecords /\ Say(CloseEntry)
    /\ Goto("entry")
    /\ UNCHANGED <<bridge, world, broker, faults>>

--------------------------------------------------------------------------------
(* consider_new_entry.                                                        *)

RegimeEntry == Entry("REGIME", NoTicket, "none", next)

Regime ==
    /\ stage = "entry"
    /\ Say(RegimeEntry)
    /\ \/ /\ flatten                                    \* nothing is opened
          /\ PassManages
          /\ Goto("sleep")
       \/ /\ ~flatten
          /\ PassRecords
          /\ stage' = "candidates" /\ regime' = next
          /\ UNCHANGED <<held, book, flatten, ticket, todo>>
    /\ UNCHANGED <<bridge, world, broker, faults>>

CandidatesEntry(id) == Entry("CANDIDATES", id, "none", regime)

CandidatesFound ==
    /\ stage = "candidates"
    /\ \/ /\ Say(CandidatesEntry(NoTicket))             \* NO_CANDIDATE
          /\ PassManages
          /\ Goto("sleep")
       \/ \E t \in Tickets :
             /\ Say(CandidatesEntry(t))
             /\ PassRecords
             /\ stage' = "rank" /\ ticket' = t
             /\ UNCHANGED <<held, book, flatten, regime, todo>>
    /\ UNCHANGED <<bridge, world, broker, faults>>

RankEntry == Entry("RANK", ticket, "none", regime)

Rank ==
    /\ stage = "rank"
    /\ PassRecords /\ Say(RankEntry)
    /\ Goto("verdict")
    /\ UNCHANGED <<bridge, world, broker, faults>>

DenyEntry == Entry("DENY", ticket, "none", regime)

Deny ==
    /\ stage = "verdict"
    /\ PassManages /\ Say(DenyEntry)
    /\ Goto("sleep")
    /\ UNCHANGED <<bridge, world, broker, faults>>

AllowEntry == Entry("ALLOW", ticket, "none", regime)

\* The officer never allows a second structure on the expiry (check 6).
Allow ==
    /\ stage = "verdict" /\ ~book
    /\ RecordAllow /\ Say(AllowEntry)
    /\ Goto("submit")
    /\ UNCHANGED <<bridge, world, broker, faults>>

SubmitBlocked ==
    /\ stage = "submit" /\ Fault
    /\ Blocked /\ Say(ErrorEntry)
    /\ Goto("sleep")
    /\ UNCHANGED <<bridge, world, broker>>

\* Mutant: _submit writes its entry before the command has been sent.
SubmitFirst ==
    /\ stage = "submit"
    /\ Record /\ Say(Entry("SUBMIT", ticket, "open", regime))
    /\ Accept(Order(ticket, "open"))
    /\ Goto("sent")
    /\ UNCHANGED <<pc, verdict, acted, lastPass, exits, bridge, world, faults>>

SendEntry ==
    /\ stage = "submit"
    /\ Send
    /\ Accept(Order(ticket, "open"))
    /\ Goto("sent")
    /\ UNCHANGED <<bridge, world, says, faults>>

\* The broker has it and the call raises all the same.
SubmitLost ==
    /\ stage = "sent" /\ Fault
    /\ RecordSubmit /\ Say(ErrorEntry)
    /\ Goto("sleep")
    /\ UNCHANGED <<bridge, world, broker>>

SubmitEntry == Entry("SUBMIT", ticket, "open", regime)

Submit ==
    /\ stage = "sent"
    /\ RecordSubmit /\ Say(SubmitEntry)
    /\ Goto("sleep")
    /\ UNCHANGED <<bridge, world, broker, faults>>

--------------------------------------------------------------------------------
(* What fails on its own.                                                     *)

\* The session's thread and the calls.
ThreadStep == Thread /\ UNCHANGED <<vars, service>>
StartReturns == StartEnds /\ UNCHANGED <<vars, service>>
Answered == CallAnswered /\ UNCHANGED <<vars, service>>

\* A server that answers may be late or report an error once in a while ...
Late ==
    /\ ConnectTimesOut \/ CallFails \/ CallTimesOut
    /\ alive /\ Fault
    /\ UNCHANGED <<vars, world, stage, says, pass, broker>>

\* (It dies while it is waited for: at another time only the next call tells.)
ServerLost ==
    /\ client \in {"starting", "calling"}
    /\ ServerDies /\ Fault
    /\ UNCHANGED <<vars, world, stage, says, pass, broker>>

\* ... and of one that is gone every call fails sooner or later.
Noticed == ~alive /\ CallFails /\ UNCHANGED <<vars, service>>
TimesOut == ~alive /\ (ConnectTimesOut \/ CallTimesOut) /\ UNCHANGED <<vars, service>>

\* The entries the process may be writing.
MayWrite ==
    CASE stage = "connect"    -> IF client = "refused" THEN {HaltEntry} ELSE {}
      [] stage = "gate"       -> IF GateDue THEN {StartupEntry} ELSE {}
      [] stage = "market"     -> IF answer = "failed" \/ ReadRaises THEN {ErrorEntry} ELSE {}
      [] stage = "account"    -> IF answer = "failed" THEN {ErrorEntry}
                                 ELSE IF answer = "ok" THEN {ReconcileEntry} ELSE {}
      [] stage = "state"      -> IF flatten THEN {StateEntry} ELSE {}
      [] stage = "orders"     -> IF answer = "failed" THEN {ErrorEntry} ELSE {}
      [] stage = "record"     -> {FillEntry(k) : k \in todo}
      [] stage = "manage"     -> IF held THEN {ActionEntry, DefendEntry} ELSE {}
      [] stage = "close"      -> {ErrorEntry}
      [] stage = "closing"    -> {CloseEntry, ErrorEntry}
      [] stage = "entry"      -> {RegimeEntry}
      [] stage = "candidates" -> {CandidatesEntry(t) : t \in Tickets \cup {NoTicket}}
      [] stage = "rank"       -> {RankEntry}
      [] stage = "verdict"    -> {DenyEntry} \cup (IF book THEN {} ELSE {AllowEntry})
      [] stage = "submit"     -> {ErrorEntry}
      [] stage = "sent"       -> {SubmitEntry, ErrorEntry}
      [] OTHER                -> {}

ProcessDies ==
    /\ Fault
    /\ Crash
    /\ Stop /\ Goto("off")
    /\ UNCHANGED <<world, says, broker>>

DiesWriting ==
    /\ Fault /\ Writable
    /\ \E entry \in MayWrite : CrashWriting /\ Say(entry)
    /\ Stop /\ Goto("off")
    /\ UNCHANGED <<world, broker>>

Bounded == AtBound /\ UNCHANGED <<bridge, service>>

--------------------------------------------------------------------------------
ServiceInit ==
    /\ Init /\ BridgeInit
    /\ world \in Worlds
    /\ stage = "off" /\ says = <<>>
    /\ held = FALSE /\ book = FALSE /\ flatten = FALSE
    /\ regime = 0 /\ ticket = NoTicket /\ todo = {}
    /\ working = {} /\ filled = <<>>
    /\ faults = 0

ServiceNext ==
    \/ Boot \/ ConnectFails \/ ReadAccount \/ GateReady \/ GateHalts \/ Unwritten
    \/ BuildDesk
    \/ AskMarket \/ MarketFails \/ JournalFails \/ MarketRead
    \/ ReconcileFails \/ Reconcile \/ AskOrders
    \/ OrdersFail \/ OrdersRead \/ (\E k \in DOMAIN filled : RecordFill(k))
    \/ Hold \/ Defend \/ TakeProfit \/ CloseFails \/ SendClose \/ CloseLost \/ SubmitClose
    \/ Regime \/ CandidatesFound \/ Rank \/ Deny \/ Allow
    \/ SubmitBlocked \/ SendEntry \/ SubmitLost \/ Submit
    \/ ThreadStep \/ StartReturns \/ Answered \/ Late \/ ServerLost \/ Noticed \/ TimesOut
    \/ ProcessDies \/ DiesWriting
    \/ (\E order \in working : Fill(order))
    \/ Bounded

\* The operating system schedules both threads, a server that answers answers, and
\* the waits have limits (CONNECT_TIMEOUT, CALL_TIMEOUT).
Fairness ==
    /\ WF_serviceVars(ThreadStep) /\ WF_serviceVars(StartReturns)
    /\ WF_serviceVars(Answered) /\ WF_serviceVars(TimesOut)

ServiceSpec == ServiceInit /\ [][ServiceNext]_serviceVars /\ Fairness

--------------------------------------------------------------------------------
(* Properties.                                                                *)

Events == {"STARTUP", "HALT", "STATE", "REGIME", "CANDIDATES", "RANK", "ALLOW", "DENY",
           "SUBMIT", "FILL", "RECONCILE", "TAKE_PROFIT", "DEFEND", "ERROR"}

Stages == {"off", "connect", "gate", "build", "sleep", "market", "account", "state",
           "orders", "record", "manage", "close", "closing", "entry", "candidates",
           "rank", "verdict", "submit", "sent"}

\* Every variable has its type, an entry says something, and main() is where the
\* journal has it.
ServiceTypeOK ==
    /\ world \in Worlds /\ stage \in Stages
    /\ Len(says) = next - 1
    /\ \A e \in DOMAIN says : says[e].event \in Events
    /\ {held, book, flatten, alive, session, ready, error} \subseteq BOOLEAN
    /\ {regime, ticket, faults} \subseteq Nat
    /\ todo \subseteq DOMAIN filled
    /\ pc = "off" <=> stage = "off"
    /\ pc = "starting" <=> stage \in {"connect", "gate"}
    /\ pc = "idle" <=> stage \in {"build", "sleep", "market"}
    /\ pc = "allowed" <=> stage = "submit"
    /\ pc = "sent" <=> stage = "sent"

\* Whatever its calls and its session do, the process writes and reads the journal
\* as Journal says, and acts on an ALLOW only when it is on disk: Journal's
\* theorems are about this program (main.py, loop.py).
JournalSpec == Spec

\* A desk that waits for the server stops waiting, although the server may die or
\* fall silent at any point and its thread need not notice (mcp_stdio.py:114, 186).
CallReturns == client \in {"starting", "calling"} ~> client \notin {"starting", "calling"}

\* A READY gate leaves build_desk and the write guard nothing to fail on, and the
\* account is that of the mode: a process that says READY does not halt after it.
ReadyBuilds == GateDue => ReadyIsEnough(world, Connected, Account, tools)

\* Every order was sent by a process whose gate was READY (main.py:7, 129-131).
OrdersFollowReady ==
    \A e \in DOMAIN says : says[e].event = "SUBMIT" =>
        \E s \in 1..(e - 1) :
            /\ says[s].event = "STARTUP" /\ says[s].what = "READY"
            /\ \A n \in (s + 1)..(e - 1) : says[n].event \notin {"STARTUP", "HALT"}

--------------------------------------------------------------------------------
(* What the documents say of the program and the program does not do.         *)

\* main.py:157-158: after a pass that had no data, open positions are managed on
\* the next.  Checked for a desk whose calls fail only because the server is gone.
BlindPassIsTheLast == [][lastPass = "blind" => ~(MarketFails \/ ReconcileFails)]_serviceVars
================================================================================
