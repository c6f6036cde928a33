# OptionGenome in TLA+

OptionGenome (`src/`) is an options desk: one process that every few minutes
reads an account from a broker, manages the structures it holds, and may sell
one defined-risk structure (a put credit spread or an iron condor) through the
broker's command line tool. Nothing is kept between runs but an append-only
journal. What is hard about it is not the arithmetic: the broker fills, expires
and settles on its own between any two reads; a call may have been obeyed and
still raise; the process may die between an order and its journal entry; and
every memory the desk has is a fold over a file that a crash may have torn.

The project states what the desk promises in that setting, checks it with TLC
on small instances, and proves the central parts with TLAPS for every value of
the constants.

## 1. Inventory

| part | source (`src/src/`) | state | operations |
|---|---|---|---|
| trading loop | `main.py`, `loop.py` | recorded fill ids of this process | start, pass: fetch, reconcile, record fills, manage, consider entry, submit |
| reconciliation | `reconcile.py` | none: rebuilt from broker and journal | grouping legs, rebuilding positions, book, high-water mark, breaker |
| lifecycle | `rolldesk/lifecycle.py` | none | `decide`: hold, take profit, stop, defend, flatten, close |
| risk officer | `risk/officer.py`, `risk/sizing.py` | none | fifteen checks, lots |
| structures, ratios | `rolldesk/structures.py`, `ratios.py`, `broker/occ.py` | none | what the legs are, independent of claims |
| candidates, ranker | `rolldesk/candidates.py`, `ranker.py` | none | tickets from a chain; one of them |
| Market DNA | `marketdna/` | none | signals, regime, permission |
| broker CLI adapter | `broker/alpaca_cli.py` | captured schema | limit prices, order ids, dry run, submit |
| MCP bridge | `broker/mcp_stdio.py` | a session on its own thread | start, call, stop |
| broker reads, capability discovery | `broker/alpaca_mcp.py` | which tool serves what | discovery, verify, reads |
| journal | `journal.py` | the file | record, read, tail, folds over it |
| signal history | `signals_builder.py` | none | replays the journal on each pass |
| configuration | `config.py` | frozen limits | load, validate |
| startup gate, modes | `startup.py`, `safety.py` | the gate's outcome | twenty checks, paper-only assertions |
| market data | `marketdata.py` | none | parsing of the broker's payloads |
| dashboard | `api.py` | none: a new `Journal` per request | read only: the gate, the last decision, fills paired to trades, learning |
| manual close | `scripts/close_open_structures.py` | none | closes everything, beside the loop |

How they meet. `main` starts the bridge, runs the gate, builds the desk and then calls
`run_once` in a loop; a pass calls everything else in one thread and in a fixed order. A
second thread owns the MCP session; the two meet in a few attributes and an event. The
other shared state is outside the process: the broker's positions and orders, which
change on their own, and the journal, which outlives the process and which the dashboard
reads while it is written. The journal feeds back into four decisions: which fills were
already recorded, what the day's risk budget has left, what the high-water mark is, and
the history of implied volatility.

What makes each part correct:

- loop: a fill is journalled once, and in the end if orders can be looked up;
  nothing is closed twice; nothing works without an ALLOW on disk; the day's budget holds.
- reconcile: a restart hides no drawdown; every structure held is managed.
- officer, sizing, structures: what is allowed loses no more than was
  calculated, whatever the ticket claims of itself.
- CLI adapter: the limit price asks for a credit near the one checked; the
  closing order leaves nothing behind.
- journal: a replay is complete or raises; what was acted on stays readable.
- gate and modes: READY is enough for what `build_desk` and the write guard ask
  next, and no order is sent without it.
- bridge and discovery: a session that was announced is there, and a wait ends.
- dashboard: the gate it shows is the desk's, the decision is of one pass, and the
  trades are those that were made.

The places in the code where these could go wrong are listed, at their lines, as
`hazards` in PROJECT.json.

## 2. Modules

| module | models |
|---|---|
| `DeskConfig` | the frozen limits and what `config._validate` refuses, as assumptions |
| `Lifecycle` | `decide` and `closes_position` |
| `RiskOfficer` | the officer's checks that read the book and the budget (4, 6, 10, 12) |
| `TradingDesk` | passes, broker and journal: extends the two above |
| `FillLedger` | abstract: what recording fills promises; `TradingDesk` implements it |
| `Journal` | the file under torn writes, with when the process reads it and acts on it |
| `Drawdown` | high-water mark and breaker over days and restarts |
| `Structures` | legs, their shape, width and payoff; closing legs |
| `OrderRisk` | one order from ticket to settlement: regime, all fifteen checks, sizing, limit price, charge, fill, loss, close; extends `RiskOfficer` and `Structures` |
| `Candidates` | from a chain to the proposed ticket: strikes, builder, score, shortlist, ranker; extends `OrderRisk` |
| `Capabilities` | tool discovery: which listed tool serves which capability |
| `StartupGate` | `safety.py`, the twenty checks, and what `build_desk` reads after them; extends `Capabilities` |
| `McpBridge` | `mcp_stdio.py`: the desk's thread, the session's thread, the server |
| `DeskService` | `main` from start to end, with every journal entry: extends `Journal`, `McpBridge`, `StartupGate`, and implements `Journal` |
| `Dashboard` | `api_gate`, `api_decision`, `api_trades` over the journal of a running `DeskService` |
| `MC*` | small instances of `TradingDesk`, `Journal`, `Drawdown`, `OrderRisk`, `DeskService` |
| `*_proofs` | theorems about `TradingDesk`, `Journal`, `Drawdown`, `OrderRisk`, `Candidates`, `McpBridge`, `DeskService`, `Dashboard` |

### TradingDesk

`pc` is the place in the pass: `off`, `idle`, `fetched` (positions read by
`main`), `reconciled`, `recording` (one `RecordFill` per journal entry),
`managing` (one `Manage` per group of legs, in order of expiry), `allowed` (ALLOW
written), `sent` (order placed, SUBMIT not yet written). Every step between two
reads or writes of shared state is one action, so the broker and `Crash` come in
between any two. The broker (`FillOpen`, `FillClose`, `SessionClose`, `NextDay`,
`Settle`) is external and does what it likes.

- Positions are lots per ticket. The desk sees only legs grouped by expiry:
  `OpenExpiries` (the book: one structure per group) and `Managed` (only groups
  of two or four legs).
- A client order id is a function of what is traded, not of when: `OpenId`,
  `CloseId`. Whether an id is free again once its order is done is the broker's
  affair and a constant, `ReusableIds`; both are run. The repository does not
  say which holds (`docs/cli-reference.txt:951` says only "unique").
- `Submit` and `RecordSubmit` are two actions; `SubmitTimesOut` is the call that
  raised though the broker obeyed; `SubmitBlocked` the one that never arrived.
- The journal appears as what is folded out of it: FILL entries per id
  (`client_order_ids`), the day's charges with the first entry of an id counting
  (`risk_opened_on`), ALLOW entries of the day. That the folds see all entries is
  what `Journal` is about.
- `opened`, `lost` and `closedSince` are history variables: dollars at risk in the
  opening orders the broker took today, and in those of them whose answer was lost, and
  the closing orders that filled since the pass read the positions.

Abstractions. One lot per order (`max_lots` is 1 in the shipped configuration),
no partial fills, tickets with disjoint legs. The calendar moves and the session
closes only between passes, which take seconds. Prices are marks, one per branch
of `decide`. The breaker is an input of the pass (`Drawdown` has it). Which
candidate is ranked first is arbitrary.

### Journal

An entry is its number in the order of `record` calls; a line is an entry or
`Corrupt`. `RecordTorn` leaves any prefix of a line, all of it without its
newline included; the next `Record` runs into it. `ReadRaises` is `Journal.read`,
`Readable` is what `tail` finds.

`pc` is where the process is: `off`, `starting` (its gate has no outcome yet),
`idle`, `read` (the pass has replayed the journal), `allowed`, `sent`. What a pass
writes besides is any number of `PassRecords`. `CannotWrite` is the process whose
first `record` raises: it ends with no entry made. The module is at once a model of
`journal.py` and the abstract specification of its use, which `DeskService`
implements with `pc` and the file as they are. A pass replays the file before
anything else (`signals_builder`), which is why a torn line stops it before it
manages anything.

### Capabilities and StartupGate

A tool is a name, the candidate strings that name contains, and those of the listed
verbs that it contains, so matching by parts is membership. What a tool does is not in
its name: one that mutates without a listed verb passes the write guard and would be
served, and no property here says otherwise. `ToolFor` is `discover_capabilities`: exact
names before parts, the first candidate before the first tool, mutating tools left out
before either. `ALPACA_TOOLSETS` filtering is a parameter no caller sets and is left
out.

A deployment says which of the things the gate looks for are there. `Gate` is the
vector of the twenty outcomes, in order; each is computed even when an earlier one
failed, as `_run` does. `BuildRaises` is what `build_desk` and the two lines after
it raise on, read again and independently. Checks that look at one thing and
nothing else depends on (the calendar, the database, the officer's self-test) are
facts of the deployment. The deployment does not change while the process starts;
a broker that answers says the same of the account each time.

### McpBridge

`thread` is the session's thread inside `_run` and `_serve`, one state per
assignment the other thread can see: `tools`, then `session`, then `ready`. `client`
is the desk's thread in `start` or `call_tool`. The server may die at any step;
the session's thread *may* notice (`ThreadFails`) and need not, a closed stream
being seen only by who reads it. What is not undone stays: `session` is set for
ever, also when the loop behind it is closed. `CallTimesOut` is always possible
while a call waits; that it comes is fairness.

### DeskService

`stage` is the place in `main` and, through it, in `run_once`: `connect`, `gate`,
`build`, `sleep`, `market`, `account`, `state`, `orders`, `record`, `manage`,
`close`, `closing`, `entry`, `candidates`, `rank`, `verdict`, `submit`, `sent`. Each
action is a conjunction of a step of `Journal`, a step of `McpBridge` where there
is one, and what the entry says (`says`, indexed as the entries of `Journal` are). A
call to the bridge is two steps at least, so the server, the other thread, the
broker and the end of the process come in between. `DiesWriting` tears whatever
entry the stage could be writing (`MayWrite`).

The market's reads and the positions are one call (bars, chain, spot; the positions are
asked for just after the replay, and their failure ends the pass the same way), the
account read another, the orders a third; within a group nothing is decided on an
earlier answer. `TakeProfit` stands for the three verdicts that close (TAKE_PROFIT,
FLATTEN, ROLL), `Defend` is the one that is only written down. A ticket is known by its
id, which is derived from its legs: `Tickets` are the structures the chain may offer,
and one that is proposed again has the id it had, and so the client order id. What tells
the passes apart is the number of their REGIME entry (`regime`, a history variable, and
the `at` of the entries), which the code does not have. A journal that cannot be written
is a fact of the deployment (`Writable`); there the gate halts and `record` raises
(`Unwritten`). One underlying and one expiry, one lot; orders do not expire here and the
broker refuses to close what is not held (`TradingDesk` has the rest of the broker); the
runs take ids as unique for ever (`ReusableIds`), the theorems hold for either. The
flags `--check` and `--once` and the keyboard interrupt are the end of a process like
any other. The `except` in `main` that journals a HALT after READY (`main.py:192-195`)
has no action: `ReadyBuilds`, checked and proved, says it is not reached by what
`build_desk` reads, and later calls raise inside a pass, which catches them.

### Dashboard

The module has no variables: every definition is what a request would answer in the
current state. `Window` is `tail`, as the places of lines: it is counted in lines, torn
ones included, which are then skipped. `Saying` picks the lines of an event, `LastOf`
and `FirstOf` what an endpoint shows of them. `Fills` is `events("FILL")` with the
first of each id, `InTime` the sort by time of filling (`Earlier`), `Settle` one step of
`_pair_fills`, a close against the oldest open, `Books` those steps in a row and
`Trades` the table.

### Drawdown

`Candidates` are the three values `high_water_mark` takes the maximum of. Equity
moves anywhere in `Equities` at any time; a `RECONCILE` entry and what comes of
it are separated by `ReconcileLost`.

### Structures and OrderRisk

A ticket has legs and claims; a market has the numbers the officer takes from
quotes, account, book and clock. `Allows` is `evaluate`: `NoReason` is the
conjunction of the fifteen checks, and a lot must be left. `Honest` gives a ticket
the claims `_build_ticket` would make of its legs. `LimitPrices` rounds to the
cent, a tie either way, as a binary float may. `Payoff` is the reference: what
the legs pay at expiry, the `Total` of what each pays by itself, computed without
looking at their shape. A case has a finite set of legs with whole-dollar strikes, and
the underlying settles at a whole dollar (`CasesAssumption`, `SettlementsAssumption`).
`Close` rebuilds legs from the broker's quantities as `rebuild_positions` does
(every ratio one, one number of lots for the group) and mirrors them.
An order's life ends, so these runs do not check for deadlock.

### Candidates

`Generate` is `generate_candidates` with the early return of a tripped breaker, `Rank`
any choice from the shortlist, which is all that is left of a model that may answer
anything; from there the ticket goes through `OrderRisk`. `Nearest` takes the lowest
strike of a tie because the code takes the first minimum of a sorted list. What the
builders try is a set of `Attempts`, an attempt being an expiry, a structure, a target
delta and a width, and `TriedBefore` is the order of their loops. A candidate is a
ticket with its attempt, what it keeps of its credit and its bucket. `Ahead` is the
stable sort: the better score, and of equal ones the earlier attempt. `Unique` drops a
candidate whose legs a candidate ahead of it has, `FirstOfBucket` is the best of each
delta and width, and `Foremost` takes the first three by `Place`. The broker lists a
contract once (`ChainsAssumption`). Tickets the desk builds enter the same officer as
the invented ones, so what `OrderRisk` promises is checked of them as well. The model
builds tickets only from quotes an even number of cents wide and deltas that do not
round at a tie, which a float may take either way; `PREFER_LONGEST_EXPIRY`, a constant
that is off, is left out.

## 3. Runs

Passing:

| run | instance | shows |
|---|---|---|
| `desk_faults` | two structures on one expiry, four days, two deaths, failing calls and lost answers, unique ids, a day's budget for one of the two | types; fills journalled once (`FillsNotInvented`, refinement of `FillLedger`) and, as long as lookups succeed again and again, in the end (`FillsReachTheJournal`); `NeverReversed`; `WorkingOrdersWereAllowed`; nothing but lost answers exceeds the budget; the inductive invariants of the proofs |
| `desk_reusable` | two two-leg structures on one expiry, three days, a death, ids free again after use, so that retries, second fills and reversed positions happen | every managed structure in the flatten zone has a closing order working after the pass managed it, unless one filled since the positions were read |
| `journal_torn` | eight entries, two deaths in any write | complete or raising replays, what was acted on |
| `drawdown` | four equities around the 5% limit, three days, a death | restarts hide no drawdown; yesterday's close counts |
| `service` | 26 deployments (all in order, or one thing missing or wrong), a server whose tools must be found by parts of names that tools which write share, and a server whose tools all have a listed verb; the same ticket proposed on every pass; eighteen entries, one fault up to entry fifteen: the server dies, an answer is late or an error, an order fails or its answer is lost, the process dies or dies writing | READY is enough; no order without READY; a start that returned has a session; waits end; `Journal` is implemented; the gate, the decision and the trades on the dashboard are true |
| `service_reentry` | one deployment in order, two structures, unique ids, twenty-six entries, no fault | an expiry is left and entered again: three fills, recorded late and out of order, are the round trip and the position they were (`TradesAreTrue`), and a lookup that finds nothing left to record has them all (`TripsAreShown`) |
| `order_risk` | 171 chains (every quote of a ladder missing, one-sided, wide, dear or without greek; sparse greeks; two expiries at every edge of the window; crossed ladders) and 6009 cases: every set of up to four legs over four strikes, both rights and both sides; ratios 0 to 3; wrong claims one at a time; every limit approached from both sides | losses within what was calculated and conceded; the charge covers the risk; claims do not help; closing leaves nothing; what the desk builds is believed, its shortlist is diverse and its first is the best |

Why the bounds are enough. Two structures on one expiry are the smallest desk with a
merged group. With 1% of the day's budget and 0.7% each, one of them fills it and two
exceed it, so every second order of a day tests it; both are on at once when the answer
of one was lost, or the process died before its SUBMIT. Two deaths allow a restart that
is itself interrupted; four days reach past the expiry with the flatten day before it.
`MaxQty` and `MaxFills` bind only with reusable ids. In `DeskService` eighteen entries
are two processes (`MaxExits` is 1) and, for one that does not die, two passes with a
close between them and a third entered: at most one round trip is journalled there. To
open, close and open again takes twenty-two, and twenty-six for a later lookup to find
all three fills recorded, which is what `service_reentry` is for (3.9 million states;
with a fault and a restart it is out of reach, and the theorems `TradesTable` and
`TripsGetThere` have both); a fault is useful only while the desk can still react to it,
hence `FaultsUntil`, and the server dies only while it is waited for because at another
time the next call is the first to tell. `GateWindow` of 9 and `DecisionWindow` of 8
lines are both shorter and longer than what is written between two STARTUPs or REGIMEs,
so that entries fall out of either. In `Journal` eight entries are two process lives and
a third. In `OrderRisk` the four strikes give wings of unequal width, and settlements
lie on, between and beyond them, where a payoff linear between strikes has its extremes.
`OrderRisk` allows two lots so that a claim per lot and a claim per order differ.

Disagreements between the program and what its documents say, each a run that
finds it:

| run | what happens |
|---|---|
| `desk_overlap` | check 6 looks at what is held; a second structure on an expiry is allowed while the first is a working order, and both fill |
| `desk_budget_timeout` | an order whose call timed out after the broker took it is charged to no budget |
| `journal_stuck` | after a torn write every pass raises before it manages anything |
| `drawdown_overnight` | a breaker that tripped against yesterday's close lets go the next day, equity no higher: that close was never journalled |
| `service_blind` | the MCP session is lost once; nothing reconnects and nothing ends the process, so that every later pass fails in the market reads and manages nothing |

Further disagreements and oddities seen while modelling, without a run:

- A pass that closes a structure goes on to consider an entry (`loop.py:411`)
  though `loop.py:94-95` says it does not.
- A spread and a condor on one expiry are one group of six legs, which no pass
  manages (`reconcile.py:266`); `README.md:153-154` says every open structure is
  re-evaluated. It takes the overlap of `desk_overlap` to get there.
- The cap is checked at mid and the limit then concedes 5%, so a position allowed
  at exactly the cap loses more (`candidates.py:58-60` says it is refused);
  `LossWithinConcession` says by how much.
- At a broker whose ids are free again, two two-leg structures on one expiry, two lots
  of one and one of the other, are one group of four legs; its close takes two lots off
  each and reverses the second. Closes of different size may then work against each
  other, and the reversed structure can be on again as it was read with no close
  working. `FlattenZoneCovered` therefore speaks of what no close filled for since the
  positions were read (`closedSince`), not of what is held as it was read: the latter
  is false, in 58 steps.
- At a broker whose ids are never free again a close that expired is refused when it is
  sent again, as its id is constant (`alpaca_cli.py:387`), and a structure in the
  flatten zone stays without one: `lifecycle.py:139` says "never carry to settlement".
  `FlattenZoneCovered` is false there, and is stated of ids that are free again.
- At a broker whose ids are free again, a structure that is opened a second time has the
  id of the first, and so has every close of an expiry: the second fill is passed over by
  `record_fills` as already recorded (`loop.py:240`), and the dashboard shows one trade
  where there were two, or a structure that was closed as open, though `api.py:402-409`
  promises as many round trips as happened. `TripsAreShown` is false there, and is
  stated of ids that are used once.
- `lifecycle.py:142` says DEFEND rolls or closes and the loop records it only.
- The entry after a torn write, the restarted process's STARTUP, is itself lost
  though its write returned.
- Only the picked candidate is evaluated (`loop.py:314`) and the ranker's fallback
  always picks the first, so while the best ticket's expiry is held every pass is
  denied for overlap though others of the shortlist would pass, which is what
  `candidates.py:74-79` turned the longest expiry off to avoid.
- `api_decision` shows the first SUBMIT after the last REGIME: after a DENY that is
  the close the next pass sent, shown as the denied ticket's submission until that
  pass writes its own REGIME (`api.py:294`). `DecisionIsOnePass` therefore speaks
  of opening orders.
- `tail` skips a torn line because "a torn final line must not break the dashboard"
  (`journal.py:138`); `/api/trades`, `/api/summary` and `/api/learning` use
  `events`, which raises on it (`journal.py:195`, `api.py:171`, `api.py:480`).
- Once the STARTUP is further back than `api_gate`'s 5000 lines, the endpoint runs
  a gate of its own, which has no session and so reports HALTED while the desk
  trades: what its comment says it was written to avoid (`api.py:98-102`).
  `GateViewIsDesks` has it as the case of no entry, labelled `api_process_only`.
- A structure that expired has no closing fill and stays open in the trades table;
  the close of a group of two structures settles only the older.
- A buying power that is not a number raises out of `account_snapshot`
  (`main.py:66`) and of `main`, before the gate is journalled; not modelled.
- When `start` times out the bridge is dropped without `stop`, and its thread and
  server live on beside the gate.
- Check 11 reads a manifest stored earlier, not the tools of the live session;
  check 12 reads those.

Fairness. `FillsReachTheJournal` assumes none and has a condition, `LookupsSucceed`:
open orders are read again and again. Nothing in the program sees to that: a session
that is gone stays gone while the process lives (`service_blind`), and a torn
line stops every pass of every later process (`journal_stuck`). What the property says
is that nothing else keeps a fill out of the journal. Deaths are bounded. `CallReturns`
assumes that the operating system runs both threads (`WF(ThreadStep)`,
`WF(StartReturns)`), that a server which is alive answers, that being what alive
means (`WF(Answered)`), and that waits end (`WF(TimesOut)`): `CONNECT_TIMEOUT` and
`CALL_TIMEOUT` are passed to `wait` and `result`. It does not assume that the
session's thread notices a dead server.

## 4. Proofs

Each theorem is for all constants that satisfy the named assumptions: any number of
tickets, expiries, days, deaths, entries, equities and cases.

- `TradingDesk_proofs`. `TypeCorrect`. `JournalInventsNoFill` rests on
  `RecordingInv`: what the journal has, what the process remembers and what it
  still has to record agree; without the third conjunct a listing read before a
  restart could be recorded twice. `ImplementsLedger` maps each step to a step of
  `FillLedger` or a stutter. `OrdersWereAllowed` rests on `AllowInv`: from the
  verdict to the order the session stays open, so the day's verdict is still the
  day's. `NothingReversed`, for unique ids, rests on `ClosedOnceInv`: a position
  that was read is on, or its one closing id is used up, or it has expired.
  `BudgetHoldsButForLost` and `BudgetHolds`, for unique ids, rest on `BudgetInv`:
  what the broker was asked for is charged or lost, but for the one order just
  sent, for which the officer left room. `FlattenZoneIsCovered`, for reusable ids and
  calls that do not fail, rests on `CoverInv`: it holds of every group the pass has
  already managed, while the pass manages the others. Both conditions are needed: a
  unique id whose close expired is not taken again, and a failed call sends nothing.
- `Journal_proofs`. `FileInv` is inductive with `TypeOK`: every corrupt line makes
  a replay raise, and only an unended last line can be run into. `LossIsSeen` is the
  action property `NothingLost`: the lines after a write are those before it with at
  most the last one run into, and that one makes the next replay raise.
- `Drawdown_proofs`. `MarkInv`: the highest equity any pass saw is in the journal.
  The step from marks to drawdowns is `HigherMarkBreached`: against a higher mark
  a drawdown is never smaller. `NoDrawdownIsNegative` is the module's type invariant.
- `McpBridge_proofs`. `StartIsEnough` rests on `BridgeInv`: the event is set only
  after tools and session, or with an error, and an error is never cleared.
- `DeskService_proofs`. `ImplementsJournal` maps each step to the step of `Journal`
  it contains, or to a stutter, with `Journal`'s own variables. With it, Journal's
  theorems are theorems of the process: `ServiceActsOnRecord`. `SessionIsThere` uses
  `BridgeInv` likewise. `ReadyIsFinal` is `GateIsEnough`, a fact about the gate
  and `build_desk` for any deployment, and that the tools the gate looks at are
  those of the session; `ChosenPasses`, that what is chosen passes the write
  guard, is what it needs of discovery. `OrdersNeedReady` carries along that
  since the process's READY nothing but a pass has been journalled (`ReadyInv`).
  `ServiceTypes` says also which of Journal's places each stage of `main` is at; its
  lemmas (`TypesOfStart` to `TypesOfFailing`) split the steps by the part of `main`
  they belong to and say of each which one entry, if any, it writes (`SaysOne`).
- `Dashboard_proofs` is about `ServiceSpec` as well. `GateOfThisProcess` is
  `GateIsDesks`: `ReadyInv` has the process's READY as the last STARTUP, `FileInv` the
  lines in the order of the entries. `DecisionOfOnePass` rests on `PassInv`: a line
  about a ticket stands behind the REGIME of its pass with no other REGIME between, an
  opening SUBMIT behind its ALLOW besides, and the pass under way is as far in the file
  as `main` is. `TradesTable` rests on `FillsInv` and `BrokerInv` (`FillsInvariant`): a
  FILL entry is of a fill the broker made, with its id and intent and each fill once,
  and the first fill is an open. From there `SortedAsFilled` says that the n-th fill in
  time is the broker's n-th, and `BooksByTurns` what the books are after n fills of
  which every other is a close. `TripsGetThere` adds `UniqueInv`: with ids used once, an
  id is of one fill or of one working order, so the entry a lookup finds under a fill's
  id is that fill's. What would be an induction is by the least counterexample
  (`LeastExists`).
- `OrderRisk_proofs`. `OrderTypes`. `ClaimsDoNotHelp`: whatever the officer allows it
  allows, in the same size, with the honest claims; the argument is that every check
  but 1, 2 and 15 reads legs and market only, and these three force the claims that
  matter to be the derived ones. `BudgetIsCharged`: check 15 ties the claim to the
  proposed lots, at least one, and the per-lot loss of an allowed ticket is positive.
  `ClosesAreComplete`: an allowed ticket has equal ratios, in lowest terms all one, so
  the lots read off one leg of the broker's position are those of all.
  `WorstCaseIsKnown`, for every settlement, has three parts: a spread and a condor of
  ratio one pay at worst the wider wing (`SpreadLosesWidth`, `CondorLosesWidth`, by
  `PayoffOfTwo` and `PayoffOfFour`); a limit asks for no less than the credit less the
  concession, to the cent (`LimitConcedes`); and an order fills at its limit or better
  (`PriceInv`). `Total` is a fold: that a set has one sum, and that taking a member out
  takes its value out, is `SolutionsAgree`, `SumIsSolution` and `SolutionExists`, by a
  smallest set on which it fails.
- `Candidates_proofs`. `BuilderIsBelieved`, `ShortlistSpreads` and `FallbackIsFirst` rest
  on `PassInv`: the shortlist is what `Diversify` makes of this chain's choice, and a
  ticket is one of it, held against the quotes it was built from. `ViableIsKnown` says
  what a viable candidate is: an allowed structure of quoted legs of one eligible expiry,
  whose claims `_build_ticket` derived as the officer does. `FractionsInOrder` makes the
  cross-multiplied scores an order, `AheadIsStrict` and `ShortlistIsStrict` the sort and
  the shortlist strict ones, and `PlacesInOrder` says that the places of a finite set in
  a strict order are one to its size, each once. `ShortlistOf` is what the three need of
  it. `OrdersOfAPass` says of a pass what `OrderRisk_proofs` says of invented cases: once
  `Rank` has proposed, the pass is an order of `OrderRisk` (`OrderInv`), so its five
  properties hold for every chain.

`RecordingInvariant`, `AllowInvariant`, `ClosedOnceInvariant`, `BudgetInvariant`,
`CoverInvariant`, `JournalTypes`, `FileInvariant`, `MarkInvariant`, `ReadyInvariant`,
`PassesInOrder` and `FillsInvariant` state inductive invariants by themselves, those up
to `MarkInvariant` as the runs check them.

Model-checked only is liveness: `CallReturns`, under fairness, and
`FillsReachTheJournal`, under its condition. Every other property that a passing run
checks is stated by a theorem.

## 5. Not modelled, and plan

Parsing of broker payloads, symbols and dates, formatting, logging, the floating
point indicators and the model behind the ranker are left out: a failing one is a
failed read, a denied ticket or an arbitrary pick. Days are calendar days of one
place; the code takes UTC dates. Of the dashboard, the learning buckets, the
summary's figures and the wording are left out. The manual close script is left
out: it shares nothing with the loop but the broker, and what keeps the two from
closing a structure twice is the broker's own check of `position_intent`, about
which the source says nothing. `first_equity`, `count` and `event_counts` serve the
dashboard only.

Next, in order:

1. Entry conditions (`api._entry_conditions`), which a re-entry overwrites, and the
   learning buckets against reference definitions.
2. Successive passes of `Candidates`: a held expiry at the head of the shortlist.
3. The 100-order window of `record_fills`.
