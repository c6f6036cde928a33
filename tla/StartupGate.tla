------------------------------ MODULE StartupGate ------------------------------
(***************************************************************************)
(* startup.py and safety.py: the twenty checks that must pass before the   *)
(* desk trades, and what build_desk (main.py) then takes for granted.      *)
(*                                                                         *)
(* A deployment is                                                         *)
(*   mode, dev, judge   MODE and the two configured account ids            *)
(*   host               ALPACA_TRADING_HOST: NoHost, Paper or another one  *)
(*   account            what the broker says of the account: [id, level3,  *)
(*                      power], the last two being checks 8 and 9          *)
(*   facts              everything else that is in place                   *)
(***************************************************************************)
EXTENDS Capabilities

Modes == {"development", "judging"}
NoId == "no id"
NoHost == "no host"
Paper == "paper"

\* What the account read through the bridge says when it could not be read.
NoAccount == [id |-> NoId, level3 |-> FALSE, power |-> FALSE]

Facts == {"mcp paper", "mcp command", "python", "config", "no live flags", "keys",
          "manifest", "cli", "reference", "authenticated", "calendar", "database",
          "journal writable", "officer", "occ"}

--------------------------------------------------------------------------------
(* safety.py                                                                  *)

Allowed(d) == IF d.mode = "development" THEN d.dev ELSE d.judge
Other(d) == IF d.mode = "development" THEN d.judge ELSE d.dev

\* ExecutionMode.from_env
ModeOk(d) ==
    /\ d.mode \in Modes
    /\ Allowed(d) # NoId
    /\ Other(d) # Allowed(d)

\* ExecutionMode.assert_account
AccountOk(d, id) == id # NoId /\ id = Allowed(d)

\* assert_paper_host
PaperHost(d) == d.host = Paper

--------------------------------------------------------------------------------
(* startup.py                                                                 *)

CliOk(d) == {"cli", "reference"} \subseteq d.facts

\* Mutant: check 3 is left out.
GateHostUnchecked(d, connected, account, ts) == <<
    "python" \in d.facts, "config" \in d.facts, TRUE, "no live flags" \in d.facts,
    d.mode # "unset" /\ "keys" \in d.facts,
    ModeOk(d), account # NoAccount /\ ModeOk(d) /\ AccountOk(d, account.id),
    account.level3, account.power, connected, "manifest" \in d.facts,
    connected /\ Complete(ts), CliOk(d), {"cli", "authenticated"} \subseteq d.facts,
    CliOk(d), "calendar" \in d.facts, "database" \in d.facts,
    "journal writable" \in d.facts, "officer" \in d.facts, "occ" \in d.facts >>

\* run_gate: the outcome of each check, given whether the session is connected,
\* the account that was read through it and the tools it lists.
Gate(d, connected, account, ts) == <<
    "python" \in d.facts,
    "config" \in d.facts,
    PaperHost(d),
    "no live flags" \in d.facts,
    d.mode # "unset" /\ "keys" \in d.facts /\ d.host # NoHost,
    ModeOk(d),
    account # NoAccount /\ ModeOk(d) /\ AccountOk(d, account.id),
    account.level3,
    account.power,
    connected,
    "manifest" \in d.facts,
    connected /\ Complete(ts),
    CliOk(d),                                           \* verify_cli
    {"cli", "authenticated"} \subseteq d.facts,         \* asks the live binary
    CliOk(d),
    "calendar" \in d.facts,
    "database" \in d.facts,
    "journal writable" \in d.facts,
    "officer" \in d.facts,
    "occ" \in d.facts >>

Ready(d, connected, account, ts) ==
    \A n \in 1..20 : Gate(d, connected, account, ts)[n]

--------------------------------------------------------------------------------
(* main.py                                                                    *)

\* build_desk and the lines after it read everything again and raise at the first
\* thing that is not there.
BuildRaises(d, connected, ts) ==
    \/ "config" \notin d.facts
    \/ ~ModeOk(d)
    \/ ~connected \/ ~Complete(ts)
    \/ d.host = NoHost
    \/ "reference" \notin d.facts

\* _guard_write (alpaca_cli.py), before every broker write.
GuardOk(d, id) == PaperHost(d) /\ AccountOk(d, id)

--------------------------------------------------------------------------------
\* A gate that is READY leaves build_desk nothing to fail on, and the desk's
\* writes are for the account of its own mode and never for that of the other
\* (startup.py:3-5, safety.py:69-73).
ReadyIsEnough(d, connected, account, ts) ==
    Ready(d, connected, account, ts) =>
        /\ ~BuildRaises(d, connected, ts)
        /\ GuardOk(d, account.id)
        /\ account.id # Other(d)
================================================================================
