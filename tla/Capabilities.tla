----------------------------- MODULE Capabilities -----------------------------
(***************************************************************************)
(* alpaca_mcp.py: which of the tools a server lists serves each capability *)
(* the desk needs.                                                         *)
(*                                                                         *)
(* A tool is [name, words, verbs]: its name, and which of the candidate    *)
(* strings and of the listed verbs (WRITE_VERBS) that name contains.  What *)
(* a tool does is not in its name, and no part of it here.  A server's     *)
(* tools are a sequence.                                                   *)
(***************************************************************************)
EXTENDS Naturals, Sequences

CONSTANTS
    Capability,       \* what the desk needs (REQUIRED_CAPABILITIES)
    Candidates        \* capability |-> the strings to look for, in order

NoTool == [name |-> "none", words |-> {}, verbs |-> {}]

\* is_write_tool
IsWriteTool(t) == t.verbs # {}

ReadTools(ts) == {i \in DOMAIN ts : ~IsWriteTool(ts[i])}

\* Candidate p[1] of capability c is the whole name of tool p[2], or a part of it.
Exact(c, ts) ==
    {p \in (DOMAIN Candidates[c]) \X ReadTools(ts) : Candidates[c][p[1]] = ts[p[2]].name}

Partial(c, ts) ==
    {p \in (DOMAIN Candidates[c]) \X ReadTools(ts) : Candidates[c][p[1]] \in ts[p[2]].words}

\* The first candidate decides, then the first tool.
IsFirst(p, S) ==
    /\ p \in S
    /\ \A q \in S : p[1] < q[1] \/ (p[1] = q[1] /\ p[2] =< q[2])

\* discover_capabilities: an exact name is preferred to any part of one.
ToolFor(c, ts) ==
    LET found == IF Exact(c, ts) # {} THEN Exact(c, ts) ELSE Partial(c, ts)
    IN  IF \E p \in found : IsFirst(p, found)
        THEN ts[(CHOOSE p \in found : IsFirst(p, found))[2]]
        ELSE NoTool

Missing(ts) == {c \in Capability : ToolFor(c, ts) = NoTool}

\* AlpacaMCP.verify
Complete(ts) == Missing(ts) = {}
================================================================================
