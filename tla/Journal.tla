-------------------------------- MODULE Journal --------------------------------
(***************************************************************************)
(* journal.py under a process that may die in the middle of a write, with  *)
(* as much of main.py and loop.py as says when the file is read and when   *)
(* an entry is acted on.                                                   *)
(*                                                                         *)
(* An entry is its number in the order of the record() calls; what it says *)
(* does not matter here.  A line of the file holds one whole entry, or is  *)
(* no JSON document at all: the fragment of one, or two run together.      *)
(***************************************************************************)
EXTENDS Integers, Sequences

CONSTANTS
    MaxEntries,       \* bound on record() calls
    MaxExits          \* bound on processes that died or gave up

ASSUME JournalAssumption == MaxEntries \in Nat /\ MaxExits \in Nat

Corrupt == 0          \* a line json.loads refuses

VARIABLES
    lines,            \* the file
    unended,          \* does its last line lack the newline?
    next,             \* number of the next entry
    returned,         \* entries whose record() call returned
    pc,               \* "off", "starting", "idle", and in a pass "read" (the journal
                      \* is replayed), "allowed", "sent" (a broker command)
    verdict,          \* the ALLOW of this pass
    acted,            \* ALLOWs a broker command was sent for
    lastPass,         \* how this process's last pass ended
    exits

file == <<lines, unended, next>>
vars == <<file, returned, pc, verdict, acted, lastPass, exits>>

NoVerdict == 0

--------------------------------------------------------------------------------
(* The file.                                                                  *)

\* Mutant: returns before the entry has left the process.
RecordUnflushed ==
    /\ next =< MaxEntries
    /\ returned' = returned \cup {next}
    /\ UNCHANGED file

\* record(): the entry and its newline go to the end of the file, whatever is
\* there.  After a torn write that is the middle of a line.
Record ==
    /\ next =< MaxEntries
    /\ lines' = IF unended THEN [lines EXCEPT ![Len(lines)] = Corrupt]
                ELSE Append(lines, next)
    /\ unended' = FALSE
    /\ next' = next + 1
    /\ returned' = returned \cup {next}

\* The process dies inside record(): some of the line reached the disk.
RecordTorn ==
    /\ next =< MaxEntries
    /\ next' = next + 1
    /\ UNCHANGED returned
    /\ \/ /\ unended
          /\ lines' = [lines EXCEPT ![Len(lines)] = Corrupt]
          /\ unended' \in BOOLEAN
       \/ /\ ~unended                              \* a part of the entry
          /\ lines' = Append(lines, Corrupt)
          /\ unended' = TRUE
       \/ /\ ~unended                              \* all of it, with or without the newline
          /\ lines' = Append(lines, next)
          /\ unended' \in BOOLEAN

\* Mutant: a line that does not parse is skipped, as tail() does.
ReadRaisesNever == FALSE

\* read() raises JournalError at the first line that does not parse.
ReadRaises == \E i \in 1..Len(lines) : lines[i] = Corrupt

\* The entries a reader that skips such lines finds (tail).
Readable == {lines[i] : i \in 1..Len(lines)} \ {Corrupt}

--------------------------------------------------------------------------------
(* The process.                                                               *)

\* systemd starts main().
Launch ==
    /\ pc = "off" /\ exits =< MaxExits
    /\ pc' = "starting"
    /\ UNCHANGED <<file, returned, verdict, acted, lastPass, exits>>

\* main(): the MCP server is not there; the gate is run and journalled all the same.
RecordHalt ==
    /\ pc = "starting"
    /\ Record
    /\ UNCHANGED <<pc, verdict, acted, lastPass, exits>>

\* Mutant: the gate's outcome is not journalled.
StartUnrecorded ==
    /\ pc = "starting"
    /\ pc' = "idle"
    /\ lastPass' = "none"
    /\ UNCHANGED <<file, returned, verdict, acted, exits>>

\* main(): the gate's outcome is journalled before the first pass.
Start ==
    /\ pc = "starting"
    /\ Record
    /\ pc' = "idle"
    /\ lastPass' = "none"
    /\ UNCHANGED <<verdict, acted, exits>>

\* It is HALTED: the process ends.
GiveUp ==
    /\ pc = "starting"
    /\ Record
    /\ pc' = "off"
    /\ exits' = exits + 1
    /\ UNCHANGED <<verdict, acted, lastPass>>

\* Nor can the outcome be written: record() raises, and nothing in main() catches it.
CannotWrite ==
    /\ pc = "starting"
    /\ pc' = "off"
    /\ exits' = exits + 1
    /\ UNCHANGED <<file, returned, verdict, acted, lastPass>>

\* build_signals replays the journal before anything else is decided on a pass.
ReadJournal ==
    /\ pc = "idle" /\ ~ReadRaises
    /\ pc' = "read"
    /\ UNCHANGED <<file, returned, verdict, acted, lastPass, exits>>

\* If it raises, main() journals an ERROR and sleeps until the next pass.
PassFails ==
    /\ pc = "idle" /\ ReadRaises
    /\ Record
    /\ lastPass' = "failed"
    /\ UNCHANGED <<pc, verdict, acted, exits>>

\* A read of the market (main) or of the account (run_once) raises: an ERROR, and
\* the pass ends before any position is looked at.
PassBlind ==
    /\ pc \in {"idle", "read"}
    /\ Record
    /\ pc' = "idle"
    /\ lastPass' = "blind"
    /\ UNCHANGED <<verdict, acted, exits>>

\* An entry of the pass after which it goes on.
PassRecords ==
    /\ pc = "read"
    /\ Record
    /\ UNCHANGED <<pc, verdict, acted, lastPass, exits>>

\* The last entry of a pass that manages the open positions and opens nothing.
PassManages ==
    /\ pc = "read"
    /\ Record
    /\ pc' = "idle"
    /\ lastPass' = "managed"
    /\ UNCHANGED <<verdict, acted, exits>>

\* The pass manages the open positions and then allows a ticket.
RecordAllow ==
    /\ pc = "read"
    /\ Record
    /\ pc' = "allowed"
    /\ verdict' = next
    /\ UNCHANGED <<acted, lastPass, exits>>

\* No command is built, or it does not pass the dry run: an ERROR.
Blocked ==
    /\ pc = "allowed"
    /\ Record
    /\ verdict' = NoVerdict
    /\ pc' = "idle"
    /\ lastPass' = "managed"
    /\ UNCHANGED <<acted, exits>>

\* The broker command that ALLOW permits.
Send ==
    /\ pc = "allowed"
    /\ acted' = acted \cup {verdict}
    /\ pc' = "sent"
    /\ UNCHANGED <<file, returned, verdict, lastPass, exits>>

\* Its SUBMIT entry, or the ERROR if it raised.
RecordSubmit ==
    /\ pc = "sent"
    /\ Record
    /\ verdict' = NoVerdict
    /\ pc' = "idle"
    /\ lastPass' = "managed"
    /\ UNCHANGED <<acted, exits>>

Die ==
    /\ pc # "off" /\ exits < MaxExits
    /\ exits' = exits + 1
    /\ pc' = "off"
    /\ verdict' = NoVerdict
    /\ UNCHANGED <<acted, lastPass>>

Crash == Die /\ UNCHANGED <<file, returned>>

\* The process may die in any write.
CrashWriting == Die /\ RecordTorn

\* The bounds: nothing is written, or started, any more.
AtBound ==
    /\ next > MaxEntries \/ (pc = "off" /\ exits > MaxExits)
    /\ UNCHANGED vars

Init ==
    /\ lines = <<>> /\ unended = FALSE /\ next = 1 /\ returned = {}
    /\ pc = "off" /\ verdict = NoVerdict /\ acted = {} /\ lastPass = "none"
    /\ exits = 0

Next ==
    \/ Launch \/ RecordHalt \/ Start \/ GiveUp \/ CannotWrite
    \/ ReadJournal \/ PassFails \/ PassBlind \/ PassRecords \/ PassManages
    \/ RecordAllow \/ Blocked \/ Send \/ RecordSubmit
    \/ Crash \/ CrashWriting \/ AtBound

Spec == Init /\ [][Next]_vars

--------------------------------------------------------------------------------
(* Properties.                                                                *)

\* Every variable has its type.
TypeOK ==
    /\ lines \in Seq(Nat) /\ unended \in BOOLEAN
    /\ next \in Nat \ {0} /\ returned \subseteq 1..(next - 1)
    /\ pc \in {"off", "starting", "idle", "read", "allowed", "sent"}
    /\ verdict \in Nat /\ acted \subseteq Nat
    /\ lastPass \in {"none", "failed", "blind", "managed"} /\ exits \in Nat

\* A pass never works from a journal that has lost an entry: either the replay
\* raises or it yields every entry whose record() returned (Journal.read; the
\* budget, the high-water mark and the fill deduplication are sums over it).
ReadIsComplete == pc \in {"read", "allowed", "sent"} => returned \subseteq Readable

\* The readable entries stand in the order they were written (a part of FileInv).
InOrder ==
    \A i, j \in 1..Len(lines) :
        i < j /\ lines[i] # Corrupt /\ lines[j] # Corrupt => lines[i] < lines[j]

\* An ALLOW that a broker command was sent for stays readable for ever, whatever
\* is torn or run together after it (journal.py:3-5).
ActedIsReadable == acted \subseteq Readable

\* What ReadIsComplete and ActedIsReadable rest on.
FileInv ==
    /\ unended => Len(lines) > 0
    /\ pc \notin {"off", "starting"} => ~unended
    /\ \A i \in 1..Len(lines) : lines[i] < next
    /\ returned \subseteq Readable \/ ReadRaises
    /\ pc \in {"read", "allowed", "sent"} => ~ReadRaises
    /\ InOrder
    /\ pc \in {"allowed", "sent"} =>
          \E i \in 1..Len(lines) : lines[i] = verdict /\ verdict # Corrupt
    /\ \A e \in acted : e # Corrupt /\
          \E i \in 1..Len(lines) : lines[i] = e /\ (unended => i < Len(lines))

--------------------------------------------------------------------------------
(* What the documents say of the program and the program does not do.         *)

\* main.py:157-158: after a pass that failed, positions are managed on the next.
NextPassManages == [][lastPass = "failed" => ~PassFails]_vars
================================================================================
