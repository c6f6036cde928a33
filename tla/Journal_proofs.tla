----------------------------- MODULE Journal_proofs -----------------------------
(***************************************************************************)
(* That a replay which returns is complete, and that what was acted on     *)
(* stays readable, for any number of entries and of processes.             *)
(***************************************************************************)
EXTENDS Journal, TLAPS

\* The part of FileInv that is about the file alone.
FileOrder ==
    /\ \A i \in 1..Len(lines) : lines[i] < next
    /\ InOrder

\* A line added to the end leaves every other line where it is.
LEMMA Appended ==
    ASSUME TypeOK, NEW x \in {Corrupt, next}, lines' = Append(lines, x)
    PROVE  /\ lines' \in Seq(Nat)
           /\ Len(lines') = Len(lines) + 1
           /\ Len(lines) \in Nat
           /\ lines'[Len(lines) + 1] = x
           /\ \A i \in 1..Len(lines) : lines'[i] = lines[i]
  BY DEF TypeOK, Corrupt

\* An entry run into an unended line spoils that line and no other.
LEMMA RunTogether ==
    ASSUME TypeOK, Len(lines) > 0, lines' = [lines EXCEPT ![Len(lines)] = Corrupt]
    PROVE  /\ lines' \in Seq(Nat)
           /\ Len(lines') = Len(lines)
           /\ Len(lines) \in Nat
           /\ lines'[Len(lines)] = Corrupt
           /\ \A i \in 1..(Len(lines) - 1) : lines'[i] = lines[i]
           /\ ReadRaises'
<1>1. Len(lines) \in 1..Len(lines)
  BY DEF TypeOK
<1> QED  BY <1>1 DEF TypeOK, Corrupt, ReadRaises

\* Appending the next entry, or a fragment of it, keeps the file in order.
LEMMA AppendKeepsOrder ==
    ASSUME TypeOK, FileInv, NEW x \in {Corrupt, next},
           lines' = Append(lines, x), next' = next + 1
    PROVE  FileOrder'
<1>1. next \in Nat /\ Corrupt < next
  BY DEF TypeOK, Corrupt
<1>2. \A i \in 1..Len(lines') : lines'[i] < next'
  BY <1>1, Appended DEF TypeOK, FileInv
<1>3. ASSUME NEW i \in 1..Len(lines'), NEW j \in 1..Len(lines'),
             i < j, lines'[i] # Corrupt, lines'[j] # Corrupt
      PROVE  lines'[i] < lines'[j]
  <2>1. i \in 1..Len(lines) /\ lines'[i] = lines[i]
    BY <1>3, Appended
  <2>2. CASE j = Len(lines) + 1
    BY <1>3, <2>1, <2>2, Appended DEF FileInv
  <2>3. CASE j \in 1..Len(lines)
    BY <1>3, <2>1, <2>3, Appended DEF FileInv, InOrder
  <2> QED  BY <2>2, <2>3, Appended
<1> QED  BY <1>2, <1>3 DEF FileOrder, InOrder

\* So does running it into an unended line.
LEMMA RunTogetherKeepsOrder ==
    ASSUME TypeOK, FileInv, Len(lines) > 0,
           lines' = [lines EXCEPT ![Len(lines)] = Corrupt], next' = next + 1
    PROVE  FileOrder'
<1>0. /\ Len(lines') = Len(lines) /\ Len(lines) \in Nat
      /\ lines'[Len(lines)] = Corrupt
      /\ \A i \in 1..(Len(lines) - 1) : lines'[i] = lines[i]
  BY RunTogether
<1> DEFINE n == Len(lines)
<1>n. n \in Nat
  BY <1>0
<1> HIDE DEF n
<1>1. next \in Nat /\ Corrupt < next
  BY DEF TypeOK, Corrupt
<1>2. ASSUME NEW i \in 1..Len(lines') PROVE lines'[i] < next'
  <2>1. CASE i = Len(lines)
    BY <1>1, <2>1, RunTogether
  <2>2. CASE i \in 1..(Len(lines) - 1)
    <3>1. lines'[i] = lines[i] /\ lines[i] < next /\ lines[i] \in Nat
      BY <2>2, RunTogether DEF FileInv, TypeOK
    <3> QED  BY <1>1, <3>1
  <2>3. i \in 1..n
    BY <1>0 DEF n
  <2>4. i = n \/ i \in 1..(n - 1)
    BY <1>n, <2>3
  <2> QED  BY <2>1, <2>2, <2>4 DEF n
<1>3. ASSUME NEW i \in 1..Len(lines'), NEW j \in 1..Len(lines'),
             i < j, lines'[i] # Corrupt, lines'[j] # Corrupt
      PROVE  lines'[i] < lines'[j]
  <2>1. i \in 1..n /\ j \in 1..n /\ j # n
    BY <1>0, <1>3 DEF n
  <2>2. i \in 1..(n - 1) /\ j \in 1..(n - 1)
    BY <1>n, <1>3, <2>1
  <2> QED  BY <1>0, <1>3, <2>1, <2>2 DEF FileInv, InOrder, n
<1> QED  BY <1>2, <1>3 DEF FileOrder, InOrder

\* What one whole record() call does to the types.
LEMMA RecordTypes ==
    ASSUME TypeOK, FileInv, Record
    PROVE  /\ lines' \in Seq(Nat) /\ unended' = FALSE
           /\ next' \in Nat \ {0} /\ returned' \subseteq 1..(next' - 1)
<1>1. CASE unended
  BY <1>1, RunTogether DEF Record, TypeOK, FileInv
<1>2. CASE ~unended
  BY <1>2, Appended DEF Record, TypeOK
<1> QED  BY <1>1, <1>2

\* What it does to the file: in order, complete or unreadable, and no line that
\* was acted on is touched.
LEMMA RecordFile ==
    ASSUME TypeOK, FileInv, Record
    PROVE  /\ FileOrder'
           /\ returned' \subseteq Readable' \/ ReadRaises'
           /\ \A e \in acted : \E i \in 1..Len(lines') : lines'[i] = e
<1>1. CASE unended
  <2>1. Len(lines) > 0 /\ lines' = [lines EXCEPT ![Len(lines)] = Corrupt]
                       /\ next' = next + 1
    BY <1>1 DEF Record, FileInv
  <2>2. ASSUME NEW e \in acted PROVE \E i \in 1..Len(lines') : lines'[i] = e
    <3>1. PICK i \in 1..Len(lines) : lines[i] = e /\ i < Len(lines)
      BY <1>1 DEF FileInv
    <3>2. /\ Len(lines') = Len(lines) /\ Len(lines) \in Nat
          /\ \A k \in 1..(Len(lines) - 1) : lines'[k] = lines[k]
      BY <2>1, RunTogether
    <3>3. i \in 1..Len(lines') /\ lines'[i] = e
      BY <3>1, <3>2
    <3> QED  BY <3>3
  <2> QED  BY <2>1, <2>2, RunTogether, RunTogetherKeepsOrder
<1>2. CASE ~unended
  <2>1. lines' = Append(lines, next) /\ next' = next + 1
    BY <1>2 DEF Record
  <2>2. next # Corrupt /\ Len(lines) + 1 \in 1..Len(lines')
    BY <2>1, Appended DEF TypeOK, Corrupt
  <2>3. next \in Readable' /\ Readable \subseteq Readable'
    BY <2>1, <2>2, Appended DEF Readable
  <2>4. ReadRaises => ReadRaises'
    BY <2>1, Appended DEF ReadRaises
  <2>5. \A e \in acted : \E i \in 1..Len(lines') : lines'[i] = e
    BY <2>1, Appended DEF FileInv
  <2> QED  BY <2>1, <2>3, <2>4, <2>5, AppendKeepsOrder DEF Record, FileInv
<1> QED  BY <1>1, <1>2

\* While the process runs the file ends with a newline, and record() adds one
\* readable line to it.
LEMMA RecordWhileRunning ==
    ASSUME TypeOK, FileInv, Record, pc \notin {"off", "starting"}
    PROVE  /\ ReadRaises' <=> ReadRaises
           /\ \E i \in 1..Len(lines') : lines'[i] = next /\ next # Corrupt
           /\ \A v : (\E i \in 1..Len(lines) : lines[i] = v)
                  => \E i \in 1..Len(lines') : lines'[i] = v
<1>1. lines' = Append(lines, next)
  BY DEF Record, FileInv
<1>2. next # Corrupt /\ Len(lines) + 1 \in 1..Len(lines')
  BY <1>1, Appended DEF TypeOK, Corrupt
<1>3. ReadRaises' <=> ReadRaises
  BY <1>1, <1>2, Appended DEF ReadRaises
<1> QED  BY <1>1, <1>2, <1>3, Appended

\* A write torn by the death of the process.
LEMMA TornWrite ==
    ASSUME TypeOK, FileInv, RecordTorn
    PROVE  /\ lines' \in Seq(Nat) /\ unended' \in BOOLEAN
           /\ next' \in Nat \ {0} /\ returned' \subseteq 1..(next' - 1)
           /\ FileOrder'
           /\ returned' \subseteq Readable' \/ ReadRaises'
           /\ Len(lines') > 0
           /\ \A e \in acted : \E i \in 1..Len(lines') : lines'[i] = e /\ i < Len(lines')
<1>1. unended' \in BOOLEAN /\ next' = next + 1 /\ returned' = returned
  BY DEF RecordTorn
<1>2. next' \in Nat \ {0} /\ returned' \subseteq 1..(next' - 1)
  BY <1>1 DEF TypeOK
<1>3. CASE unended
  <2>1. Len(lines) > 0 /\ lines' = [lines EXCEPT ![Len(lines)] = Corrupt]
    BY <1>3 DEF RecordTorn, FileInv
  <2>2. ASSUME NEW e \in acted
        PROVE  \E i \in 1..Len(lines') : lines'[i] = e /\ i < Len(lines')
    <3>1. PICK i \in 1..Len(lines) : lines[i] = e /\ i < Len(lines)
      BY <1>3 DEF FileInv
    <3>2. /\ Len(lines') = Len(lines) /\ Len(lines) \in Nat
          /\ \A k \in 1..(Len(lines) - 1) : lines'[k] = lines[k]
      BY <2>1, RunTogether
    <3>3. i \in 1..Len(lines') /\ lines'[i] = e /\ i < Len(lines')
      BY <3>1, <3>2
    <3> QED  BY <3>3
  <2> QED  BY <1>1, <1>2, <2>1, <2>2, RunTogether, RunTogetherKeepsOrder
<1>4. CASE ~unended
  <2>1. PICK x \in {Corrupt, next} : lines' = Append(lines, x)
    BY <1>4 DEF RecordTorn
  <2>2. Readable \subseteq Readable' /\ (ReadRaises => ReadRaises')
    BY <2>1, Appended DEF Readable, ReadRaises
  <2>3. \A e \in acted : \E i \in 1..Len(lines') : lines'[i] = e /\ i < Len(lines')
    BY <2>1, Appended DEF FileInv
  <2>4. lines' \in Seq(Nat) /\ Len(lines') > 0
    BY <2>1, Appended
  <2>5. FileOrder'
    BY <1>1, <2>1, AppendKeepsOrder
  <2> QED  BY <1>1, <1>2, <2>2, <2>3, <2>4, <2>5 DEF FileInv
<1> QED  BY <1>3, <1>4

\* An empty file is in order.
LEMMA InitialFile == Init => TypeOK /\ FileInv
<1> SUFFICES ASSUME Init PROVE TypeOK /\ FileInv
  OBVIOUS
<1>1. lines \in Seq(Nat) /\ Len(lines) = 0
  BY DEF Init
<1>2. TypeOK
  <2>1. lines \in Seq(Nat)
    BY <1>1
  <2>2. next = 1 /\ returned = {} /\ acted = {} /\ verdict = 0
    BY DEF Init, NoVerdict
  <2>3. /\ returned \subseteq 1..(next - 1) /\ acted \subseteq Nat
        /\ next \in Nat \ {0} /\ verdict \in Nat
    BY <2>2
  <2>4. /\ unended \in BOOLEAN /\ exits \in Nat
        /\ pc \in {"off", "starting", "idle", "read", "allowed", "sent"}
        /\ lastPass \in {"none", "failed", "blind", "managed"}
    BY DEF Init
  <2> QED  BY <2>1, <2>3, <2>4 DEF TypeOK
<1>3. FileInv
  BY <1>1 DEF Init, FileInv, InOrder, ReadRaises
<1> QED  BY <1>2, <1>3

\* Every step keeps the types and the file.
LEMMA StepFile == TypeOK /\ FileInv /\ [Next]_vars => TypeOK' /\ FileInv'
<1> SUFFICES ASSUME TypeOK, FileInv, [Next]_vars PROVE TypeOK' /\ FileInv'
  OBVIOUS
<1>1. CASE Launch
  BY <1>1 DEF Launch, file, TypeOK, FileInv, InOrder, ReadRaises, Readable
<1>2. CASE RecordHalt
  <2>1. TypeOK'
    BY <1>2, RecordTypes DEF RecordHalt, TypeOK
  <2>2. FileInv'
    BY <1>2, RecordTypes, RecordFile DEF RecordHalt, FileInv, FileOrder
  <2> QED  BY <2>1, <2>2
<1>3. CASE Start
  <2>1. TypeOK'
    BY <1>3, RecordTypes DEF Start, TypeOK
  <2>2. FileInv'
    BY <1>3, RecordTypes, RecordFile DEF Start, FileInv, FileOrder
  <2> QED  BY <2>1, <2>2
<1>4. CASE GiveUp
  <2>0. exits' \in Nat
    BY <1>4 DEF GiveUp, TypeOK
  <2>1. TypeOK'
    BY <1>4, <2>0, RecordTypes DEF GiveUp, TypeOK
  <2>2. FileInv'
    BY <1>4, RecordTypes, RecordFile DEF GiveUp, FileInv, FileOrder
  <2> QED  BY <2>1, <2>2
<1>17. CASE CannotWrite
  BY <1>17 DEF CannotWrite, file, TypeOK, FileInv, InOrder, ReadRaises, Readable
<1>5. CASE ReadJournal
  BY <1>5 DEF ReadJournal, file, TypeOK, FileInv, InOrder, ReadRaises, Readable
<1>6. CASE PassFails
  <2>1. TypeOK'
    BY <1>6, RecordTypes DEF PassFails, TypeOK
  <2>2. FileInv'
    BY <1>6, RecordTypes, RecordFile DEF PassFails, FileInv, FileOrder
  <2> QED  BY <2>1, <2>2
<1>7. CASE PassBlind
  <2>1. TypeOK'
    BY <1>7, RecordTypes DEF PassBlind, TypeOK
  <2>2. FileInv'
    BY <1>7, RecordTypes, RecordFile DEF PassBlind, FileInv, FileOrder
  <2> QED  BY <2>1, <2>2
<1>8. CASE PassRecords
  <2>1. TypeOK'
    BY <1>8, RecordTypes DEF PassRecords, TypeOK
  <2>2. ~ReadRaises'
    BY <1>8, RecordWhileRunning DEF PassRecords, FileInv
  <2>3. FileInv'
    BY <1>8, <2>2, RecordTypes, RecordFile DEF PassRecords, FileInv, FileOrder
  <2> QED  BY <2>1, <2>3
<1>9. CASE PassManages
  <2>1. TypeOK'
    BY <1>9, RecordTypes DEF PassManages, TypeOK
  <2>2. FileInv'
    BY <1>9, RecordTypes, RecordFile DEF PassManages, FileInv, FileOrder
  <2> QED  BY <2>1, <2>2
<1>10. CASE RecordAllow
  <2>1. TypeOK'
    BY <1>10, RecordTypes DEF RecordAllow, TypeOK
  <2>2. ~ReadRaises' /\ \E i \in 1..Len(lines') : lines'[i] = verdict' /\ verdict' # Corrupt
    BY <1>10, RecordWhileRunning DEF RecordAllow, FileInv
  <2>3. FileInv'
    BY <1>10, <2>2, RecordTypes, RecordFile DEF RecordAllow, FileInv, FileOrder
  <2> QED  BY <2>1, <2>3
<1>11. CASE Blocked
  <2>1. TypeOK'
    BY <1>11, RecordTypes DEF Blocked, TypeOK, NoVerdict
  <2>2. FileInv'
    BY <1>11, RecordTypes, RecordFile DEF Blocked, FileInv, FileOrder
  <2> QED  BY <2>1, <2>2
<1>12. CASE Send
  <2>1. TypeOK'
    BY <1>12 DEF Send, file, TypeOK
  <2>2. FileInv'
    BY <1>12 DEF Send, file, FileInv, InOrder, ReadRaises, Readable
  <2> QED  BY <2>1, <2>2
<1>13. CASE RecordSubmit
  <2>1. TypeOK'
    BY <1>13, RecordTypes DEF RecordSubmit, TypeOK, NoVerdict
  <2>2. FileInv'
    BY <1>13, RecordTypes, RecordFile DEF RecordSubmit, FileInv, FileOrder
  <2> QED  BY <2>1, <2>2
<1>14. CASE Crash
  <2>1. TypeOK'
    BY <1>14 DEF Crash, Die, file, NoVerdict, TypeOK
  <2>2. FileInv'
    BY <1>14 DEF Crash, Die, file, FileInv, InOrder, ReadRaises, Readable
  <2> QED  BY <2>1, <2>2
<1>15. CASE CrashWriting
  <2>1. pc # "off" /\ RecordTorn /\ pc' = "off" /\ acted' = acted
    BY <1>15 DEF CrashWriting, Die
  <2>2. TypeOK'
    BY <1>15, <2>1, TornWrite DEF CrashWriting, Die, NoVerdict, TypeOK
  <2>3. \A e \in acted' : e # Corrupt /\
            \E i \in 1..Len(lines') : lines'[i] = e /\ (unended' => i < Len(lines'))
    BY <2>1, TornWrite DEF FileInv
  <2> QED  BY <2>1, <2>2, <2>3, TornWrite DEF FileInv, FileOrder
<1>16. CASE AtBound \/ UNCHANGED vars
  <2>1. TypeOK'
    BY <1>16 DEF AtBound, vars, file, TypeOK
  <2>2. FileInv'
    BY <1>16 DEF AtBound, vars, file, FileInv, InOrder, ReadRaises, Readable
  <2> QED  BY <2>1, <2>2
<1> QED
  BY <1>1, <1>2, <1>3, <1>4, <1>5, <1>6, <1>7, <1>8, <1>9, <1>10, <1>11, <1>12,
     <1>13, <1>14, <1>15, <1>16, <1>17 DEF Next

\* Every variable keeps its type (journal.py, main.py and loop.py as far as they
\* write and read the journal).
THEOREM JournalTypes == Spec => []TypeOK
  BY InitialFile, StepFile, PTL DEF Spec

\* Types and file hold in every reachable state: the journal is append-only and
\* in order whatever is torn (Journal.record).
THEOREM FileInvariant == Spec => []FileInv
  BY InitialFile, StepFile, PTL DEF Spec

\* A pass that gets a replay gets every entry whose record() returned: the
\* budget, the peak and the recorded fills are never sums over a part of the
\* journal (Journal.read).
THEOREM ReplaysAreComplete == Spec => []ReadIsComplete
<1>1. FileInv => ReadIsComplete
  BY DEF FileInv, ReadIsComplete
<1> QED  BY <1>1, FileInvariant, PTL

\* The ALLOW of every broker command ever sent can be read back, whatever later
\* writes are torn or run together.
THEOREM ActedStaysReadable == Spec => []ActedIsReadable
<1>1. FileInv => ActedIsReadable
  BY DEF FileInv, ActedIsReadable, Readable
<1> QED  BY <1>1, FileInvariant, PTL

--------------------------------------------------------------------------------
(* A replay that returns has missed nothing.                                  *)

\* A step that touches the file writes one entry, or a part of one.
LEMMA FileSteps == [Next]_vars => Record \/ RecordTorn \/ UNCHANGED file
  BY DEF vars, Next, Launch, RecordHalt, Start, GiveUp, CannotWrite, ReadJournal, PassFails, PassBlind,
         PassRecords, PassManages, RecordAllow, Blocked, Send, RecordSubmit, Crash,
         CrashWriting, AtBound

\* Either some line does not parse, or there is one for every entry whose record() call
\* was begun.
NothingLost == ReadRaises \/ 1..(next - 1) \subseteq Readable

\* One line more, an entry or a fragment.
LEMMA NothingLostByAppend ==
    ASSUME TypeOK, NothingLost, NEW x \in {Corrupt, next},
           lines' = Append(lines, x), next' = next + 1
    PROVE  NothingLost'
<1>1. /\ \A i \in 1..Len(lines) : i \in 1..Len(lines') /\ lines'[i] = lines[i]
      /\ Len(lines) + 1 \in 1..Len(lines') /\ lines'[Len(lines) + 1] = x
  BY Appended
<1>2. CASE x = Corrupt
  BY <1>1, <1>2 DEF NothingLost, ReadRaises
<1>3. CASE ReadRaises
  BY <1>1, <1>3 DEF NothingLost, ReadRaises
<1>4. CASE x # Corrupt /\ ~ReadRaises
  <2>1. Readable \cup {next} \subseteq Readable'
    BY <1>1, <1>4 DEF Readable
  <2>2. next \in Nat \ {0}
    BY DEF TypeOK
  <2>3. 1..(next' - 1) = 1..(next - 1) \cup {next}
    BY <2>2
  <2> QED  BY <1>4, <2>1, <2>3 DEF NothingLost
<1> QED  BY <1>2, <1>3, <1>4

\* A step of the desk loses nothing unseen.
LEMMA StepNothingLost ==
    TypeOK /\ FileInv /\ NothingLost /\ [Next]_vars => NothingLost'
<1> SUFFICES ASSUME TypeOK, FileInv, NothingLost, [Next]_vars PROVE NothingLost'
  OBVIOUS
<1>1. CASE UNCHANGED file
  BY <1>1 DEF file, NothingLost, ReadRaises, Readable
<1>2. CASE (Record \/ RecordTorn) /\ unended
  <2>1. Len(lines) > 0 /\ lines' = [lines EXCEPT ![Len(lines)] = Corrupt]
    BY <1>2 DEF Record, RecordTorn, FileInv
  <2> QED  BY <2>1, RunTogether DEF NothingLost
<1>3. CASE (Record \/ RecordTorn) /\ ~unended
  <2>1. PICK x \in {Corrupt, next} : lines' = Append(lines, x) /\ next' = next + 1
    BY <1>3 DEF Record, RecordTorn
  <2> QED  BY <2>1, NothingLostByAppend
<1> QED  BY <1>1, <1>2, <1>3, FileSteps

\* A file that can be replayed holds every entry that any process ever began to write:
\* if one was lost, every later replay raises (Journal.record, Journal.read).
THEOREM LossIsSeen == Spec => []NothingLost
<1>1. Init => NothingLost
  <2> SUFFICES ASSUME Init PROVE 1..(next - 1) = {}
    BY DEF NothingLost
  <2>1. next = 1
    BY DEF Init
  <2> QED  BY <2>1
<1> QED  BY <1>1, StepNothingLost, JournalTypes, FileInvariant, PTL DEF Spec
================================================================================
