----------------------------- MODULE RunJournal -----------------------------
(***************************************************************************)
(* The audit trail of psv reconcile (src/psv/cli.py, src/psv/run_record.py):*)
(* several invocations share one log directory.  Each creates a record file *)
(* of its own and then appends one line to the common journal runs.jsonl;   *)
(* disks fill up, pipes break and processes are killed on the way.          *)
(***************************************************************************)
EXTENDS Naturals, Sequences

CONSTANTS
    Runs,       \* invocations of psv reconcile on one log directory
    Stem,       \* Stem[r]: start time and checksum in the record's file name
    None,
    MaxSuffix,  \* names tried per record (10000 in the code)
    MaxShort,   \* bound: appends the disk cuts short
    MaxKills    \* bound: killed processes

ASSUME JournalAssumption ==
    /\ Stem = [r \in Runs |-> Stem[r]]
    /\ MaxSuffix \in Nat \ {0} /\ MaxShort \in Nat /\ MaxKills \in Nat

VARIABLES
    files,   \* record files of the log directory
    journal, \* what each append put into runs.jsonl
    runs,    \* the invocations
    shorts, kills

vars == <<files, journal, runs, shorts, kills>>

Names == {Stem[r] : r \in Runs} \X (0..(MaxSuffix - 1))

\* An exit code is 0 consistent, 1 divergence, 2 error.
Codes == 0..2

Records == [run : Runs, code : Codes, whole : BOOLEAN]

ASSUME NoneAssumption == None \notin Records

\* One append: the entry with its newline, the entry without it, or less.
Pieces == [run : Runs, code : Codes, file : Names,
           end : {"newline", "entry", "part"}]

Stages == {"start", "report", "print", "create", "write", "append",
           "printRecord", "exited", "killed"}

RunStates == [pc : Stages, log : BOOLEAN, code : Codes,
              seq : 0..(MaxSuffix - 1), exit : Codes \cup {None}]

Init ==
    /\ files = [f \in Names |-> None]
    /\ journal = <<>>
    /\ runs = [r \in Runs |-> [pc |-> "start", log |-> TRUE, code |-> 2,
                               seq |-> 0, exit |-> None]]
    /\ shorts = 0 /\ kills = 0

-----------------------------------------------------------------------------

File(r) == <<Stem[r], runs[r].seq>>

Goto(r, pc) == runs' = [runs EXCEPT ![r].pc = pc]

Exit(r, code) ==
    runs' = [runs EXCEPT ![r].pc = "exited", ![r].exit = code]

\* _resolve_log_dir chose log; get_rail knows no such rail.
UnknownRail(r, log) ==
    /\ runs[r].pc = "start"
    /\ runs' = [runs EXCEPT ![r].pc = "exited", ![r].log = log, ![r].exit = 2]
    /\ UNCHANGED <<files, journal, shorts, kills>>

\* The chain or the evidence gave no verdict: recorded with exit code 2.
Inconclusive(r, log) ==
    /\ runs[r].pc = "start"
    /\ runs' = [runs EXCEPT ![r].log = log, ![r].pc = "create"]
    /\ UNCHANGED <<files, journal, shorts, kills>>

Verdict(r, log, code) ==
    /\ runs[r].pc = "start" /\ code \in {0, 1}
    /\ runs' = [runs EXCEPT ![r].log = log, ![r].code = code,
                            ![r].pc = "report"]
    /\ UNCHANGED <<files, journal, shorts, kills>>

WriteReports(r) ==
    /\ runs[r].pc = "report" /\ Goto(r, "print")
    /\ UNCHANGED <<files, journal, shorts, kills>>

ReportFails(r) ==
    /\ runs[r].pc = "report"
    /\ runs' = [runs EXCEPT ![r].code = 2, ![r].pc = "create"]
    /\ UNCHANGED <<files, journal, shorts, kills>>

PrintReport(r) ==
    /\ runs[r].pc = "print" /\ Goto(r, "create")
    /\ UNCHANGED <<files, journal, shorts, kills>>

\* A broken stdout pipe reaches main as an OSError, record or no record.
PrintFails(r) ==
    /\ runs[r].pc \in {"print", "printRecord"} /\ Exit(r, 2)
    /\ UNCHANGED <<files, journal, shorts, kills>>

-----------------------------------------------------------------------------
(* write_run_record *)

\* Mutant: files are opened without O_EXCL.
NeverTaken(f) == FALSE

Taken(f) == files[f] # None

\* Mutant: after the last name the search starts again with the first.
NextNameWraps(r) == runs' = [runs EXCEPT ![r].seq = (@ + 1) % MaxSuffix]

\* Mutant: the search for a free name is not bounded.
NextNameUnbounded(r) == runs' = [runs EXCEPT ![r].seq = @ + 1]

NextName(r) ==
    IF runs[r].seq + 1 < MaxSuffix
    THEN runs' = [runs EXCEPT ![r].seq = @ + 1]
    ELSE Exit(r, 2)

\* write_record without a log directory.
NoLog(r) ==
    /\ runs[r].pc = "create" /\ ~runs[r].log /\ Exit(r, runs[r].code)
    /\ UNCHANGED <<files, journal, shorts, kills>>

\* _exclusive_record_path: one attempt to create a file of its own.
Create(r) ==
    /\ runs[r].pc = "create" /\ runs[r].log
    /\ IF Taken(File(r))
       THEN NextName(r) /\ UNCHANGED files
       ELSE /\ files' = [files EXCEPT ![File(r)] =
                           [run |-> r, code |-> runs[r].code, whole |-> FALSE]]
            /\ Goto(r, "write")
    /\ UNCHANGED <<journal, shorts, kills>>

\* Mutant: one os.write call, its result ignored.
WriteOnce(r) ==
    /\ runs[r].pc = "write" /\ Goto(r, "append")
    /\ \E whole \in BOOLEAN : files' = [files EXCEPT ![File(r)].whole = whole]
    /\ UNCHANGED <<journal, shorts, kills>>

\* _write_exclusive, its loop over os.write and the fsync.
Write(r) ==
    /\ runs[r].pc = "write" /\ Goto(r, "append")
    /\ files' = [files EXCEPT ![File(r)].whole = TRUE]
    /\ UNCHANGED <<journal, shorts, kills>>

Piece(r, end) == [run |-> r, code |-> runs[r].code, file |-> File(r), end |-> end]

AppendJournal(r) ==
    /\ runs[r].pc = "append" /\ Goto(r, "printRecord")
    /\ journal' = Append(journal, Piece(r, "newline"))
    /\ UNCHANGED <<files, shorts, kills>>

\* Mutant: the verdict's exit code although nothing was recorded.
AuditFailsQuietly(r) == Exit(r, runs[r].code)

\* write_record returns False: exit code 2 whatever the verdict was.
AuditFails(r) == Exit(r, 2)

\* The record cannot be built (the clock went back) or created.
CreateFails(r) ==
    /\ runs[r].pc = "create" /\ runs[r].log /\ AuditFails(r)
    /\ UNCHANGED <<files, journal, shorts, kills>>

\* A failing write or fsync removes the incomplete file.
WriteFails(r) ==
    /\ runs[r].pc = "write" /\ AuditFails(r)
    /\ files' = [files EXCEPT ![File(r)] = None]
    /\ UNCHANGED <<journal, shorts, kills>>

\* The journal cannot be opened or takes no byte, or fsync fails at the end.
AppendFails(r) ==
    /\ runs[r].pc = "append" /\ AuditFails(r)
    /\ journal' \in {journal, Append(journal, Piece(r, "newline"))}
    /\ UNCHANGED <<files, shorts, kills>>

\* os.write takes a part of the line only; what it took stays there.
AppendShort(r, end) ==
    /\ runs[r].pc = "append" /\ AuditFails(r)
    /\ shorts < MaxShort /\ shorts' = shorts + 1
    /\ journal' = Append(journal, Piece(r, end))
    /\ UNCHANGED <<files, kills>>

PrintRecord(r) ==
    /\ runs[r].pc = "printRecord" /\ Exit(r, runs[r].code)
    /\ UNCHANGED <<files, journal, shorts, kills>>

\* The process dies between two of its steps.
Kill(r) ==
    /\ kills < MaxKills /\ kills' = kills + 1
    /\ runs[r].pc \notin {"exited", "killed"} /\ Goto(r, "killed")
    /\ UNCHANGED <<files, journal, shorts>>

-----------------------------------------------------------------------------

Step(r) ==
    \/ \E log \in BOOLEAN :
         \/ UnknownRail(r, log) \/ Inconclusive(r, log)
         \/ \E code \in Codes : Verdict(r, log, code)
    \/ WriteReports(r) \/ ReportFails(r) \/ PrintReport(r) \/ PrintFails(r)
    \/ NoLog(r) \/ Create(r) \/ CreateFails(r) \/ Write(r) \/ WriteFails(r)
    \/ AppendJournal(r) \/ AppendFails(r)
    \/ \E end \in {"entry", "part"} : AppendShort(r, end)
    \/ PrintRecord(r)

Next == \E r \in Runs : Step(r) \/ Kill(r)

\* A process that is not killed goes on: its system calls return.
Fairness == \A r \in Runs : WF_vars(Step(r))

Spec == Init /\ [][Next]_vars /\ Fairness

-----------------------------------------------------------------------------
(* verify_run_journal *)

\* A line begins at the first piece and after each newline; it is one entry
\* if nothing else is on it.
Readable(i) ==
    /\ i = 1 \/ journal[i - 1].end = "newline"
    /\ \/ journal[i].end = "newline"
       \/ journal[i].end = "entry" /\ i = Len(journal)

RecordFound(i) ==
    LET f == files[journal[i].file]
    IN f # None /\ f.whole /\ f.run = journal[i].run

\* The pieces on lines that verify_run_journal reports.
Corrupt == {i \in DOMAIN journal : ~(Readable(i) /\ RecordFound(i))}

-----------------------------------------------------------------------------
(* Properties *)

\* Every variable keeps its type, and no record is looked for beyond the last
\* name (run_record.py:156-166).
TypeOK ==
    /\ files \in [Names -> Records \cup {None}]
    /\ journal \in Seq(Pieces)
    /\ runs \in [Runs -> RunStates]
    /\ shorts \in Nat /\ kills \in Nat

\* A journal line always leads to the complete record of the run it names:
\* the file is complete before its line, whoever is killed and whoever shares
\* the name (run_record.py:185-212).
EntriesResolve ==
    \A i \in DOMAIN journal :
      Readable(i) => /\ RecordFound(i)
                     /\ files[journal[i].file].code = journal[i].code

\* "Existing records are never overwritten" (run_record.py:188-189), and the
\* removal of an incomplete file never hits a complete one.
RecordsKept ==
    [][\A f \in Names :
         files[f] # None /\ files[f].whole => files'[f] = files[f]]_vars

\* The invocations that log and exit with a verdict (0 or 1), and what each
\* has appended with that code.
Concluded == {r \in Runs : /\ runs[r].pc = "exited" /\ runs[r].log
                           /\ runs[r].exit \in {0, 1}}
LinesOf(r) == {i \in DOMAIN journal :
                 journal[i].run = r /\ journal[i].code = runs[r].exit}

\* "One append syscall keeps each short JSONL entry intact across processes"
\* (run_record.py:172-173): the line of an invocation that exits with a verdict
\* can be read and leads to its record.  It does not hold: the run
\* journal_glued shows it.
EntriesStayIntact == \A r \in Concluded : \E i \in LinesOf(r) : i \notin Corrupt

\* What does hold: every audit failure is exit code 2, so that whoever exits
\* with a verdict has appended a line, and the line verifies unless it directly
\* follows what a short append left without a newline: a short append costs at
\* most one other line (cli.py:304-332, run_record.py:169-182).
AuditLossIsConfined ==
    \A r \in Concluded : \E i \in LinesOf(r) :
      i \in Corrupt => i > 1 /\ journal[i - 1].end # "newline"

\* Every invocation comes to an end: the search for a free name stops
\* (run_record.py:158-166).
AllExit == \A r \in Runs : <>(runs[r].pc \in {"exited", "killed"})

=============================================================================
