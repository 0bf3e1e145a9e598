-------------------------- MODULE RunJournalProofs --------------------------
(***************************************************************************)
(* Theorems about RunJournal, for any number of invocations, killed         *)
(* processes and names.                                                     *)
(***************************************************************************)
EXTENDS RunJournal, TLAPS

\* The name an invocation is trying is one of the directory's names.
LEMMA FileIsName ==
    ASSUME NEW r \in Runs, runs \in [Runs -> RunStates]
    PROVE  File(r) \in Names
  BY DEF File, Names, RunStates

\* Leaving with an exit code keeps the invocations well typed.
LEMMA ExitTyped ==
    ASSUME NEW r \in Runs, NEW code \in Codes, runs \in [Runs -> RunStates],
           Exit(r, code)
    PROVE  runs' \in [Runs -> RunStates]
  <1>1. runs[r] \in RunStates
    OBVIOUS
  <1>2. [runs[r] EXCEPT !.pc = "exited", !.exit = code] \in RunStates
    BY <1>1 DEF Stages, RunStates, Codes
  <1>3. runs' = [runs EXCEPT ![r] = [runs[r] EXCEPT !.pc = "exited", !.exit = code]]
    BY DEF Exit
  <1> QED
    BY <1>2, <1>3

\* So does moving on to another stage.
LEMMA GotoTyped ==
    ASSUME NEW r \in Runs, NEW pc \in Stages, runs \in [Runs -> RunStates],
           Goto(r, pc)
    PROVE  runs' \in [Runs -> RunStates]
  <1>1. [runs[r] EXCEPT !.pc = pc] \in RunStates
    BY DEF RunStates
  <1>2. runs' = [runs EXCEPT ![r] = [runs[r] EXCEPT !.pc = pc]]
    BY DEF Goto
  <1> QED
    BY <1>1, <1>2

\* A piece written for an invocation is well typed, and so is the journal
\* with it.
LEMMA PieceTyped ==
    ASSUME NEW r \in Runs, runs \in [Runs -> RunStates], journal \in Seq(Pieces),
           NEW end \in {"newline", "entry", "part"}
    PROVE  Append(journal, Piece(r, end)) \in Seq(Pieces)
  <1>1. runs[r].code \in Codes /\ File(r) \in Names
    BY FileIsName DEF RunStates
  <1>2. Piece(r, end) \in Pieces
    BY <1>1 DEF Piece, Pieces
  <1> QED
    BY <1>2

\* The invocations that have created their record file.
Writing == {r \in Runs : runs[r].pc \in {"write", "append", "printRecord"}}

\* The record file of such an invocation is its own, and complete once there
\* is something to append.
Owned ==
    \A r \in Writing :
      /\ files[File(r)] # None /\ files[File(r)].run = r
      /\ files[File(r)].code = runs[r].code
      /\ runs[r].pc # "write" => files[File(r)].whole
      /\ runs[r].pc = "write" => ~files[File(r)].whole

\* One step keeps the types: completing a record needs the file to be there.
LEMMA StepTyped ==
    ASSUME TypeOK, Owned, NEW r \in Runs, Step(r)
    PROVE  TypeOK'
  <1> DEFINE error == 2
  <1>e. error \in Codes /\ error = 2
    BY DEF Codes
  <1> HIDE DEF error
  <1>0. /\ runs \in [Runs -> RunStates] /\ journal \in Seq(Pieces)
        /\ files \in [Names -> Records \cup {None}]
        /\ shorts \in Nat /\ kills \in Nat
    BY DEF TypeOK
  <1>1. runs[r] \in RunStates /\ File(r) \in Names
    BY <1>0, FileIsName
  <1>2. CASE \E log \in BOOLEAN : UnknownRail(r, log)
    <2>1. PICK log \in BOOLEAN : UnknownRail(r, log)
      BY <1>2
    <2>2. [runs[r] EXCEPT !.pc = "exited", !.log = log, !.exit = error] \in RunStates
      BY <1>1, <1>e DEF RunStates, Stages
    <2> QED
      BY <1>0, <1>e, <2>1, <2>2 DEF UnknownRail, TypeOK
  <1>3. CASE \E log \in BOOLEAN : Inconclusive(r, log)
    <2>1. PICK log \in BOOLEAN : Inconclusive(r, log)
      BY <1>3
    <2>2. [runs[r] EXCEPT !.log = log, !.pc = "create"] \in RunStates
      BY <1>1 DEF RunStates, Stages
    <2> QED
      BY <1>0, <2>1, <2>2 DEF Inconclusive, TypeOK
  <1>4. CASE \E log \in BOOLEAN, code \in Codes : Verdict(r, log, code)
    <2>1. PICK log \in BOOLEAN, code \in Codes : Verdict(r, log, code)
      BY <1>4
    <2>2. [runs[r] EXCEPT !.log = log, !.code = code, !.pc = "report"] \in RunStates
      BY <1>1 DEF RunStates, Stages
    <2> QED
      BY <1>0, <2>1, <2>2 DEF Verdict, TypeOK
  <1>5. CASE WriteReports(r)
    BY <1>0, <1>5, GotoTyped DEF WriteReports, TypeOK, Stages
  <1>6. CASE ReportFails(r)
    <2>1. [runs[r] EXCEPT !.code = error, !.pc = "create"] \in RunStates
      BY <1>1, <1>e DEF RunStates, Stages
    <2> QED
      BY <1>0, <1>e, <1>6, <2>1 DEF ReportFails, TypeOK
  <1>7. CASE PrintReport(r) \/ PrintFails(r) \/ PrintRecord(r) \/ NoLog(r)
    <2>1. runs[r].code \in Codes
      BY <1>1 DEF RunStates
    <2>2. Goto(r, "create") \/ Exit(r, error) \/ Exit(r, runs[r].code)
      BY <1>e, <1>7 DEF PrintReport, PrintFails, PrintRecord, NoLog
    <2>3. runs' \in [Runs -> RunStates]
      BY <1>0, <1>e, <2>1, <2>2, GotoTyped, ExitTyped DEF Stages
    <2> QED
      BY <1>0, <1>7, <2>3 DEF PrintReport, PrintFails, PrintRecord, NoLog, TypeOK
  <1>8. CASE Create(r)
    <2>1. CASE Taken(File(r))
      <3>1. runs' \in [Runs -> RunStates]
        <4>1. CASE Exit(r, error)
          BY <1>0, <1>e, <4>1, ExitTyped
        <4>2. CASE runs[r].seq + 1 < MaxSuffix /\ runs' = [runs EXCEPT ![r].seq = @ + 1]
          <5>1. runs[r].seq + 1 \in 0..(MaxSuffix - 1)
            BY <1>1, <4>2, JournalAssumption DEF RunStates
          <5>2. [runs[r] EXCEPT !.seq = runs[r].seq + 1] \in RunStates
            BY <1>1, <5>1 DEF RunStates
          <5> QED
            BY <1>0, <4>2, <5>2
        <4> QED
          BY <1>e, <1>8, <2>1, <4>1, <4>2 DEF Create, NextName
      <3> QED
        BY <1>0, <1>8, <2>1, <3>1 DEF Create, TypeOK
    <2>2. CASE ~Taken(File(r))
      <3>1. [run |-> r, code |-> runs[r].code, whole |-> FALSE] \in Records
        BY <1>1 DEF RunStates, Records
      <3>2. runs' \in [Runs -> RunStates]
        BY <1>0, <1>8, <2>2, GotoTyped DEF Create, Stages
      <3> QED
        BY <1>0, <1>1, <1>8, <2>2, <3>1, <3>2 DEF Create, TypeOK
    <2> QED
      BY <2>1, <2>2
  <1>9. CASE CreateFails(r)
    BY <1>0, <1>e, <1>9, ExitTyped DEF CreateFails, AuditFails, TypeOK
  <1>10. CASE Write(r)
    <2>1. runs' \in [Runs -> RunStates]
      BY <1>0, <1>10, GotoTyped DEF Write, Stages
    <2>2. files' \in [Names -> Records \cup {None}]
      <3>1. files[File(r)] \in Records
        BY <1>0, <1>1, <1>10 DEF Write, Owned, Writing
      <3>2. [files[File(r)] EXCEPT !.whole = TRUE] \in Records
        BY <3>1 DEF Records
      <3> QED
        BY <1>0, <1>1, <1>10, <3>2 DEF Write
    <2> QED
      BY <1>0, <1>10, <2>1, <2>2 DEF Write, TypeOK
  <1>11. CASE WriteFails(r)
    BY <1>0, <1>1, <1>e, <1>11, ExitTyped DEF WriteFails, AuditFails, TypeOK
  <1>12. CASE AppendJournal(r)
    BY <1>0, <1>12, GotoTyped, PieceTyped DEF AppendJournal, TypeOK, Stages
  <1>13. CASE AppendFails(r)
    BY <1>0, <1>e, <1>13, ExitTyped, PieceTyped DEF AppendFails, AuditFails, TypeOK
  <1>14. CASE \E end \in {"entry", "part"} : AppendShort(r, end)
    BY <1>0, <1>e, <1>14, ExitTyped, PieceTyped DEF AppendShort, AuditFails, TypeOK
  <1> QED
    BY <1>2, <1>3, <1>4, <1>5, <1>6, <1>7, <1>8, <1>9, <1>10, <1>11, <1>12,
       <1>13, <1>14 DEF Step

-----------------------------------------------------------------------------
(* Records and journal lines *)

\* Every append, cut short or not, was for a complete record.
Entries ==
    \A i \in DOMAIN journal :
      LET f == files[journal[i].file]
      IN /\ f # None /\ f.whole
         /\ f.run = journal[i].run /\ f.code = journal[i].code

TrailInv == TypeOK /\ Owned /\ Entries

\* Two invocations that are writing have different files.
LEMMA OwnFiles ==
    ASSUME Owned, NEW q \in Writing, NEW r \in Writing, q # r
    PROVE  File(q) # File(r)
  BY DEF Owned

\* A step that ends an invocation's writing, or comes before it, leaves the
\* files of the others to them.
LEMMA OwnedByOthers ==
    ASSUME TypeOK, Owned, NEW r \in Runs, files' = files,
           \A q \in Runs \ {r} : runs'[q] = runs[q],
           runs'[r].pc \notin {"write", "append", "printRecord"}
    PROVE  Owned'
  BY DEF Owned, Writing, File

\* One step keeps the files and the lines apart.
LEMMA StepOwned ==
    ASSUME TypeOK, Owned, NEW r \in Runs, Step(r)
    PROVE  Owned'
  <1>0. /\ runs \in [Runs -> RunStates] /\ files \in [Names -> Records \cup {None}]
        /\ runs[r] \in RunStates /\ File(r) \in Names
    BY FileIsName DEF TypeOK
  <1>n. \A q \in Runs : File(q) \in Names
    BY <1>0, FileIsName
  <1>1. CASE \/ \E log \in BOOLEAN : UnknownRail(r, log) \/ Inconclusive(r, log)
             \/ \E log \in BOOLEAN, code \in Codes : Verdict(r, log, code)
             \/ WriteReports(r) \/ ReportFails(r) \/ PrintReport(r)
             \/ PrintFails(r) \/ NoLog(r) \/ CreateFails(r) \/ PrintRecord(r)
             \/ AppendFails(r) \/ \E end \in {"entry", "part"} : AppendShort(r, end)
             \/ Create(r) /\ Taken(File(r))
    <2>1. /\ files' = files /\ \A q \in Runs \ {r} : runs'[q] = runs[q]
          /\ runs'[r].pc \notin {"write", "append", "printRecord"}
      <3>1. CASE \E code \in Codes : Exit(r, code) /\ files' = files
        BY <1>0, <3>1 DEF Exit, RunStates
      <3>2. CASE WriteReports(r) \/ PrintReport(r)
        BY <1>0, <3>2 DEF WriteReports, PrintReport, Goto, RunStates
      <3>3. CASE Create(r) /\ Taken(File(r)) /\ ~Exit(r, 2)
        <4>1. /\ runs' = [runs EXCEPT ![r].seq = runs[r].seq + 1]
              /\ runs[r].pc = "create" /\ files' = files
          BY <3>3 DEF Create, NextName
        <4>2. /\ \A q \in Runs \ {r} : runs'[q] = runs[q]
              /\ runs'[r].pc = runs[r].pc
          BY <1>0, <4>1 DEF RunStates
        <4> QED
          BY <4>1, <4>2
      <3>4. CASE \/ \E log \in BOOLEAN : UnknownRail(r, log) \/ Inconclusive(r, log)
                 \/ \E log \in BOOLEAN, code \in Codes : Verdict(r, log, code)
                 \/ ReportFails(r)
        <4>1. CASE \E log \in BOOLEAN : UnknownRail(r, log)
          BY <1>0, <4>1 DEF UnknownRail, RunStates
        <4>2. CASE \E log \in BOOLEAN : Inconclusive(r, log)
          BY <1>0, <4>2 DEF Inconclusive, RunStates
        <4>3. CASE \E log \in BOOLEAN, code \in Codes : Verdict(r, log, code)
          BY <1>0, <4>3 DEF Verdict, RunStates
        <4>4. CASE ReportFails(r)
          BY <1>0, <4>4 DEF ReportFails, RunStates
        <4> QED
          BY <3>4, <4>1, <4>2, <4>3, <4>4
      <3>5. 2 \in Codes /\ runs[r].code \in Codes
        BY <1>0 DEF RunStates, Codes
      <3>6. CASE \/ PrintFails(r) \/ NoLog(r) \/ CreateFails(r) \/ PrintRecord(r)
                 \/ AppendFails(r)
                 \/ \E end \in {"entry", "part"} : AppendShort(r, end)
        BY <3>1, <3>5, <3>6 DEF PrintFails, NoLog, CreateFails, PrintRecord,
           AppendFails, AppendShort, AuditFails
      <3>7. CASE Create(r) /\ Taken(File(r)) /\ Exit(r, 2)
        BY <3>1, <3>5, <3>7 DEF Create
      <3> QED
        BY <1>1, <3>2, <3>3, <3>4, <3>6, <3>7
    <2> QED
      BY <2>1, OwnedByOthers
  <1>2. CASE Create(r) /\ ~Taken(File(r))
    <2>1. /\ runs' = [runs EXCEPT ![r].pc = "write"]
          /\ files' = [files EXCEPT ![File(r)] =
                         [run |-> r, code |-> runs[r].code, whole |-> FALSE]]
          /\ files[File(r)] = None
      BY <1>2 DEF Create, Taken, Goto
    <2>2. \A q \in Runs : File(q)' = File(q)
      BY <1>0, <2>1 DEF File, RunStates
    <2>3. \A q \in Writing' : q # r => q \in Writing /\ runs'[q] = runs[q]
      BY <1>0, <2>1 DEF Writing
    <2>4. \A q \in Writing : File(q) # File(r)
      BY <2>1 DEF Owned
    <2>5. [run |-> r, code |-> runs[r].code, whole |-> FALSE] # None
      <3>1. [run |-> r, code |-> runs[r].code, whole |-> FALSE] \in Records
        BY <1>0 DEF Records, RunStates
      <3> QED
        BY <3>1, NoneAssumption
    <2>6. \A q \in Writing' : q # r => files'[File(q)'] = files[File(q)]
      BY <1>0, <1>n, <2>1, <2>2, <2>3, <2>4 DEF Writing
    <2>7. /\ files'[File(r)'] = [run |-> r, code |-> runs[r].code, whole |-> FALSE]
          /\ runs'[r].pc = "write" /\ runs'[r].code = runs[r].code
      BY <1>0, <2>1, <2>2 DEF RunStates
    <2> QED
      BY <2>2, <2>3, <2>5, <2>6, <2>7 DEF Owned
  <1>3. CASE Write(r) \/ WriteFails(r) \/ AppendJournal(r)
    <2>1. /\ r \in Writing
          /\ \/ runs' = [runs EXCEPT ![r].pc = "exited", ![r].exit = 2]
             \/ runs' = [runs EXCEPT ![r].pc = "append"]
                   /\ files' = [files EXCEPT ![File(r)].whole = TRUE]
             \/ runs' = [runs EXCEPT ![r].pc = "printRecord"]
                   /\ runs[r].pc = "append" /\ files' = files
      BY <1>3 DEF Write, WriteFails, AppendJournal, AuditFails, Exit, Goto, Writing
    <2>2. \A q \in Runs : File(q)' = File(q)
      BY <1>0, <2>1 DEF File, RunStates
    <2>3. \A q \in Writing' : q # r => q \in Writing /\ runs'[q] = runs[q]
      BY <1>0, <2>1 DEF Writing
    <2>4. \A q \in Writing : q # r => File(q) # File(r)
      BY <2>1, OwnFiles
    <2>5. \A f \in Names : f # File(r) => files'[f] = files[f]
      BY <1>0, <1>3 DEF Write, WriteFails, AppendJournal
    <2>6. \A q \in Writing' : q # r => files'[File(q)'] = files[File(q)]
      BY <1>n, <2>2, <2>3, <2>4, <2>5 DEF Writing
    <2>7. r \in Writing' =>
            /\ files'[File(r)] # None /\ files'[File(r)].run = r
            /\ files'[File(r)].code = runs'[r].code
            /\ runs'[r].pc # "write" /\ files'[File(r)].whole
      <3>1. files[File(r)] \in Records /\ files[File(r)].run = r
              /\ files[File(r)].code = runs[r].code
        BY <1>0, <2>1 DEF Owned
      <3>2. CASE runs' = [runs EXCEPT ![r].pc = "exited", ![r].exit = 2]
        BY <1>0, <3>2 DEF Writing, RunStates
      <3>3. CASE /\ runs' = [runs EXCEPT ![r].pc = "append"]
                 /\ files' = [files EXCEPT ![File(r)].whole = TRUE]
        <4>1. files'[File(r)] = [files[File(r)] EXCEPT !.whole = TRUE]
          BY <1>0, <3>3
        <4>2. files'[File(r)] \in Records /\ files'[File(r)].whole
                /\ files'[File(r)].run = r /\ files'[File(r)].code = runs[r].code
          BY <3>1, <4>1 DEF Records
        <4> QED
          BY <1>0, <3>3, <4>2, NoneAssumption DEF RunStates
      <3>4. CASE /\ runs' = [runs EXCEPT ![r].pc = "printRecord"]
                 /\ runs[r].pc = "append" /\ files' = files
        BY <1>0, <2>1, <3>1, <3>4, NoneAssumption DEF Owned, RunStates
      <3> QED
        BY <2>1, <3>2, <3>3, <3>4
    <2> QED
      BY <2>2, <2>3, <2>6, <2>7 DEF Owned
  <1> QED
    BY <1>1, <1>2, <1>3 DEF Step

\* A step never touches a complete record.
LEMMA StepKeeps ==
    ASSUME TypeOK, Owned, NEW r \in Runs, Step(r), NEW f \in Names,
           files[f] # None, files[f].whole
    PROVE  files'[f] = files[f]
  <1>1. File(r) \in Names /\ files \in [Names -> Records \cup {None}]
    BY FileIsName DEF TypeOK
  <1>2. CASE UNCHANGED files
    BY <1>2
  <1>3. CASE Create(r)
    BY <1>1, <1>3 DEF Create, Taken
  <1>4. CASE Write(r) \/ WriteFails(r)
    <2>1. r \in Writing /\ runs[r].pc = "write"
      BY <1>4 DEF Write, WriteFails, Writing
    <2>2. f # File(r)
      BY <2>1 DEF Owned
    <2> QED
      BY <1>1, <1>4, <2>2 DEF Write, WriteFails
  <1> QED
    BY <1>2, <1>3, <1>4 DEF Step, UnknownRail, Inconclusive, Verdict,
       WriteReports, ReportFails, PrintReport, PrintFails, NoLog, CreateFails,
       PrintRecord, AppendFails, AppendShort, AppendJournal

\* A step appends a line only for its own complete record.
LEMMA StepEntries ==
    ASSUME TypeOK, Owned, Entries, NEW r \in Runs, Step(r)
    PROVE  Entries'
  <1>1. journal \in Seq(Pieces) /\ files \in [Names -> Records \cup {None}]
    BY DEF TypeOK
  <1>2. \A i \in DOMAIN journal : journal[i].file \in Names
    <2>1. \A i \in DOMAIN journal : journal[i] \in Pieces
      BY <1>1
    <2> QED
      BY <2>1 DEF Pieces
  <1>3. \A i \in DOMAIN journal : files'[journal[i].file] = files[journal[i].file]
    BY <1>2, StepKeeps DEF Entries
  <1>4. CASE UNCHANGED journal
    BY <1>3, <1>4 DEF Entries
  <1>5. CASE \E end \in {"newline", "entry", "part"} :
               /\ runs[r].pc = "append" /\ UNCHANGED files
               /\ journal' = Append(journal, Piece(r, end))
    <2>1. PICK end \in {"newline", "entry", "part"} :
            journal' = Append(journal, Piece(r, end))
      BY <1>5
    <2> DEFINE p == Piece(r, end)
    <2>2. p.run = r /\ p.code = runs[r].code /\ p.file = File(r)
      BY DEF Piece
    <2>3. r \in Writing /\ runs[r].pc # "write"
      BY <1>5 DEF Writing
    <2>4. /\ files[p.file] # None /\ files[p.file].whole
          /\ files[p.file].run = p.run /\ files[p.file].code = p.code
      BY <2>2, <2>3 DEF Owned
    <2>5. \A i \in DOMAIN journal' :
            \/ i \in DOMAIN journal /\ journal'[i] = journal[i]
            \/ journal'[i] = p
      BY <1>1, <2>1
    <2> HIDE DEF p
    <2> QED
      BY <1>3, <1>5, <2>4, <2>5 DEF Entries
  <1> QED
    BY <1>4, <1>5 DEF Step, UnknownRail, Inconclusive, Verdict, WriteReports,
       ReportFails, PrintReport, PrintFails, NoLog, CreateFails, PrintRecord, Create,
       Write, WriteFails, AppendFails, AppendShort, AppendJournal

\* A killed process leaves everything as it is.
LEMMA KillKeeps ==
    ASSUME TrailInv, NEW r \in Runs, Kill(r)
    PROVE  TrailInv'
  <1>1. TypeOK /\ Owned /\ Entries /\ runs \in [Runs -> RunStates]
    BY DEF TrailInv, TypeOK
  <1>2. runs' \in [Runs -> RunStates]
    BY <1>1, GotoTyped DEF Kill, Stages
  <1>3. kills' \in Nat
    BY <1>1 DEF Kill, TypeOK
  <1>4. TypeOK'
    BY <1>1, <1>2, <1>3 DEF Kill, TypeOK
  <1>5. /\ \A q \in Runs \ {r} : runs'[q] = runs[q]
        /\ runs'[r].pc = "killed"
    BY <1>1 DEF Kill, Goto, RunStates
  <1>6. Owned'
    BY <1>1, <1>5, OwnedByOthers DEF Kill
  <1>7. Entries'
    BY <1>1 DEF Kill, Entries
  <1> QED
    BY <1>4, <1>6, <1>7 DEF TrailInv

\* Nothing is written at first.
LEMMA InitTrail == Init => TrailInv
  <1> SUFFICES ASSUME Init PROVE TrailInv
    OBVIOUS
  <1>1. 2 \in Codes /\ 0 \in 0..(MaxSuffix - 1) /\ "start" \in Stages
    BY JournalAssumption DEF Codes, Stages
  <1>2. runs \in [Runs -> RunStates]
    BY <1>1 DEF Init, RunStates
  <1>3. files \in [Names -> Records \cup {None}] /\ journal \in Seq(Pieces)
    BY DEF Init
  <1>4. TypeOK
    BY <1>2, <1>3 DEF Init, TypeOK
  <1>5. Writing = {} /\ DOMAIN journal = {}
    BY DEF Init, Writing
  <1> QED
    BY <1>4, <1>5 DEF TrailInv, Owned, Entries

\* TrailInv is inductive.
LEMMA NextTrail == TrailInv /\ [Next]_vars => TrailInv'
  <1> SUFFICES ASSUME TrailInv, [Next]_vars PROVE TrailInv'
    OBVIOUS
  <1>1. CASE \E r \in Runs : Step(r)
    BY <1>1, StepTyped, StepOwned, StepEntries DEF TrailInv
  <1>2. CASE \E r \in Runs : Kill(r)
    BY <1>2, KillKeeps
  <1>3. CASE UNCHANGED vars
    BY <1>3 DEF vars, TrailInv, TypeOK, Owned, Writing, File, Entries
  <1> QED
    BY <1>1, <1>2, <1>3 DEF Next

\* Types are kept by any number of invocations; in particular the search for a
\* file name never leaves the names there are (run_record.py:156-166).
THEOREM TypeCorrect == Spec => []TypeOK
  <1>1. TrailInv => TypeOK
    BY DEF TrailInv
  <1> QED
    BY <1>1, InitTrail, NextTrail, PTL DEF Spec

\* A readable journal line always has its complete record, whatever is killed,
\* fails or is cut short (run_record.py:185-212).
THEOREM JournalLinesResolve == Spec => []EntriesResolve
  <1>1. TrailInv => EntriesResolve
    BY DEF TrailInv, Entries, EntriesResolve, RecordFound
  <1> QED
    BY <1>1, InitTrail, NextTrail, PTL DEF Spec

\* A complete record is never changed or removed by any invocation
\* (run_record.py:136-166).
THEOREM RecordsAreKept == Spec => RecordsKept
  <1> DEFINE Kept == \A f \in Names :
                       files[f] # None /\ files[f].whole => files'[f] = files[f]
  <1>1. TrailInv /\ [Next]_vars => [Kept]_vars
    <2> SUFFICES ASSUME TrailInv, Next PROVE Kept
      OBVIOUS
    <2>1. CASE \E r \in Runs : Step(r)
      BY <2>1, StepKeeps DEF TrailInv
    <2>2. CASE \E r \in Runs : Kill(r)
      BY <2>2 DEF Kill
    <2> QED
      BY <2>1, <2>2 DEF Next
  <1>2. RecordsKept <=> [][Kept]_vars
    BY DEF RecordsKept
  <1> QED
    BY <1>1, <1>2, InitTrail, NextTrail, PTL DEF Spec

-----------------------------------------------------------------------------
(* Every verdict is audited *)

\* The invocations whose record must be in the journal.
Owing == {r \in Runs : \/ runs[r].pc = "printRecord"
                       \/ /\ runs[r].pc = "exited" /\ runs[r].log
                          /\ runs[r].exit \in {0, 1}}

LineOf(r) == \E i \in DOMAIN journal :
               /\ journal[i].run = r /\ journal[i].code = runs[r].code
               /\ journal[i].end = "newline"

Audited == \A r \in Owing :
             LineOf(r) /\ (runs[r].pc = "exited" => runs[r].exit = runs[r].code)

AuditInv == TrailInv /\ Audited

\* No step takes a line away or moves another invocation.
LEMMA StepLines ==
    ASSUME TypeOK, NEW r \in Runs, Step(r) \/ Kill(r)
    PROVE  /\ \A i \in DOMAIN journal : i \in DOMAIN journal' /\ journal'[i] = journal[i]
           /\ \A q \in Runs \ {r} : runs'[q] = runs[q]
  <1>1. journal \in Seq(Pieces) /\ runs \in [Runs -> RunStates]
    BY DEF TypeOK
  <1>2. UNCHANGED journal \/ \E end : journal' = Append(journal, Piece(r, end))
    BY DEF Step, Kill, UnknownRail, Inconclusive, Verdict, WriteReports,
       ReportFails, PrintReport, PrintFails, NoLog, CreateFails, PrintRecord,
       Create, Write, WriteFails, AppendFails, AppendJournal, AppendShort
  <1>3. \A i \in DOMAIN journal : i \in DOMAIN journal' /\ journal'[i] = journal[i]
    BY <1>1, <1>2
  <1>4. \A q \in Runs \ {r} : runs'[q] = runs[q]
    BY <1>1 DEF Step, Kill, UnknownRail, Inconclusive, Verdict, WriteReports,
       ReportFails, PrintReport, PrintFails, NoLog, CreateFails, PrintRecord,
       Create, NextName, Write, WriteFails, AppendFails, AppendJournal,
       AppendShort, AuditFails, Exit, Goto
  <1> QED
    BY <1>3, <1>4

\* The invocation that takes a step is still audited if it owes a line.
LEMMA StepAudited ==
    ASSUME TypeOK, Audited, NEW r \in Runs, Step(r) \/ Kill(r),
           r \in Owing'
    PROVE  LineOf(r)' /\ (runs'[r].pc = "exited" => runs'[r].exit = runs'[r].code)
  <1>1. journal \in Seq(Pieces) /\ runs \in [Runs -> RunStates] /\ shorts \in Nat
    BY DEF TypeOK
  <1>2. runs[r] \in RunStates
    BY <1>1
  <1>3. CASE AppendJournal(r)
    <2>1. /\ runs'[r].pc = "printRecord" /\ runs'[r].code = runs[r].code
          /\ journal' = Append(journal, Piece(r, "newline"))
      BY <1>1, <1>3 DEF AppendJournal, Goto, RunStates
    <2>2. /\ Piece(r, "newline").run = r /\ Piece(r, "newline").code = runs[r].code
          /\ Piece(r, "newline").end = "newline"
      BY DEF Piece
    <2>3. /\ Len(journal) + 1 \in DOMAIN journal'
          /\ journal'[Len(journal) + 1] = Piece(r, "newline")
      BY <1>1, <2>1
    <2> QED
      BY <2>1, <2>2, <2>3 DEF LineOf
  <1>4. CASE PrintRecord(r)
    <2>1. /\ runs[r].pc = "printRecord" /\ journal' = journal
          /\ runs'[r].exit = runs[r].code /\ runs'[r].code = runs[r].code
      BY <1>1, <1>4 DEF PrintRecord, Exit, RunStates
    <2> QED
      BY <2>1 DEF Audited, Owing, LineOf
  <1>5. CASE NoLog(r)
    <2>1. runs'[r].log = runs[r].log /\ runs'[r].pc = "exited" /\ ~runs[r].log
      BY <1>1, <1>5 DEF NoLog, Exit, RunStates
    <2> QED
      BY <2>1 DEF Owing
  <1>6. CASE /\ ~(AppendJournal(r) \/ PrintRecord(r) \/ NoLog(r))
             /\ ~Exit(r, 2)
    <2>1. \A end : ~AppendShort(r, end)
      BY <1>6 DEF AppendShort, AuditFails
    <2>2. \/ runs'[r].pc \notin {"printRecord", "exited"}
          \/ runs'[r].pc = "exited" /\ runs'[r].exit = 2
      <3>1. CASE Create(r)
        <4>1. CASE Taken(File(r))
          <5>1. /\ runs' = [runs EXCEPT ![r].seq = runs[r].seq + 1]
                /\ runs[r].pc = "create"
            BY <1>6, <3>1, <4>1 DEF Create, NextName
          <5>2. runs'[r].pc = runs[r].pc
            BY <1>1, <5>1 DEF RunStates
          <5> QED
            BY <5>1, <5>2
        <4>2. CASE ~Taken(File(r))
          BY <1>1, <3>1, <4>2 DEF Create, Goto, RunStates
        <4> QED
          BY <4>1, <4>2
      <3>2. CASE Write(r) \/ Kill(r) \/ WriteReports(r) \/ PrintReport(r)
        BY <1>1, <3>2 DEF Write, Kill, WriteReports, PrintReport, Goto, RunStates
      <3>3. CASE \E log \in BOOLEAN : UnknownRail(r, log)
        BY <1>1, <3>3 DEF UnknownRail, RunStates
      <3>4. CASE \E log \in BOOLEAN : Inconclusive(r, log)
        BY <1>1, <3>4 DEF Inconclusive, RunStates
      <3>5. CASE \E log \in BOOLEAN, code \in Codes : Verdict(r, log, code)
        BY <1>1, <3>5 DEF Verdict, RunStates
      <3>6. CASE ReportFails(r)
        BY <1>1, <3>6 DEF ReportFails, RunStates
      <3>7. ~(PrintFails(r) \/ CreateFails(r) \/ WriteFails(r) \/ AppendFails(r))
        BY <1>6 DEF PrintFails, CreateFails, WriteFails, AppendFails, AuditFails
      <3> QED
        BY <1>6, <2>1, <3>1, <3>2, <3>3, <3>4, <3>5, <3>6, <3>7 DEF Step
    <2> QED
      BY <2>2 DEF Owing
  <1>7. CASE Exit(r, 2)
    <2>1. runs'[r].exit = 2 /\ runs'[r].pc = "exited"
      BY <1>1, <1>7 DEF Exit, RunStates
    <2> QED
      BY <2>1 DEF Owing
  <1> QED
    BY <1>3, <1>4, <1>5, <1>6, <1>7

\* AuditInv is inductive.
LEMMA NextAudit == AuditInv /\ [Next]_vars => AuditInv'
  <1> SUFFICES ASSUME AuditInv, [Next]_vars PROVE AuditInv'
    OBVIOUS
  <1>1. TrailInv' /\ TypeOK
    BY NextTrail DEF AuditInv, TrailInv
  <1>2. ASSUME NEW r \in Runs, Step(r) \/ Kill(r) PROVE Audited'
    <2>1. /\ \A i \in DOMAIN journal : i \in DOMAIN journal' /\ journal'[i] = journal[i]
          /\ \A q \in Runs \ {r} : runs'[q] = runs[q]
      BY <1>1, <1>2, StepLines DEF AuditInv
    <2>2. \A q \in Owing' : q # r => q \in Owing /\ runs'[q] = runs[q]
      BY <2>1 DEF Owing
    <2>3. \A q \in Owing' : q # r =>
            LineOf(q)' /\ (runs'[q].pc = "exited" => runs'[q].exit = runs'[q].code)
      BY <2>1, <2>2 DEF AuditInv, Audited, LineOf
    <2>4. r \in Owing' =>
            LineOf(r)' /\ (runs'[r].pc = "exited" => runs'[r].exit = runs'[r].code)
      BY <1>1, <1>2, StepAudited DEF AuditInv
    <2> QED
      BY <2>3, <2>4 DEF Audited
  <1>3. CASE UNCHANGED vars
    BY <1>1, <1>3 DEF vars, AuditInv, Audited, Owing, LineOf
  <1> QED
    BY <1>1, <1>2, <1>3 DEF AuditInv, Next

\* Every logged invocation that exits with a verdict is in the journal with
\* that verdict, on a line that verifies unless it directly follows the rest of
\* a short append (cli.py:304-332, run_record.py:169-244).
THEOREM VerdictsAreAudited == Spec => []AuditLossIsConfined
  <1>1. AuditInv => AuditLossIsConfined
    <2> SUFFICES ASSUME AuditInv, NEW r \in Runs, runs[r].pc = "exited",
                        runs[r].log, runs[r].exit \in {0, 1}
                 PROVE  \E i \in DOMAIN journal :
                          /\ journal[i].run = r /\ journal[i].code = runs[r].exit
                          /\ i \in Corrupt => i > 1 /\ journal[i - 1].end # "newline"
      BY DEF AuditLossIsConfined, Concluded, LinesOf
    <2>1. PICK i \in DOMAIN journal :
            /\ journal[i].run = r /\ journal[i].code = runs[r].exit
            /\ journal[i].end = "newline"
      BY DEF AuditInv, Audited, Owing, LineOf
    <2>2. journal \in Seq(Pieces)
      BY DEF AuditInv, TrailInv, TypeOK
    <2>3. RecordFound(i)
      BY DEF AuditInv, TrailInv, Entries, RecordFound
    <2>4. i = 1 \/ i > 1
      BY <2>2
    <2>5. Readable(i) \/ (i > 1 /\ journal[i - 1].end # "newline")
      BY <2>1, <2>4 DEF Readable
    <2> QED
      BY <2>1, <2>3, <2>5 DEF Corrupt
  <1>2. Init => AuditInv
    BY InitTrail DEF AuditInv, Init, Audited, Owing
  <1>3. AuditInv /\ [Next]_vars => AuditInv'
    BY NextAudit
  <1> QED
    BY <1>1, <1>2, <1>3, PTL DEF Spec

=============================================================================
