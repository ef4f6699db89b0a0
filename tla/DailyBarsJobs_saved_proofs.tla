--------------------- MODULE DailyBarsJobs_saved_proofs ---------------------
(***************************************************************************)
(* What holds of the job manager as long as SQLite commits what it is      *)
(* given, while the process may still die between, or inside, two critical *)
(* sections: memory and tables agree, what a client has seen of a job is   *)
(* not taken back, and the manager implements JobLifecycle.                *)
(***************************************************************************)
EXTENDS DailyBarsJobs_proofs, MCDailyBarsJobs

Reliable == "store" \notin Faults

LEMMA AllCommit == ASSUME Reliable PROVE Commits = {TRUE}
BY DEF Reliable, Commits

----------------------------------------------------------------------------
(* Rows tables without gaps *)

\* load_rows reads a table without gaps as it is.
LEMMA LoadRowsSeq ==
    ASSUME NEW tbl \in Seq(HasRows)
    PROVE  LoadRows(tbl) = tbl
<1> DEFINE N == Len(tbl)
           Rank(i) == Cardinality({k \in 1 .. N : k <= i})
<1>1. N \in Nat /\ DOMAIN tbl = 1 .. N /\ tbl = [n \in 1 .. N |-> tbl[n]]
  BY LenProperties
<1>2. Cardinality(1 .. N) = N
  BY <1>1, FS_Interval
<1>3. \A i \in 1 .. N : Rank(i) = i
  <2> SUFFICES ASSUME NEW i \in 1 .. N PROVE Rank(i) = i
    OBVIOUS
  <2>1. {k \in 1 .. N : k <= i} = 1 .. i
    BY <1>1
  <2>2. Cardinality(1 .. i) = i
    BY <1>1, FS_Interval
  <2> QED
    BY <2>1, <2>2
<1>4. \A n \in 1 .. N : (CHOOSE i \in 1 .. N : Rank(i) = n) = n
  BY <1>3
<1>5. LoadRows(tbl) = [n \in 1 .. N |-> tbl[CHOOSE i \in 1 .. N : Rank(i) = n]]
  BY <1>1, <1>2 DEF LoadRows
<1> HIDE DEF Rank
<1> QED
  BY <1>1, <1>4, <1>5

\* append_rows at the end of such a table is concatenation.
LEMMA AppendAtSeq ==
    ASSUME NEW tbl \in Seq(HasRows), NEW new \in Seq(HasRows)
    PROVE  /\ AppendAt(tbl, Len(tbl), new) = tbl \o new
           /\ AppendAt(tbl, Len(tbl), new) \in Seq(HasRows)
<1>1. Len(tbl) \in Nat /\ Len(new) \in Nat /\ DOMAIN tbl = 1 .. Len(tbl)
  BY LenProperties
<1>2. DOMAIN tbl \cup (Len(tbl) + 1 .. Len(tbl) + Len(new)) = 1 .. Len(tbl) + Len(new)
  BY <1>1
<1>3. \A i \in 1 .. Len(tbl) + Len(new) :
         i \in Len(tbl) + 1 .. Len(tbl) + Len(new) <=> ~(i <= Len(tbl))
  BY <1>1
<1>4. PICK cat : cat = tbl \o new
  OBVIOUS
<1>5. /\ cat \in Seq(HasRows) /\ Len(cat) = Len(tbl) + Len(new)
      /\ \A i \in 1 .. Len(tbl) + Len(new) :
            cat[i] = IF i <= Len(tbl) THEN tbl[i] ELSE new[i - Len(tbl)]
  BY <1>4, ConcatProperties
<1>6. cat = [i \in 1 .. Len(tbl) + Len(new) |-> cat[i]]
  BY <1>5
<1>7. AppendAt(tbl, Len(tbl), new) =
        [i \in 1 .. Len(tbl) + Len(new) |->
           IF i \in Len(tbl) + 1 .. Len(tbl) + Len(new) THEN new[i - Len(tbl)]
                                                        ELSE tbl[i]]
  BY <1>2 DEF AppendAt
<1> QED
  BY <1>3, <1>4, <1>5, <1>6, <1>7

----------------------------------------------------------------------------
(* Memory and tables agree *)

\* No worker is left in the handler of a store error.
LEMMA NoFailure ==
    ASSUME IInv, CleanInv, NEW j \in Jobs, NEW g \in Generations, NEW w,
           Becomes(j, g, w), w.pc # "fail"
    PROVE  \A k \in Jobs : \A h \in Generations : worker'[k][h].pc # "fail"
BY BecomesEffect DEF IInv, CleanInv, CleanJob

\* A step of one job that saves it.
LEMMA CleanSave ==
    ASSUME IInv, CleanInv, Reliable, NEW j \in Jobs, NEW st, NEW c \in Commits,
           Save(j, st, c), up' = up, st.completed \cap st.failed = {},
           rows'[j] = table'[j], table'[j] \in Seq(HasRows),
           \A k \in Jobs \ {j} : rows'[k] = rows[k] /\ table'[k] = table[k],
           \A k \in Jobs : \A h \in Generations : worker'[k][h].pc # "fail"
    PROVE  CleanInv'
<1>1. c = TRUE /\ TypeOK
  BY AllCommit DEF IInv
<1>2. mem'[j] = st /\ disk'[j] = st
  BY <1>1, SaveEffect
<1>3. \A k \in Jobs \ {j} : mem'[k] = mem[k] /\ disk'[k] = disk[k]
  BY <1>1, SaveEffect
<1> QED
  BY <1>2, <1>3 DEF CleanInv, CleanJob

\* A step that saves nothing.
LEMMA CleanLocal ==
    ASSUME CleanInv, UNCHANGED <<up, mem, rows, disk, table>>,
           \A k \in Jobs : \A h \in Generations : worker'[k][h].pc # "fail"
    PROVE  CleanInv'
BY DEF CleanInv, CleanJob

\* What a worker finds in memory is on disk.
LEMMA CleanFacts ==
    ASSUME IInv, CleanInv, NEW j \in Jobs
    PROVE  /\ mem[j] \in JobState
           /\ up => /\ mem[j].completed \cap mem[j].failed = {}
                    /\ mem[j] = disk[j]
                    /\ rows[j] = table[j] /\ table[j] \in Seq(HasRows)
           /\ \A k \in Jobs : \A h \in Generations : worker[k][h].pc # "fail"
BY DEF IInv, TypeOK, CleanInv, CleanJob

LEMMA CleanLaunch ==
    ASSUME IInv, CleanInv, Reliable, NEW j \in Jobs, NEW st, Launch(j, st), up,
           st.gen \in Generations, st.failed = {}
    PROVE  CleanInv'
<1> PICK w : w = [NoWorker EXCEPT !.pc = "start"]
  OBVIOUS
<1> PICK c \in Commits :
      /\ Save(j, st, c)
      /\ IF c THEN Becomes(j, st.gen, w) ELSE UNCHANGED worker
      /\ UNCHANGED <<up, rows, table>>
  BY DEF Launch
<1>1. c = TRUE
  BY AllCommit
<1>2. w.pc # "fail"
  BY DEF NoWorker
<1>3. Becomes(j, st.gen, w)
  BY <1>1
<1>4. \A k \in Jobs : \A h \in Generations : worker'[k][h].pc # "fail"
  BY <1>2, <1>3, NoFailure
<1>5. rows'[j] = table'[j] /\ table'[j] \in Seq(HasRows)
  BY CleanFacts
<1> QED
  BY <1>4, <1>5, CleanSave

LEMMA CleanClientStep ==
    ASSUME IInv, CleanInv, Reliable, NEW j \in Jobs,
           CreateJob(j) \/ RetryJob(j) \/ CancelJob(j)
    PROVE  CleanInv'
<1>1. mem[j] \in JobState
  BY CleanFacts
<1>2. CASE CreateJob(j)
  <2> PICK st : st = [NoJob EXCEPT !.status = "accepted", !.gen = 1]
    OBVIOUS
  <2>1. st.failed = {} /\ st.gen \in Generations
    BY NothingYet DEF NoJob
  <2>2. Launch(j, st) /\ up
    BY <1>2 DEF CreateJob
  <2> QED
    BY <2>1, <2>2, CleanLaunch
<1>3. CASE RetryJob(j)
  <2> PICK st : st = RetriedState(mem[j])
    OBVIOUS
  <2>1. st.failed = {}
    BY <1>1 DEF RetriedState, JobState
  <2>2. st.gen \in Generations
    BY <1>1, <1>3, JobUpdates DEF RetryJob
  <2>3. Launch(j, st) /\ up
    BY <1>3 DEF RetryJob
  <2> QED
    BY <2>1, <2>2, <2>3, CleanLaunch
<1>4. CASE CancelJob(j)
  <2> PICK st : st = [mem[j] EXCEPT !.status = "cancelled", !.cancel = TRUE]
    OBVIOUS
  <2> PICK c \in Commits : Save(j, st, c)
    BY <1>4 DEF CancelJob
  <2>1. up /\ UNCHANGED <<up, rows, table, worker>>
    BY <1>4 DEF CancelJob
  <2>2. st.completed = mem[j].completed /\ st.failed = mem[j].failed
    BY <1>1 DEF JobState
  <2> QED
    BY <2>1, <2>2, CleanFacts, CleanSave
<1> QED
  BY <1>2, <1>3, <1>4

LEMMA CleanMarkStep ==
    ASSUME IInv, CleanInv, Reliable, NEW j \in Jobs, NEW g \in Generations,
           MarkRunning(j, g) \/ MarkCurrent(j, g) \/ Finish(j, g)
    PROVE  CleanInv'
<1>1. /\ up /\ mem[j] \in JobState /\ worker[j][g] \in WorkerState
      /\ mem[j].completed \cap mem[j].failed = {}
      /\ rows[j] = table[j] /\ table[j] \in Seq(HasRows)
  BY OwnerFacts, CleanFacts DEF MarkRunning, MarkCurrent, Finish
<1>2. UNCHANGED <<up, rows, table>>
  BY DEF MarkRunning, MarkCurrent, Finish
<1>3. \A c \in Commits : c = TRUE
  BY AllCommit
<1>4. \A k \in Jobs : \A h \in Generations : worker'[k][h].pc # "fail"
  <2>1. CASE MarkRunning(j, g)
    <3> PICK w : w = [worker[j][g] EXCEPT !.pc = "snap"]
      OBVIOUS
    <3>1. Becomes(j, g, w) /\ w.pc # "fail"
      BY <1>1, <1>3, <2>1 DEF MarkRunning, WorkerState
    <3> QED
      BY <3>1, NoFailure
  <2>2. CASE MarkCurrent(j, g)
    <3> PICK w : w = [worker[j][g] EXCEPT !.pc = "fetch"]
      OBVIOUS
    <3>1. Becomes(j, g, w) /\ w.pc # "fail"
      BY <1>1, <1>3, <2>2 DEF MarkCurrent, WorkerState
    <3> QED
      BY <3>1, NoFailure
  <2>3. CASE Finish(j, g)
    <3>1. Becomes(j, g, NoWorker) /\ NoWorker.pc # "fail"
      BY <2>3 DEF Finish, NoWorker
    <3> QED
      BY <3>1, NoFailure
  <2> QED
    BY <2>1, <2>2, <2>3
<1>5. CASE UNCHANGED <<mem, disk>>
  BY <1>2, <1>4, <1>5, CleanLocal
<1>6. CASE ~UNCHANGED <<mem, disk>>
  <2>1. PICK st : /\ \E c \in Commits : Save(j, st, c)
                  /\ st.completed = mem[j].completed /\ st.failed = mem[j].failed
    <3>1. CASE MarkRunning(j, g)
      <4>1. \E c \in Commits : Save(j, [mem[j] EXCEPT !.status = "running"], c)
        BY <1>6, <3>1 DEF MarkRunning
      <4>2. /\ [mem[j] EXCEPT !.status = "running"].completed = mem[j].completed
            /\ [mem[j] EXCEPT !.status = "running"].failed = mem[j].failed
        BY <1>1 DEF JobState
      <4> QED
        BY <4>1, <4>2
    <3>2. CASE MarkCurrent(j, g)
      <4>1. \E c \in Commits : Save(j, [mem[j] EXCEPT !.current = worker[j][g].at], c)
        BY <1>6, <3>2 DEF MarkCurrent
      <4>2. /\ [mem[j] EXCEPT !.current = worker[j][g].at].completed = mem[j].completed
            /\ [mem[j] EXCEPT !.current = worker[j][g].at].failed = mem[j].failed
        BY <1>1 DEF JobState
      <4> QED
        BY <4>1, <4>2
    <3>3. CASE Finish(j, g)
      <4> DEFINE st == [mem[j] EXCEPT !.status = Outcome(j), !.current = 0]
      <4>1. \E c \in Commits : Save(j, st, c)
        BY <1>6, <3>3 DEF Finish
      <4>2. st.completed = mem[j].completed /\ st.failed = mem[j].failed
        BY <1>1 DEF JobState
      <4> QED
        BY <4>1, <4>2
    <3> QED
      BY <3>1, <3>2, <3>3
  <2> QED
    BY <1>1, <1>2, <1>4, <2>1, CleanSave
<1> QED
  BY <1>5, <1>6

LEMMA CleanRecordStep ==
    ASSUME IInv, CleanInv, Reliable, NEW j \in Jobs, NEW g \in Generations,
           RecordSuccess(j, g) \/ RecordFailure(j, g)
    PROVE  CleanInv'
<1> DEFINE s == worker[j][g].at
<1> PICK w : w = NextSymbol(worker[j][g])
  OBVIOUS
<1>1. worker[j][g].pc = "fetch"
  BY CleanFacts DEF RecordSuccess, RecordFailure
<1>2. /\ up /\ mem[j] \in JobState /\ worker[j][g] \in WorkerState
      /\ mem[j].completed \cap mem[j].failed = {}
      /\ rows[j] = table[j] /\ table[j] \in Seq(HasRows)
      /\ Owns(j, g) => OwnerOK(j, worker[j][g])
  BY <1>1, OwnerFacts, CleanFacts
<1>3. w.pc # "fail"
  BY <1>2 DEF NextSymbol, WorkerState
<1>4. \A c \in Commits : c = TRUE
  BY AllCommit
<1>5. Becomes(j, g, w)
  BY <1>4 DEF RecordSuccess, RecordFailure
<1>6. \A k \in Jobs : \A h \in Generations : worker'[k][h].pc # "fail"
  BY <1>3, <1>5, NoFailure
<1>7. up' = up
  BY DEF RecordSuccess, RecordFailure
<1>8. CASE ~Owns(j, g)
  <2>1. UNCHANGED <<up, mem, rows, disk, table>>
    BY <1>7, <1>8 DEF RecordSuccess, RecordFailure
  <2> QED
    BY <1>6, <2>1, CleanLocal
<1>9. Owns(j, g) => s \notin mem[j].completed /\ s \notin mem[j].failed
  <2>1. s \notin 1 .. s - 1
    BY <1>2 DEF WorkerState
  <2> QED
    BY <1>1, <1>2, <2>1 DEF OwnerOK
<1>10. CASE Owns(j, g) /\ RecordSuccess(j, g)
  <2> PICK st : st = SucceededState(mem[j], s)
    OBVIOUS
  <2>1. PICK a \in Commits, c \in Commits :
          /\ rows'  = [rows EXCEPT ![j] = @ \o FetchedRows(s)]
          /\ table' = IF a THEN [table EXCEPT ![j] =
                                   AppendAt(@, Len(rows[j]), FetchedRows(s))]
                      ELSE table
          /\ Save(j, st, c)
    BY <1>10 DEF RecordSuccess
  <2>2. st.completed = mem[j].completed \cup {s} /\ st.failed = mem[j].failed
    BY <1>2 DEF SucceededState, JobState
  <2>3. rows \in [Jobs -> Seq(HasRows)] /\ table = [k \in Jobs |-> table[k]]
    BY DEF IInv, TypeOK
  <2>4. rows'[j] = rows[j] \o FetchedRows(s) /\ \A k \in Jobs \ {j} : rows'[k] = rows[k]
    BY <2>1, <2>3
  <2>5. table' = [table EXCEPT ![j] = AppendAt(table[j], Len(rows[j]), FetchedRows(s))]
    BY <1>4, <2>1
  <2>6. /\ table'[j] = AppendAt(table[j], Len(rows[j]), FetchedRows(s))
        /\ \A k \in Jobs \ {j} : table'[k] = table[k]
    BY <2>3, <2>5
  <2>7. FetchedRows(s) \in Seq(HasRows)
    BY FetchedRowsSeq
  <2>8. table'[j] = table[j] \o FetchedRows(s) /\ table'[j] \in Seq(HasRows)
    <3>1. table'[j] = AppendAt(table[j], Len(table[j]), FetchedRows(s))
      BY <1>2, <2>6
    <3> QED
      BY <1>2, <2>7, <3>1, AppendAtSeq
  <2>9. rows'[j] = table'[j]
    BY <1>2, <2>4, <2>8
  <2>10. st.completed \cap st.failed = {}
    BY <1>2, <1>9, <1>10, <2>2
  <2> QED
    BY <1>6, <1>7, <2>1, <2>4, <2>6, <2>8, <2>9, <2>10, CleanSave
<1>11. CASE Owns(j, g) /\ RecordFailure(j, g)
  <2> PICK st : st = [mem[j] EXCEPT !.failed = @ \cup {s}]
    OBVIOUS
  <2>1. UNCHANGED <<rows, table>> /\ \E c \in Commits : Save(j, st, c)
    BY <1>11 DEF RecordFailure
  <2>2. st.completed = mem[j].completed /\ st.failed = mem[j].failed \cup {s}
    BY <1>2 DEF JobState
  <2>3. st.completed \cap st.failed = {}
    BY <1>2, <1>9, <1>11, <2>2
  <2> QED
    BY <1>2, <1>6, <1>7, <2>1, <2>3, CleanSave
<1> QED
  BY <1>8, <1>10, <1>11

\* A dead process leaves tables without gaps, also if it died between the two
\* transactions of a result.
LEMMA CleanDeathStep ==
    ASSUME IInv, CleanInv,
           Crash \/ \E j \in Jobs, g \in Generations : TornCrash(j, g)
    PROVE  CleanInv'
<1>1. ~up' /\ disk' = disk /\ \A k \in Jobs : \A h \in Generations : worker'[k][h].pc = "off"
  BY DEF Crash, TornCrash, ProcessDies, NoWorker
<1>2. ASSUME NEW k \in Jobs PROVE table'[k] \in Seq(HasRows)
  <2>1. table[k] \in Seq(HasRows)
    BY DEF CleanInv, CleanJob
  <2>2. CASE Crash
    BY <2>1, <2>2 DEF Crash
  <2>3. CASE \E j \in Jobs, g \in Generations : TornCrash(j, g)
    <3> PICK j \in Jobs, g \in Generations : TornCrash(j, g)
      BY <2>3
    <3> DEFINE F == FetchedRows(worker[j][g].at)
    <3>1. up /\ rows[j] = table[j] /\ table[j] \in Seq(HasRows)
      BY OwnerFacts, CleanFacts DEF TornCrash
    <3>2. F \in Seq(HasRows)
      BY FetchedRowsSeq
    <3>3. AppendAt(table[j], Len(rows[j]), F) \in Seq(HasRows)
      <4>1. AppendAt(table[j], Len(table[j]), F) \in Seq(HasRows)
        BY <3>1, <3>2, AppendAtSeq
      <4> QED
        BY <3>1, <4>1
    <3>4. table' = [table EXCEPT ![j] = AppendAt(table[j], Len(rows[j]), F)]
      BY DEF TornCrash
    <3>5. table = [i \in Jobs |-> table[i]]
      BY DEF IInv, TypeOK
    <3>6. k # j => table'[k] = table[k]
      BY <3>4, <3>5
    <3>7. k = j => table'[k] = AppendAt(table[j], Len(rows[j]), F)
      BY <3>4, <3>5
    <3> QED
      BY <2>1, <3>3, <3>6, <3>7
  <2> QED
    BY <2>2, <2>3
<1> QED
  BY <1>1, <1>2 DEF CleanInv, CleanJob

LEMMA CleanRestartStep ==
    ASSUME IInv, CleanInv, Restart
    PROVE  CleanInv'
<1> SUFFICES ASSUME NEW k \in Jobs PROVE CleanJob(k)'
  BY DEF CleanInv
<1>1. CleanJob(k) /\ disk[k] \in JobState
  BY DEF CleanInv, IInv, TypeOK
<1>2. /\ mem'[k] = Interrupted(disk[k]) /\ disk'[k] = Interrupted(disk[k])
      /\ rows'[k] = LoadRows(table[k]) /\ table'[k] = table[k] /\ worker'[k] = worker[k]
  BY DEF Restart
<1>3. /\ Interrupted(disk[k]).completed = disk[k].completed
      /\ Interrupted(disk[k]).failed = disk[k].failed
  BY <1>1 DEF Interrupted, JobState
<1>4. rows'[k] = table'[k]
  BY <1>1, <1>2, LoadRowsSeq DEF CleanJob
<1> QED
  BY <1>1, <1>2, <1>3, <1>4 DEF CleanJob

LEMMA CleanWorkerLocalStep ==
    ASSUME IInv, CleanInv, NEW j \in Jobs, NEW g \in Generations,
           TakeSnapshot(j, g) \/ SkipCompleted(j, g) \/ CheckCancel(j, g)
    PROVE  CleanInv'
<1>1. PICK w : Becomes(j, g, w) /\ w.pc # "fail"
  <2>1. worker[j][g] \in WorkerState /\ worker[j][g].pc # "fail"
    BY OwnerFacts, CleanFacts DEF TakeSnapshot, SkipCompleted, CheckCancel
  <2>2. CASE TakeSnapshot(j, g)
    BY <2>2 DEF TakeSnapshot
  <2>3. CASE SkipCompleted(j, g)
    <3>1. [worker[j][g] EXCEPT !.at = @ + 1].pc # "fail"
      BY <2>1 DEF WorkerState
    <3> QED
      BY <2>3, <3>1 DEF SkipCompleted
  <2>4. CASE CheckCancel(j, g)
    <3>1. (IF StopRequested(j, g) THEN NoWorker
                                  ELSE [worker[j][g] EXCEPT !.pc = "mark"]).pc # "fail"
      BY <2>1 DEF WorkerState, NoWorker
    <3> QED
      BY <2>4, <3>1 DEF CheckCancel
  <2> QED
    BY <2>2, <2>3, <2>4
<1>2. UNCHANGED <<up, mem, rows, disk, table>>
  BY DEF TakeSnapshot, SkipCompleted, CheckCancel
<1> QED
  BY <1>1, <1>2, NoFailure, CleanLocal

LEMMA CleanInit == ASSUME Init PROVE CleanInv
<1>1. << >> \in Seq(HasRows)
  BY EmptySeq
<1> QED
  BY <1>1 DEF Init, CleanInv, CleanJob, NoJob, NoWorker

LEMMA CleanStep == ASSUME IInv, CleanInv, Reliable, [Next]_vars PROVE CleanInv'
<1>1. CASE UNCHANGED vars
  BY <1>1 DEF vars, CleanInv, CleanJob
<1>2. CASE Next
  BY <1>2, CleanClientStep, CleanMarkStep, CleanRecordStep, CleanWorkerLocalStep,
     CleanDeathStep, CleanRestartStep DEF Next, WorkerStep
<1> QED
  BY <1>1, <1>2

LEMMA CleanInvariance == ASSUME Reliable PROVE Spec => [](IInv /\ CleanInv)
<1>1. Init => IInv /\ CleanInv
  BY InvInit, CleanInit
<1>2. IInv /\ CleanInv /\ [Next]_vars => (IInv /\ CleanInv)'
  BY InvStep, CleanStep
<1> QED
  BY <1>1, <1>2, PTL DEF Spec

\* If SQLite commits what it is given, the process may die at any moment, also
\* inside a critical section, and take back nothing a client has read.
THEOREM CommittedBeforeShown == Reliable => (Spec => []SavedBeforeShown)
<1> SUFFICES ASSUME Reliable PROVE Spec => []SavedBeforeShown
  OBVIOUS
<1>1. CleanInv => SavedBeforeShown
  BY DEF CleanInv, CleanJob, SavedBeforeShown
<1> QED
  BY <1>1, CleanInvariance, PTL

\* Under the same assumption no symbol is both completed and failed.
THEOREM OneResult == Reliable => (Spec => []OneResultPerSymbol)
<1> SUFFICES ASSUME Reliable PROVE Spec => []OneResultPerSymbol
  OBVIOUS
<1>1. IInv /\ CleanInv => OneResultPerSymbol
  <2> SUFFICES ASSUME IInv, CleanInv, NEW j \in Jobs
               PROVE  mem[j].completed \cap mem[j].failed = {}
    BY DEF OneResultPerSymbol
  <2>1. CASE up
    BY <2>1, CleanFacts
  <2>2. CASE ~up
    BY <2>2 DEF IInv, JobInv, FailedIsEmpty, NoJob
  <2> QED
    BY <2>1, <2>2
<1> QED
  BY <1>1, CleanInvariance, PTL

----------------------------------------------------------------------------
(* What no step takes back *)

\* A worker's step is one of a live thread and does not end the process.
LEMMA WorkerSteps ==
    ASSUME NEW k, NEW g, WorkerStep(k, g)
    PROVE  worker[k][g].pc # "off" /\ up' = up
<1>1. CASE MarkRunning(k, g)
  BY <1>1 DEF MarkRunning
<1>2. CASE TakeSnapshot(k, g)
  BY <1>2 DEF TakeSnapshot
<1>3. CASE SkipCompleted(k, g)
  BY <1>3 DEF SkipCompleted
<1>4. CASE CheckCancel(k, g)
  BY <1>4 DEF CheckCancel
<1>5. CASE MarkCurrent(k, g)
  BY <1>5 DEF MarkCurrent
<1>6. CASE RecordSuccess(k, g)
  BY <1>6 DEF RecordSuccess
<1>7. CASE RecordFailure(k, g)
  BY <1>7 DEF RecordFailure
<1>8. CASE Finish(k, g)
  BY <1>8 DEF Finish
<1> QED
  BY <1>1, <1>2, <1>3, <1>4, <1>5, <1>6, <1>7, <1>8 DEF WorkerStep

\* Only the current run's worker and the client touch a job, and neither
\* touches a finished one; out of "cancelled" there is only the retry.
LEMMA TouchedJob ==
    ASSUME IInv, Next, up, up', NEW j \in Jobs
    PROVE  /\ mem[j].status \in Finished => mem'[j] = mem[j] /\ rows'[j] = rows[j]
           /\ mem[j].status = "cancelled" =>
                 \/ mem'[j].status = "cancelled"
                 \/ mem'[j].status = "accepted" /\ mem'[j].gen = mem[j].gen + 1
<1>1. /\ TypeOK /\ \A k \in Jobs : mem[k] \in JobState
      /\ rows \in [Jobs -> Seq(HasRows)]
  BY DEF IInv, TypeOK
<1> DEFINE Kept == mem'[j] = mem[j] /\ rows'[j] = rows[j]
           Goal == /\ mem[j].status \in Finished => Kept
                   /\ mem[j].status = "cancelled" =>
                        \/ mem'[j].status = "cancelled"
                        \/ mem'[j].status = "accepted" /\ mem'[j].gen = mem[j].gen + 1
<1>2. Kept => Goal
  OBVIOUS
\* A job other than the saved one is left alone.
<1>3. ASSUME NEW k \in Jobs, NEW st, NEW c, Save(k, st, c), k # j
      PROVE  mem'[j] = mem[j]
  BY <1>1, <1>3, SaveEffect
<1>4. ASSUME NEW k \in Jobs, CreateJob(k) PROVE Goal
  <2> DEFINE st == [NoJob EXCEPT !.status = "accepted", !.gen = 1]
  <2>1. rows' = rows /\ \E c \in Commits : Save(k, st, c)
    BY <1>4 DEF CreateJob, Launch
  <2>2. CASE k = j
    BY <1>4, <2>2 DEF CreateJob, Finished
  <2>3. CASE k # j
    BY <1>3, <2>1, <2>3
  <2> QED
    BY <2>2, <2>3
<1>5. ASSUME NEW k \in Jobs, RetryJob(k) PROVE Goal
  <2> DEFINE st == RetriedState(mem[k])
  <2>1. rows' = rows /\ \E c \in Commits : Save(k, st, c)
    BY <1>5 DEF RetryJob, Launch
  <2>2. CASE k = j
    <3>1. st.status = "accepted" /\ st.gen = mem[k].gen + 1
      BY <1>1 DEF RetriedState, JobState
    <3>2. mem'[k] = st
      BY <1>1, <2>1, SaveEffect
    <3>3. mem[j].status \notin Finished
      BY <1>5, <2>2 DEF RetryJob, Retryable, Finished
    <3> QED
      BY <2>2, <3>1, <3>2, <3>3
  <2>3. CASE k # j
    BY <1>3, <2>1, <2>3
  <2> QED
    BY <2>2, <2>3
<1>6. ASSUME NEW k \in Jobs, CancelJob(k) PROVE Goal
  <2> DEFINE st == [mem[k] EXCEPT !.status = "cancelled", !.cancel = TRUE]
  <2>1. rows' = rows /\ \E c \in Commits : Save(k, st, c)
    BY <1>6 DEF CancelJob
  <2>2. CASE k = j
    <3>1. mem[j].status \notin Finished /\ mem[j].status # "cancelled"
      BY <1>6, <2>2 DEF CancelJob, Active, Finished
    <3> QED
      BY <3>1
  <2>3. CASE k # j
    BY <1>3, <2>1, <2>3
  <2> QED
    BY <2>2, <2>3
<1>7. ASSUME NEW k \in Jobs, NEW g \in Generations, WorkerStep(k, g) PROVE Goal
  <2>1. worker[k][g].pc # "off"
    BY <1>7, WorkerSteps
  <2>2. Owns(k, g) => mem[k].status \in {"accepted", "running", "cancelled"}
    BY <2>1, OwnerFacts DEF OwnerOK
  <2>3. CASE ~Owns(k, g)
    <3>1. mem' = mem /\ rows' = rows
      BY <1>7, <2>3 DEF WorkerStep, MarkRunning, TakeSnapshot, SkipCompleted,
           CheckCancel, MarkCurrent, RecordSuccess, RecordFailure, Finish, MayAdvance
    <3> QED
      BY <3>1
  <2>4. CASE Owns(k, g) /\ k # j
    <3>1. mem'[j] = mem[j]
      <4>1. mem' = mem \/ \E st, c : Save(k, st, c)
        BY <1>7 DEF WorkerStep, MarkRunning, TakeSnapshot, SkipCompleted,
             CheckCancel, MarkCurrent, RecordSuccess, RecordFailure, Finish
      <4> QED
        BY <1>3, <2>4, <4>1
    <3>2. rows'[j] = rows[j]
      BY <1>1, <1>7, <2>4 DEF WorkerStep, MarkRunning, TakeSnapshot, SkipCompleted,
           CheckCancel, MarkCurrent, RecordSuccess, RecordFailure, Finish
    <3> QED
      BY <3>1, <3>2
  <2>5. CASE Owns(k, g) /\ k = j
    <3>1. mem[j].status \notin Finished
      BY <2>2, <2>5 DEF Finished
    <3>2. ASSUME mem[j].status = "cancelled" PROVE mem'[j].status = "cancelled"
      <4>1. ~MayAdvance(j, g)
        BY <3>2 DEF MayAdvance
      <4>2. CASE RecordSuccess(j, g)
        <5> DEFINE st == SucceededState(mem[j], worker[j][g].at)
        <5>1. \E c : Save(j, st, c)
          BY <2>5, <4>2 DEF RecordSuccess
        <5>2. st.status = mem[j].status
          BY <1>1 DEF SucceededState, JobState
        <5> QED
          BY <1>1, <3>2, <5>1, <5>2, SaveEffect
      <4>3. CASE RecordFailure(j, g)
        <5> DEFINE st == [mem[j] EXCEPT !.failed = @ \cup {worker[j][g].at}]
        <5>1. \E c : Save(j, st, c)
          BY <2>5, <4>3 DEF RecordFailure
        <5>2. st.status = mem[j].status
          BY <1>1 DEF JobState
        <5> QED
          BY <1>1, <3>2, <5>1, <5>2, SaveEffect
      <4>4. CASE ~RecordSuccess(j, g) /\ ~RecordFailure(j, g)
        <5>1. mem' = mem
          BY <1>7, <2>5, <4>1, <4>4 DEF WorkerStep, MarkRunning, TakeSnapshot,
               SkipCompleted, CheckCancel, MarkCurrent, Finish
        <5> QED
          BY <3>2, <5>1
      <4> QED
        BY <4>2, <4>3, <4>4
    <3> QED
      BY <3>1, <3>2
  <2> QED
    BY <2>3, <2>4, <2>5
<1>8. ~Crash /\ ~Restart /\ \A k \in Jobs, g \in Generations : ~TornCrash(k, g)
  BY DEF Crash, TornCrash, Restart, ProcessDies
<1> QED
  BY <1>4, <1>5, <1>6, <1>7, <1>8 DEF Next

\* A job outside the queue is seen alike before and after the process dies.
LEMMA SeenAfterDeath ==
    ASSUME IInv, CleanInv, Crash \/ \E k \in Jobs, g \in Generations : TornCrash(k, g),
           NEW j \in Jobs, View(j).status \notin Active
    PROVE  /\ View(j)' = View(j)
           /\ View(j).status \in Finished => RowsView(j)' = RowsView(j)
<1>1. up /\ ~up' /\ disk' = disk
  BY OwnerFacts DEF Crash, TornCrash, ProcessDies
<1>2. mem[j] = disk[j] /\ rows[j] = table[j] /\ table[j] \in Seq(HasRows)
  BY <1>1, CleanFacts
<1>3. View(j) = mem[j] /\ RowsView(j) = rows[j] /\ RowsView(j)' = LoadRows(table'[j])
  BY <1>1 DEF View, RowsView
<1>4. View(j)' = mem[j]
  BY <1>1, <1>2, <1>3 DEF View, Interrupted
<1>5. ASSUME mem[j].status \in Finished PROVE table'[j] = table[j]
  <2>1. CASE Crash
    BY <2>1 DEF Crash
  <2>2. CASE \E k \in Jobs, g \in Generations : TornCrash(k, g)
    <3> PICK k \in Jobs, g \in Generations : TornCrash(k, g)
      BY <2>2
    <3>1. mem[k].status \in {"accepted", "running", "cancelled"}
      BY OwnerFacts DEF TornCrash, OwnerOK
    <3>2. k # j
      BY <1>5, <3>1 DEF Finished
    <3>3. table = [i \in Jobs |-> table[i]]
      BY DEF IInv, TypeOK
    <3> QED
      BY <3>2, <3>3 DEF TornCrash
  <2> QED
    BY <2>1, <2>2
<1>6. mem[j].status \in Finished => LoadRows(table'[j]) = rows[j]
  BY <1>2, <1>5, LoadRowsSeq
<1> QED
  BY <1>3, <1>4, <1>6

\* Nothing changes for the client when the gateway is back.
LEMMA SeenAfterRestart ==
    ASSUME Restart, NEW j \in Jobs
    PROVE  View(j)' = View(j) /\ RowsView(j)' = RowsView(j)
BY DEF Restart, View, RowsView

\* What the two theorems below say of one step.
LEMMA NothingTakenBack ==
    ASSUME IInv, CleanInv, [Next]_vars, NEW j \in Jobs
    PROVE  /\ View(j).status \in Finished =>
                 View(j)' = View(j) /\ RowsView(j)' = RowsView(j)
           /\ View(j).status = "cancelled" =>
                 \/ View(j)'.status = "cancelled"
                 \/ View(j)'.status = "accepted" /\ View(j)'.gen = View(j).gen + 1
<1>1. CASE UNCHANGED vars
  BY <1>1 DEF vars, View, RowsView
<1>2. CASE Next /\ up /\ up'
  <2>1. /\ View(j) = mem[j] /\ View(j)' = mem'[j]
        /\ RowsView(j) = rows[j] /\ RowsView(j)' = rows'[j]
    BY <1>2 DEF View, RowsView
  <2> QED
    BY <1>2, <2>1, TouchedJob
<1>3. CASE Next /\ ~up
  <2>1. \A k \in Jobs, g \in Generations : worker[k][g].pc = "off"
    BY <1>3 DEF IInv, JobInv, WorkerOK
  <2>2. \A k \in Jobs, g \in Generations : ~WorkerStep(k, g) /\ ~TornCrash(k, g)
    BY <2>1, WorkerSteps DEF TornCrash
  <2>3. Restart
    BY <1>3, <2>2 DEF Next, CreateJob, RetryJob, CancelJob, Crash
  <2> QED
    BY <2>3, SeenAfterRestart
<1>4. CASE Next /\ up /\ ~up'
  <2>1. Crash \/ \E k \in Jobs, g \in Generations : TornCrash(k, g)
    <3>1. \A k \in Jobs : ~CreateJob(k) /\ ~RetryJob(k) /\ ~CancelJob(k)
      BY <1>4 DEF CreateJob, RetryJob, CancelJob, Launch
    <3>2. \A k \in Jobs, g \in Generations : ~WorkerStep(k, g)
      BY <1>4, WorkerSteps
    <3> QED
      BY <1>4, <3>1, <3>2 DEF Next, Restart
  <2>2. View(j).status \in Finished \cup {"cancelled"} => View(j).status \notin Active
    BY DEF Finished, Active
  <2> QED
    BY <2>1, <2>2, SeenAfterDeath
<1> QED
  BY <1>1, <1>2, <1>3, <1>4

\* A cancelled job is left by nothing but a retry, if SQLite commits what it is
\* given: no late worker, crash or restart overwrites the cancellation.
THEOREM Cancelled == Reliable => (Spec => CancellationSticks)
<1> SUFFICES ASSUME Reliable PROVE Spec => CancellationSticks
  OBVIOUS
<1> DEFINE Sticks == \A j \in Jobs : View(j).status = "cancelled" =>
                       \/ View(j)'.status = "cancelled"
                       \/ View(j)'.status = "accepted" /\ View(j)'.gen = View(j).gen + 1
<1>1. IInv /\ CleanInv /\ [Next]_vars => Sticks
  BY NothingTakenBack
<1>2. Spec => [](IInv /\ CleanInv)
  BY CleanInvariance
<1> QED
  BY <1>1, <1>2, PTL DEF Spec, CancellationSticks

\* A completed job and its rows never change again, if SQLite commits what it
\* is given.
THEOREM Final == Reliable => (Spec => FinishedIsFinal)
<1> SUFFICES ASSUME Reliable PROVE Spec => FinishedIsFinal
  OBVIOUS
<1> DEFINE Stays == \A j \in Jobs : View(j).status \in Finished =>
                       View(j)' = View(j) /\ RowsView(j)' = RowsView(j)
<1>1. IInv /\ CleanInv /\ [Next]_vars => Stays
  BY NothingTakenBack
<1>2. Spec => [](IInv /\ CleanInv)
  BY CleanInvariance
<1> QED
  BY <1>1, <1>2, PTL DEF Spec, FinishedIsFinal

----------------------------------------------------------------------------
(* Every active job has its worker *)

HasWorker(j) == mem[j].status \in Active => worker[j][mem[j].gen].pc # "off"

\* Another job than the one a step is about keeps its state and its workers.
LEMMA OthersKeepWorkers ==
    ASSUME IInv, NEW j \in Jobs, NEW g \in Generations, NEW w, Becomes(j, g, w),
           mem' = mem \/ \E st, c : Save(j, st, c),
           NEW k \in Jobs, k # j, HasWorker(k)
    PROVE  HasWorker(k)'
<1>1. TypeOK
  BY DEF IInv
<1>2. mem'[k] = mem[k]
  BY <1>1, SaveEffect
<1>3. worker'[k] = worker[k]
  BY <1>1, BecomesEffect
<1> QED
  BY <1>2, <1>3 DEF HasWorker

\* A worker that goes on leaves an active job with one.
LEMMA WorkerGoesOn ==
    ASSUME IInv, NEW j \in Jobs, NEW g \in Generations, NEW w, Becomes(j, g, w),
           w.pc # "off", mem'[j].gen = mem[j].gen, HasWorker(j),
           mem'[j].status \in Active => mem[j].status \in Active
    PROVE  HasWorker(j)'
<1>1. TypeOK /\ mem[j] \in JobState /\ StateOK(j, mem[j])
  BY DEF IInv, TypeOK, JobInv
<1>2. mem[j].status \in Active => mem[j].gen \in Generations
  BY <1>1, JobConstants DEF StateOK, JobState, Generations, Active
<1>3. /\ worker'[j][g] = w
      /\ \A h \in Generations \ {g} : worker'[j][h] = worker[j][h]
  BY <1>1, BecomesEffect
<1> QED
  BY <1>2, <1>3 DEF HasWorker

\* A worker that ends leaves a job that is another run's, or not active.
LEMMA WorkerEnds ==
    ASSUME IInv, NEW j \in Jobs, NEW g \in Generations, Becomes(j, g, NoWorker),
           HasWorker(j),
           \/ ~Owns(j, g) /\ mem'[j] = mem[j]
           \/ mem'[j].status \notin Active
    PROVE  HasWorker(j)'
<1>1. TypeOK /\ mem[j] \in JobState /\ StateOK(j, mem[j])
  BY DEF IInv, TypeOK, JobInv
<1>2. mem[j].status \in Active => mem[j].gen \in Generations
  BY <1>1, JobConstants DEF StateOK, JobState, Generations, Active
<1>3. \A h \in Generations \ {g} : worker'[j][h] = worker[j][h]
  BY <1>1, BecomesEffect
<1> QED
  BY <1>2, <1>3 DEF HasWorker, Owns

LEMMA WorkerKeepsQueue ==
    ASSUME IInv, CleanInv, Reliable, NEW j \in Jobs, NEW g \in Generations,
           WorkerStep(j, g), HasWorker(j)
    PROVE  HasWorker(j)'
<1>1. worker[j][g].pc # "off"
  BY WorkerSteps
<1>2. /\ TypeOK /\ mem[j] \in JobState /\ worker[j][g] \in WorkerState
      /\ StateOK(j, mem[j]) /\ worker[j][g].pc # "fail"
      /\ Owns(j, g) => OwnerOK(j, worker[j][g])
  BY <1>1, OwnerFacts, CleanFacts DEF IInv
<1>3. \A c \in Commits : c = TRUE
  BY AllCommit
<1>4. \A x \in {"start", "snap", "loop", "mark", "fetch"} :
        [worker[j][g] EXCEPT !.pc = x].pc = x
  BY <1>2 DEF WorkerState
<1>5. CASE MarkRunning(j, g)
  <2>1. Becomes(j, g, [worker[j][g] EXCEPT !.pc = "snap"])
    BY <1>3, <1>5 DEF MarkRunning
  <2>2. CASE MayAdvance(j, g)
    <3> DEFINE st == [mem[j] EXCEPT !.status = "running"]
    <3>1. \E c : Save(j, st, c)
      BY <1>5, <2>2 DEF MarkRunning
    <3>2. mem'[j].gen = mem[j].gen
      BY <1>2, <3>1, SaveEffect DEF JobState
    <3>3. mem[j].status \in Active
      BY <1>2, <1>5, <2>2 DEF MarkRunning, MayAdvance, OwnerOK, Active
    <3> QED
      BY <1>4, <2>1, <3>2, <3>3, WorkerGoesOn
  <2>3. CASE ~MayAdvance(j, g)
    <3>1. mem' = mem
      BY <1>5, <2>3 DEF MarkRunning
    <3> QED
      BY <1>4, <2>1, <3>1, WorkerGoesOn
  <2> QED
    BY <2>2, <2>3
<1>6. CASE TakeSnapshot(j, g)
  BY <1>6, WorkerGoesOn DEF TakeSnapshot
<1>7. CASE SkipCompleted(j, g)
  <2>1. [worker[j][g] EXCEPT !.at = @ + 1].pc # "off"
    BY <1>1, <1>2 DEF WorkerState
  <2> QED
    BY <1>7, <2>1, WorkerGoesOn DEF SkipCompleted
<1>8. CASE CheckCancel(j, g)
  <2>1. mem' = mem
    BY <1>8 DEF CheckCancel
  <2>2. CASE StopRequested(j, g)
    <3>1. Becomes(j, g, NoWorker)
      BY <1>8, <2>2 DEF CheckCancel
    <3>2. ~Owns(j, g) \/ mem[j].status \notin Active
      BY <1>2, <2>2 DEF StopRequested, StateOK, Active
    <3> QED
      BY <2>1, <3>1, <3>2, WorkerEnds
  <2>3. CASE ~StopRequested(j, g)
    <3>1. Becomes(j, g, [worker[j][g] EXCEPT !.pc = "mark"])
      BY <1>8, <2>3 DEF CheckCancel
    <3> QED
      BY <1>4, <2>1, <3>1, WorkerGoesOn
  <2> QED
    BY <2>2, <2>3
<1>9. CASE MarkCurrent(j, g)
  <2>1. Becomes(j, g, [worker[j][g] EXCEPT !.pc = "fetch"])
    BY <1>3, <1>9 DEF MarkCurrent
  <2>2. mem'[j].gen = mem[j].gen /\ mem'[j].status = mem[j].status
    <3> DEFINE st == [mem[j] EXCEPT !.current = worker[j][g].at]
    <3>1. mem' = mem \/ \E c : Save(j, st, c)
      BY <1>9 DEF MarkCurrent
    <3>2. st.gen = mem[j].gen /\ st.status = mem[j].status
      BY <1>2 DEF JobState
    <3> QED
      BY <1>2, <3>1, <3>2, SaveEffect
  <2> QED
    BY <1>4, <2>1, <2>2, WorkerGoesOn
<1>10. CASE RecordSuccess(j, g) \/ RecordFailure(j, g)
  <2> DEFINE ok == SucceededState(mem[j], worker[j][g].at)
             no == [mem[j] EXCEPT !.failed = @ \cup {worker[j][g].at}]
  <2>1. Becomes(j, g, NextSymbol(worker[j][g]))
    BY <1>3, <1>10 DEF RecordSuccess, RecordFailure
  <2>2. NextSymbol(worker[j][g]).pc # "off"
    BY <1>2 DEF NextSymbol, WorkerState
  <2>3. mem' = mem \/ (\E c : Save(j, ok, c)) \/ (\E c : Save(j, no, c))
    BY <1>10 DEF RecordSuccess, RecordFailure
  <2>4. /\ ok.gen = mem[j].gen /\ ok.status = mem[j].status
        /\ no.gen = mem[j].gen /\ no.status = mem[j].status
    BY <1>2 DEF SucceededState, JobState
  <2>5. mem'[j].gen = mem[j].gen /\ mem'[j].status = mem[j].status
    BY <1>2, <2>3, <2>4, SaveEffect
  <2> QED
    BY <2>1, <2>2, <2>5, WorkerGoesOn
<1>11. CASE Finish(j, g)
  <2>1. Becomes(j, g, NoWorker)
    BY <1>11 DEF Finish
  <2>2. CASE MayAdvance(j, g)
    <3> DEFINE st == [mem[j] EXCEPT !.status = Outcome(j), !.current = 0]
    <3>1. \E c : Save(j, st, c)
      BY <1>11, <2>2 DEF Finish
    <3>2. st.status \notin Active
      BY <1>2 DEF Outcome, Active, JobState
    <3> QED
      BY <1>2, <2>1, <3>1, <3>2, SaveEffect, WorkerEnds
  <2>3. CASE ~MayAdvance(j, g)
    <3>1. mem' = mem
      BY <1>11, <2>3 DEF Finish
    <3> QED
      BY <2>1, <2>3, <3>1, WorkerEnds DEF MayAdvance, Active
  <2> QED
    BY <2>2, <2>3
<1> QED
  BY <1>5, <1>6, <1>7, <1>8, <1>9, <1>10, <1>11 DEF WorkerStep

\* An accepted run gets a thread at once.
LEMMA LaunchHasWorker ==
    ASSUME IInv, Reliable, NEW j \in Jobs, NEW st, st.gen \in Generations, Launch(j, st)
    PROVE  /\ HasWorker(j)'
           /\ \E w : Becomes(j, st.gen, w)
           /\ \E c : Save(j, st, c)
<1> DEFINE w == [NoWorker EXCEPT !.pc = "start"]
<1>1. TypeOK /\ \A c \in Commits : c = TRUE
  BY AllCommit DEF IInv
<1>2. Becomes(j, st.gen, w) /\ \E c : Save(j, st, c)
  BY <1>1 DEF Launch
<1>3. w.pc = "start"
  BY DEF NoWorker
<1>4. mem'[j] = st /\ worker'[j][st.gen] = w
  BY <1>1, <1>2, SaveEffect, BecomesEffect
<1> QED
  BY <1>2, <1>3, <1>4 DEF HasWorker

LEMMA ClientKeepsQueue ==
    ASSUME IInv, Reliable, NEW j \in Jobs, CreateJob(j) \/ RetryJob(j) \/ CancelJob(j),
           NEW k \in Jobs, HasWorker(k)
    PROVE  HasWorker(k)'
<1>1. TypeOK /\ mem[j] \in JobState
  BY DEF IInv, TypeOK
<1>2. CASE CreateJob(j) \/ RetryJob(j)
  <2>1. PICK st : st.gen \in Generations /\ Launch(j, st)
    <3>1. CASE CreateJob(j)
      BY <3>1, NothingYet DEF CreateJob
    <3>2. CASE RetryJob(j)
      BY <1>1, <3>2, JobUpdates DEF RetryJob
    <3> QED
      BY <1>2, <3>1, <3>2
  <2> QED
    BY <2>1, LaunchHasWorker, OthersKeepWorkers
<1>3. CASE CancelJob(j)
  <2> DEFINE st == [mem[j] EXCEPT !.status = "cancelled", !.cancel = TRUE]
  <2>1. worker' = worker /\ \E c : Save(j, st, c)
    BY <1>3 DEF CancelJob
  <2>2. st.status \notin Active
    BY <1>1 DEF JobState, Active
  <2>3. mem'[j] = st /\ \A i \in Jobs \ {j} : mem'[i] = mem[i]
    BY <1>1, <2>1, SaveEffect
  <2> QED
    BY <2>1, <2>2, <2>3 DEF HasWorker
<1> QED
  BY <1>2, <1>3

LEMMA QueueStep ==
    ASSUME IInv, CleanInv, Reliable, [Next]_vars, ActiveJobHasWorker
    PROVE  ActiveJobHasWorker'
<1> SUFFICES ASSUME up', NEW k \in Jobs PROVE HasWorker(k)'
  BY DEF ActiveJobHasWorker, HasWorker
<1>1. up => HasWorker(k)
  BY DEF ActiveJobHasWorker, HasWorker
<1>2. CASE UNCHANGED vars
  BY <1>1, <1>2 DEF vars, HasWorker
<1>3. ASSUME NEW j \in Jobs, CreateJob(j) \/ RetryJob(j) \/ CancelJob(j)
      PROVE  HasWorker(k)'
  <2>1. up
    BY <1>3 DEF CreateJob, RetryJob, CancelJob
  <2> QED
    BY <1>1, <1>3, <2>1, ClientKeepsQueue
<1>4. ASSUME NEW j \in Jobs, NEW g \in Generations, WorkerStep(j, g)
      PROVE  HasWorker(k)'
  <2>1. up
    BY <1>4, WorkerSteps, OwnerFacts
  <2>2. \E w : Becomes(j, g, w)
    BY <1>4 DEF WorkerStep, MarkRunning, TakeSnapshot, SkipCompleted,
         CheckCancel, MarkCurrent, RecordSuccess, RecordFailure, Finish
  <2>3. mem' = mem \/ \E st, c : Save(j, st, c)
    BY <1>4 DEF WorkerStep, MarkRunning, TakeSnapshot, SkipCompleted,
         CheckCancel, MarkCurrent, RecordSuccess, RecordFailure, Finish
  <2> QED
    BY <1>1, <1>4, <2>1, <2>2, <2>3, OthersKeepWorkers, WorkerKeepsQueue
<1>5. ~Crash /\ \A j \in Jobs, g \in Generations : ~TornCrash(j, g)
  BY DEF Crash, TornCrash, ProcessDies
<1>6. CASE Restart
  <2>1. mem'[k] = Interrupted(disk[k]) /\ disk[k] \in JobState
    BY <1>6 DEF Restart, IInv, TypeOK
  <2>2. Interrupted(disk[k]).status \notin Active
    BY <2>1 DEF Interrupted, Active, JobState
  <2> QED
    BY <2>1, <2>2 DEF HasWorker
<1> QED
  BY <1>2, <1>3, <1>4, <1>5, <1>6 DEF Next

\* As long as transactions commit, a job that holds a place of the queue has a
\* live thread of its current run, whoever cancels, retries or dies meanwhile.
THEOREM QueuePlacesReturn == Reliable => (Spec => []ActiveJobHasWorker)
<1> SUFFICES ASSUME Reliable PROVE Spec => []ActiveJobHasWorker
  OBVIOUS
<1>1. Init => ActiveJobHasWorker
  BY DEF Init, ActiveJobHasWorker, NoJob, Active
<1>2. IInv /\ CleanInv /\ ActiveJobHasWorker /\ [Next]_vars => ActiveJobHasWorker'
  BY QueueStep
<1>3. Spec => [](IInv /\ CleanInv)
  BY CleanInvariance
<1> QED
  BY <1>1, <1>2, <1>3, PTL DEF Spec

----------------------------------------------------------------------------
(* How a job's rows grow *)

Unseen == \A j \in Jobs : disk[j].gen = 0 => disk[j].completed = {}

Kept(j) ==
    /\ disk'[j].completed = disk[j].completed
    /\ table'[j] = table[j]
    /\ disk'[j].gen = 0 => disk[j].gen = 0

\* A symbol that had no result gets one, with its rows.
Recorded(j) ==
    /\ disk'[j].gen # 0
    /\ \E s \in Nat : /\ s \notin disk[j].completed
                      /\ disk'[j].completed = disk[j].completed \cup {s}
                      /\ table'[j] = table[j] \o FetchedRows(s)

\* The process dies between the rows of a symbol and its result.
Torn(j) ==
    /\ "torn" \in Faults
    /\ disk'[j] = disk[j]
    /\ \E s \in Nat : table'[j] = table[j] \o FetchedRows(s)

\* A step that saves a job with what it had completed.
LEMMA SaveKeeps ==
    ASSUME IInv, CleanInv, up, Reliable, NEW j \in Jobs, NEW st, NEW c \in Commits,
           Save(j, st, c), st.completed = mem[j].completed, table' = table,
           st.gen = 0 => mem[j].gen = 0, NEW k \in Jobs
    PROVE  Kept(k)
<1>1. TypeOK /\ c = TRUE
  BY AllCommit DEF IInv
<1>2. disk'[j] = st /\ \A i \in Jobs \ {j} : disk'[i] = disk[i]
  BY <1>1, SaveEffect
<1>3. mem[j] = disk[j]
  BY CleanFacts
<1> QED
  BY <1>2, <1>3 DEF Kept

LEMMA ClientGrowth ==
    ASSUME IInv, CleanInv, Unseen, Reliable, NEW j \in Jobs,
           CreateJob(j) \/ RetryJob(j) \/ CancelJob(j), NEW k \in Jobs
    PROVE  Kept(k)
<1>1. /\ up /\ table' = table /\ mem[j] \in JobState /\ StateOK(j, mem[j])
  BY DEF CreateJob, RetryJob, CancelJob, Launch, IInv, TypeOK, JobInv
<1>2. CASE CreateJob(j)
  <2> DEFINE st == [NoJob EXCEPT !.status = "accepted", !.gen = 1]
  <2>1. PICK c \in Commits : Save(j, st, c)
    BY <1>2 DEF CreateJob, Launch
  <2>2. st.completed = {} /\ st.gen = 1
    BY DEF NoJob
  <2>3. mem[j] = disk[j] /\ mem[j].gen = 0
    BY <1>1, <1>2, CleanFacts DEF CreateJob, StateOK
  <2>4. mem[j].completed = {}
    BY <2>3 DEF Unseen
  <2>5. st.completed = mem[j].completed
    BY <2>2, <2>4
  <2> HIDE DEF st
  <2> QED
    BY <1>1, <2>1, <2>3, <2>5, SaveKeeps
<1>3. CASE RetryJob(j)
  <2> DEFINE st == RetriedState(mem[j])
  <2>1. PICK c \in Commits : Save(j, st, c)
    BY <1>3 DEF RetryJob, Launch
  <2>2. st.completed = mem[j].completed /\ st.gen = mem[j].gen + 1
    BY <1>1 DEF RetriedState, JobState
  <2>3. st.gen # 0
    BY <1>1, <2>2 DEF JobState
  <2> HIDE DEF st
  <2> QED
    BY <1>1, <2>1, <2>2, <2>3, SaveKeeps
<1>4. CASE CancelJob(j)
  <2> DEFINE st == [mem[j] EXCEPT !.status = "cancelled", !.cancel = TRUE]
  <2>1. PICK c \in Commits : Save(j, st, c)
    BY <1>4 DEF CancelJob
  <2>2. st.completed = mem[j].completed /\ st.gen = mem[j].gen
    BY <1>1 DEF JobState
  <2> QED
    BY <1>1, <2>1, <2>2, SaveKeeps
<1> QED
  BY <1>2, <1>3, <1>4

\* The steps of a worker that do not record a success.
LEMMA WorkerKeepsRows ==
    ASSUME IInv, CleanInv, Reliable, NEW j \in Jobs, NEW g \in Generations,
           WorkerStep(j, g), ~RecordSuccess(j, g), NEW k \in Jobs
    PROVE  Kept(k)
<1>1. worker[j][g].pc # "off" /\ up
  BY WorkerSteps, OwnerFacts
<1>2. mem[j] \in JobState
  BY <1>1, OwnerFacts
<1>3. table' = table
  BY DEF WorkerStep, MarkRunning, TakeSnapshot, SkipCompleted, CheckCancel,
     MarkCurrent, RecordFailure, Finish
<1>4. CASE disk' = disk
  BY <1>3, <1>4 DEF Kept
<1>5. CASE disk' # disk
  <2>1. PICK st : /\ st.completed = mem[j].completed /\ st.gen = mem[j].gen
                  /\ \E c \in Commits : Save(j, st, c)
    <3>1. CASE MarkRunning(j, g)
      <4> DEFINE st == [mem[j] EXCEPT !.status = "running"]
      <4>1. st.completed = mem[j].completed /\ st.gen = mem[j].gen
        BY <1>2 DEF JobState
      <4>2. \E c \in Commits : Save(j, st, c)
        BY <1>5, <3>1 DEF MarkRunning
      <4> HIDE DEF st
      <4> QED
        BY <4>1, <4>2
    <3>2. CASE MarkCurrent(j, g)
      <4> DEFINE st == [mem[j] EXCEPT !.current = worker[j][g].at]
      <4>1. st.completed = mem[j].completed /\ st.gen = mem[j].gen
        BY <1>2 DEF JobState
      <4>2. \E c \in Commits : Save(j, st, c)
        BY <1>5, <3>2 DEF MarkCurrent
      <4> HIDE DEF st
      <4> QED
        BY <4>1, <4>2
    <3>3. CASE RecordFailure(j, g)
      <4> DEFINE st == [mem[j] EXCEPT !.failed = @ \cup {worker[j][g].at}]
      <4>1. st.completed = mem[j].completed /\ st.gen = mem[j].gen
        BY <1>2 DEF JobState
      <4>2. \E c \in Commits : Save(j, st, c)
        BY <1>5, <3>3 DEF RecordFailure
      <4> HIDE DEF st
      <4> QED
        BY <4>1, <4>2
    <3>4. CASE Finish(j, g)
      <4> DEFINE st == [mem[j] EXCEPT !.status = Outcome(j), !.current = 0]
      <4>1. st.completed = mem[j].completed /\ st.gen = mem[j].gen
        BY <1>2 DEF JobState
      <4>2. \E c \in Commits : Save(j, st, c)
        BY <1>5, <3>4 DEF Finish
      <4> HIDE DEF st
      <4> QED
        BY <4>1, <4>2
    <3> QED
      BY <1>5, <3>1, <3>2, <3>3, <3>4 DEF WorkerStep, TakeSnapshot, SkipCompleted,
         CheckCancel
  <2> QED
    BY <1>1, <1>3, <2>1, SaveKeeps
<1> QED
  BY <1>4, <1>5

LEMMA SuccessGrowth ==
    ASSUME IInv, CleanInv, Reliable, NEW j \in Jobs, NEW g \in Generations,
           RecordSuccess(j, g), NEW k \in Jobs
    PROVE  Kept(k) \/ Recorded(k)
<1> DEFINE s == worker[j][g].at
<1>1. worker[j][g].pc = "fetch"
  BY CleanFacts DEF RecordSuccess
<1>2. /\ TypeOK /\ up /\ mem[j] \in JobState /\ worker[j][g] \in WorkerState
      /\ mem[j] = disk[j] /\ rows[j] = table[j] /\ table[j] \in Seq(HasRows)
      /\ Owns(j, g) => OwnerOK(j, worker[j][g])
  BY <1>1, OwnerFacts, CleanFacts DEF IInv
<1>3. CASE ~Owns(j, g)
  BY <1>3 DEF RecordSuccess, Kept
<1>4. CASE Owns(j, g)
  <2> DEFINE st == SucceededState(mem[j], s)
  <2>1. PICK a \in Commits, c \in Commits :
          /\ table' = IF a THEN [table EXCEPT ![j] =
                                   AppendAt(@, Len(rows[j]), FetchedRows(s))]
                      ELSE table
          /\ Save(j, st, c)
    BY <1>4 DEF RecordSuccess
  <2>2. a = TRUE /\ c = TRUE
    BY AllCommit
  <2>3. disk'[j] = st /\ \A i \in Jobs \ {j} : disk'[i] = disk[i]
    BY <1>2, <2>1, <2>2, SaveEffect
  <2>4. table = [i \in Jobs |-> table[i]]
    BY <1>2 DEF TypeOK
  <2>5. /\ table'[j] = AppendAt(table[j], Len(table[j]), FetchedRows(s))
        /\ \A i \in Jobs \ {j} : table'[i] = table[i]
    BY <1>2, <2>1, <2>2, <2>4
  <2>6. table'[j] = table[j] \o FetchedRows(s)
    BY <1>2, <2>5, FetchedRowsSeq, AppendAtSeq
  <2>7. s \in Nat /\ s \notin mem[j].completed
    <3>1. s \in Nat /\ s \notin 1 .. s - 1
      BY <1>2 DEF WorkerState
    <3> QED
      BY <1>1, <1>2, <1>4, <3>1 DEF OwnerOK
  <2>8. st.completed = mem[j].completed \cup {s} /\ st.gen = mem[j].gen
    BY <1>2 DEF SucceededState, JobState
  <2>9. st.gen # 0
    BY <1>4, <2>8 DEF Owns, Generations
  <2>10. CASE k = j
    BY <1>2, <2>3, <2>6, <2>7, <2>8, <2>9, <2>10 DEF Recorded
  <2>11. CASE k # j
    BY <2>3, <2>5, <2>11 DEF Kept
  <2> QED
    BY <2>10, <2>11
<1> QED
  BY <1>3, <1>4

LEMMA TornGrowth ==
    ASSUME IInv, CleanInv, NEW j \in Jobs, NEW g \in Generations,
           TornCrash(j, g), NEW k \in Jobs
    PROVE  Kept(k) \/ Torn(k)
<1> DEFINE s == worker[j][g].at
<1>1. worker[j][g].pc = "fetch" /\ "torn" \in Faults /\ disk' = disk
  BY DEF TornCrash
<1>2. /\ TypeOK /\ worker[j][g] \in WorkerState
      /\ rows[j] = table[j] /\ table[j] \in Seq(HasRows)
  BY <1>1, OwnerFacts, CleanFacts DEF IInv
<1>3. table = [i \in Jobs |-> table[i]]
  BY <1>2 DEF TypeOK
<1>4. /\ table'[j] = AppendAt(table[j], Len(table[j]), FetchedRows(s))
      /\ \A i \in Jobs \ {j} : table'[i] = table[i]
  BY <1>2, <1>3 DEF TornCrash
<1>5. table'[j] = table[j] \o FetchedRows(s)
  BY <1>2, <1>4, FetchedRowsSeq, AppendAtSeq
<1>6. s \in Nat
  BY <1>2 DEF WorkerState
<1> QED
  BY <1>1, <1>4, <1>5, <1>6 DEF Kept, Torn

\* All that a step can do to the tables of a job.
LEMMA Growth ==
    ASSUME IInv, CleanInv, Unseen, Reliable, [Next]_vars, NEW k \in Jobs
    PROVE  Kept(k) \/ Recorded(k) \/ Torn(k)
<1>1. CASE UNCHANGED vars
  BY <1>1 DEF vars, Kept
<1>2. CASE Crash
  BY <1>2 DEF Crash, Kept
<1>3. CASE Restart
  <2>1. disk'[k] = Interrupted(disk[k]) /\ disk[k] \in JobState /\ table' = table
    BY <1>3 DEF Restart, IInv, TypeOK
  <2>2. /\ Interrupted(disk[k]).completed = disk[k].completed
        /\ Interrupted(disk[k]).gen = disk[k].gen
    BY <2>1 DEF Interrupted, JobState
  <2> QED
    BY <2>1, <2>2 DEF Kept
<1> QED
  BY <1>1, <1>2, <1>3, ClientGrowth, WorkerKeepsRows, SuccessGrowth, TornGrowth
  DEF Next, WorkerStep

\* What the rows of a fetch add to a table.
LEMMA Appended ==
    ASSUME NEW tbl \in Seq(HasRows), NEW s
    PROVE  /\ tbl \o FetchedRows(s) \in Seq(HasRows)
           /\ Len(tbl) \in Nat
           /\ \A i \in 1 .. Len(tbl) : (tbl \o FetchedRows(s))[i] = tbl[i]
           /\ s \in HasRows => /\ Len(tbl \o FetchedRows(s)) = Len(tbl) + 1
                               /\ (tbl \o FetchedRows(s))[Len(tbl) + 1] = s
           /\ s \notin HasRows => tbl \o FetchedRows(s) = tbl
<1> PICK F : F = FetchedRows(s)
  OBVIOUS
<1> PICK cat : cat = tbl \o F
  OBVIOUS
<1> PICK n : n = Len(tbl)
  OBVIOUS
<1>1. /\ F \in Seq(HasRows)
      /\ s \in HasRows => F[1] = s /\ Len(F) = 1
      /\ s \notin HasRows => F = << >> /\ Len(F) = 0
  BY FetchedRowsSeq
<1>2. n \in Nat /\ Len(F) \in Nat
  BY <1>1, LenProperties
<1>3. /\ cat \in Seq(HasRows) /\ Len(cat) = n + Len(F)
      /\ \A i \in 1 .. n + Len(F) : cat[i] = IF i <= n THEN tbl[i] ELSE F[i - n]
  BY <1>1, ConcatProperties
<1>4. \A i \in 1 .. n : cat[i] = tbl[i]
  BY <1>2, <1>3
<1>5. ASSUME s \in HasRows PROVE cat[n + 1] = s
  <2>1. Len(F) = 1 /\ F[1] = s
    BY <1>1, <1>5
  <2>2. n + 1 \in 1 .. n + 1 /\ ~(n + 1 <= n) /\ n + 1 - n = 1
    BY <1>2
  <2> QED
    BY <1>3, <2>1, <2>2
<1>6. s \notin HasRows => cat = tbl
  BY <1>1, ConcatEmptySeq
<1> QED
  BY <1>1, <1>2, <1>3, <1>4, <1>5, <1>6

\* What was in a table is still there, and what was fetched is there now.
LEMMA StillStored ==
    ASSUME NEW tbl \in Seq(HasRows), NEW s, NEW x \in HasRows,
           x = s \/ \E i \in 1 .. Len(tbl) : tbl[i] = x
    PROVE  \E i \in 1 .. Len(tbl \o FetchedRows(s)) : (tbl \o FetchedRows(s))[i] = x
<1> PICK cat : cat = tbl \o FetchedRows(s)
  OBVIOUS
<1>1. /\ Len(tbl) \in Nat
      /\ \A i \in 1 .. Len(tbl) : cat[i] = tbl[i]
      /\ s \in HasRows => Len(cat) = Len(tbl) + 1 /\ cat[Len(tbl) + 1] = s
      /\ s \notin HasRows => cat = tbl
  BY Appended
<1>2. CASE \E i \in 1 .. Len(tbl) : tbl[i] = x
  BY <1>1, <1>2
<1>3. CASE x = s
  BY <1>1, <1>3
<1> QED
  BY <1>2, <1>3

----------------------------------------------------------------------------
(* Rows and results *)

Stored(j) ==
    /\ disk[j].gen = 0 => disk[j].completed = {}
    /\ \A s \in disk[j].completed \cap HasRows :
          \E i \in 1 .. Len(table[j]) : table[j][i] = s

\* The rows of a table are of symbols of C, each there once.
OnceIn(tbl, C) ==
    \A m \in 1 .. Len(tbl) :
        /\ tbl[m] \in C
        /\ \A n \in 1 .. Len(tbl) : tbl[m] = tbl[n] => m = n

\* Without a torn result: the rows are those of completed symbols, once each.
Once(j) == OnceIn(table[j], disk[j].completed)

LEMMA StoredStep ==
    ASSUME IInv, CleanInv, Reliable, \A j \in Jobs : Stored(j), [Next]_vars,
           NEW k \in Jobs
    PROVE  Stored(k)'
<1>1. Unseen /\ table[k] \in Seq(HasRows)
  BY DEF Unseen, Stored, CleanInv, CleanJob
<1>2. CASE Kept(k)
  BY <1>2 DEF Kept, Stored
<1>3. ASSUME NEW s \in Nat, table'[k] = table[k] \o FetchedRows(s),
             NEW x \in HasRows, x \in disk[k].completed \/ x = s
      PROVE  \E i \in 1 .. Len(table'[k]) : table'[k][i] = x
  <2>1. x = s \/ \E i \in 1 .. Len(table[k]) : table[k][i] = x
    BY <1>3 DEF Stored
  <2> QED
    BY <1>1, <1>3, <2>1, StillStored
<1>4. CASE Recorded(k)
  <2> PICK s \in Nat : /\ disk'[k].completed = disk[k].completed \cup {s}
                       /\ table'[k] = table[k] \o FetchedRows(s)
    BY <1>4 DEF Recorded
  <2>1. \A x \in disk'[k].completed \cap HasRows :
          \E i \in 1 .. Len(table'[k]) : table'[k][i] = x
    BY <1>3
  <2> QED
    BY <1>4, <2>1 DEF Recorded, Stored
<1>5. CASE Torn(k)
  <2> PICK s \in Nat : table'[k] = table[k] \o FetchedRows(s)
    BY <1>5 DEF Torn
  <2>1. \A x \in disk[k].completed \cap HasRows :
          \E i \in 1 .. Len(table'[k]) : table'[k][i] = x
    BY <1>3
  <2> QED
    BY <1>5, <2>1 DEF Torn, Stored
<1> QED
  BY <1>1, <1>2, <1>4, <1>5, Growth

LEMMA StoredInvariance ==
    ASSUME Reliable
    PROVE  Spec => [](IInv /\ CleanInv /\ \A j \in Jobs : Stored(j))
<1>1. Init => \A j \in Jobs : Stored(j)
  BY DEF Init, Stored, NoJob
<1>2. (IInv /\ CleanInv) /\ (\A j \in Jobs : Stored(j)) /\ [Next]_vars
        => (\A j \in Jobs : Stored(j))'
  BY StoredStep
<1>3. Spec => [](IInv /\ CleanInv)
  BY CleanInvariance
<1> QED
  BY <1>1, <1>2, <1>3, PTL DEF Spec

\* As long as transactions commit, what a job's saved state calls completed has
\* its rows in the table, although a crash may come between the two.
THEOREM RowsBeforeResult == Reliable => (Spec => []CompletedRowsStored)
<1> SUFFICES ASSUME Reliable PROVE Spec => []CompletedRowsStored
  OBVIOUS
<1>1. IInv /\ CleanInv /\ (\A j \in Jobs : Stored(j)) => CompletedRowsStored
  <2> SUFFICES ASSUME CleanInv, NEW j \in Jobs, Stored(j),
                      NEW s \in disk[j].completed \cap HasRows
               PROVE  \E i \in DOMAIN table[j] : table[j][i] = s
    BY DEF CompletedRowsStored
  <2>1. DOMAIN table[j] = 1 .. Len(table[j])
    BY LenProperties DEF CleanInv, CleanJob
  <2> QED
    BY <2>1 DEF Stored
<1>2. Spec => [](IInv /\ CleanInv /\ \A j \in Jobs : Stored(j))
  BY StoredInvariance
<1> QED
  BY <1>1, <1>2, PTL

\* What was fetched is new to a table of other rows.
LEMMA StillOnce ==
    ASSUME NEW tbl \in Seq(HasRows), NEW C, OnceIn(tbl, C), NEW s, s \notin C
    PROVE  OnceIn(tbl \o FetchedRows(s), C \cup {s})
<1> PICK cat : cat = tbl \o FetchedRows(s)
  OBVIOUS
<1>1. /\ Len(tbl) \in Nat
      /\ \A i \in 1 .. Len(tbl) : cat[i] = tbl[i]
      /\ s \in HasRows => Len(cat) = Len(tbl) + 1 /\ cat[Len(tbl) + 1] = s
      /\ s \notin HasRows => cat = tbl
  BY Appended
<1>2. OnceIn(cat, C \cup {s})
  <2>1. CASE s \notin HasRows
    BY <1>1, <2>1 DEF OnceIn
  <2>2. CASE s \in HasRows
    <3>1. \A i \in 1 .. Len(cat) :
             \/ i \in 1 .. Len(tbl) /\ cat[i] = tbl[i]
             \/ i = Len(tbl) + 1 /\ cat[i] = s
      BY <1>1, <2>2
    <3> QED
      BY <3>1 DEF OnceIn
  <2> QED
    BY <2>1, <2>2
<1> QED
  BY <1>2

LEMMA OnceStep ==
    ASSUME IInv, CleanInv, Reliable, "torn" \notin Faults, [Next]_vars,
           \A j \in Jobs : Stored(j), NEW k \in Jobs, Once(k)
    PROVE  Once(k)'
<1>1. Unseen /\ table[k] \in Seq(HasRows)
  BY DEF Unseen, Stored, CleanInv, CleanJob
<1>2. CASE Kept(k)
  BY <1>2 DEF Kept, Once
<1>3. CASE Recorded(k)
  <2> PICK s \in Nat : /\ s \notin disk[k].completed
                       /\ disk'[k].completed = disk[k].completed \cup {s}
                       /\ table'[k] = table[k] \o FetchedRows(s)
    BY <1>3 DEF Recorded
  <2> QED
    BY <1>1, StillOnce DEF Once
<1> QED
  BY <1>1, <1>2, <1>3, Growth DEF Torn

\* If no result is torn either, no row is returned twice, whichever runs of the
\* job were fetching its symbol and however often the process died.
THEOREM RowsOnce ==
    Reliable /\ "torn" \notin Faults => (Spec => []NoDuplicateRows)
<1> SUFFICES ASSUME Reliable, "torn" \notin Faults PROVE Spec => []NoDuplicateRows
  OBVIOUS
<1>1. Init => \A j \in Jobs : Once(j)
  <2> SUFFICES ASSUME Init, NEW j \in Jobs PROVE Once(j)
    OBVIOUS
  <2>1. table[j] = << >> /\ Len(<< >>) = 0
    BY DEF Init
  <2> QED
    BY <2>1 DEF Once, OnceIn
<1>2. (IInv /\ CleanInv /\ \A j \in Jobs : Stored(j)) /\ (\A j \in Jobs : Once(j))
        /\ [Next]_vars => (\A j \in Jobs : Once(j))'
  BY OnceStep
<1>3. Spec => [](IInv /\ CleanInv /\ \A j \in Jobs : Stored(j))
  BY StoredInvariance
<1>4. (IInv /\ CleanInv /\ \A j \in Jobs : Stored(j)) /\ (\A j \in Jobs : Once(j))
        => NoDuplicateRows
  <2> SUFFICES ASSUME IInv, CleanInv, NEW j \in Jobs, Once(j),
                      NEW m \in 1 .. Len(rows[j]), NEW n \in 1 .. Len(rows[j]),
                      rows[j][m] = rows[j][n]
               PROVE  m = n
    BY DEF NoDuplicateRows
  <2>1. CASE up
    BY <2>1, CleanFacts DEF Once, OnceIn
  <2>2. CASE ~up
    <3>1. rows[j] = << >> /\ Len(<< >>) = 0
      BY <2>2 DEF IInv, JobInv, FailedIsEmpty
    <3> QED
      BY <3>1
  <2> QED
    BY <2>1, <2>2
<1> QED
  BY <1>1, <1>2, <1>3, <1>4, PTL DEF Spec

\* What a client reads of a job's results is what is on disk.
LEMMA ViewIsSaved ==
    ASSUME IInv, CleanInv, NEW j \in Jobs
    PROVE  View(j).completed = disk[j].completed /\ RowsView(j) = table[j]
<1>1. disk[j] \in JobState /\ table[j] \in Seq(HasRows)
  BY DEF IInv, TypeOK, CleanInv, CleanJob
<1>2. Interrupted(disk[j]).completed = disk[j].completed /\ LoadRows(table[j]) = table[j]
  BY <1>1, LoadRowsSeq DEF Interrupted, JobState
<1>3. up => mem[j] = disk[j] /\ rows[j] = table[j]
  BY CleanFacts
<1> QED
  BY <1>2, <1>3 DEF View, RowsView

\* As long as transactions commit, no step takes a completed symbol back or
\* changes the row at an offset that a client has been given.
THEOREM OffsetsStay == Reliable => (Spec => ProgressKept)
<1> SUFFICES ASSUME Reliable PROVE Spec => ProgressKept
  OBVIOUS
<1> DEFINE All == IInv /\ CleanInv /\ \A j \in Jobs : Stored(j)
           Grows == \A j \in Jobs :
                      /\ View(j).completed \subseteq View(j)'.completed
                      /\ Len(RowsView(j)) <= Len(RowsView(j)')
                      /\ SubSeq(RowsView(j)', 1, Len(RowsView(j))) = RowsView(j)
<1>1. All /\ All' /\ [Next]_vars => Grows
  <2> SUFFICES ASSUME All, All', [Next]_vars, NEW j \in Jobs
               PROVE  /\ View(j).completed \subseteq View(j)'.completed
                      /\ Len(RowsView(j)) <= Len(RowsView(j)')
                      /\ SubSeq(RowsView(j)', 1, Len(RowsView(j))) = RowsView(j)
    OBVIOUS
  <2>1. View(j).completed = disk[j].completed /\ RowsView(j) = table[j]
    BY ViewIsSaved
  <2>2. View(j)'.completed = disk'[j].completed /\ RowsView(j)' = table'[j]
    <3>1. disk'[j] \in JobState /\ table'[j] \in Seq(HasRows)
      BY DEF IInv, TypeOK, CleanInv, CleanJob
    <3>2. /\ Interrupted(disk'[j]).completed = disk'[j].completed
          /\ LoadRows(table'[j]) = table'[j]
      BY <3>1, LoadRowsSeq DEF Interrupted, JobState
    <3>3. up' => mem'[j] = disk'[j] /\ rows'[j] = table'[j]
      BY DEF CleanInv, CleanJob
    <3> QED
      BY <3>2, <3>3 DEF View, RowsView
  <2>3. Unseen /\ table[j] \in Seq(HasRows)
    BY DEF Unseen, Stored, CleanInv, CleanJob
  <2>4. /\ disk[j].completed \subseteq disk'[j].completed
        /\ table'[j] = table[j] \/ \E s : table'[j] = table[j] \o FetchedRows(s)
    BY <2>3, Growth DEF Kept, Recorded, Torn
  <2>5. /\ Len(table[j]) \in Nat /\ Len(table'[j]) \in Nat
        /\ Len(table[j]) <= Len(table'[j])
        /\ table'[j] \in Seq(HasRows)
        /\ \A i \in 1 .. Len(table[j]) : table'[j][i] = table[j][i]
    <3>1. CASE table'[j] = table[j]
      BY <2>3, <3>1, LenProperties
    <3>2. CASE \E s : table'[j] = table[j] \o FetchedRows(s)
      <4> PICK s : table'[j] = table[j] \o FetchedRows(s)
        BY <3>2
      <4>1. /\ table'[j] \in Seq(HasRows)
            /\ Len(table[j]) \in Nat
            /\ \A i \in 1 .. Len(table[j]) : table'[j][i] = table[j][i]
            /\ s \in HasRows => Len(table'[j]) = Len(table[j]) + 1
            /\ s \notin HasRows => table'[j] = table[j]
        BY <2>3, Appended
      <4> QED
        BY <4>1
    <3> QED
      BY <2>4, <3>1, <3>2
  <2>6. SubSeq(table'[j], 1, Len(table[j])) = table[j]
    <3>1. table[j] = [i \in 1 .. Len(table[j]) |-> table[j][i]]
      BY <2>3, LenProperties
    <3>2. SubSeq(table'[j], 1, Len(table[j])) =
            [i \in 1 .. Len(table[j]) |-> table'[j][i]]
      BY <2>5, SubSeqProperties
    <3> QED
      BY <2>5, <3>1, <3>2
  <2> QED
    BY <2>1, <2>2, <2>4, <2>5, <2>6
<1>2. Spec => []All
  BY StoredInvariance
<1>3. Grows <=> \A j \in Jobs :
          /\ View(j).completed \subseteq View(j)'.completed
          /\ Len(RowsView(j)) <= Len(RowsView(j)')
          /\ SubSeq(RowsView(j)', 1, Len(RowsView(j))) = RowsView(j)
  OBVIOUS
<1> HIDE DEF All
<1> QED
  BY <1>1, <1>2, PTL DEF Spec, ProgressKept

----------------------------------------------------------------------------
(* The life cycle a client is promised.  The manager implements JobLifecycle: *)
(* looking at what a client sees, its threads, run generations, saves, crashes*)
(* and restarts cannot be told from the actions of the abstract specification.*)

(* The mapping *)

\* What the mapping makes of a status.
LEMMA PhaseIs ==
    /\ Phase("none") = "new"
    /\ \A x \in Active : Phase(x) = "queued"
    /\ \A x \in Retryable : Phase(x) = "resumable"
    /\ \A x \in Finished : Phase(x) = "done"
BY DEF Phase, Active, Retryable, Finished

LEMMA PhaseQueued ==
    ASSUME NEW x \in Status
    PROVE  Phase(x) = "queued" <=> x \in Active
<1>1. x \in {"none"} \cup Active \cup Finished \cup Retryable
  BY DEF Status
<1> QED
  BY <1>1, PhaseIs DEF Active

\* What a client sees has the type of a job state.
LEMMA ViewType ==
    ASSUME IInv, NEW j \in Jobs
    PROVE  View(j) \in JobState /\ View(j).status \in Status
<1>1. mem[j] \in JobState /\ disk[j] \in JobState
  BY DEF IInv, TypeOK
<1>2. Interrupted(disk[j]) \in JobState
  BY <1>1, JobUpdates
<1> QED
  BY <1>1, <1>2 DEF View, JobState

\* The jobs that are queued in the eyes of a client are the active ones.
LEMMA QueuedJobs ==
    ASSUME IInv, up
    PROVE  Abstract!Queued = ActiveJobs
<1>1. \A j \in Jobs : View(j) = mem[j] /\ mem[j].status \in Status
  BY ViewType DEF View
<1>2. \A j \in Jobs : Phase(View(j).status) = "queued" <=> mem[j].status \in Active
  BY <1>1, PhaseQueued
<1> QED
  BY <1>2 DEF Abstract!Queued, ActiveJobs

\* A save shows the client the new state of one job.
LEMMA ViewOfSave ==
    ASSUME IInv, up, up' = up, NEW j \in Jobs, NEW st, NEW c, Save(j, st, c)
    PROVE  /\ View(j) = mem[j] /\ View(j)' = st
           /\ \A k \in Jobs \ {j} : View(k)' = View(k)
<1>1. TypeOK
  BY DEF IInv
<1> QED
  BY <1>1, SaveEffect DEF View

----------------------------------------------------------------------------
(* Steps that change what a client sees of one job *)

Others(j) == \A k \in Jobs \ {j} : View(k)' = View(k)

SamePhase(k)     == Phase(View(k)'.status) = Phase(View(k).status)
SameCompleted(k) == View(k)'.completed = View(k).completed
SameFailed(k)    == View(k)'.failed = View(k).failed

\* What stays alike job by job stays alike.
LEMMA Alike ==
    /\ (\A k \in Jobs : SamePhase(k)) =>
          UNCHANGED [k \in Jobs |-> Phase(View(k).status)]
    /\ (\A k \in Jobs : SameCompleted(k)) => UNCHANGED [k \in Jobs |-> View(k).completed]
    /\ (\A k \in Jobs : SameFailed(k)) => UNCHANGED [k \in Jobs |-> View(k).failed]
BY DEF SamePhase, SameCompleted, SameFailed

LEMMA AlikeButOne ==
    ASSUME NEW j \in Jobs, Others(j)
    PROVE  /\ SamePhase(j) => UNCHANGED [k \in Jobs |-> Phase(View(k).status)]
           /\ SameCompleted(j) => UNCHANGED [k \in Jobs |-> View(k).completed]
           /\ SameFailed(j) => UNCHANGED [k \in Jobs |-> View(k).failed]
<1>1. \A k \in Jobs \ {j} : SamePhase(k) /\ SameCompleted(k) /\ SameFailed(k)
  BY DEF Others, SamePhase, SameCompleted, SameFailed
<1>2. /\ SamePhase(j) => \A k \in Jobs : SamePhase(k)
      /\ SameCompleted(j) => \A k \in Jobs : SameCompleted(k)
      /\ SameFailed(j) => \A k \in Jobs : SameFailed(k)
  BY <1>1
<1> QED
  BY <1>2, Alike

\* One job changes.
LEMMA ChangesOne ==
    ASSUME NEW j \in Jobs, Others(j)
    PROVE  /\ [k \in Jobs |-> Phase(View(k).status)]' =
                [[k \in Jobs |-> Phase(View(k).status)] EXCEPT
                    ![j] = Phase(View(j)'.status)]
           /\ [k \in Jobs |-> View(k).completed]' =
                [[k \in Jobs |-> View(k).completed] EXCEPT ![j] = View(j)'.completed]
           /\ [k \in Jobs |-> View(k).failed]' =
                [[k \in Jobs |-> View(k).failed] EXCEPT ![j] = View(j)'.failed]
<1>1. \A k \in Jobs : k # j => View(k)' = View(k)
  BY DEF Others
<1>2. [k \in Jobs |-> Phase(View(k).status)]' =
        [[k \in Jobs |-> Phase(View(k).status)] EXCEPT ![j] = Phase(View(j)'.status)]
  BY <1>1
<1>3. [k \in Jobs |-> View(k).completed]' =
        [[k \in Jobs |-> View(k).completed] EXCEPT ![j] = View(j)'.completed]
  BY <1>1
<1>4. [k \in Jobs |-> View(k).failed]' =
        [[k \in Jobs |-> View(k).failed] EXCEPT ![j] = View(j)'.failed]
  BY <1>1
<1> QED
  BY <1>2, <1>3, <1>4

LEMMA IsStutter ==
    ASSUME \A k \in Jobs : SamePhase(k) /\ SameCompleted(k) /\ SameFailed(k)
    PROVE  UNCHANGED Abstract!avars
BY Alike DEF Abstract!avars

LEMMA IsSubmit ==
    ASSUME IInv, up, NEW j \in Jobs, Others(j), QueueHasRoom,
           View(j).status \in {"none"} \cup Retryable, View(j)'.status \in Active,
           View(j)'.failed = {}, SameCompleted(j)
    PROVE  Abstract!Submit(j)
<1>1. Cardinality(Abstract!Queued) < MaxActiveJobs
  BY QueuedJobs DEF QueueHasRoom
<1>2. Abstract!Cardinality(Abstract!Queued) < MaxActiveJobs
  BY <1>1 DEF Cardinality, Abstract!Cardinality
<1>3. /\ Phase(View(j).status) \in {"new", "resumable"}
      /\ Phase(View(j)'.status) = "queued"
  BY PhaseIs
<1> QED
  BY <1>2, <1>3, AlikeButOne, ChangesOne DEF Abstract!Submit

LEMMA IsWithdraw ==
    ASSUME NEW j \in Jobs, Others(j), View(j).status \in Active,
           View(j)'.status \in Retryable, SameCompleted(j), SameFailed(j)
    PROVE  Abstract!Withdraw(j)
<1>1. Phase(View(j).status) = "queued" /\ Phase(View(j)'.status) = "resumable"
  BY PhaseIs
<1> QED
  BY <1>1, AlikeButOne, ChangesOne DEF Abstract!Withdraw

LEMMA IsComplete ==
    ASSUME NEW j \in Jobs, Others(j), View(j).status \in Active,
           View(j)'.status \in Finished, SameCompleted(j), SameFailed(j),
           View(j).completed \cup View(j).failed = Symbols(j)
    PROVE  Abstract!Complete(j)
<1>1. Phase(View(j).status) = "queued" /\ Phase(View(j)'.status) = "done"
  BY PhaseIs
<1>2. Abstract!Wanted(j) = Symbols(j)
  BY DEF Abstract!Wanted, Symbols
<1> QED
  BY <1>1, <1>2, AlikeButOne, ChangesOne DEF Abstract!Complete

LEMMA IsGain ==
    ASSUME NEW j \in Jobs, Others(j), View(j).status \in Active \cup Retryable,
           NEW s \in Symbols(j) \ (View(j).completed \cup View(j).failed),
           SamePhase(j), View(j)'.completed = View(j).completed \cup {s}, SameFailed(j)
    PROVE  Abstract!Gain(j, s) /\ s \in Abstract!Wanted(j)
<1>1. Phase(View(j).status) \in {"queued", "resumable"}
  BY PhaseIs
<1>2. Abstract!Wanted(j) = Symbols(j)
  BY DEF Abstract!Wanted, Symbols
<1> QED
  BY <1>1, <1>2, AlikeButOne, ChangesOne DEF Abstract!Gain

LEMMA IsMiss ==
    ASSUME NEW j \in Jobs, Others(j), View(j).status \in Active \cup Retryable,
           NEW s \in Symbols(j) \ (View(j).completed \cup View(j).failed),
           SamePhase(j), SameCompleted(j), View(j)'.failed = View(j).failed \cup {s}
    PROVE  Abstract!Miss(j, s) /\ s \in Abstract!Wanted(j)
<1>1. Phase(View(j).status) \in {"queued", "resumable"}
  BY PhaseIs
<1>2. Abstract!Wanted(j) = Symbols(j)
  BY DEF Abstract!Wanted, Symbols
<1> QED
  BY <1>1, <1>2, AlikeButOne, ChangesOne DEF Abstract!Miss

\* An abstract step of a job is an abstract step.
LEMMA AbstractSteps ==
    /\ \A j \in Jobs : Abstract!Submit(j) \/ Abstract!Complete(j) \/ Abstract!Withdraw(j)
                          => Abstract!ANext
    /\ \A j \in Jobs : \A s \in Abstract!Wanted(j) :
          Abstract!Gain(j, s) \/ Abstract!Miss(j, s) => Abstract!ANext
    /\ Abstract!WithdrawAll => Abstract!ANext
BY DEF Abstract!ANext

----------------------------------------------------------------------------
(* The steps of the manager *)

\* Nothing a client sees of a job's phase or results.
LEMMA UnseenSave ==
    ASSUME IInv, up, up' = up, NEW j \in Jobs, NEW st, NEW c, Save(j, st, c),
           Phase(st.status) = Phase(mem[j].status),
           st.completed = mem[j].completed, st.failed = mem[j].failed
    PROVE  UNCHANGED Abstract!avars
<1>1. /\ View(j) = mem[j] /\ View(j)' = st
      /\ \A k \in Jobs \ {j} : View(k)' = View(k)
  BY ViewOfSave
<1>2. \A k \in Jobs : SamePhase(k) /\ SameCompleted(k) /\ SameFailed(k)
  BY <1>1 DEF SamePhase, SameCompleted, SameFailed
<1> QED
  BY <1>2, IsStutter

LEMMA NothingSeen ==
    ASSUME UNCHANGED <<up, mem, disk>>
    PROVE  UNCHANGED Abstract!avars
<1>1. \A k \in Jobs : View(k)' = View(k)
  BY DEF View
<1>2. \A k \in Jobs : SamePhase(k) /\ SameCompleted(k) /\ SameFailed(k)
  BY <1>1 DEF SamePhase, SameCompleted, SameFailed
<1> QED
  BY <1>2, IsStutter

LEMMA LaunchSubmits ==
    ASSUME IInv, up, NEW j \in Jobs, NEW st, Launch(j, st), QueueHasRoom,
           mem[j].status \in {"none"} \cup Retryable, st.status \in Active,
           st.failed = {}, st.completed = mem[j].completed
    PROVE  Abstract!Submit(j)
<1>1. PICK c \in Commits : Save(j, st, c) /\ up' = up
  BY DEF Launch
<1>2. View(j) = mem[j] /\ View(j)' = st /\ Others(j)
  BY <1>1, ViewOfSave DEF Others
<1> QED
  BY <1>2, IsSubmit DEF SameCompleted

LEMMA ClientImplements ==
    ASSUME IInv, CleanInv, Unseen, NEW j \in Jobs,
           CreateJob(j) \/ RetryJob(j) \/ CancelJob(j)
    PROVE  Abstract!ANext
<1>1. up /\ mem[j] \in JobState /\ StateOK(j, mem[j]) /\ mem[j] = disk[j]
  BY CleanFacts DEF CreateJob, RetryJob, CancelJob, IInv, JobInv
<1>2. CASE CreateJob(j)
  <2> DEFINE st == [NoJob EXCEPT !.status = "accepted", !.gen = 1]
  <2>1. st.status \in Active /\ st.failed = {} /\ st.completed = {}
    BY DEF NoJob, Active
  <2>2. mem[j].completed = {} /\ mem[j].status = "none"
    BY <1>1, <1>2 DEF CreateJob, StateOK, Unseen
  <2>3. Launch(j, st) /\ QueueHasRoom
    BY <1>2 DEF CreateJob
  <2> HIDE DEF st
  <2> QED
    BY <1>1, <2>1, <2>2, <2>3, LaunchSubmits, AbstractSteps
<1>3. CASE RetryJob(j)
  <2> DEFINE st == RetriedState(mem[j])
  <2>1. st.status \in Active /\ st.failed = {} /\ st.completed = mem[j].completed
    BY <1>1 DEF RetriedState, Active, JobState
  <2>2. Launch(j, st) /\ QueueHasRoom /\ mem[j].status \in Retryable
    BY <1>3 DEF RetryJob
  <2> HIDE DEF st
  <2> QED
    BY <1>1, <2>1, <2>2, LaunchSubmits, AbstractSteps
<1>4. CASE CancelJob(j)
  <2> DEFINE st == [mem[j] EXCEPT !.status = "cancelled", !.cancel = TRUE]
  <2>1. /\ st.status \in Retryable
        /\ st.failed = mem[j].failed /\ st.completed = mem[j].completed
    BY <1>1 DEF Retryable, JobState
  <2>2. (\E c : Save(j, st, c)) /\ up' = up /\ mem[j].status \in Active
    BY <1>4 DEF CancelJob
  <2> HIDE DEF st
  <2>3. View(j) = mem[j] /\ View(j)' = st /\ Others(j)
    BY <1>1, <2>2, ViewOfSave DEF Others
  <2> QED
    BY <2>1, <2>2, <2>3, IsWithdraw, AbstractSteps DEF SameCompleted, SameFailed
<1> QED
  BY <1>2, <1>3, <1>4

LEMMA WorkerImplements ==
    ASSUME IInv, CleanInv, Reliable, NEW j \in Jobs, NEW g \in Generations,
           WorkerStep(j, g)
    PROVE  Abstract!ANext \/ UNCHANGED Abstract!avars
<1> DEFINE s == worker[j][g].at
<1>1. worker[j][g].pc # "off" /\ up' = up
  BY WorkerSteps
<1>2. /\ up /\ mem[j] \in JobState /\ worker[j][g] \in WorkerState
      /\ StateOK(j, mem[j]) /\ worker[j][g].pc # "fail"
      /\ Owns(j, g) => OwnerOK(j, worker[j][g])
  BY <1>1, OwnerFacts, CleanFacts
<1>3. CASE UNCHANGED <<mem, disk>>
  BY <1>1, <1>3, NothingSeen
<1>4. CASE MarkRunning(j, g) /\ MayAdvance(j, g)
  <2> DEFINE st == [mem[j] EXCEPT !.status = "running"]
  <2>1. \E c : Save(j, st, c)
    BY <1>4 DEF MarkRunning
  <2>2. st.status = "running" /\ st.completed = mem[j].completed /\ st.failed = mem[j].failed
    BY <1>2 DEF JobState
  <2>3. mem[j].status \in Active /\ "running" \in Active
    BY <1>2, <1>4 DEF MarkRunning, MayAdvance, OwnerOK, Active
  <2>4. Phase(st.status) = Phase(mem[j].status)
    BY <2>2, <2>3, PhaseIs
  <2> HIDE DEF st
  <2> QED
    BY <1>1, <1>2, <2>1, <2>2, <2>4, UnseenSave
<1>5. CASE MarkCurrent(j, g) /\ MayAdvance(j, g)
  <2> DEFINE st == [mem[j] EXCEPT !.current = s]
  <2>1. \E c : Save(j, st, c)
    BY <1>5 DEF MarkCurrent
  <2>2. /\ st.status = mem[j].status
        /\ st.completed = mem[j].completed /\ st.failed = mem[j].failed
    BY <1>2 DEF JobState
  <2> HIDE DEF st
  <2> QED
    BY <1>1, <1>2, <2>1, <2>2, UnseenSave
\* A symbol that gets its result, or fails, had neither.
<1>6. ASSUME worker[j][g].pc = "fetch", Owns(j, g)
      PROVE  /\ s \in Symbols(j) \ (mem[j].completed \cup mem[j].failed)
             /\ mem[j].status \in Active \cup Retryable
  <2>1. s \in Nat /\ s \notin 1 .. s - 1
    BY <1>2 DEF WorkerState
  <2>2. s \notin mem[j].completed /\ s \notin mem[j].failed
    BY <1>2, <1>6, <2>1 DEF OwnerOK
  <2>3. s \in Symbols(j)
    BY <1>2, <1>6, JobConstants DEF OwnerOK, Symbols
  <2>4. mem[j].status \in {"running", "cancelled"}
    BY <1>2, <1>6 DEF OwnerOK
  <2> QED
    BY <2>2, <2>3, <2>4 DEF Active, Retryable
<1>7. CASE RecordSuccess(j, g) /\ Owns(j, g)
  <2> DEFINE st == SucceededState(mem[j], s)
  <2>1. worker[j][g].pc = "fetch" /\ \E c : Save(j, st, c)
    BY <1>7 DEF RecordSuccess
  <2>2. /\ st.status = mem[j].status /\ st.failed = mem[j].failed
        /\ st.completed = mem[j].completed \cup {s}
    BY <1>2 DEF SucceededState, JobState
  <2> HIDE DEF st
  <2>3. View(j) = mem[j] /\ View(j)' = st /\ Others(j)
    BY <1>1, <1>2, <2>1, ViewOfSave DEF Others
  <2>4. Abstract!Gain(j, s) /\ s \in Abstract!Wanted(j)
    BY <1>6, <1>7, <2>1, <2>2, <2>3, IsGain DEF SamePhase, SameFailed
  <2> QED
    BY <2>4, AbstractSteps
<1>8. CASE RecordFailure(j, g) /\ Owns(j, g)
  <2> DEFINE st == [mem[j] EXCEPT !.failed = @ \cup {s}]
  <2>1. worker[j][g].pc = "fetch" /\ \E c : Save(j, st, c)
    BY <1>2, <1>8 DEF RecordFailure
  <2>2. /\ st.status = mem[j].status /\ st.completed = mem[j].completed
        /\ st.failed = mem[j].failed \cup {s}
    BY <1>2 DEF JobState
  <2> HIDE DEF st
  <2>3. View(j) = mem[j] /\ View(j)' = st /\ Others(j)
    BY <1>1, <1>2, <2>1, ViewOfSave DEF Others
  <2>4. Abstract!Miss(j, s) /\ s \in Abstract!Wanted(j)
    BY <1>6, <1>8, <2>1, <2>2, <2>3, IsMiss DEF SamePhase, SameCompleted
  <2> QED
    BY <2>4, AbstractSteps
<1>9. CASE Finish(j, g) /\ MayAdvance(j, g)
  <2> DEFINE st == [mem[j] EXCEPT !.status = Outcome(j), !.current = 0]
  <2>1. worker[j][g].pc = "loop" /\ s > SymbolCount[j] /\ \E c : Save(j, st, c)
    BY <1>9 DEF Finish
  <2>2. /\ st.status = Outcome(j) /\ st.completed = mem[j].completed
        /\ st.failed = mem[j].failed
    BY <1>2 DEF JobState
  <2> HIDE DEF st
  <2>3. View(j) = mem[j] /\ View(j)' = st /\ Others(j)
    BY <1>1, <1>2, <2>1, ViewOfSave DEF Others
  <2>4. mem[j].status \in Active
    BY <1>2, <1>9, <2>1 DEF MayAdvance, OwnerOK, Active
  <2>5. mem[j].completed \cup mem[j].failed = Symbols(j)
    <3>1. OwnerOK(j, worker[j][g])
      BY <1>2, <1>9 DEF MayAdvance
    <3>2. s = SymbolCount[j] + 1 /\ SymbolCount[j] \in Nat
      BY <2>1, <3>1, JobConstants DEF OwnerOK
    <3>3. 1 .. s - 1 = Symbols(j)
      BY <3>2 DEF Symbols
    <3>4. Symbols(j) \subseteq mem[j].completed \cup mem[j].failed
      BY <2>1, <3>1, <3>3 DEF OwnerOK
    <3> QED
      BY <1>2, <3>4 DEF StateOK
  <2>6. CASE Outcome(j) \in Finished
    BY <2>2, <2>3, <2>4, <2>5, <2>6, IsComplete, AbstractSteps
    DEF SameCompleted, SameFailed
  <2>7. CASE Outcome(j) \in Retryable
    BY <2>2, <2>3, <2>4, <2>7, IsWithdraw, AbstractSteps DEF SameCompleted, SameFailed
  <2>8. Outcome(j) \in Finished \cup Retryable
    BY DEF Outcome, Finished, Retryable
  <2> QED
    BY <2>6, <2>7, <2>8
<1> QED
  BY <1>3, <1>4, <1>5, <1>7, <1>8, <1>9 DEF WorkerStep, MarkRunning, TakeSnapshot,
     SkipCompleted, CheckCancel, MarkCurrent, RecordSuccess, RecordFailure, Finish

\* A dead process takes every job out of the queue, although nothing is written
\* before the next one starts.
LEMMA DeathImplements ==
    ASSUME IInv, CleanInv, Crash \/ \E j \in Jobs, g \in Generations : TornCrash(j, g)
    PROVE  Abstract!ANext
<1>1. up /\ ~up' /\ disk' = disk
  BY OwnerFacts DEF Crash, TornCrash, ProcessDies
<1>2. ASSUME NEW k \in Jobs
      PROVE  /\ Phase(View(k)'.status) = IF Phase(View(k).status) = "queued"
                                         THEN "resumable" ELSE Phase(View(k).status)
             /\ SameCompleted(k) /\ SameFailed(k)
  <2>1. mem[k] = disk[k] /\ disk[k] \in JobState
    BY <1>1, CleanFacts
  <2>2. View(k) = disk[k] /\ View(k)' = Interrupted(disk[k])
    BY <1>1, <2>1 DEF View
  <2>3. /\ Interrupted(disk[k]).status = IF disk[k].status \in Active THEN "interrupted"
                                         ELSE disk[k].status
        /\ Interrupted(disk[k]).completed = disk[k].completed
        /\ Interrupted(disk[k]).failed = disk[k].failed
    BY <2>1 DEF Interrupted, JobState
  <2>4. Phase("interrupted") = "resumable"
    BY PhaseIs DEF Retryable
  <2>5. Phase(disk[k].status) = "queued" <=> disk[k].status \in Active
    BY <2>1, PhaseQueued DEF JobState
  <2> QED
    BY <2>2, <2>3, <2>4, <2>5 DEF SameCompleted, SameFailed
<1>3. [k \in Jobs |-> Phase(View(k).status)]' =
        [k \in Jobs |-> IF [i \in Jobs |-> Phase(View(i).status)][k] = "queued"
                        THEN "resumable" ELSE [i \in Jobs |-> Phase(View(i).status)][k]]
  BY <1>2
<1>4. Abstract!WithdrawAll
  BY <1>2, <1>3, Alike DEF Abstract!WithdrawAll
<1> QED
  BY <1>4, AbstractSteps

----------------------------------------------------------------------------
(* The refinement *)

LEMMA StartsAsLifecycle == ASSUME Init PROVE Abstract!AInit
<1>1. \A j \in Jobs : View(j) = NoJob
  BY DEF Init, View
<1>2. NoJob.status = "none" /\ NoJob.completed = {} /\ NoJob.failed = {}
  BY DEF NoJob
<1>3. \A j \in Jobs : /\ Phase(View(j).status) = "new"
                      /\ View(j).completed = {} /\ View(j).failed = {}
  BY <1>1, <1>2, PhaseIs
<1> QED
  BY <1>3 DEF Abstract!AInit

LEMMA StepImplements ==
    ASSUME IInv, CleanInv, \A j \in Jobs : Stored(j), Reliable, [Next]_vars
    PROVE  [Abstract!ANext]_(Abstract!avars)
<1>1. Unseen
  BY DEF Unseen, Stored
<1>2. CASE UNCHANGED vars
  BY <1>2, NothingSeen DEF vars
<1>3. CASE Restart
  <2>1. \A k \in Jobs : View(k)' = View(k)
    BY <1>3, SeenAfterRestart
  <2>2. \A k \in Jobs : SamePhase(k) /\ SameCompleted(k) /\ SameFailed(k)
    BY <2>1 DEF SamePhase, SameCompleted, SameFailed
  <2> QED
    BY <2>2, IsStutter
<1> QED
  BY <1>1, <1>2, <1>3, ClientImplements, WorkerImplements, DeathImplements DEF Next

\* As long as transactions commit, whatever the threads, crashes and restarts
\* do, a client sees the steps of JobLifecycle and no others.
THEOREM ImplementsJobLifecycle ==
    Reliable => (Spec => Abstract!AInit /\ [][Abstract!ANext]_(Abstract!avars))
<1> SUFFICES ASSUME Reliable
             PROVE  Spec => Abstract!AInit /\ [][Abstract!ANext]_(Abstract!avars)
  OBVIOUS
<1>1. Init => Abstract!AInit
  BY StartsAsLifecycle
<1>2. IInv /\ CleanInv /\ (\A j \in Jobs : Stored(j)) /\ [Next]_vars
        => [Abstract!ANext]_(Abstract!avars)
  BY StepImplements
<1>3. Spec => [](IInv /\ CleanInv /\ \A j \in Jobs : Stored(j))
  BY StoredInvariance
<1> QED
  BY <1>1, <1>2, <1>3, PTL DEF Spec
=============================================================================
