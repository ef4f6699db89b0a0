------------------------ MODULE DailyBarsJobs_proofs ------------------------
(***************************************************************************)
(* Theorems about the job manager, for every set of jobs, every request    *)
(* size, every queue limit and every combination of faults.                *)
(***************************************************************************)
EXTENDS DailyBarsJobs, FiniteSetTheorems, SequenceTheorems, TLAPS

----------------------------------------------------------------------------
(* The rows table *)

\* FetchedRows returns at most one row, and only of a symbol that has rows.
LEMMA FetchedRowsSeq ==
    ASSUME NEW s
    PROVE  /\ FetchedRows(s) \in Seq(HasRows)
           /\ s \in HasRows => FetchedRows(s) = <<s>> /\ Len(FetchedRows(s)) = 1
           /\ s \notin HasRows => FetchedRows(s) = << >> /\ Len(FetchedRows(s)) = 0
BY DEF FetchedRows

\* Rows are empty after a result only if they were and the result was.
LEMMA NothingAppended ==
    ASSUME NEW r \in Seq(HasRows), NEW s, r \o FetchedRows(s) = << >>
    PROVE  r = << >> /\ s \notin HasRows
<1>1. Len(r) \in Nat
  BY LenProperties
<1>2. CASE s \in HasRows
  <2>1. FetchedRows(s) = <<s>>
    BY <1>2 DEF FetchedRows
  <2>2. Len(r \o <<s>>) = Len(r) + 1
    BY <1>2
  <2>3. Len(<< >>) = 0
    OBVIOUS
  <2> QED
    BY <1>1, <2>1, <2>2, <2>3
<1>3. CASE s \notin HasRows
  <2>1. FetchedRows(s) = << >>
    BY <1>3 DEF FetchedRows
  <2>2. r \o << >> = r
    OBVIOUS
  <2> QED
    BY <1>3, <2>1, <2>2
<1> QED
  BY <1>2, <1>3

\* append_rows keeps the rows table well formed, wherever it writes.
LEMMA AppendAtTable ==
    ASSUME NEW tbl, IsTable(tbl), NEW start \in Nat, NEW new \in Seq(HasRows)
    PROVE  /\ IsTable(AppendAt(tbl, start, new))
           /\ Len(new) > 0 => DOMAIN AppendAt(tbl, start, new) # {}
           /\ Len(new) = 0 => AppendAt(tbl, start, new) = tbl
<1> DEFINE I == start + 1 .. start + Len(new)
           D == DOMAIN tbl \cup I
<1>1. Len(new) \in Nat /\ \A n \in 1 .. Len(new) : new[n] \in HasRows
  BY ElementOfSeq, LenProperties
<1>2. IsFiniteSet(D) /\ D \subseteq Nat \ {0}
  <2>1. IsFiniteSet(DOMAIN tbl) /\ DOMAIN tbl \subseteq Nat \ {0}
    BY DEF IsTable
  <2>2. I \subseteq Nat \ {0}
    BY <1>1
  <2>3. IsFiniteSet(I)
    BY <1>1, FS_Interval
  <2>4. IsFiniteSet(D)
    BY <2>1, <2>3, FS_Union
  <2> QED
    BY <2>1, <2>2, <2>4
<1>3. \A i \in D : AppendAt(tbl, start, new)[i] \in HasRows
  BY <1>1 DEF AppendAt, IsTable
<1>4. Len(new) > 0 => start + 1 \in I
  BY <1>1
<1>5. Len(new) = 0 => I = {}
  BY <1>1
<1>6. Len(new) = 0 => AppendAt(tbl, start, new) = tbl
  BY <1>5 DEF AppendAt, IsTable
<1> QED
  BY <1>2, <1>3, <1>4, <1>6 DEF AppendAt, IsTable

\* Every position up to the size of the table has a row with that rank: the
\* ranks of the indices are distinct, so they exhaust the positions.
LEMMA RankExists ==
    ASSUME NEW D, IsFiniteSet(D), D \subseteq Nat
    PROVE  \A n \in 1 .. Cardinality(D) :
              \E i \in D : Cardinality({k \in D : k <= i}) = n
<1> DEFINE Below(i) == {k \in D : k <= i}
           N == Cardinality(D)
           rank == [i \in D |-> Cardinality(Below(i))]
<1>1. N \in Nat
  BY FS_CardinalityType
<1>2. \A i \in D : /\ IsFiniteSet(Below(i))
                   /\ Cardinality(Below(i)) \in 1 .. N
  <2> SUFFICES ASSUME NEW i \in D
               PROVE  IsFiniteSet(Below(i)) /\ Cardinality(Below(i)) \in 1 .. N
    OBVIOUS
  <2>1. Below(i) \in SUBSET D /\ i \in Below(i)
    OBVIOUS
  <2>2. IsFiniteSet(Below(i)) /\ Cardinality(Below(i)) <= N
    BY <2>1, FS_Subset
  <2>3. Cardinality(Below(i)) \in Nat /\ Cardinality(Below(i)) # 0
    BY <2>1, <2>2, FS_CardinalityType, FS_EmptySet
  <2> QED
    BY <1>1, <2>2, <2>3
<1>3. \A i, j \in D : i < j => rank[i] # rank[j]
  <2> SUFFICES ASSUME NEW i \in D, NEW j \in D, i < j, rank[i] = rank[j]
               PROVE  FALSE
    OBVIOUS
  <2>1. Below(i) \in SUBSET Below(j) /\ j \in Below(j) /\ j \notin Below(i)
    <3>1. i \in Nat /\ j \in Nat
      OBVIOUS
    <3>2. \A k \in D : k \in Nat
      OBVIOUS
    <3>3. \A k \in D : k <= i => k <= j
      BY <3>1, <3>2
    <3>4. j <= j /\ ~(j <= i)
      BY <3>1
    <3>5. Below(i) \subseteq Below(j)
      BY <3>3
    <3> QED
      BY <3>4, <3>5
  <2>2. IsFiniteSet(Below(j)) /\ Cardinality(Below(j)) = Cardinality(Below(i))
    BY <1>2
  <2>3. Below(i) = Below(j)
    BY <2>1, <2>2, FS_Subset
  <2> QED
    BY <2>1, <2>3
<1>4. rank \in [D -> 1 .. N]
  BY <1>2
<1>5. \A i, j \in D : rank[i] = rank[j] => i = j
  BY <1>3
<1>6. rank \in Injection(D, 1 .. N)
  BY <1>4, <1>5 DEF Injection, IsInjective
<1>7. IsFiniteSet(1 .. N) /\ Cardinality(1 .. N) = N
  BY <1>1, FS_Interval
<1>8. rank \in Surjection(D, 1 .. N)
  BY <1>6, <1>7, FS_Injection
<1> QED
  BY <1>8 DEF Surjection

\* load_rows returns a sequence of rows, empty exactly if the table is.
LEMMA LoadRowsType ==
    ASSUME NEW tbl, IsTable(tbl)
    PROVE  /\ LoadRows(tbl) \in Seq(HasRows)
           /\ LoadRows(tbl) = << >> <=> DOMAIN tbl = {}
<1> DEFINE D == DOMAIN tbl
           N == Cardinality(D)
           Nth(n) == CHOOSE i \in D : Cardinality({k \in D : k <= i}) = n
<1>1. IsFiniteSet(D) /\ D \subseteq Nat /\ N \in Nat
  BY FS_CardinalityType DEF IsTable
<1>2. \A n \in 1 .. N : \E i \in D : Cardinality({k \in D : k <= i}) = n
  BY <1>1, RankExists
<1>3. \A n \in 1 .. N : Nth(n) \in D
  BY <1>2
<1>4. \A n \in 1 .. N : tbl[Nth(n)] \in HasRows
  BY <1>3 DEF IsTable
<1>5. LoadRows(tbl) = [n \in 1 .. N |-> tbl[Nth(n)]]
  BY DEF LoadRows
<1>6. LoadRows(tbl) \in [1 .. N -> HasRows]
  BY <1>4, <1>5
<1>7. LoadRows(tbl) \in Seq(HasRows) /\ Len(LoadRows(tbl)) = N
  BY <1>1, <1>6
<1>8. N = 0 <=> D = {}
  BY <1>1, FS_EmptySet
<1> QED
  BY <1>7, <1>8, EmptySeq

----------------------------------------------------------------------------
(* Type correctness *)

\* The field updates of the manager keep a job state a job state.
LEMMA JobUpdates ==
    ASSUME NEW st \in JobState
    PROVE  /\ [st EXCEPT !.status = "running"] \in JobState
           /\ [st EXCEPT !.status = "cancelled", !.cancel = TRUE] \in JobState
           /\ \A n \in Nat : [st EXCEPT !.current = n] \in JobState
           /\ \A n \in Nat : [st EXCEPT !.failed = @ \cup {n}] \in JobState
           /\ \A n \in Nat : SucceededState(st, n) \in JobState
           /\ \A x \in Status : [st EXCEPT !.status = x, !.current = 0] \in JobState
           /\ Interrupted(st) \in JobState
           /\ st.gen < MaxGeneration =>
                 RetriedState(st) \in JobState /\ RetriedState(st).gen \in Generations
<1> USE DEF JobState
<1>1. {"running", "cancelled", "interrupted", "accepted"} \subseteq Status
  BY DEF Status, Active, Retryable
<1>2. [st EXCEPT !.status = "running"] \in JobState
  BY <1>1
<1>3. [st EXCEPT !.status = "cancelled", !.cancel = TRUE] \in JobState
  BY <1>1
<1>4. \A n \in Nat : [st EXCEPT !.current = n] \in JobState
  OBVIOUS
<1>5. \A n \in Nat : [st EXCEPT !.failed = @ \cup {n}] \in JobState
  OBVIOUS
<1>6. ASSUME NEW n \in Nat PROVE SucceededState(st, n) \in JobState
  <2>1. (IF n \in st.completed \cup st.failed THEN st.counted ELSE st.counted + 1) \in Nat
    OBVIOUS
  <2>2. st.completed \cup {n} \in SUBSET Nat
    OBVIOUS
  <2> QED
    BY <2>1, <2>2 DEF SucceededState
<1>7. \A x \in Status : [st EXCEPT !.status = x, !.current = 0] \in JobState
  OBVIOUS
<1>8. Interrupted(st) \in JobState
  BY <1>1 DEF Interrupted
<1>9. ASSUME st.gen < MaxGeneration
      PROVE  RetriedState(st) \in JobState /\ RetriedState(st).gen \in Generations
  <2>1. st.gen + 1 \in 1 .. MaxGeneration /\ st.gen + 1 \in 0 .. MaxGeneration
    BY <1>9, JobConstants
  <2> QED
    BY <1>1, <2>1 DEF RetriedState, Generations
<1> QED
  BY <1>2, <1>3, <1>4, <1>5, <1>6, <1>7, <1>8, <1>9

\* So do those of a worker.
LEMMA WorkerUpdates ==
    ASSUME NEW w \in WorkerState
    PROVE  /\ \A pc \in {"off", "start", "snap", "loop", "mark", "fetch", "fail"} :
                 [w EXCEPT !.pc = pc] \in WorkerState
           /\ [w EXCEPT !.at = @ + 1] \in WorkerState
           /\ NextSymbol(w) \in WorkerState
<1> USE DEF WorkerState
<1>1. \A pc \in {"off", "start", "snap", "loop", "mark", "fetch", "fail"} :
         [w EXCEPT !.pc = pc] \in WorkerState
  OBVIOUS
<1>2. w.at + 1 \in Nat
  OBVIOUS
<1>3. [w EXCEPT !.at = @ + 1] \in WorkerState
  BY <1>2
<1>4. NextSymbol(w) \in WorkerState
  BY <1>2 DEF NextSymbol
<1> QED
  BY <1>1, <1>3, <1>4

\* The initial states of jobs and workers.
LEMMA NothingYet ==
    /\ NoJob \in JobState
    /\ [NoJob EXCEPT !.status = "accepted", !.gen = 1] \in JobState
    /\ [NoJob EXCEPT !.status = "accepted", !.gen = 1].gen \in Generations
    /\ NoWorker \in WorkerState
    /\ [NoWorker EXCEPT !.pc = "start"] \in WorkerState
<1>1. 0 \in 0 .. MaxGeneration /\ 1 \in 0 .. MaxGeneration /\ 1 \in Generations
  BY JobConstants DEF Generations
<1>2. "none" \in Status /\ "accepted" \in Status
  BY DEF Status, Active
<1>3. {} \in SUBSET Nat /\ 0 \in Nat
  OBVIOUS
<1>4. NoJob \in JobState /\ [NoJob EXCEPT !.status = "accepted", !.gen = 1] \in JobState
  BY <1>1, <1>2, <1>3 DEF NoJob, JobState
<1>5. [NoJob EXCEPT !.status = "accepted", !.gen = 1].gen = 1
  BY DEF NoJob
<1>6. NoWorker \in WorkerState /\ [NoWorker EXCEPT !.pc = "start"] \in WorkerState
  BY <1>3 DEF NoWorker, WorkerState
<1> QED
  BY <1>1, <1>4, <1>5, <1>6

\* Nothing has been submitted and the tables are empty.
LEMMA TypeInit == ASSUME Init PROVE TypeOK
<1>1. NoJob \in JobState /\ NoWorker \in WorkerState
  BY NothingYet
<1>2. IsTable(<< >>)
  BY FS_EmptySet DEF IsTable
<1> QED
  BY <1>1, <1>2 DEF Init, TypeOK

\* Every operation keeps the type of every state, row and thread.
LEMMA TypeStep == ASSUME TypeOK, [Next]_vars PROVE TypeOK'
<1> USE DEF TypeOK
<1>0. /\ NoJob \in JobState /\ NoWorker \in WorkerState
      /\ \A j \in Jobs : mem[j] \in JobState /\ disk[j] \in JobState
      /\ \A j \in Jobs, g \in Generations : worker[j][g] \in WorkerState
  BY NothingYet
\* The shape shared by the operations that save one job.
<1>a. ASSUME NEW j \in Jobs, NEW state \in JobState, NEW c \in BOOLEAN,
             Save(j, state, c)
      PROVE  mem' \in [Jobs -> JobState] /\ disk' \in [Jobs -> JobState]
  BY <1>a DEF Save
<1>b. ASSUME NEW j \in Jobs, NEW g \in Generations, NEW w \in WorkerState,
             Becomes(j, g, w)
      PROVE  worker' \in [Jobs -> [Generations -> WorkerState]]
  BY <1>b DEF Becomes
<1>c. \A c \in Commits : c \in BOOLEAN
  BY DEF Commits
<1>d. ASSUME NEW j \in Jobs, NEW state \in JobState, state.gen \in Generations,
             Launch(j, state)
      PROVE  TypeOK'
  <2> PICK c \in Commits :
        /\ Save(j, state, c)
        /\ IF c THEN Becomes(j, state.gen, [NoWorker EXCEPT !.pc = "start"])
                ELSE UNCHANGED worker
        /\ UNCHANGED <<up, rows, table>>
    BY <1>d DEF Launch
  <2>1. [NoWorker EXCEPT !.pc = "start"] \in WorkerState
    BY NothingYet
  <2>2. worker' \in [Jobs -> [Generations -> WorkerState]]
    BY <1>b, <1>d, <2>1
  <2> QED
    BY <1>a, <1>c, <2>2
<1>1. ASSUME NEW j \in Jobs, CreateJob(j) PROVE TypeOK'
  BY <1>1, <1>d, NothingYet DEF CreateJob
<1>2. ASSUME NEW j \in Jobs, RetryJob(j) PROVE TypeOK'
  <2>1. RetriedState(mem[j]) \in JobState /\ RetriedState(mem[j]).gen \in Generations
    BY <1>0, <1>2, JobUpdates DEF RetryJob
  <2> QED
    BY <1>2, <1>d, <2>1 DEF RetryJob
<1>3. ASSUME NEW j \in Jobs, CancelJob(j) PROVE TypeOK'
  <2>1. [mem[j] EXCEPT !.status = "cancelled", !.cancel = TRUE] \in JobState
    BY <1>0, JobUpdates
  <2> QED
    BY <1>3, <1>a, <1>c, <2>1 DEF CancelJob
<1>4. ASSUME NEW j \in Jobs, NEW g \in Generations, MarkRunning(j, g) PROVE TypeOK'
  <2>1. [mem[j] EXCEPT !.status = "running"] \in JobState
    BY <1>0, JobUpdates
  <2>2. [worker[j][g] EXCEPT !.pc = "snap"] \in WorkerState
    BY <1>0, WorkerUpdates
  <2>3. \A c : (IF c THEN [worker[j][g] EXCEPT !.pc = "snap"] ELSE NoWorker) \in WorkerState
    BY <1>0, <2>2
  <2>4. worker' \in [Jobs -> [Generations -> WorkerState]]
    BY <1>4, <1>b, <2>2, <2>3 DEF MarkRunning
  <2>5. mem' \in [Jobs -> JobState] /\ disk' \in [Jobs -> JobState]
    BY <1>4, <1>a, <1>c, <2>1 DEF MarkRunning
  <2> QED
    BY <1>4, <2>4, <2>5 DEF MarkRunning
<1>5. ASSUME NEW j \in Jobs, NEW g \in Generations, TakeSnapshot(j, g) PROVE TypeOK'
  <2>1. [pc |-> "loop", at |-> 1, done |-> mem[j].completed] \in WorkerState
    BY <1>0 DEF WorkerState, JobState
  <2> QED
    BY <1>5, <1>b, <2>1 DEF TakeSnapshot
<1>6. ASSUME NEW j \in Jobs, NEW g \in Generations, SkipCompleted(j, g) PROVE TypeOK'
  <2>1. [worker[j][g] EXCEPT !.at = @ + 1] \in WorkerState
    BY <1>0, WorkerUpdates
  <2> QED
    BY <1>6, <1>b, <2>1 DEF SkipCompleted
<1>7. ASSUME NEW j \in Jobs, NEW g \in Generations, CheckCancel(j, g) PROVE TypeOK'
  <2>1. (IF StopRequested(j, g) THEN NoWorker ELSE [worker[j][g] EXCEPT !.pc = "mark"])
          \in WorkerState
    BY <1>0, WorkerUpdates
  <2> QED
    BY <1>7, <1>b, <2>1 DEF CheckCancel
<1>8. ASSUME NEW j \in Jobs, NEW g \in Generations, MarkCurrent(j, g) PROVE TypeOK'
  <2>1. [mem[j] EXCEPT !.current = worker[j][g].at] \in JobState
    <3>1. worker[j][g].at \in Nat
      BY <1>0 DEF WorkerState
    <3> QED
      BY <1>0, <3>1, JobUpdates
  <2>2. [worker[j][g] EXCEPT !.pc = "fetch"] \in WorkerState
    BY <1>0, WorkerUpdates
  <2>3. \A c : (IF c THEN [worker[j][g] EXCEPT !.pc = "fetch"] ELSE NoWorker) \in WorkerState
    BY <1>0, <2>2
  <2>4. worker' \in [Jobs -> [Generations -> WorkerState]]
    BY <1>8, <1>b, <2>2, <2>3 DEF MarkCurrent
  <2>5. mem' \in [Jobs -> JobState] /\ disk' \in [Jobs -> JobState]
    BY <1>8, <1>a, <1>c, <2>1 DEF MarkCurrent
  <2> QED
    BY <1>8, <2>4, <2>5 DEF MarkCurrent
<1>9. ASSUME NEW j \in Jobs, NEW g \in Generations, RecordSuccess(j, g) PROVE TypeOK'
  <2> DEFINE s == worker[j][g].at
  <2>1. s \in Nat /\ worker[j][g] \in WorkerState /\ mem[j] \in JobState
    BY <1>0 DEF WorkerState
  <2>2. NextSymbol(worker[j][g]) \in WorkerState
    BY <2>1, WorkerUpdates
  <2>3. [worker[j][g] EXCEPT !.pc = "fail"] \in WorkerState
    BY <2>1, WorkerUpdates
  <2>4. SucceededState(mem[j], s) \in JobState
    BY <2>1, JobUpdates
  <2>5. FetchedRows(s) \in Seq(HasRows) /\ rows[j] \in Seq(HasRows)
    BY FetchedRowsSeq
  <2>6. rows[j] \o FetchedRows(s) \in Seq(HasRows) /\ Len(rows[j]) \in Nat
    BY <2>5
  <2>7. IsTable(AppendAt(table[j], Len(rows[j]), FetchedRows(s)))
    BY <2>5, <2>6, AppendAtTable
  <2>8. CASE Owns(j, g)
    <3> PICK a \in Commits, c \in Commits :
          /\ rows'  = [rows EXCEPT ![j] = @ \o FetchedRows(s)]
          /\ table' = IF a THEN [table EXCEPT ![j] =
                                  AppendAt(@, Len(rows[j]), FetchedRows(s))]
                      ELSE table
          /\ Save(j, SucceededState(mem[j], s), c)
          /\ Becomes(j, g, IF c THEN NextSymbol(worker[j][g])
                             ELSE [worker[j][g] EXCEPT !.pc = "fail"])
      BY <1>9, <2>8 DEF RecordSuccess
    <3>1. worker' \in [Jobs -> [Generations -> WorkerState]]
      BY <1>b, <2>2, <2>3
    <3>2. mem' \in [Jobs -> JobState] /\ disk' \in [Jobs -> JobState]
      BY <1>a, <1>c, <2>4
    <3>3. rows' \in [Jobs -> Seq(HasRows)]
      BY <2>6
    <3>4. table' = [k \in Jobs |-> table'[k]] /\ \A k \in Jobs : IsTable(table'[k])
      BY <2>7
    <3>5. up' \in BOOLEAN
      BY <1>9 DEF RecordSuccess
    <3> QED
      BY <3>1, <3>2, <3>3, <3>4, <3>5
  <2>9. CASE ~Owns(j, g)
    BY <1>9, <1>b, <2>2, <2>9 DEF RecordSuccess
  <2> QED
    BY <2>8, <2>9
<1>10. ASSUME NEW j \in Jobs, NEW g \in Generations, RecordFailure(j, g) PROVE TypeOK'
  <2> DEFINE s == worker[j][g].at
  <2>1. s \in Nat /\ worker[j][g] \in WorkerState /\ mem[j] \in JobState
    BY <1>0 DEF WorkerState
  <2>2. NextSymbol(worker[j][g]) \in WorkerState
    BY <2>1, WorkerUpdates
  <2>3. \A c : (IF c THEN NextSymbol(worker[j][g]) ELSE NoWorker) \in WorkerState
    BY <1>0, <2>2
  <2>4. [mem[j] EXCEPT !.failed = @ \cup {s}] \in JobState
    BY <2>1, JobUpdates
  <2>5. worker' \in [Jobs -> [Generations -> WorkerState]]
    BY <1>10, <1>b, <2>2, <2>3 DEF RecordFailure
  <2>6. mem' \in [Jobs -> JobState] /\ disk' \in [Jobs -> JobState]
    BY <1>10, <1>a, <1>c, <2>4 DEF RecordFailure
  <2> QED
    BY <1>10, <2>5, <2>6 DEF RecordFailure
<1>11. ASSUME NEW j \in Jobs, NEW g \in Generations, Finish(j, g) PROVE TypeOK'
  <2>1. [mem[j] EXCEPT !.status = Outcome(j), !.current = 0] \in JobState
    <3>1. Outcome(j) \in Status
      BY DEF Outcome, Status, Finished, Retryable
    <3> QED
      BY <1>0, <3>1, JobUpdates
  <2>2. mem' \in [Jobs -> JobState] /\ disk' \in [Jobs -> JobState]
    BY <1>11, <1>a, <1>c, <2>1 DEF Finish
  <2> QED
    BY <1>11, <1>0, <1>b, <2>2 DEF Finish
<1>12. ASSUME ProcessDies
       PROVE  /\ up' \in BOOLEAN /\ mem' \in [Jobs -> JobState]
              /\ rows' \in [Jobs -> Seq(HasRows)]
              /\ worker' \in [Jobs -> [Generations -> WorkerState]]
  <2>1. << >> \in Seq(HasRows)
    BY EmptySeq
  <2> QED
    BY <1>0, <1>12, <2>1 DEF ProcessDies
<1>13. CASE Crash
  BY <1>12, <1>13 DEF Crash
<1>14. ASSUME NEW j \in Jobs, NEW g \in Generations, TornCrash(j, g) PROVE TypeOK'
  <2>1. FetchedRows(worker[j][g].at) \in Seq(HasRows) /\ Len(rows[j]) \in Nat
    BY FetchedRowsSeq
  <2>2. IsTable(AppendAt(table[j], Len(rows[j]), FetchedRows(worker[j][g].at)))
    BY <2>1, AppendAtTable
  <2>3. table' = [k \in Jobs |-> table'[k]] /\ \A k \in Jobs : IsTable(table'[k])
    BY <1>14, <2>2 DEF TornCrash
  <2> QED
    BY <1>12, <1>14, <2>3 DEF TornCrash
<1>15. CASE Restart
  <2>1. \A j \in Jobs : Interrupted(disk[j]) \in JobState
    BY <1>0, JobUpdates
  <2>2. \A j \in Jobs : LoadRows(table[j]) \in Seq(HasRows)
    BY LoadRowsType
  <2> QED
    BY <1>15, <2>1, <2>2 DEF Restart
<1>16. CASE UNCHANGED vars
  BY <1>16 DEF vars
<1> QED
  BY <1>1, <1>2, <1>3, <1>4, <1>5, <1>6, <1>7, <1>8, <1>9, <1>10, <1>11,
     <1>13, <1>14, <1>15, <1>16 DEF Next, WorkerStep

\* Every state and row structure keeps its type under every operation.
THEOREM TypeCorrect == Spec => []TypeOK
BY TypeInit, TypeStep, PTL DEF Spec

----------------------------------------------------------------------------
(* The inductive invariant *)

\* What saving one job changes.
LEMMA SaveEffect ==
    ASSUME TypeOK, NEW j \in Jobs, NEW st, NEW c, Save(j, st, c)
    PROVE  /\ mem'[j] = st
           /\ disk'[j] = st \/ disk'[j] = disk[j]
           /\ c => disk'[j] = st
           /\ \A k \in Jobs \ {j} : mem'[k] = mem[k] /\ disk'[k] = disk[k]
BY DEF Save, TypeOK

\* What the step of one worker changes in the others.
LEMMA BecomesEffect ==
    ASSUME TypeOK, NEW j \in Jobs, NEW g \in Generations, NEW w, Becomes(j, g, w)
    PROVE  /\ worker'[j][g] = w
           /\ \A h \in Generations \ {g} : worker'[j][h] = worker[j][h]
           /\ \A k \in Jobs \ {j} : worker'[k] = worker[k]
BY DEF Becomes, TypeOK

\* A step that leaves a job alone preserves what the invariant says of it.
LEMMA JobInvFrame ==
    ASSUME NEW k \in Jobs, JobInv(k), up' = up, mem'[k] = mem[k], disk'[k] = disk[k],
           rows'[k] = rows[k], table'[k] = table[k], worker'[k] = worker[k]
    PROVE  JobInv(k)'
BY DEF JobInv, StateOK, FailedIsEmpty, WorkerOK, OwnerOK

\* A step of worker g that leaves the job's states alone, because the run is
\* superseded or because the step is local, preserves what the invariant says
\* of the job if it does so for g itself.
LEMMA WorkerFrame ==
    ASSUME NEW k \in Jobs, NEW g \in Generations, JobInv(k), up' = up,
           mem'[k] = mem[k], disk'[k] = disk[k], rows'[k] = rows[k], table'[k] = table[k],
           \A h \in Generations \ {g} : worker'[k][h] = worker[k][h],
           WorkerOK(k, g)'
    PROVE  JobInv(k)'
<1>1. \A h \in Generations \ {g} : WorkerOK(k, h)'
  BY DEF JobInv, WorkerOK, OwnerOK
<1> QED
  BY <1>1 DEF JobInv, StateOK, FailedIsEmpty

\* While the current run of a job has a worker g, a change of the job's states
\* by g concerns no other worker.
LEMMA OtherWorkers ==
    ASSUME NEW k \in Jobs, NEW g \in Generations, JobInv(k), up' = up,
           mem[k].gen = g, mem'[k].gen = g,
           NEW h \in Generations \ {g}, worker'[k][h] = worker[k][h]
    PROVE  WorkerOK(k, h)'
BY DEF JobInv, WorkerOK

\* The queue stays within its limit if no job becomes active.
LEMMA NoNewActiveJob ==
    ASSUME ActiveJobsBounded, ActiveJobs' \subseteq ActiveJobs
    PROVE  ActiveJobsBounded'
<1>1. IsFiniteSet(ActiveJobs)
  BY JobConstants, FS_Subset DEF ActiveJobs
<1>2. ActiveJobs' \in SUBSET ActiveJobs
  OBVIOUS
<1>3. /\ Cardinality(ActiveJobs) \in Nat /\ Cardinality(ActiveJobs') \in Nat
      /\ Cardinality(ActiveJobs') <= Cardinality(ActiveJobs)
  BY <1>1, <1>2, FS_Subset, FS_CardinalityType
<1> QED
  BY <1>3, JobConstants DEF ActiveJobsBounded

\* It does so too if one job becomes active while there is room.
LEMMA OneNewActiveJob ==
    ASSUME NEW j, QueueHasRoom, ActiveJobs' \subseteq ActiveJobs \cup {j}
    PROVE  ActiveJobsBounded'
<1>1. IsFiniteSet(ActiveJobs)
  BY JobConstants, FS_Subset DEF ActiveJobs
<1>2. /\ IsFiniteSet(ActiveJobs \cup {j})
      /\ Cardinality(ActiveJobs \cup {j}) <= Cardinality(ActiveJobs) + 1
      /\ Cardinality(ActiveJobs) \in Nat
  BY <1>1, FS_AddElement, FS_CardinalityType
<1>3. ActiveJobs' \in SUBSET (ActiveJobs \cup {j})
  OBVIOUS
<1>4. /\ Cardinality(ActiveJobs') <= Cardinality(ActiveJobs \cup {j})
      /\ Cardinality(ActiveJobs') \in Nat /\ Cardinality(ActiveJobs \cup {j}) \in Nat
  BY <1>2, <1>3, FS_Subset, FS_CardinalityType
<1> QED
  BY <1>2, <1>4, JobConstants DEF ActiveJobsBounded, QueueHasRoom

\* The owner's step: it changes its job's state to st, in memory and, if the
\* transaction commits, on disk, and nobody else is concerned.
LEMMA OwnerSave ==
    ASSUME TypeOK, NEW j \in Jobs, NEW g \in Generations, JobInv(j),
           worker[j][g].pc # "off", Owns(j, g),
           NEW st, NEW c, NEW w, Save(j, st, c), Becomes(j, g, w), up' = up,
           st.gen = g, StateOK(j, st), FailedIsEmpty(j)',
           w.pc # "off" => /\ OwnerOK(j, worker[j][g])'
                           /\ st.status \in {"accepted", "running", "cancelled"}
    PROVE  JobInv(j)'
<1>1. mem'[j] = st /\ (disk'[j] = st \/ disk'[j] = disk[j]) /\ worker'[j][g] = w
  BY SaveEffect, BecomesEffect
<1>2. /\ up /\ mem[j].gen = g /\ disk[j].gen = g
      /\ disk[j].status \in {"accepted", "running", "cancelled"}
  BY DEF JobInv, WorkerOK, Owns
<1>3. StateOK(j, mem[j])' /\ StateOK(j, disk[j])'
  BY <1>1 DEF JobInv, StateOK
<1>4. ASSUME NEW h \in Generations PROVE WorkerOK(j, h)'
  <2>1. CASE h = g
    <3>1. disk'[j].gen = g
      BY <1>1, <1>2
    <3>2. w.pc # "off" => disk'[j].status \in {"accepted", "running", "cancelled"}
      BY <1>1, <1>2
    <3>3. mem'[j].gen = g /\ g <= mem'[j].gen
      BY <1>1 DEF Generations
    <3> QED
      BY <1>1, <1>2, <2>1, <3>1, <3>2, <3>3 DEF WorkerOK
  <2>2. CASE h # g
    <3>1. worker'[j][h] = worker[j][h]
      BY <2>2, BecomesEffect
    <3> QED
      BY <1>1, <1>2, <2>2, <3>1, OtherWorkers
  <2> QED
    BY <2>1, <2>2
<1> QED
  BY <1>3, <1>4 DEF JobInv

\* A step of one job that makes no job active.
LEMMA QuietStep ==
    ASSUME IInv, TypeOK', NEW j \in Jobs, JobInv(j)', up' = up,
           \A k \in Jobs \ {j} :
              /\ mem'[k] = mem[k] /\ disk'[k] = disk[k] /\ rows'[k] = rows[k]
              /\ table'[k] = table[k] /\ worker'[k] = worker[k],
           mem'[j].status \in Active => mem[j].status \in Active
    PROVE  IInv'
<1>1. \A k \in Jobs : JobInv(k)'
  BY JobInvFrame DEF IInv
<1>2. ActiveJobs' \subseteq ActiveJobs
  BY DEF ActiveJobs
<1> QED
  BY <1>1, <1>2, NoNewActiveJob DEF IInv

\* A new run: the worker it starts is the only one of its generation.
LEMMA LaunchStep ==
    ASSUME IInv, TypeOK', NEW j \in Jobs, NEW st, Launch(j, st), up, QueueHasRoom,
           st.gen \in Generations, st.gen = mem[j].gen + 1,
           st.status = "accepted", st.failed = {}, StateOK(j, st)
    PROVE  IInv'
<1> PICK c \in Commits :
      /\ Save(j, st, c)
      /\ IF c THEN Becomes(j, st.gen, [NoWorker EXCEPT !.pc = "start"])
              ELSE UNCHANGED worker
      /\ UNCHANGED <<up, rows, table>>
  BY DEF Launch
<1> DEFINE g == st.gen
<1>0. TypeOK /\ JobInv(j) /\ c \in BOOLEAN
  BY DEF IInv, Commits
<1>1. mem'[j] = st /\ (disk'[j] = st \/ disk'[j] = disk[j]) /\ (c => disk'[j] = st)
  BY <1>0, SaveEffect
<1>2. \A k \in Jobs \ {j} : mem'[k] = mem[k] /\ disk'[k] = disk[k]
  BY <1>0, SaveEffect
<1>3. PICK w : w = [NoWorker EXCEPT !.pc = "start"] /\ w.pc = "start"
  <2>1. [NoWorker EXCEPT !.pc = "start"].pc = "start"
    BY DEF NoWorker
  <2> QED
    BY <2>1
<1>4. /\ \A h \in Generations \ {g} : worker'[j][h] = worker[j][h]
      /\ \A k \in Jobs \ {j} : worker'[k] = worker[k]
      /\ c => worker'[j][g].pc = "start"
      /\ ~c => worker'[j][g] = worker[j][g]
  <2>1. CASE c
    <3>1. Becomes(j, g, w)
      BY <1>3, <2>1
    <3>2. /\ worker'[j][g] = w
          /\ \A h \in Generations \ {g} : worker'[j][h] = worker[j][h]
          /\ \A k \in Jobs \ {j} : worker'[k] = worker[k]
      BY <1>0, <3>1, BecomesEffect
    <3> QED
      BY <1>3, <2>1, <3>2
  <2>2. CASE ~c
    BY <2>2
  <2> QED
    BY <2>1, <2>2
<1>5. mem[j].gen \in Nat /\ \A h \in Generations : h \in Nat
  BY <1>0 DEF TypeOK, JobState, Generations
<1>6. StateOK(j, mem[j])' /\ StateOK(j, disk[j])'
  BY <1>0, <1>1 DEF JobInv, StateOK
<1>7. FailedIsEmpty(j)'
  BY <1>0, <1>1 DEF JobInv, FailedIsEmpty
<1>8. ASSUME NEW h \in Generations PROVE WorkerOK(j, h)'
  <2>1. worker[j][h].pc # "off" => h <= mem[j].gen
    BY <1>0 DEF JobInv, WorkerOK
  <2>2. CASE h # g
    BY <1>1, <1>4, <1>5, <2>1, <2>2 DEF WorkerOK
  <2>3. CASE h = g /\ ~c
    BY <1>1, <1>4, <1>5, <2>1, <2>3 DEF WorkerOK
  <2>4. CASE h = g /\ c
    <3>1. OwnerOK(j, worker[j][g])'
      BY <1>1, <1>4, <2>4 DEF OwnerOK
    <3> QED
      BY <1>1, <1>5, <2>4, <3>1 DEF WorkerOK
  <2> QED
    BY <1>0, <2>2, <2>3, <2>4
<1>9. \A k \in Jobs : JobInv(k)'
  <2>1. JobInv(j)'
    BY <1>6, <1>7, <1>8 DEF JobInv
  <2> QED
    BY <1>2, <1>4, <2>1, JobInvFrame DEF IInv
<1>10. ActiveJobs' \subseteq ActiveJobs \cup {j}
  BY <1>2 DEF ActiveJobs
<1> QED
  BY <1>9, <1>10, OneNewActiveJob DEF IInv

\* A step of a worker on its own state only.
LEMMA LocalStep ==
    ASSUME IInv, TypeOK', NEW j \in Jobs, NEW g \in Generations, NEW w,
           Becomes(j, g, w), UNCHANGED <<up, mem, rows, disk, table>>,
           worker[j][g].pc # "off",
           w.pc # "off" /\ Owns(j, g) => OwnerOK(j, worker[j][g])'
    PROVE  IInv'
<1>1. TypeOK /\ JobInv(j)
  BY DEF IInv
<1>2. /\ worker'[j][g] = w
      /\ \A h \in Generations \ {g} : worker'[j][h] = worker[j][h]
      /\ \A k \in Jobs \ {j} : worker'[k] = worker[k]
  BY <1>1, BecomesEffect
<1>3. WorkerOK(j, g)'
  BY <1>1, <1>2 DEF JobInv, WorkerOK, Owns
<1>4. JobInv(j)'
  BY <1>1, <1>2, <1>3, WorkerFrame
<1> QED
  BY <1>2, <1>4, QuietStep

\* A step of the current run that saves its job.
LEMMA OwnerStep ==
    ASSUME IInv, TypeOK', NEW j \in Jobs, NEW g \in Generations,
           worker[j][g].pc # "off", Owns(j, g),
           NEW st, NEW c, NEW w, Save(j, st, c), Becomes(j, g, w), up' = up,
           \A k \in Jobs \ {j} : rows'[k] = rows[k] /\ table'[k] = table[k],
           st.gen = g, StateOK(j, st), FailedIsEmpty(j)',
           st.status \in Active => mem[j].status \in Active,
           w.pc # "off" => /\ OwnerOK(j, worker[j][g])'
                           /\ st.status \in {"accepted", "running", "cancelled"}
    PROVE  IInv'
<1>1. TypeOK /\ JobInv(j)
  BY DEF IInv
<1>2. JobInv(j)'
  BY <1>1, OwnerSave
<1>3. mem'[j] = st /\ \A k \in Jobs \ {j} : mem'[k] = mem[k] /\ disk'[k] = disk[k]
  BY <1>1, SaveEffect
<1>4. \A k \in Jobs \ {j} : worker'[k] = worker[k]
  BY <1>1, BecomesEffect
<1> QED
  BY <1>2, <1>3, <1>4, QuietStep

\* What the invariant says of the worker of the current run.
LEMMA OwnerFacts ==
    ASSUME IInv, NEW j \in Jobs, NEW g \in Generations, worker[j][g].pc # "off"
    PROVE  /\ up /\ worker[j][g] \in WorkerState
           /\ mem[j] \in JobState /\ disk[j] \in JobState
           /\ StateOK(j, mem[j]) /\ FailedIsEmpty(j)
           /\ Owns(j, g) => /\ OwnerOK(j, worker[j][g]) /\ disk[j].gen = g
                            /\ disk[j].status \in {"accepted", "running", "cancelled"}
BY DEF IInv, TypeOK, JobInv, WorkerOK, Owns

LEMMA CreateJobStep ==
    ASSUME IInv, TypeOK', NEW j \in Jobs, CreateJob(j)
    PROVE  IInv'
<1> PICK st : st = [NoJob EXCEPT !.status = "accepted", !.gen = 1]
  OBVIOUS
<1>1. st.status = "accepted" /\ st.gen = 1 /\ st.failed = {} /\ StateOK(j, st)
  BY DEF NoJob, StateOK, Finished
<1>2. st.gen \in Generations
  BY NothingYet
<1>3. mem[j].gen = 0
  BY DEF IInv, JobInv, StateOK, CreateJob
<1>4. Launch(j, st) /\ up /\ QueueHasRoom
  BY DEF CreateJob
<1>5. st.gen = mem[j].gen + 1
  BY <1>1, <1>3
<1> QED
  BY <1>1, <1>2, <1>4, <1>5, LaunchStep

LEMMA RetryJobStep ==
    ASSUME IInv, TypeOK', NEW j \in Jobs, RetryJob(j)
    PROVE  IInv'
<1> PICK st : st = RetriedState(mem[j])
  OBVIOUS
<1>1. mem[j] \in JobState /\ StateOK(j, mem[j]) /\ mem[j].status \in Retryable
  BY DEF IInv, TypeOK, JobInv, RetryJob
<1>2. /\ st.status = "accepted" /\ st.gen = mem[j].gen + 1 /\ st.failed = {}
      /\ st.cancel = FALSE /\ st.completed = mem[j].completed
  BY <1>1 DEF RetriedState, JobState
<1>3. st.gen \in Generations
  BY <1>1, JobUpdates DEF RetryJob
<1>4. StateOK(j, st)
  BY <1>1, <1>2, <1>3 DEF StateOK, Finished, Generations
<1>5. Launch(j, st) /\ up /\ QueueHasRoom
  BY DEF RetryJob
<1> QED
  BY <1>2, <1>3, <1>4, <1>5, LaunchStep

LEMMA CancelJobStep ==
    ASSUME IInv, TypeOK', NEW j \in Jobs, CancelJob(j)
    PROVE  IInv'
<1> PICK st : st = [mem[j] EXCEPT !.status = "cancelled", !.cancel = TRUE]
  OBVIOUS
<1> PICK c \in Commits : Save(j, st, c)
  BY DEF CancelJob
<1>1. TypeOK /\ JobInv(j) /\ mem[j] \in JobState /\ StateOK(j, mem[j]) /\ up
  BY DEF IInv, TypeOK, JobInv, CancelJob
<1>2. /\ mem'[j] = st /\ (disk'[j] = st \/ disk'[j] = disk[j])
      /\ \A k \in Jobs \ {j} : mem'[k] = mem[k] /\ disk'[k] = disk[k]
  BY <1>1, SaveEffect
<1>3. /\ st.status = "cancelled" /\ st.cancel = TRUE /\ st.gen = mem[j].gen
      /\ st.completed = mem[j].completed /\ st.failed = mem[j].failed
      /\ st.current = mem[j].current
  BY <1>1 DEF JobState
<1>4. mem[j].status \in Active
  BY DEF CancelJob
<1>5. StateOK(j, st)
  BY <1>1, <1>3, <1>4 DEF StateOK, Finished, Active
<1>6. StateOK(j, mem[j])' /\ StateOK(j, disk[j])'
  BY <1>1, <1>2, <1>5 DEF JobInv, StateOK
<1>7. UNCHANGED <<up, rows, table, worker>>
  BY DEF CancelJob
<1>8. FailedIsEmpty(j)'
  BY <1>1, <1>2, <1>3, <1>7 DEF JobInv, FailedIsEmpty
<1>9. ASSUME NEW g \in Generations PROVE WorkerOK(j, g)'
  <2>1. worker'[j][g].pc # "off" =>
          /\ g <= mem'[j].gen
          /\ g = mem'[j].gen => OwnerOK(j, worker[j][g]) /\ disk[j].gen = g
                                /\ disk[j].status \in {"accepted", "running", "cancelled"}
    BY <1>1, <1>2, <1>3, <1>7 DEF JobInv, WorkerOK
  <2>2. OwnerOK(j, worker[j][g]) => OwnerOK(j, worker[j][g])'
    BY <1>2, <1>3, <1>7 DEF OwnerOK
  <2>3. g = mem[j].gen /\ disk[j].gen = g => disk'[j].gen = g
    BY <1>2, <1>3
  <2>4. disk[j].status \in {"accepted", "running", "cancelled"} =>
          disk'[j].status \in {"accepted", "running", "cancelled"}
    BY <1>2, <1>3
  <2> QED
    BY <1>1, <1>2, <1>3, <1>7, <2>1, <2>2, <2>3, <2>4 DEF WorkerOK
<1>10. JobInv(j)'
  BY <1>6, <1>8, <1>9 DEF JobInv
<1> QED
  BY <1>2, <1>4, <1>7, <1>10, QuietStep

LEMMA MarkRunningStep ==
    ASSUME IInv, TypeOK', NEW j \in Jobs, NEW g \in Generations, MarkRunning(j, g)
    PROVE  IInv'
<1> PICK w : w = [worker[j][g] EXCEPT !.pc = "snap"]
  OBVIOUS
<1>1. worker[j][g].pc = "start" /\ UNCHANGED <<up, rows, table>>
  BY DEF MarkRunning
<1>2. /\ up /\ worker[j][g] \in WorkerState
      /\ mem[j] \in JobState /\ StateOK(j, mem[j]) /\ FailedIsEmpty(j)
      /\ Owns(j, g) => OwnerOK(j, worker[j][g])
                       /\ disk[j].status \in {"accepted", "running", "cancelled"}
  BY <1>1, OwnerFacts
<1>3. w.pc = "snap"
  BY <1>2 DEF WorkerState
<1>4. Owns(j, g) => mem[j].status \in {"accepted", "cancelled"} /\ mem[j].failed = {}
  BY <1>1, <1>2 DEF OwnerOK
<1>5. TypeOK
  BY DEF IInv
<1>6. CASE MayAdvance(j, g)
  <2> PICK st : st = [mem[j] EXCEPT !.status = "running"]
    OBVIOUS
  <2> PICK c \in Commits : /\ Save(j, st, c)
                           /\ Becomes(j, g, IF c THEN w ELSE NoWorker)
    BY <1>6 DEF MarkRunning
  <2> PICK v : v = IF c THEN w ELSE NoWorker
    OBVIOUS
  <2>1. Owns(j, g) /\ mem[j].status = "accepted"
    BY <1>4, <1>6 DEF MayAdvance
  <2>2. /\ st.status = "running" /\ st.gen = mem[j].gen /\ st.cancel = mem[j].cancel
        /\ st.completed = mem[j].completed /\ st.failed = mem[j].failed
    BY <1>2 DEF JobState
  <2>3. StateOK(j, st)
    BY <1>2, <2>1, <2>2 DEF StateOK, Finished
  <2>4. mem'[j] = st /\ (disk'[j] = st \/ disk'[j] = disk[j])
    BY <1>5, SaveEffect
  <2>5. FailedIsEmpty(j)'
    BY <1>1, <1>2, <2>2, <2>4 DEF FailedIsEmpty
  <2>6. v.pc \in {"off", "snap"}
    BY <1>3 DEF NoWorker
  <2>7. Becomes(j, g, v)
    OBVIOUS
  <2>8. worker'[j][g] = v
    BY <1>5, <2>7, BecomesEffect
  <2>9. v.pc # "off" => OwnerOK(j, worker[j][g])'
    BY <1>4, <2>1, <2>2, <2>4, <2>6, <2>8 DEF OwnerOK
  <2>10. mem[j].status \in Active /\ st.gen = g
    BY <2>1, <2>2 DEF Active, Owns
  <2> QED
    BY <1>1, <2>1, <2>2, <2>3, <2>5, <2>7, <2>9, <2>10, OwnerStep
<1>7. CASE ~MayAdvance(j, g)
  <2>1. Becomes(j, g, w) /\ UNCHANGED <<mem, disk>>
    BY <1>7 DEF MarkRunning
  <2>2. worker'[j][g] = w
    BY <1>5, <2>1, BecomesEffect
  <2>3. Owns(j, g) => OwnerOK(j, worker[j][g])'
    BY <1>3, <1>4, <1>7, <2>1, <2>2 DEF OwnerOK, MayAdvance
  <2> QED
    BY <1>1, <2>1, <2>3, LocalStep
<1> QED
  BY <1>6, <1>7

LEMMA TakeSnapshotStep ==
    ASSUME IInv, TypeOK', NEW j \in Jobs, NEW g \in Generations, TakeSnapshot(j, g)
    PROVE  IInv'
<1> PICK w : w = [pc |-> "loop", at |-> 1, done |-> mem[j].completed]
  OBVIOUS
<1>1. /\ worker[j][g].pc = "snap" /\ Becomes(j, g, w)
      /\ UNCHANGED <<up, mem, rows, disk, table>>
  BY DEF TakeSnapshot
<1>2. Owns(j, g) => OwnerOK(j, worker[j][g])
  BY <1>1, OwnerFacts
<1>3. worker'[j][g] = w
  BY <1>1, BecomesEffect DEF IInv
<1>4. w.pc = "loop" /\ w.at = 1 /\ w.done = mem[j].completed
  OBVIOUS
<1>5. SymbolCount[j] \in Nat \ {0}
  BY JobConstants
<1>6. 1 .. 1 - 1 = {} /\ 1 \in 1 .. SymbolCount[j] + 1
  BY <1>5
<1>7. Owns(j, g) => OwnerOK(j, worker[j][g])'
  BY <1>1, <1>2, <1>3, <1>4, <1>6 DEF OwnerOK
<1> QED
  BY <1>1, <1>7, LocalStep

LEMMA SkipCompletedStep ==
    ASSUME IInv, TypeOK', NEW j \in Jobs, NEW g \in Generations, SkipCompleted(j, g)
    PROVE  IInv'
<1> PICK w : w = [worker[j][g] EXCEPT !.at = @ + 1]
  OBVIOUS
<1> DEFINE n == worker[j][g].at
<1>1. /\ worker[j][g].pc = "loop" /\ n <= SymbolCount[j] /\ n \in worker[j][g].done
      /\ Becomes(j, g, w) /\ UNCHANGED <<up, mem, rows, disk, table>>
  BY DEF SkipCompleted
<1>2. worker[j][g] \in WorkerState /\ (Owns(j, g) => OwnerOK(j, worker[j][g]))
  BY <1>1, OwnerFacts
<1>3. worker'[j][g] = w
  BY <1>1, BecomesEffect DEF IInv
<1>4. w.pc = "loop" /\ w.at = n + 1 /\ w.done = worker[j][g].done /\ n \in Nat
  BY <1>1, <1>2 DEF WorkerState
<1>5. SymbolCount[j] \in Nat \ {0}
  BY JobConstants
<1>6. ASSUME Owns(j, g) PROVE OwnerOK(j, worker[j][g])'
  <2>1. /\ n \in 1 .. SymbolCount[j] + 1
        /\ w.done \subseteq mem[j].completed
        /\ 1 .. n - 1 \subseteq mem[j].completed \cup mem[j].failed
        /\ mem[j].failed \subseteq 1 .. n - 1
        /\ mem[j].completed \subseteq w.done \cup 1 .. n - 1
        /\ mem[j].status \in {"running", "cancelled"}
    BY <1>1, <1>2, <1>4, <1>6 DEF OwnerOK
  <2>2. w.at - 1 = n /\ w.at \in 1 .. SymbolCount[j] + 1 /\ 1 .. n = 1 .. n - 1 \cup {n}
    BY <1>1, <1>4, <1>5, <2>1
  <2>3. 1 .. n \subseteq mem[j].completed \cup mem[j].failed
    BY <1>1, <1>4, <2>1, <2>2
  <2>4. /\ mem[j].failed \subseteq 1 .. n
        /\ mem[j].completed \subseteq w.done \cup 1 .. n
        /\ mem[j].completed \subseteq w.done \cup 1 .. w.at
    <3>1. 1 .. n \subseteq 1 .. n + 1
      BY <1>4
    <3> QED
      BY <1>4, <2>1, <2>2, <3>1
  <2> QED
    BY <1>1, <1>3, <1>4, <2>1, <2>2, <2>3, <2>4 DEF OwnerOK
<1> QED
  BY <1>1, <1>6, LocalStep

LEMMA CheckCancelStep ==
    ASSUME IInv, TypeOK', NEW j \in Jobs, NEW g \in Generations, CheckCancel(j, g)
    PROVE  IInv'
<1> PICK w : w = IF StopRequested(j, g) THEN NoWorker
                 ELSE [worker[j][g] EXCEPT !.pc = "mark"]
  OBVIOUS
<1>1. /\ worker[j][g].pc = "loop" /\ worker[j][g].at <= SymbolCount[j]
      /\ worker[j][g].at \notin worker[j][g].done
      /\ Becomes(j, g, w) /\ UNCHANGED <<up, mem, rows, disk, table>>
  BY DEF CheckCancel
<1>2. worker[j][g] \in WorkerState /\ (Owns(j, g) => OwnerOK(j, worker[j][g]))
  BY <1>1, OwnerFacts
<1>3. worker'[j][g] = w
  BY <1>1, BecomesEffect DEF IInv
<1>4. w.pc # "off" => /\ w.pc = "mark" /\ w.at = worker[j][g].at
                      /\ w.done = worker[j][g].done
  BY <1>2 DEF WorkerState, NoWorker
<1>5. w.pc # "off" /\ Owns(j, g) => OwnerOK(j, worker[j][g])'
  BY <1>1, <1>2, <1>3, <1>4 DEF OwnerOK
<1> QED
  BY <1>1, <1>5, LocalStep

LEMMA MarkCurrentStep ==
    ASSUME IInv, TypeOK', NEW j \in Jobs, NEW g \in Generations, MarkCurrent(j, g)
    PROVE  IInv'
<1> PICK w : w = [worker[j][g] EXCEPT !.pc = "fetch"]
  OBVIOUS
<1>1. worker[j][g].pc = "mark" /\ UNCHANGED <<up, rows, table>>
  BY DEF MarkCurrent
<1>2. /\ up /\ worker[j][g] \in WorkerState
      /\ mem[j] \in JobState /\ StateOK(j, mem[j]) /\ FailedIsEmpty(j)
      /\ Owns(j, g) => OwnerOK(j, worker[j][g])
                       /\ disk[j].status \in {"accepted", "running", "cancelled"}
  BY <1>1, OwnerFacts
<1>3. w.pc = "fetch" /\ w.at = worker[j][g].at /\ w.done = worker[j][g].done
  BY <1>2 DEF WorkerState
<1>4. TypeOK
  BY DEF IInv
<1>5. CASE MayAdvance(j, g)
  <2> PICK st : st = [mem[j] EXCEPT !.current = worker[j][g].at]
    OBVIOUS
  <2> PICK c \in Commits : /\ Save(j, st, c)
                           /\ Becomes(j, g, IF c THEN w ELSE NoWorker)
    BY <1>5 DEF MarkCurrent
  <2> PICK v : v = IF c THEN w ELSE NoWorker
    OBVIOUS
  <2>1. Owns(j, g) /\ mem[j].status = "running"
    BY <1>1, <1>2, <1>5 DEF MayAdvance, OwnerOK
  <2>2. /\ st.status = "running" /\ st.gen = mem[j].gen /\ st.cancel = mem[j].cancel
        /\ st.completed = mem[j].completed /\ st.failed = mem[j].failed
    BY <1>2, <2>1 DEF JobState
  <2>3. StateOK(j, st)
    BY <1>2, <2>1, <2>2 DEF StateOK, Finished
  <2>4. mem'[j] = st /\ (disk'[j] = st \/ disk'[j] = disk[j])
    BY <1>4, SaveEffect
  <2>5. FailedIsEmpty(j)'
    BY <1>1, <1>2, <2>2, <2>4 DEF FailedIsEmpty
  <2>6. v = w \/ v.pc = "off"
    BY DEF NoWorker
  <2>7. Becomes(j, g, v)
    OBVIOUS
  <2>8. worker'[j][g] = v
    BY <1>4, <2>7, BecomesEffect
  <2>9. v.pc # "off" => OwnerOK(j, worker[j][g])'
    BY <1>1, <1>2, <1>3, <2>1, <2>2, <2>4, <2>6, <2>8 DEF OwnerOK
  <2>10. mem[j].status \in Active /\ st.gen = g
    BY <2>1, <2>2 DEF Active, Owns
  <2> QED
    BY <1>1, <2>1, <2>2, <2>3, <2>5, <2>7, <2>9, <2>10, OwnerStep
<1>6. CASE ~MayAdvance(j, g)
  <2>1. Becomes(j, g, w) /\ UNCHANGED <<mem, disk>>
    BY <1>6 DEF MarkCurrent
  <2>2. worker'[j][g] = w
    BY <1>4, <2>1, BecomesEffect
  <2>3. Owns(j, g) => OwnerOK(j, worker[j][g])'
    BY <1>1, <1>2, <1>3, <2>1, <2>2 DEF OwnerOK
  <2> QED
    BY <1>1, <2>1, <2>3, LocalStep
<1> QED
  BY <1>5, <1>6

\* A worker that has dealt with its symbol, or has been told that the job is
\* no longer its own, goes on with the next one.
LEMMA NextSymbolOK ==
    ASSUME IInv, NEW j \in Jobs, NEW g \in Generations, Owns(j, g),
           worker[j][g].pc \in {"fetch", "fail"},
           worker'[j][g] = NextSymbol(worker[j][g]),
           mem'[j].status = mem[j].status,
           mem[j].completed \subseteq mem'[j].completed,
           mem'[j].completed \subseteq mem[j].completed \cup {worker[j][g].at},
           mem[j].failed \subseteq mem'[j].failed,
           mem'[j].failed \subseteq mem[j].failed \cup {worker[j][g].at},
           worker[j][g].at \in mem'[j].completed \cup mem'[j].failed
    PROVE  OwnerOK(j, worker[j][g])'
<1> DEFINE n == worker[j][g].at
           d == worker[j][g].done
<1>1. worker[j][g] \in WorkerState /\ OwnerOK(j, worker[j][g])
  BY OwnerFacts
<1>2. /\ worker'[j][g].pc = "loop" /\ worker'[j][g].at = n + 1
      /\ worker'[j][g].done = d /\ n \in Nat
  BY <1>1 DEF WorkerState, NextSymbol
<1>3. SymbolCount[j] \in Nat \ {0}
  BY JobConstants
<1>4. /\ n \in 1 .. SymbolCount[j] /\ d \subseteq mem[j].completed
      /\ 1 .. n - 1 \subseteq mem[j].completed \cup mem[j].failed
      /\ mem[j].failed \subseteq 1 .. n - 1
      /\ mem[j].completed \subseteq d \cup 1 .. n
      /\ mem[j].status \in {"running", "cancelled"}
  BY <1>1, <1>2, <1>3 DEF OwnerOK
<1>5. /\ (n + 1) - 1 = n /\ n + 1 \in 1 .. SymbolCount[j] + 1
      /\ 1 .. n = 1 .. n - 1 \cup {n} /\ 1 .. n \subseteq 1 .. n + 1
  BY <1>3, <1>4
<1>6. /\ 1 .. n \subseteq mem'[j].completed \cup mem'[j].failed
      /\ mem'[j].failed \subseteq 1 .. n
      /\ mem'[j].completed \subseteq d \cup 1 .. n
      /\ mem'[j].completed \subseteq d \cup 1 .. n + 1
      /\ d \subseteq mem'[j].completed
  BY <1>4, <1>5
<1> QED
  BY <1>2, <1>4, <1>5, <1>6 DEF OwnerOK

LEMMA RecordFailureStep ==
    ASSUME IInv, TypeOK', NEW j \in Jobs, NEW g \in Generations, RecordFailure(j, g)
    PROVE  IInv'
<1> DEFINE s == worker[j][g].at
<1> PICK w : w = NextSymbol(worker[j][g])
  OBVIOUS
<1>1. worker[j][g].pc \in {"fetch", "fail"} /\ UNCHANGED <<up, rows, table>>
  BY DEF RecordFailure
<1>2. /\ up /\ worker[j][g] \in WorkerState
      /\ mem[j] \in JobState /\ StateOK(j, mem[j]) /\ FailedIsEmpty(j)
      /\ Owns(j, g) => OwnerOK(j, worker[j][g])
                       /\ disk[j].status \in {"accepted", "running", "cancelled"}
  BY <1>1, OwnerFacts
<1>3. TypeOK
  BY DEF IInv
<1>4. CASE Owns(j, g)
  <2> PICK st : st = [mem[j] EXCEPT !.failed = @ \cup {s}]
    OBVIOUS
  <2> PICK c \in Commits : /\ Save(j, st, c)
                           /\ Becomes(j, g, IF c THEN w ELSE NoWorker)
    BY <1>4 DEF RecordFailure
  <2> PICK v : v = IF c THEN w ELSE NoWorker
    OBVIOUS
  <2>1. mem[j].status \in {"running", "cancelled"} /\ s \in Symbols(j)
    BY <1>1, <1>2, <1>4, JobConstants DEF OwnerOK, WorkerState, Symbols
  <2>2. /\ st.status = mem[j].status /\ st.gen = mem[j].gen /\ st.cancel = mem[j].cancel
        /\ st.completed = mem[j].completed /\ st.failed = mem[j].failed \cup {s}
    BY <1>2 DEF JobState
  <2>3. StateOK(j, st)
    BY <1>2, <2>1, <2>2 DEF StateOK, Finished
  <2>4. mem'[j] = st /\ (disk'[j] = st \/ disk'[j] = disk[j])
    BY <1>3, SaveEffect
  <2>5. FailedIsEmpty(j)'
    BY <1>1, <1>2, <2>1, <2>2, <2>4 DEF FailedIsEmpty
  <2>6. v = w \/ v.pc = "off"
    BY DEF NoWorker
  <2>7. Becomes(j, g, v)
    OBVIOUS
  <2>8. worker'[j][g] = v
    BY <1>3, <2>7, BecomesEffect
  <2>9. v.pc # "off" => OwnerOK(j, worker[j][g])'
    BY <1>1, <1>4, <2>2, <2>4, <2>6, <2>8, NextSymbolOK
  <2>10. st.gen = g
    BY <1>4, <2>2 DEF Owns
  <2> QED
    BY <1>1, <1>4, <2>1, <2>2, <2>3, <2>5, <2>7, <2>9, <2>10, OwnerStep
<1>5. CASE ~Owns(j, g)
  <2>1. Becomes(j, g, w) /\ UNCHANGED <<mem, disk>>
    BY <1>5 DEF RecordFailure
  <2> QED
    BY <1>1, <1>5, <2>1, LocalStep
<1> QED
  BY <1>4, <1>5

LEMMA FinishStep ==
    ASSUME IInv, TypeOK', NEW j \in Jobs, NEW g \in Generations, Finish(j, g)
    PROVE  IInv'
<1>1. /\ worker[j][g].pc = "loop" /\ worker[j][g].at > SymbolCount[j]
      /\ UNCHANGED <<up, rows, table>> /\ Becomes(j, g, NoWorker)
  BY DEF Finish
<1>2. /\ up /\ worker[j][g] \in WorkerState
      /\ mem[j] \in JobState /\ StateOK(j, mem[j]) /\ FailedIsEmpty(j)
      /\ Owns(j, g) => OwnerOK(j, worker[j][g])
                       /\ disk[j].status \in {"accepted", "running", "cancelled"}
  BY <1>1, OwnerFacts
<1>3. TypeOK /\ NoWorker.pc = "off"
  BY DEF IInv, NoWorker
<1>4. CASE MayAdvance(j, g)
  <2> PICK st : st = [mem[j] EXCEPT !.status = Outcome(j), !.current = 0]
    OBVIOUS
  <2> PICK c \in Commits : Save(j, st, c)
    BY <1>4 DEF Finish
  <2>1. Owns(j, g) /\ mem[j].status = "running"
    BY <1>1, <1>2, <1>4 DEF MayAdvance, OwnerOK
  <2>2. /\ st.status = Outcome(j) /\ st.gen = mem[j].gen /\ st.cancel = mem[j].cancel
        /\ st.completed = mem[j].completed /\ st.failed = mem[j].failed
        /\ st.current = 0
    BY <1>2 DEF JobState
  <2>3. mem[j].completed \cup mem[j].failed = Symbols(j)
    <3>1. worker[j][g].at = SymbolCount[j] + 1
      BY <1>1, <1>2, <2>1, JobConstants DEF OwnerOK
    <3>2. worker[j][g].at - 1 = SymbolCount[j]
      BY <3>1, JobConstants
    <3>3. Symbols(j) \subseteq mem[j].completed \cup mem[j].failed
      BY <1>1, <1>2, <2>1, <3>2 DEF OwnerOK, Symbols
    <3> QED
      BY <1>2, <3>3 DEF StateOK
  <2>4. /\ Outcome(j) \in Finished \cup {"failed"}
        /\ Outcome(j) = "completed" => mem[j].failed = {}
        /\ Outcome(j) = "failed" => rows[j] = << >>
    BY DEF Outcome, Finished
  <2>5. StateOK(j, st)
    BY <1>2, <2>1, <2>2, <2>3, <2>4 DEF StateOK, Finished
  <2>6. mem'[j] = st /\ (disk'[j] = st \/ disk'[j] = disk[j])
    BY <1>3, SaveEffect
  <2>7. FailedIsEmpty(j)'
    BY <1>1, <1>2, <2>1, <2>2, <2>4, <2>6 DEF FailedIsEmpty
  <2>8. mem[j].status \in Active /\ st.gen = g
    BY <2>1, <2>2 DEF Active, Owns
  <2> QED
    BY <1>1, <1>3, <2>1, <2>5, <2>7, <2>8, OwnerStep
<1>5. CASE ~MayAdvance(j, g)
  BY <1>1, <1>3, <1>5, LocalStep DEF Finish
<1> QED
  BY <1>4, <1>5

LEMMA RecordSuccessStep ==
    ASSUME IInv, TypeOK', NEW j \in Jobs, NEW g \in Generations, RecordSuccess(j, g)
    PROVE  IInv'
<1> DEFINE s == worker[j][g].at
<1> PICK n : n = NextSymbol(worker[j][g])
  OBVIOUS
<1>1. worker[j][g].pc = "fetch" /\ up' = up
  BY DEF RecordSuccess
<1>2. /\ up /\ worker[j][g] \in WorkerState
      /\ mem[j] \in JobState /\ StateOK(j, mem[j]) /\ FailedIsEmpty(j)
      /\ Owns(j, g) => OwnerOK(j, worker[j][g])
                       /\ disk[j].status \in {"accepted", "running", "cancelled"}
  BY <1>1, OwnerFacts
<1>3. TypeOK
  BY DEF IInv
<1>4. CASE Owns(j, g)
  <2> PICK st : st = SucceededState(mem[j], s)
    OBVIOUS
  <2> PICK f : f = [worker[j][g] EXCEPT !.pc = "fail"]
    OBVIOUS
  <2> PICK a \in Commits, c \in Commits :
        /\ rows'  = [rows EXCEPT ![j] = @ \o FetchedRows(s)]
        /\ table' = IF a THEN [table EXCEPT ![j] =
                                AppendAt(@, Len(rows[j]), FetchedRows(s))]
                    ELSE table
        /\ (s \notin HasRows => a)
        /\ Save(j, st, c)
        /\ Becomes(j, g, IF c THEN n ELSE f)
    BY <1>4 DEF RecordSuccess
  <2> PICK v : v = IF c THEN n ELSE f
    OBVIOUS
  <2>1. mem[j].status \in {"running", "cancelled"} /\ s \in Symbols(j)
    BY <1>1, <1>2, <1>4, JobConstants DEF OwnerOK, WorkerState, Symbols
  <2>2. /\ st.status = mem[j].status /\ st.gen = mem[j].gen /\ st.cancel = mem[j].cancel
        /\ st.completed = mem[j].completed \cup {s} /\ st.failed = mem[j].failed
    BY <1>2 DEF JobState, SucceededState
  <2>3. StateOK(j, st)
    BY <1>2, <2>1, <2>2 DEF StateOK, Finished
  <2>4. mem'[j] = st /\ (disk'[j] = st \/ disk'[j] = disk[j])
    BY <1>3, SaveEffect
  <2>5. rows[j] \in Seq(HasRows) /\ Len(rows[j]) \in Nat /\ IsTable(table[j])
    BY <1>3 DEF TypeOK
  <2>6. /\ rows'[j] = rows[j] \o FetchedRows(s)
        /\ a => table'[j] = AppendAt(table[j], Len(rows[j]), FetchedRows(s))
        /\ ~a => table'[j] = table[j]
        /\ \A k \in Jobs \ {j} : rows'[k] = rows[k] /\ table'[k] = table[k]
    <3>1. rows' = [rows EXCEPT ![j] = rows[j] \o FetchedRows(s)]
      OBVIOUS
    <3>2. rows \in [Jobs -> Seq(HasRows)] /\ table = [k \in Jobs |-> table[k]]
      BY <1>3 DEF TypeOK
    <3> QED
      BY <3>1, <3>2
  <2>7. rows'[j] = << >> => rows[j] = << >> /\ s \notin HasRows
    BY <2>5, <2>6, NothingAppended
  <2>8. s \notin HasRows => table'[j] = table[j]
    BY <2>5, <2>6, FetchedRowsSeq, AppendAtTable
  <2>9. FailedIsEmpty(j)'
    BY <1>1, <1>2, <1>4, <2>1, <2>2, <2>4, <2>7, <2>8 DEF FailedIsEmpty
  <2>10. v = n \/ v = f
    OBVIOUS
  <2>11. Becomes(j, g, v)
    OBVIOUS
  <2>12. worker'[j][g] = v
    BY <1>3, <2>11, BecomesEffect
  <2>13. CASE v = n
    <3>1. OwnerOK(j, worker[j][g])'
      BY <1>1, <1>4, <2>2, <2>4, <2>12, <2>13, NextSymbolOK
    <3> QED
      BY <1>1, <1>4, <2>1, <2>2, <2>3, <2>6, <2>9, <2>11, <3>1, OwnerStep DEF Owns
  <2>14. CASE v = f
    <3>1. f.pc = "fail" /\ f.at = s /\ f.done = worker[j][g].done
      BY <1>2 DEF WorkerState
    <3>2. s \in Nat /\ 1 .. s = 1 .. s - 1 \cup {s}
      BY <1>1, <1>2, <1>4 DEF OwnerOK
    <3>3. OwnerOK(j, worker[j][g])'
      BY <1>1, <1>2, <1>4, <2>2, <2>4, <2>12, <2>14, <3>1, <3>2 DEF OwnerOK
    <3> QED
      BY <1>1, <1>4, <2>1, <2>2, <2>3, <2>6, <2>9, <2>11, <3>3, OwnerStep DEF Owns
  <2> QED
    BY <2>10, <2>13, <2>14
<1>5. CASE ~Owns(j, g)
  <2>1. Becomes(j, g, n) /\ UNCHANGED <<up, mem, rows, disk, table>>
    BY <1>1, <1>5 DEF RecordSuccess
  <2> QED
    BY <1>1, <1>5, <2>1, LocalStep
<1> QED
  BY <1>4, <1>5

\* When the process dies only the tables remain.
LEMMA DeathStep ==
    ASSUME IInv, TypeOK', ProcessDies, disk' = disk,
           \A k \in Jobs : disk[k].status = "failed" => table'[k] = table[k]
    PROVE  IInv'
<1>1. \A k \in Jobs : /\ mem'[k] = NoJob /\ rows'[k] = << >>
                      /\ \A g \in Generations : worker'[k][g].pc = "off"
  BY DEF ProcessDies, NoWorker
<1>2. NoJob.status = "none" /\ NoJob.gen = 0 /\ NoJob.cancel = FALSE
      /\ NoJob.completed = {} /\ NoJob.failed = {}
  BY DEF NoJob
<1>3. ASSUME NEW k \in Jobs PROVE JobInv(k)'
  <2>1. StateOK(k, mem[k])' /\ StateOK(k, disk[k])'
    BY <1>1, <1>2 DEF IInv, JobInv, StateOK, Finished
  <2>2. FailedIsEmpty(k)'
    BY <1>1, <1>2 DEF IInv, JobInv, FailedIsEmpty, ProcessDies
  <2> QED
    BY <1>1, <2>1, <2>2 DEF JobInv, WorkerOK
<1>4. ActiveJobs' \subseteq ActiveJobs
  BY <1>1, <1>2 DEF ActiveJobs, Active
<1> QED
  BY <1>3, <1>4, NoNewActiveJob DEF IInv

LEMMA CrashStep ==
    ASSUME IInv, TypeOK', Crash
    PROVE  IInv'
BY DeathStep DEF Crash

LEMMA TornCrashStep ==
    ASSUME IInv, TypeOK', NEW j \in Jobs, NEW g \in Generations, TornCrash(j, g)
    PROVE  IInv'
<1>1. disk[j].status # "failed"
  BY OwnerFacts DEF TornCrash
<1>2. table = [k \in Jobs |-> table[k]]
  BY DEF IInv, TypeOK
<1>3. \A k \in Jobs \ {j} : table'[k] = table[k]
  BY <1>2 DEF TornCrash
<1> QED
  BY <1>1, <1>3, DeathStep DEF TornCrash

LEMMA RestartStep ==
    ASSUME IInv, TypeOK', Restart
    PROVE  IInv'
<1>1. ~up /\ up' /\ UNCHANGED <<table, worker>>
  BY DEF Restart
<1>2. \A k \in Jobs : /\ mem'[k] = Interrupted(disk[k])
                      /\ disk'[k] = Interrupted(disk[k])
                      /\ rows'[k] = LoadRows(table[k])
  BY DEF Restart
<1>3. ASSUME NEW k \in Jobs
      PROVE  /\ JobInv(k)'
             /\ mem'[k].status \notin Active
  <2> PICK st : st = Interrupted(disk[k])
    OBVIOUS
  <2>1. disk[k] \in JobState /\ StateOK(k, disk[k]) /\ IsTable(table[k])
        /\ FailedIsEmpty(k)
    BY DEF IInv, TypeOK, JobInv
  <2>2. /\ st.gen = disk[k].gen /\ st.cancel = disk[k].cancel
        /\ st.completed = disk[k].completed /\ st.failed = disk[k].failed
        /\ st.current = disk[k].current
        /\ disk[k].status \in Active => st.status = "interrupted"
        /\ disk[k].status \notin Active => st.status = disk[k].status
    BY <2>1 DEF Interrupted, JobState
  <2>3. StateOK(k, st) /\ st.status \notin Active
    BY <2>1, <2>2 DEF StateOK, Finished, Active
  <2>4. mem'[k] = st /\ disk'[k] = st
    BY <1>2
  <2>5. StateOK(k, mem[k])' /\ StateOK(k, disk[k])'
    BY <2>3, <2>4 DEF StateOK
  <2>6. rows'[k] = << >> <=> DOMAIN table[k] = {}
    BY <1>2, <2>1, LoadRowsType
  <2>7. FailedIsEmpty(k)'
    BY <1>1, <2>1, <2>2, <2>4, <2>6 DEF FailedIsEmpty
  <2>8. \A g \in Generations : worker'[k][g].pc = "off"
    BY <1>1 DEF IInv, JobInv, WorkerOK
  <2> QED
    BY <2>3, <2>4, <2>5, <2>7, <2>8 DEF JobInv, WorkerOK
<1>4. ActiveJobs' \subseteq ActiveJobs
  BY <1>3 DEF ActiveJobs
<1> QED
  BY <1>3, <1>4, NoNewActiveJob DEF IInv

LEMMA InvInit == ASSUME Init PROVE IInv
<1>1. TypeOK
  BY TypeInit
<1>2. \A k \in Jobs : /\ mem[k] = NoJob /\ disk[k] = NoJob /\ rows[k] = << >>
                      /\ table[k] = << >>
                      /\ \A g \in Generations : worker[k][g].pc = "off"
  BY DEF Init, NoWorker
<1>3. NoJob.status = "none" /\ NoJob.gen = 0 /\ NoJob.cancel = FALSE
      /\ NoJob.completed = {} /\ NoJob.failed = {}
  BY DEF NoJob
<1>4. ActiveJobs = {}
  BY <1>2, <1>3 DEF ActiveJobs, Active
<1>5. ActiveJobsBounded
  BY <1>4, FS_EmptySet, JobConstants DEF ActiveJobsBounded
<1>6. ASSUME NEW k \in Jobs PROVE JobInv(k)
  <2>1. StateOK(k, mem[k]) /\ StateOK(k, disk[k])
    BY <1>2, <1>3 DEF StateOK, Finished
  <2>2. FailedIsEmpty(k)
    BY <1>2, <1>3 DEF FailedIsEmpty, Init
  <2> QED
    BY <1>2, <2>1, <2>2 DEF JobInv, WorkerOK
<1> QED
  BY <1>1, <1>5, <1>6 DEF IInv

\* Every operation, thread step and fault preserves the invariant.
LEMMA InvStep == ASSUME IInv, [Next]_vars PROVE IInv'
<1>1. TypeOK'
  BY TypeStep DEF IInv
<1>2. CASE UNCHANGED vars
  BY <1>1, <1>2 DEF vars, IInv, ActiveJobsBounded, ActiveJobs, JobInv, StateOK,
                    FailedIsEmpty, WorkerOK, OwnerOK
<1>3. CASE Next
  BY <1>1, <1>3, CreateJobStep, RetryJobStep, CancelJobStep, MarkRunningStep,
     TakeSnapshotStep, SkipCompletedStep, CheckCancelStep, MarkCurrentStep,
     RecordSuccessStep, RecordFailureStep, FinishStep, CrashStep, TornCrashStep,
     RestartStep DEF Next, WorkerStep
<1> QED
  BY <1>2, <1>3

\* The inductive invariant holds under every combination of faults.
THEOREM Invariance == Spec => []IInv
BY InvInit, InvStep, PTL DEF Spec

\* The queue limit is respected whatever the interleaving of clients, workers,
\* crashes and restarts, and however often SQLite fails.
THEOREM QueueLimit == Spec => []ActiveJobsBounded
<1>1. IInv => ActiveJobsBounded
  BY DEF IInv
<1> QED
  BY <1>1, Invariance, PTL

\* The status of a run that ended by itself is honest, under the same faults.
THEOREM HonestOutcome == Spec => []OutcomeIsHonest
<1>1. IInv => OutcomeIsHonest
  BY DEF IInv, JobInv, StateOK, FailedIsEmpty, OutcomeIsHonest
<1> QED
  BY <1>1, Invariance, PTL

----------------------------------------------------------------------------
(* Workers advance *)

\* Where a worker can be in the request's tuple, whatever run it belongs to.
Placed(j, w) ==
    /\ w.pc = "loop" => w.at \in 1 .. SymbolCount[j] + 1
    /\ w.pc \in {"mark", "fetch", "fail"} => w.at \in 1 .. SymbolCount[j]

AllPlaced == \A j \in Jobs, g \in Generations : Placed(j, worker[j][g])

\* What a worker may become: it is placed and nearer to its exit.
Nearer(j, w, old) ==
    /\ Placed(j, w)
    /\ StepsToExit(j, w) < StepsToExit(j, old)

\* The count at each point of the thread.
LEMMA StepsToExitIs ==
    ASSUME NEW j, NEW w
    PROVE  /\ w.pc = "off"   => StepsToExit(j, w) = 0
           /\ w.pc = "fail"  => StepsToExit(j, w) = 4 * (SymbolCount[j] - w.at) + 2
           /\ w.pc = "fetch" => StepsToExit(j, w) = 4 * (SymbolCount[j] - w.at) + 3
           /\ w.pc = "mark"  => StepsToExit(j, w) = 4 * (SymbolCount[j] - w.at) + 4
           /\ w.pc = "loop"  => StepsToExit(j, w) = 4 * (SymbolCount[j] - w.at) + 5
           /\ w.pc = "snap"  => StepsToExit(j, w) = 4 * SymbolCount[j] + 2
           /\ w.pc = "start" => StepsToExit(j, w) = 4 * SymbolCount[j] + 3
BY DEF StepsToExit

LEMMA NoWorkerIsPlaced == ASSUME NEW j PROVE Placed(j, NoWorker)
BY DEF Placed, NoWorker

\* A thread can end at any point.
LEMMA MayExit ==
    ASSUME NEW j \in Jobs, NEW w \in WorkerState, Placed(j, w), w.pc # "off"
    PROVE  Nearer(j, NoWorker, w)
<1>1. SymbolCount[j] \in Nat
  BY JobConstants
<1>2. w.at \in Nat /\ w.pc \in {"start", "snap", "loop", "mark", "fetch", "fail"}
  BY DEF WorkerState
<1>3. StepsToExit(j, NoWorker) = 0
  BY StepsToExitIs DEF NoWorker
<1>4. StepsToExit(j, w) > 0
  <2>1. CASE w.pc \in {"start", "snap"}
    BY <1>1, <2>1, StepsToExitIs
  <2>2. CASE w.pc = "loop"
    <3>1. w.at <= SymbolCount[j] + 1
      BY <1>1, <2>2 DEF Placed
    <3> QED
      BY <1>1, <1>2, <2>2, <3>1, StepsToExitIs
  <2>3. CASE w.pc \in {"mark", "fetch", "fail"}
    <3>1. w.at <= SymbolCount[j]
      BY <1>1, <2>3 DEF Placed
    <3> QED
      BY <1>1, <1>2, <2>3, <3>1, StepsToExitIs
  <2> QED
    BY <1>2, <2>1, <2>2, <2>3
<1>5. StepsToExit(j, w) \in Int
  BY <1>1, <1>2, StepsToExitIs
<1> QED
  BY <1>3, <1>4, <1>5, NoWorkerIsPlaced DEF Nearer

\* The moves of a thread from one point to the next one.
LEMMA MovesOn ==
    ASSUME NEW j \in Jobs, NEW w \in WorkerState, Placed(j, w)
    PROVE  /\ w.pc = "start" => Nearer(j, [w EXCEPT !.pc = "snap"], w)
           /\ w.pc = "snap"  => \A d : Nearer(j, [pc |-> "loop", at |-> 1, done |-> d], w)
           /\ w.pc = "loop" /\ w.at <= SymbolCount[j] =>
                 /\ Nearer(j, [w EXCEPT !.at = @ + 1], w)
                 /\ Nearer(j, [w EXCEPT !.pc = "mark"], w)
           /\ w.pc = "mark"  => Nearer(j, [w EXCEPT !.pc = "fetch"], w)
           /\ w.pc = "fetch" => Nearer(j, [w EXCEPT !.pc = "fail"], w)
           /\ w.pc \in {"fetch", "fail"} => Nearer(j, NextSymbol(w), w)
<1>1. SymbolCount[j] \in Nat \ {0} /\ w.at \in Nat
  BY JobConstants DEF WorkerState
<1>2. \A pc \in {"snap", "mark", "fetch", "fail"} :
         [w EXCEPT !.pc = pc].pc = pc /\ [w EXCEPT !.pc = pc].at = w.at
  BY DEF WorkerState
<1>3. w.pc \in {"mark", "fetch", "fail"} => 1 <= w.at /\ w.at <= SymbolCount[j]
  BY <1>1 DEF Placed
<1>4. w.pc = "loop" => 1 <= w.at /\ w.at <= SymbolCount[j] + 1
  BY <1>1 DEF Placed
<1>5. ASSUME w.pc = "start" PROVE Nearer(j, [w EXCEPT !.pc = "snap"], w)
  <2> DEFINE v == [w EXCEPT !.pc = "snap"]
  <2>1. v.pc = "snap"
    BY <1>2
  <2> HIDE DEF v
  <2>4. Nearer(j, v, w)
    BY <1>1, <1>5, <2>1, StepsToExitIs DEF Nearer, Placed
  <2> QED
    BY <2>4 DEF v
<1>6. ASSUME w.pc = "snap", NEW d
      PROVE  Nearer(j, [pc |-> "loop", at |-> 1, done |-> d], w)
  <2> DEFINE v == [pc |-> "loop", at |-> 1, done |-> d]
  <2>1. v.pc = "loop" /\ v.at = 1
    OBVIOUS
  <2> HIDE DEF v
  <2>2. StepsToExit(j, v) = 4 * (SymbolCount[j] - 1) + 5
    BY <2>1, StepsToExitIs
  <2>3. StepsToExit(j, w) = 4 * SymbolCount[j] + 2
    BY <1>6, StepsToExitIs
  <2>4. Nearer(j, v, w)
    BY <1>1, <2>1, <2>2, <2>3 DEF Nearer, Placed
  <2> QED
    BY <2>4 DEF v
<1>7. ASSUME w.pc = "loop", w.at <= SymbolCount[j]
      PROVE  /\ Nearer(j, [w EXCEPT !.at = @ + 1], w)
             /\ Nearer(j, [w EXCEPT !.pc = "mark"], w)
  <2> DEFINE u == [w EXCEPT !.at = @ + 1]
             v == [w EXCEPT !.pc = "mark"]
  <2>1. u.pc = "loop" /\ u.at = w.at + 1 /\ v.pc = "mark" /\ v.at = w.at
    BY <1>2, <1>7 DEF WorkerState
  <2> HIDE DEF u, v
  <2>2. /\ StepsToExit(j, u) = 4 * (SymbolCount[j] - (w.at + 1)) + 5
        /\ StepsToExit(j, v) = 4 * (SymbolCount[j] - w.at) + 4
        /\ StepsToExit(j, w) = 4 * (SymbolCount[j] - w.at) + 5
    BY <1>7, <2>1, StepsToExitIs
  <2>3. Placed(j, u) /\ Placed(j, v)
    BY <1>1, <1>4, <1>7, <2>1 DEF Placed
  <2>4. Nearer(j, u, w) /\ Nearer(j, v, w)
    BY <1>1, <2>2, <2>3 DEF Nearer
  <2> QED
    BY <2>4 DEF u, v
<1>8. ASSUME w.pc = "mark" PROVE Nearer(j, [w EXCEPT !.pc = "fetch"], w)
  <2> DEFINE v == [w EXCEPT !.pc = "fetch"]
  <2>1. v.pc = "fetch" /\ v.at = w.at
    BY <1>2
  <2> HIDE DEF v
  <2>2. /\ StepsToExit(j, v) = 4 * (SymbolCount[j] - w.at) + 3
        /\ StepsToExit(j, w) = 4 * (SymbolCount[j] - w.at) + 4
    BY <1>8, <2>1, StepsToExitIs
  <2>3. Placed(j, v)
    BY <1>1, <1>3, <1>8, <2>1 DEF Placed
  <2>4. Nearer(j, v, w)
    BY <1>1, <2>2, <2>3 DEF Nearer
  <2> QED
    BY <2>4 DEF v
<1>9. ASSUME w.pc = "fetch" PROVE Nearer(j, [w EXCEPT !.pc = "fail"], w)
  <2> DEFINE v == [w EXCEPT !.pc = "fail"]
  <2>1. v.pc = "fail" /\ v.at = w.at
    BY <1>2
  <2> HIDE DEF v
  <2>2. /\ StepsToExit(j, v) = 4 * (SymbolCount[j] - w.at) + 2
        /\ StepsToExit(j, w) = 4 * (SymbolCount[j] - w.at) + 3
    BY <1>9, <2>1, StepsToExitIs
  <2>3. Placed(j, v)
    BY <1>1, <1>3, <1>9, <2>1 DEF Placed
  <2>4. Nearer(j, v, w)
    BY <1>1, <2>2, <2>3 DEF Nearer
  <2> QED
    BY <2>4 DEF v
<1>10. ASSUME w.pc \in {"fetch", "fail"} PROVE Nearer(j, NextSymbol(w), w)
  <2>1. NextSymbol(w).pc = "loop" /\ NextSymbol(w).at = w.at + 1
    BY DEF NextSymbol, WorkerState
  <2>2. StepsToExit(j, NextSymbol(w)) = 4 * (SymbolCount[j] - (w.at + 1)) + 5
    BY <2>1, StepsToExitIs
  <2>3. StepsToExit(j, w) \in {4 * (SymbolCount[j] - w.at) + 2, 4 * (SymbolCount[j] - w.at) + 3}
    BY <1>10, StepsToExitIs
  <2>4. Placed(j, NextSymbol(w))
    BY <1>1, <1>3, <1>10, <2>1 DEF Placed
  <2> QED
    BY <1>1, <2>2, <2>3, <2>4 DEF Nearer
<1> QED
  BY <1>5, <1>6, <1>7, <1>8, <1>9, <1>10

\* Every step of a worker brings it nearer to its exit, one of a superseded
\* run included, and moves no other.
LEMMA WorkerAdvances ==
    ASSUME NEW j \in Jobs, NEW g \in Generations, worker[j][g] \in WorkerState,
           Placed(j, worker[j][g]), WorkerStep(j, g)
    PROVE  \E w : Becomes(j, g, w) /\ Nearer(j, w, worker[j][g])
<1> DEFINE old == worker[j][g]
<1>1. old.pc # "off" => Nearer(j, NoWorker, old)
  BY MayExit
<1>2. CASE MarkRunning(j, g)
  <2>1. old.pc = "start" /\ (Becomes(j, g, NoWorker) \/ Becomes(j, g, [old EXCEPT !.pc = "snap"]))
    BY <1>2 DEF MarkRunning
  <2> QED
    BY <1>1, <2>1, MovesOn
<1>3. CASE TakeSnapshot(j, g)
  BY <1>3, MovesOn DEF TakeSnapshot
<1>4. CASE SkipCompleted(j, g)
  BY <1>4, MovesOn DEF SkipCompleted
<1>5. CASE CheckCancel(j, g)
  <2>1. /\ old.pc = "loop" /\ old.at <= SymbolCount[j]
        /\ Becomes(j, g, NoWorker) \/ Becomes(j, g, [old EXCEPT !.pc = "mark"])
    BY <1>5 DEF CheckCancel
  <2> QED
    BY <1>1, <2>1, MovesOn
<1>6. CASE MarkCurrent(j, g)
  <2>1. old.pc = "mark" /\ (Becomes(j, g, NoWorker) \/ Becomes(j, g, [old EXCEPT !.pc = "fetch"]))
    BY <1>6 DEF MarkCurrent
  <2> QED
    BY <1>1, <2>1, MovesOn
<1>7. CASE RecordSuccess(j, g)
  <2>1. old.pc = "fetch" /\ (Becomes(j, g, NextSymbol(old)) \/ Becomes(j, g, [old EXCEPT !.pc = "fail"]))
    BY <1>7 DEF RecordSuccess
  <2> QED
    BY <2>1, MovesOn
<1>8. CASE RecordFailure(j, g)
  <2>1. old.pc \in {"fetch", "fail"} /\ (Becomes(j, g, NextSymbol(old)) \/ Becomes(j, g, NoWorker))
    BY <1>8 DEF RecordFailure
  <2> QED
    BY <1>1, <2>1, MovesOn
<1>9. CASE Finish(j, g)
  <2>1. old.pc = "loop" /\ Becomes(j, g, NoWorker)
    BY <1>9 DEF Finish
  <2> QED
    BY <1>1, <2>1
<1> QED
  BY <1>2, <1>3, <1>4, <1>5, <1>6, <1>7, <1>8, <1>9 DEF WorkerStep

\* A run is launched where no thread is: the live ones are of earlier runs.
LEMMA LaunchIsFree ==
    ASSUME IInv, NEW j \in Jobs, NEW st, Launch(j, st),
           st.gen \in Generations, st.gen > mem[j].gen
    PROVE  /\ worker[j][st.gen].pc = "off"
           /\ \/ worker' = worker
              \/ \E w : Becomes(j, st.gen, w) /\ Placed(j, w)
<1>1. mem[j].gen \in Nat /\ st.gen \in Nat
  BY DEF IInv, TypeOK, JobState, Generations
<1>2. ~(st.gen <= mem[j].gen)
  BY <1>1
<1>3. worker[j][st.gen].pc = "off"
  BY <1>2 DEF IInv, JobInv, WorkerOK
<1>4. Placed(j, [NoWorker EXCEPT !.pc = "start"])
  BY DEF Placed, NoWorker
<1> QED
  BY <1>3, <1>4 DEF Launch

\* What a step does to one worker: nothing, or it starts or ends it, or it is
\* that worker's own.
LEMMA WorkerOfStep ==
    ASSUME IInv, AllPlaced, [Next]_vars, NEW k \in Jobs, NEW h \in Generations
    PROVE  \/ worker'[k][h] = worker[k][h]
           \/ worker'[k][h] = NoWorker
           \/ worker[k][h].pc = "off" /\ Placed(k, worker'[k][h])
           \/ Nearer(k, worker'[k][h], worker[k][h])
<1>1. TypeOK
  BY DEF IInv
<1>2. CASE UNCHANGED vars
  BY <1>2 DEF vars
<1>3. ASSUME NEW j \in Jobs, NEW g \in Generations, NEW w, Becomes(j, g, w)
      PROVE  worker'[k][h] = IF k = j /\ h = g THEN w ELSE worker[k][h]
  BY <1>1, <1>3, BecomesEffect
<1>4. ASSUME NEW j \in Jobs, CreateJob(j) \/ RetryJob(j)
      PROVE  \/ worker'[k][h] = worker[k][h]
             \/ worker[k][h].pc = "off" /\ Placed(k, worker'[k][h])
  <2>1. mem[j] \in JobState /\ StateOK(j, mem[j])
    BY DEF IInv, TypeOK, JobInv
  <2>2. PICK st : Launch(j, st) /\ st.gen \in Generations /\ st.gen > mem[j].gen
    <3>1. CASE CreateJob(j)
      <4> DEFINE st == [NoJob EXCEPT !.status = "accepted", !.gen = 1]
      <4>1. st.gen = 1 /\ 1 \in Generations
        BY JobConstants DEF NoJob, Generations
      <4>2. mem[j].gen = 0
        BY <2>1, <3>1 DEF CreateJob, StateOK
      <4>3. Launch(j, st)
        BY <3>1 DEF CreateJob
      <4> HIDE DEF st
      <4> QED
        BY <4>1, <4>2, <4>3
    <3>2. CASE RetryJob(j)
      <4> DEFINE st == RetriedState(mem[j])
      <4>1. st.gen = mem[j].gen + 1
        BY <2>1 DEF RetriedState, JobState
      <4>2. mem[j].gen \in Nat /\ mem[j].gen < MaxGeneration
        BY <2>1, <3>2 DEF RetryJob, JobState
      <4>3. st.gen \in Generations /\ st.gen > mem[j].gen
        BY <4>1, <4>2, JobConstants DEF Generations
      <4> QED
        BY <3>2, <4>3 DEF RetryJob
    <3> QED
      BY <1>4, <3>1, <3>2
  <2>3. /\ worker[j][st.gen].pc = "off"
        /\ \/ worker' = worker
           \/ \E w : Becomes(j, st.gen, w) /\ Placed(j, w)
    BY <2>2, LaunchIsFree
  <2> QED
    BY <1>3, <2>2, <2>3
<1>5. ASSUME NEW j \in Jobs, CancelJob(j) PROVE worker'[k][h] = worker[k][h]
  BY <1>5 DEF CancelJob
<1>6. ASSUME NEW j \in Jobs, NEW g \in Generations, WorkerStep(j, g)
      PROVE  \/ worker'[k][h] = worker[k][h]
             \/ Nearer(k, worker'[k][h], worker[k][h])
  <2>1. worker[j][g] \in WorkerState /\ Placed(j, worker[j][g])
    BY <1>1 DEF TypeOK, AllPlaced
  <2>2. PICK w : Becomes(j, g, w) /\ Nearer(j, w, worker[j][g])
    BY <1>6, <2>1, WorkerAdvances
  <2> QED
    BY <1>3, <2>2
<1>7. ASSUME Crash \/ \E j \in Jobs, g \in Generations : TornCrash(j, g)
      PROVE  worker'[k][h] = NoWorker
  BY <1>7 DEF Crash, TornCrash, ProcessDies
<1>8. CASE Restart
  BY <1>8 DEF Restart
<1> QED
  BY <1>2, <1>4, <1>5, <1>6, <1>7, <1>8 DEF Next

\* A thread does not go round in circles, with every fault: each of its steps
\* leaves it fewer to take, and no thread is replaced by another's run.
THEOREM WorkersGoForward == Spec => WorkersAdvance
<1>1. Init => AllPlaced
  BY NoWorkerIsPlaced DEF Init, AllPlaced
<1>2. IInv /\ AllPlaced /\ [Next]_vars => AllPlaced'
  <2> SUFFICES ASSUME IInv, AllPlaced, [Next]_vars, NEW k \in Jobs, NEW h \in Generations
               PROVE  Placed(k, worker'[k][h])
    BY DEF AllPlaced, Placed
  <2> QED
    BY WorkerOfStep, NoWorkerIsPlaced DEF AllPlaced, Nearer
<1> DEFINE Forward ==
             \A j \in Jobs, g \in Generations : worker[j][g].pc # "off" =>
                \/ worker'[j][g] = worker[j][g]
                \/ StepsToExit(j, worker'[j][g]) < StepsToExit(j, worker[j][g])
<1>3. IInv /\ AllPlaced /\ [Next]_vars => Forward
  <2> SUFFICES ASSUME IInv, AllPlaced, [Next]_vars, NEW k \in Jobs, NEW h \in Generations,
                      worker[k][h].pc # "off"
               PROVE  \/ worker'[k][h] = worker[k][h]
                      \/ StepsToExit(k, worker'[k][h]) < StepsToExit(k, worker[k][h])
    OBVIOUS
  <2>1. worker[k][h] \in WorkerState /\ Placed(k, worker[k][h])
    BY DEF IInv, TypeOK, AllPlaced
  <2>2. Nearer(k, NoWorker, worker[k][h])
    BY <2>1, MayExit
  <2> QED
    BY <2>2, WorkerOfStep DEF Nearer
<1> QED
  BY <1>1, <1>2, <1>3, Invariance, PTL DEF Spec, WorkersAdvance

============================================================================
