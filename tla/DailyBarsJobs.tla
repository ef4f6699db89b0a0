--------------------------- MODULE DailyBarsJobs ---------------------------
(***************************************************************************)
(* The asynchronous job manager of jobs/daily_bars.py: DailyBarsJobManager *)
(* and its SQLiteJobStore.                                                 *)
(*                                                                         *)
(* A job is one semantic request.  HTTP threads submit, retry and cancel   *)
(* jobs; every accepted run has a daemon thread of its own, a worker,      *)
(* identified by the job and the run_generation it was started with.  Each *)
(* method of the manager that touches a job does so under one lock, so one *)
(* critical section is one action; between two of them, and during a       *)
(* provider fetch, other threads run.                                      *)
(*                                                                         *)
(* A symbol is its position in the request's tuple (the tuple is non-empty *)
(* and has no duplicates).  A row is represented by the symbol it is for.  *)
(*                                                                         *)
(* Faults the environment may commit:                                      *)
(*   "crash"  the process dies between two critical sections;              *)
(*   "torn"   the process dies inside _record_symbol_success, after the    *)
(*            transaction of append_rows and before the one of save_job;   *)
(*   "store"  a SQLite transaction raises (locked database, full disk).    *)
(***************************************************************************)
EXTENDS Integers, Sequences, FiniteSets

CONSTANTS
    Jobs,           \* semantic requests a client may submit
    SymbolCount,    \* how many symbols each of them asks for
    HasRows,        \* symbols for which the gateway returns rows
    MaxActiveJobs,  \* GATEWAY_JOB_QUEUE_LIMIT
    MaxGeneration,  \* bound: how often one job is run
    Faults          \* which of the faults above occur

ASSUME JobConstants ==
    /\ IsFiniteSet(Jobs)
    /\ SymbolCount \in [Jobs -> Nat \ {0}]
    /\ HasRows \subseteq Nat
    /\ MaxActiveJobs \in Nat
    /\ MaxGeneration \in Nat \ {0}
    /\ Faults \subseteq {"crash", "torn", "store"}

VARIABLES
    up,      \* the manager is constructed and serving
    mem,     \* _jobs_by_id: the job states in memory
    rows,    \* DailyBarsJob.rows, in memory
    disk,    \* table market_data_jobs
    table,   \* table market_data_job_rows: row_index -> row
    worker   \* the thread of each run of each job

vars == <<up, mem, rows, disk, table, worker>>

----------------------------------------------------------------------------
(* Job and worker states *)

Active    == {"accepted", "running"}
Finished  == {"completed", "completed_with_failures"}
Retryable == {"failed", "cancelled", "interrupted"}
Status    == {"none"} \cup Active \cup Finished \cup Retryable

Generations == 1 .. MaxGeneration
Symbols(j)  == 1 .. SymbolCount[j]

\* failures and failed_symbols grow and are cleared together: one set stands
\* for both.  counted is the sum of the three cache-progress counters.
JobState ==
    [status    : Status,
     gen       : 0 .. MaxGeneration,
     cancel    : BOOLEAN,
     completed : SUBSET Nat,
     failed    : SUBSET Nat,
     counted   : Nat,
     current   : Nat]

NoJob ==
    [status |-> "none", gen |-> 0, cancel |-> FALSE, completed |-> {},
     failed |-> {}, counted |-> 0, current |-> 0]

\* start: thread created; snap: about to copy the job; loop: at the head of
\* the loop body; mark: not told to stop; fetch: inside the gateway call;
\* fail: an exception is being turned into a recorded failure.
WorkerState ==
    [pc   : {"off", "start", "snap", "loop", "mark", "fetch", "fail"},
     at   : Nat,
     done : SUBSET Nat]

NoWorker == [pc |-> "off", at |-> 0, done |-> {}]

IsTable(tbl) ==
    /\ tbl = [i \in DOMAIN tbl |-> tbl[i]]
    /\ IsFiniteSet(DOMAIN tbl) /\ DOMAIN tbl \subseteq Nat \ {0}
    /\ \A i \in DOMAIN tbl : tbl[i] \in HasRows

TypeOK ==
    /\ up \in BOOLEAN
    /\ mem    \in [Jobs -> JobState]
    /\ rows   \in [Jobs -> Seq(HasRows)]
    /\ disk   \in [Jobs -> JobState]
    /\ table = [j \in Jobs |-> table[j]]
    /\ \A j \in Jobs : IsTable(table[j])
    /\ worker \in [Jobs -> [Generations -> WorkerState]]

Init ==
    /\ up = TRUE
    /\ mem    = [j \in Jobs |-> NoJob]
    /\ disk   = [j \in Jobs |-> NoJob]
    /\ rows   = [j \in Jobs |-> << >>]
    /\ table  = [j \in Jobs |-> << >>]
    /\ worker = [j \in Jobs |-> [g \in Generations |-> NoWorker]]

----------------------------------------------------------------------------
(* Helpers of the manager and of the store *)

ActiveJobs == {j \in Jobs : mem[j].status \in Active}

\* Mutant of QueueHasRoom: the limit is checked with > instead of >=.
QueueHasRoomInclusive == Cardinality(ActiveJobs) <= MaxActiveJobs

QueueHasRoom == Cardinality(ActiveJobs) < MaxActiveJobs

\* Mutant of Owns: a superseded run keeps writing.
OwnsAnyRun(j, g) == mem[j].gen >= g

\* The run a worker belongs to is still the job's current run.
Owns(j, g) == mem[j].gen = g

\* Mutant of MayAdvance: the test for "cancelled" is forgotten.
MayAdvanceIgnoringCancel(j, g) == Owns(j, g)

\* The guard shared by _mark_running, _mark_current_symbol and _finish.
MayAdvance(j, g) == Owns(j, g) /\ mem[j].status # "cancelled"

StopRequested(j, g) ==
    \/ ~Owns(j, g)
    \/ mem[j].status = "cancelled"
    \/ mem[j].cancel

\* Whether a transaction commits.
Commits == IF "store" \in Faults THEN BOOLEAN ELSE {TRUE}

\* save_job: the in-memory state becomes `state`; if the transaction raises
\* the memory keeps it and the table does not.
Save(j, state, commits) ==
    /\ mem'  = [mem EXCEPT ![j] = state]
    /\ disk' = IF commits THEN [disk EXCEPT ![j] = state] ELSE disk

FetchedRows(s) == IF s \in HasRows THEN <<s>> ELSE << >>

\* Mutant of AppendAt: the first of the new rows replaces the last old one.
AppendAtOffByOne(tbl, start, new) ==
    [i \in DOMAIN tbl \cup (start .. start + Len(new) - 1) |->
        IF i \in start .. start + Len(new) - 1 THEN new[i - start + 1] ELSE tbl[i]]

\* append_rows: INSERT OR REPLACE at the indices that follow the rows held in
\* memory, in one transaction.
AppendAt(tbl, start, new) ==
    [i \in DOMAIN tbl \cup (start + 1 .. start + Len(new)) |->
        IF i \in start + 1 .. start + Len(new) THEN new[i - start] ELSE tbl[i]]

\* load_rows: ORDER BY row_index.
LoadRows(tbl) ==
    LET Nth(n) == CHOOSE i \in DOMAIN tbl :
                      Cardinality({k \in DOMAIN tbl : k <= i}) = n
    IN  [n \in 1 .. Cardinality(DOMAIN tbl) |-> tbl[Nth(n)]]

\* Mutant of Interrupted: only jobs that were running are recovered.
InterruptedIfRunning(state) ==
    IF state.status = "running" THEN [state EXCEPT !.status = "interrupted"]
                                ELSE state

Interrupted(state) ==
    IF state.status \in Active THEN [state EXCEPT !.status = "interrupted"]
                               ELSE state

Becomes(j, g, w) == worker' = [worker EXCEPT ![j][g] = w]

----------------------------------------------------------------------------
(* Client calls *)

\* The job is in the dictionary before save_job, and the thread is started
\* only after it: if save_job raises the run has no worker.
Launch(j, state) ==
    \E commits \in Commits :
        /\ Save(j, state, commits)
        /\ IF commits
           THEN Becomes(j, state.gen, [NoWorker EXCEPT !.pc = "start"])
           ELSE UNCHANGED worker
        /\ UNCHANGED <<up, rows, table>>

\* create_job for an unknown semantic hash.  When the queue is full, or the
\* job exists and is not retryable, the call changes nothing.
CreateJob(j) ==
    /\ up
    /\ mem[j].status = "none"
    /\ QueueHasRoom
    /\ Launch(j, [NoJob EXCEPT !.status = "accepted", !.gen = 1])

\* Mutants of RetriedState: one forgets to reset a field, one resets too much.
RetriedStateKeepsCancel(state) ==
    [state EXCEPT !.status = "accepted", !.gen = @ + 1, !.failed = {}, !.current = 0]

RetriedStateKeepsFailures(state) ==
    [state EXCEPT !.status = "accepted", !.gen = @ + 1, !.cancel = FALSE, !.current = 0]

RetriedStateFromScratch(state) ==
    [NoJob EXCEPT !.status = "accepted", !.gen = state.gen + 1]

\* create_job for a job in a retryable state.
RetriedState(state) ==
    [state EXCEPT !.status  = "accepted",
                  !.gen     = @ + 1,
                  !.cancel  = FALSE,
                  !.failed  = {},
                  !.current = 0]

RetryJob(j) ==
    /\ up
    /\ mem[j].status \in Retryable
    /\ mem[j].gen < MaxGeneration
    /\ QueueHasRoom
    /\ Launch(j, RetriedState(mem[j]))

\* Mutant of CancelJob: the cancellation is not saved.
CancelJobUnsaved(j) ==
    /\ up
    /\ mem[j].status \in Active
    /\ mem' = [mem EXCEPT ![j].status = "cancelled", ![j].cancel = TRUE]
    /\ UNCHANGED <<up, rows, disk, table, worker>>

CancelJob(j) ==
    /\ up
    /\ mem[j].status \in Active
    /\ \E commits \in Commits :
          Save(j, [mem[j] EXCEPT !.status = "cancelled", !.cancel = TRUE], commits)
    /\ UNCHANGED <<up, rows, table, worker>>

----------------------------------------------------------------------------
(* The worker: _run_job *)

\* _mark_running.  An exception here, as in _mark_current_symbol,
\* _record_symbol_failure and _finish, ends the thread.
MarkRunning(j, g) ==
    /\ worker[j][g].pc = "start"
    /\ IF MayAdvance(j, g)
       THEN \E commits \in Commits :
              /\ Save(j, [mem[j] EXCEPT !.status = "running"], commits)
              /\ Becomes(j, g, IF commits THEN [worker[j][g] EXCEPT !.pc = "snap"]
                                          ELSE NoWorker)
       ELSE /\ Becomes(j, g, [worker[j][g] EXCEPT !.pc = "snap"])
            /\ UNCHANGED <<mem, disk>>
    /\ UNCHANGED <<up, rows, table>>

\* get_job: the worker's copy of completed_symbols, whatever generation the
\* job is in by now.
TakeSnapshot(j, g) ==
    /\ worker[j][g].pc = "snap"
    /\ Becomes(j, g, [pc |-> "loop", at |-> 1, done |-> mem[j].completed])
    /\ UNCHANGED <<up, mem, rows, disk, table>>

SkipCompleted(j, g) ==
    /\ worker[j][g].pc = "loop"
    /\ worker[j][g].at <= SymbolCount[j]
    /\ worker[j][g].at \in worker[j][g].done
    /\ Becomes(j, g, [worker[j][g] EXCEPT !.at = @ + 1])
    /\ UNCHANGED <<up, mem, rows, disk, table>>

CheckCancel(j, g) ==
    /\ worker[j][g].pc = "loop"
    /\ worker[j][g].at <= SymbolCount[j]
    /\ worker[j][g].at \notin worker[j][g].done
    /\ Becomes(j, g, IF StopRequested(j, g) THEN NoWorker
                                            ELSE [worker[j][g] EXCEPT !.pc = "mark"])
    /\ UNCHANGED <<up, mem, rows, disk, table>>

MarkCurrent(j, g) ==
    /\ worker[j][g].pc = "mark"
    /\ IF MayAdvance(j, g)
       THEN \E commits \in Commits :
              /\ Save(j, [mem[j] EXCEPT !.current = worker[j][g].at], commits)
              /\ Becomes(j, g, IF commits THEN [worker[j][g] EXCEPT !.pc = "fetch"]
                                          ELSE NoWorker)
       ELSE /\ Becomes(j, g, [worker[j][g] EXCEPT !.pc = "fetch"])
            /\ UNCHANGED <<mem, disk>>
    /\ UNCHANGED <<up, rows, table>>

\* Mutant of NextSymbol: the worker tries the same symbol again.
SameSymbol(w) == [w EXCEPT !.pc = "loop"]

NextSymbol(w) == [w EXCEPT !.pc = "loop", !.at = @ + 1]

SucceededState(state, s) ==
    [state EXCEPT !.completed = @ \cup {s},
                  !.counted   = IF s \in state.completed \cup state.failed
                                THEN @ ELSE @ + 1]

\* _record_symbol_success.  It asks for the generation only: a result that
\* arrives after a cancellation is recorded in the cancelled job.  The memory
\* is changed first; an exception of either transaction is then caught by
\* _run_job and recorded as a failure of the same symbol.
RecordSuccess(j, g) ==
    LET s == worker[j][g].at IN
    /\ worker[j][g].pc = "fetch"
    /\ IF Owns(j, g)
       THEN \E appends, commits \in Commits :
              /\ (s \notin HasRows => appends) /\ (commits => appends)
              /\ rows'  = [rows EXCEPT ![j] = @ \o FetchedRows(s)]
              /\ table' = IF appends
                          THEN [table EXCEPT ![j] =
                                  AppendAt(@, Len(rows[j]), FetchedRows(s))]
                          ELSE table
              /\ Save(j, SucceededState(mem[j], s), commits)
              /\ Becomes(j, g, IF commits THEN NextSymbol(worker[j][g])
                                 ELSE [worker[j][g] EXCEPT !.pc = "fail"])
       ELSE /\ Becomes(j, g, NextSymbol(worker[j][g]))
            /\ UNCHANGED <<mem, rows, disk, table>>
    /\ UNCHANGED up

\* _record_symbol_failure, for a gateway error (pc = "fetch") or for an
\* exception of _record_symbol_success (pc = "fail").
RecordFailure(j, g) ==
    LET s == worker[j][g].at IN
    /\ worker[j][g].pc \in {"fetch", "fail"}
    /\ IF Owns(j, g)
       THEN \E commits \in Commits :
              /\ Save(j, [mem[j] EXCEPT !.failed = @ \cup {s}], commits)
              /\ Becomes(j, g, IF commits THEN NextSymbol(worker[j][g]) ELSE NoWorker)
       ELSE /\ Becomes(j, g, NextSymbol(worker[j][g]))
            /\ UNCHANGED <<mem, disk>>
    /\ UNCHANGED <<up, rows, table>>

Outcome(j) ==
    IF mem[j].failed = {} THEN "completed"
    ELSE IF rows[j] = << >> THEN "failed" ELSE "completed_with_failures"

Finish(j, g) ==
    /\ worker[j][g].pc = "loop"
    /\ worker[j][g].at > SymbolCount[j]
    /\ IF MayAdvance(j, g)
       THEN \E commits \in Commits :
              Save(j, [mem[j] EXCEPT !.status = Outcome(j), !.current = 0], commits)
       ELSE UNCHANGED <<mem, disk>>
    /\ Becomes(j, g, NoWorker)
    /\ UNCHANGED <<up, rows, table>>

WorkerStep(j, g) ==
    \/ MarkRunning(j, g)
    \/ TakeSnapshot(j, g)
    \/ SkipCompleted(j, g)
    \/ CheckCancel(j, g)
    \/ MarkCurrent(j, g)
    \/ RecordSuccess(j, g)
    \/ RecordFailure(j, g)
    \/ Finish(j, g)

----------------------------------------------------------------------------
(* The process *)

ProcessDies ==
    /\ up' = FALSE
    /\ mem'    = [j \in Jobs |-> NoJob]
    /\ rows'   = [j \in Jobs |-> << >>]
    /\ worker' = [j \in Jobs |-> [g \in Generations |-> NoWorker]]

Crash ==
    /\ "crash" \in Faults
    /\ up
    /\ ProcessDies
    /\ UNCHANGED <<disk, table>>

\* Mutant of TornCrash: the job state is committed before the rows.
TornCrashStateFirst(j, g) ==
    /\ "torn" \in Faults
    /\ worker[j][g].pc = "fetch"
    /\ Owns(j, g)
    /\ disk' = [disk EXCEPT ![j] = SucceededState(mem[j], worker[j][g].at)]
    /\ ProcessDies
    /\ UNCHANGED table

TornCrash(j, g) ==
    /\ "torn" \in Faults
    /\ worker[j][g].pc = "fetch"
    /\ Owns(j, g)
    /\ table' = [table EXCEPT ![j] =
                   AppendAt(@, Len(rows[j]), FetchedRows(worker[j][g].at))]
    /\ ProcessDies
    /\ UNCHANGED disk

\* __init__ and _load_persisted_jobs of the next process.
Restart ==
    /\ ~up
    /\ up' = TRUE
    /\ mem'  = [j \in Jobs |-> Interrupted(disk[j])]
    /\ disk' = [j \in Jobs |-> Interrupted(disk[j])]
    /\ rows' = [j \in Jobs |-> LoadRows(table[j])]
    /\ UNCHANGED <<table, worker>>

Next ==
    \/ \E j \in Jobs : CreateJob(j) \/ RetryJob(j) \/ CancelJob(j)
    \/ \E j \in Jobs, g \in Generations : WorkerStep(j, g) \/ TornCrash(j, g)
    \/ Crash
    \/ Restart

\* A worker thread is scheduled until it ends (every gateway call returns or
\* raises), and a stopped gateway is started again by launchd.  Clients owe
\* nothing.
Fairness ==
    /\ \A j \in Jobs, g \in Generations : WF_vars(WorkerStep(j, g))
    /\ WF_vars(Restart)

Spec == Init /\ [][Next]_vars
FairSpec == Spec /\ Fairness

----------------------------------------------------------------------------
(* Properties *)

\* What a client sees of a job now or, while the gateway is down, will see
\* once it is back.
View(j)     == IF up THEN mem[j] ELSE Interrupted(disk[j])
RowsView(j) == IF up THEN rows[j] ELSE LoadRows(table[j])

\* However submissions, retries, cancellations, crashes and restarts are
\* interleaved, no more jobs are accepted or running than the queue limit
\* allows (create_job counts, but status is also written by _mark_running, by
\* late workers and by the reload).
ActiveJobsBounded == Cardinality(ActiveJobs) <= MaxActiveJobs

\* A job shown as accepted or running has a live thread of its current run,
\* so its queue slot is going to be released.
ActiveJobHasWorker ==
    up => \A j \in Jobs :
            mem[j].status \in Active => worker[j][mem[j].gen].pc # "off"

\* A run that ended by itself has dealt with every requested symbol; it is
\* called completed only if none failed and failed only if there are no rows
\* to read; and it names no current symbol.
OutcomeIsHonest ==
    \A j \in Jobs :
        /\ mem[j].status \in Finished \cup {"failed"} =>
              /\ mem[j].completed \cup mem[j].failed = Symbols(j)
              /\ mem[j].current = 0
        /\ mem[j].status = "completed" => mem[j].failed = {}
        /\ mem[j].status = "failed" => rows[j] = << >>

\* No symbol is reported both as completed and as failed, not even when its
\* failure of an earlier run is followed by a success of a later one.
OneResultPerSymbol ==
    \A j \in Jobs : mem[j].completed \cap mem[j].failed = {}

\* Rows of a symbol are never returned twice, although workers of several
\* runs of the job may be fetching the same symbol at the same time.
NoDuplicateRows ==
    \A j \in Jobs : \A m, n \in 1 .. Len(rows[j]) :
        rows[j][m] = rows[j][n] => m = n

\* A job whose saved state claims a symbol as completed has its rows in the
\* rows table: a restart never skips a symbol whose rows are lost.
CompletedRowsStored ==
    \A j \in Jobs :
        disk[j].completed \cap HasRows \subseteq {table[j][i] : i \in DOMAIN table[j]}

\* Whatever a client can read of a job has been committed: the process may die
\* at any moment without taking back a status, a result or a row.
SavedBeforeShown ==
    up => \A j \in Jobs : mem[j] = disk[j] /\ rows[j] = table[j]

\* Completed symbols are never forgotten and rows only appended to, over
\* cancellation, retry, crash and restart, so an offset handed to a paging
\* client stays valid.
ProgressKept ==
    [][\A j \in Jobs :
          /\ View(j).completed \subseteq View(j)'.completed
          /\ Len(RowsView(j)) <= Len(RowsView(j)')
          /\ SubSeq(RowsView(j)', 1, Len(RowsView(j))) = RowsView(j)]_vars

\* A completed job never changes again: no retry reopens it and no worker of
\* an earlier run, whose fetch returns late, writes into it.
FinishedIsFinal ==
    [][\A j \in Jobs : View(j).status \in Finished =>
          View(j)' = View(j) /\ RowsView(j)' = RowsView(j)]_vars

\* Only a retry takes a job out of "cancelled": a worker that is starting,
\* recording or finishing when the cancellation arrives does not overwrite it.
CancellationSticks ==
    [][\A j \in Jobs : View(j).status = "cancelled" =>
          \/ View(j)'.status = "cancelled"
          \/ View(j)'.status = "accepted" /\ View(j)'.gen = View(j).gen + 1]_vars

\* How many steps a worker can still take, at most: four for each symbol from
\* its position on.
StepsToExit(j, w) ==
    CASE w.pc = "off"   -> 0
      [] w.pc = "fail"  -> 4 * (SymbolCount[j] - w.at) + 2
      [] w.pc = "fetch" -> 4 * (SymbolCount[j] - w.at) + 3
      [] w.pc = "mark"  -> 4 * (SymbolCount[j] - w.at) + 4
      [] w.pc = "loop"  -> 4 * (SymbolCount[j] - w.at) + 5
      [] w.pc = "snap"  -> 4 * SymbolCount[j] + 2
      [] w.pc = "start" -> 4 * SymbolCount[j] + 3

\* Each step of a worker leaves it fewer to take, also when it has been
\* superseded or cannot store its result, and nobody else moves it except by
\* ending the process: a run is never given to a thread that still has another.
WorkersAdvance ==
    [][\A j \in Jobs, g \in Generations : worker[j][g].pc # "off" =>
          \/ worker'[j][g] = worker[j][g]
          \/ StepsToExit(j, worker'[j][g]) < StepsToExit(j, worker[j][g])]_vars

\* Every worker thread ends, those of cancelled and superseded runs included.
WorkersExit ==
    \A j \in Jobs, g \in Generations :
        worker[j][g].pc # "off" ~> worker[j][g].pc = "off"

----------------------------------------------------------------------------
(* The inductive invariant behind these properties *)

\* What holds of every job state, in memory as on disk.
StateOK(j, state) ==
    /\ state.completed \subseteq Symbols(j)
    /\ state.failed \subseteq Symbols(j)
    /\ state.gen = 0 <=> state.status = "none"
    /\ state.cancel <=> state.status = "cancelled"
    /\ state.status \in Finished \cup {"failed"} =>
          /\ state.completed \cup state.failed = Symbols(j)
          /\ state.current = 0
    /\ state.status = "completed" => state.failed = {}

\* What a worker of the current run knows about its job: where the status can
\* be, that the symbols before its position are dealt with, and that those
\* from its position on are completed exactly if its snapshot says so.
OwnerOK(j, w) ==
    /\ w.pc = "start" => mem[j].status \in {"accepted", "cancelled"}
    /\ w.pc # "start" => mem[j].status \in {"running", "cancelled"}
    /\ w.pc \in {"start", "snap"} => mem[j].failed = {}
    /\ w.pc \notin {"start", "snap"} =>
          /\ w.at \in 1 .. SymbolCount[j] + 1
          /\ w.done \subseteq mem[j].completed
          /\ 1 .. w.at - 1 \subseteq mem[j].completed \cup mem[j].failed
          /\ mem[j].failed \subseteq 1 .. w.at - 1
          /\ mem[j].completed \subseteq w.done \cup 1 .. w.at
          /\ w.pc # "fail" => mem[j].completed \subseteq w.done \cup 1 .. w.at - 1
    /\ w.pc \in {"mark", "fetch", "fail"} => w.at <= SymbolCount[j]
    /\ w.pc \in {"mark", "fetch"} => w.at \notin w.done

WorkerOK(j, g) ==
    worker[j][g].pc # "off" =>
        /\ up
        /\ g <= mem[j].gen
        /\ g = mem[j].gen =>
              /\ OwnerOK(j, worker[j][g])
              /\ disk[j].gen = g
              /\ disk[j].status \in {"accepted", "running", "cancelled"}

\* "failed" means that there is nothing to read.
FailedIsEmpty(j) ==
    /\ mem[j].status = "failed" => rows[j] = << >>
    /\ disk[j].status = "failed" => DOMAIN table[j] = {}
    /\ up /\ rows[j] = << >> => DOMAIN table[j] = {}
    /\ ~up => rows[j] = << >> /\ mem[j] = NoJob

JobInv(j) ==
    /\ StateOK(j, mem[j])
    /\ StateOK(j, disk[j])
    /\ FailedIsEmpty(j)
    /\ \A g \in Generations : WorkerOK(j, g)

IInv ==
    /\ TypeOK
    /\ ActiveJobsBounded
    /\ \A j \in Jobs : JobInv(j)

\* The further invariant that holds as long as no transaction raises: what is
\* in memory is on disk, a worker in the middle of nothing owes nothing, and
\* completed and failed symbols are apart.
CleanJob(j) ==
    /\ up => mem[j] = disk[j] /\ rows[j] = table[j]
    /\ table[j] \in Seq(HasRows)
    /\ disk[j].completed \cap disk[j].failed = {}
    /\ \A g \in Generations : worker[j][g].pc # "fail"

CleanInv == \A j \in Jobs : CleanJob(j)

============================================================================
