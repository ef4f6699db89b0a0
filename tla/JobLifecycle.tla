---------------------------- MODULE JobLifecycle ----------------------------
(***************************************************************************)
(* What the job manager promises its clients, without threads, run         *)
(* generations, memory or database: a job is submitted into a queue with a *)
(* limit, gathers results, and leaves the queue either for good or in a    *)
(* state from which the same request resumes it.  Results are never lost,  *)
(* a job that is done stays as it is, and a done job has a result for each *)
(* of its symbols.                                                         *)
(***************************************************************************)
EXTENDS Integers, FiniteSets

CONSTANTS Jobs, SymbolCount, MaxActiveJobs

VARIABLES
    phase,   \* "new", "queued", "resumable" or "done"
    got,     \* symbols with a result
    missed   \* symbols that failed in the present run

avars == <<phase, got, missed>>

Queued == {j \in Jobs : phase[j] = "queued"}
Wanted(j) == 1 .. SymbolCount[j]

AInit ==
    /\ phase  = [j \in Jobs |-> "new"]
    /\ got    = [j \in Jobs |-> {}]
    /\ missed = [j \in Jobs |-> {}]

Submit(j) ==
    /\ phase[j] \in {"new", "resumable"}
    /\ Cardinality(Queued) < MaxActiveJobs
    /\ phase'  = [phase EXCEPT ![j] = "queued"]
    /\ missed' = [missed EXCEPT ![j] = {}]
    /\ UNCHANGED got

\* A result may still arrive after a cancellation, never after the end.
Gain(j, s) ==
    /\ phase[j] \in {"queued", "resumable"}
    /\ s \in Wanted(j) \ (got[j] \cup missed[j])
    /\ got' = [got EXCEPT ![j] = @ \cup {s}]
    /\ UNCHANGED <<phase, missed>>

Miss(j, s) ==
    /\ phase[j] \in {"queued", "resumable"}
    /\ s \in Wanted(j) \ (got[j] \cup missed[j])
    /\ missed' = [missed EXCEPT ![j] = @ \cup {s}]
    /\ UNCHANGED <<phase, got>>

Complete(j) ==
    /\ phase[j] = "queued"
    /\ got[j] \cup missed[j] = Wanted(j)
    /\ phase' = [phase EXCEPT ![j] = "done"]
    /\ UNCHANGED <<got, missed>>

Withdraw(j) ==
    /\ phase[j] = "queued"
    /\ phase' = [phase EXCEPT ![j] = "resumable"]
    /\ UNCHANGED <<got, missed>>

\* A crash takes every queued job out of the queue at once.
WithdrawAll ==
    /\ phase' = [j \in Jobs |-> IF phase[j] = "queued" THEN "resumable" ELSE phase[j]]
    /\ UNCHANGED <<got, missed>>

ANext ==
    \/ \E j \in Jobs : Submit(j) \/ Complete(j) \/ Withdraw(j)
    \/ \E j \in Jobs : \E s \in Wanted(j) : Gain(j, s) \/ Miss(j, s)
    \/ WithdrawAll

\* A queued job does not stay queued for ever.
Lifecycle ==
    /\ AInit
    /\ [][ANext]_avars
    /\ \A j \in Jobs : WF_avars(Complete(j) \/ Withdraw(j))

============================================================================
