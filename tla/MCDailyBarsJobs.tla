-------------------------- MODULE MCDailyBarsJobs --------------------------
(* Instances of DailyBarsJobs for TLC, and the mapping to JobLifecycle. *)
EXTENDS DailyBarsJobs, TLC

\* Each job asks for one symbol, or for two.
OneSymbol    == [j \in Jobs |-> 1]
TwoSymbols   == [j \in Jobs |-> 2]

JobSymmetry == Permutations(Jobs)

Phase(status) ==
    CASE status = "none"        -> "new"
      [] status \in Active      -> "queued"
      [] status \in Retryable   -> "resumable"
      [] status \in Finished    -> "done"

Abstract ==
    INSTANCE JobLifecycle WITH
        phase  <- [j \in Jobs |-> Phase(View(j).status)],
        got    <- [j \in Jobs |-> View(j).completed],
        missed <- [j \in Jobs |-> View(j).failed]

\* The job manager, threads, generations, saves and restarts included,
\* behaves for its clients like JobLifecycle.
ImplementsLifecycle == Abstract!Lifecycle
============================================================================
