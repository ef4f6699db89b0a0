------------------------------ MODULE Requests ------------------------------
(***************************************************************************)
(* What the services of the gateway have in common: the threads that serve *)
(* requests, the faults they meet, and the SQLite transactions of          *)
(* `with self._lock, self._connection`.                                    *)
(***************************************************************************)
EXTENDS Naturals, FiniteSets

CONSTANTS
    Clients,  \* threads that serve requests
    Faults    \* of "provider" (a provider call fails, times out or is empty),
              \* "deadline" (a request's deadline passes) and "store" (a
              \* transaction raises)

ASSUME RequestConstants ==
    /\ IsFiniteSet(Clients)
    /\ Faults \subseteq {"provider", "deadline", "store"}

\* A transaction commits as a whole, or raises and is rolled back.
Commits == IF "store" \in Faults THEN BOOLEAN ELSE {TRUE}
=============================================================================
