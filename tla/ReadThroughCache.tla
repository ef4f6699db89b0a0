-------------------------- MODULE ReadThroughCache --------------------------
(***************************************************************************)
(* The read-through cache of cache/service.py and cache/sqlite_store.py,   *)
(* with the administrator's clear_cache of cache/admin.py.                 *)
(*                                                                         *)
(* Several query services may share the SQLite database: the gateway's     *)
(* one, and those of other processes on the same MARKET_DATA_HOME.  Each   *)
(* serves several callers, one thread each.  A query asks for a set of     *)
(* coverage keys (dates), which it takes in ascending order; a query with  *)
(* comma-separated instruments is a sequence of queries.                   *)
(*                                                                         *)
(* A key is guarded twice: by a lock per service and key, and by a lease,  *)
(* a row of market_cache_fetch_leases which whoever wants to fetch inserts *)
(* and deletes.  Each method of the store is one SQLite transaction and    *)
(* one action.                                                             *)
(*                                                                         *)
(* A payload is the number of the provider answer it came from, so a       *)
(* larger payload is a later one; 0 stands for no entry.                   *)
(***************************************************************************)
EXTENDS Naturals, FiniteSets

CONSTANTS
    Callers,    \* threads that query
    Services,   \* ReadThroughQueryService instances
    Home,       \* the service each caller calls
    Keys,       \* coverage keys, a set of numbers
    Offline,    \* services with offline_mode
    MaxQueries, \* bound: how many queries are asked
    Faults      \* of "crash" (a process dies), "store" (a transaction
                \* raises), "clear" (an administrator clears the cache)

ASSUME CacheConstants ==
    /\ Home \in [Callers -> Services]
    /\ Keys \subseteq Nat
    /\ Offline \subseteq Services
    /\ MaxQueries \in Nat
    /\ Faults \subseteq {"crash", "store", "clear"}

VARIABLES
    entry,   \* the current entry of each key
    lease,   \* table market_cache_fetch_leases
    locked,  \* per service, the keys whose lock is held
    caller,  \* the state of each caller's query
    clock,   \* how many answers the providers have given
    asked    \* how many queries have been asked

vars == <<entry, lease, locked, caller, clock, asked>>

----------------------------------------------------------------------------
(* Queries *)

\* idle: no query; read: reading the existing records; next: at the head of
\* the loop; recheck .. release: in _fetch_and_store, holding the lock of the
\* key; refused: failed, and about to be answered so; done: answered.
Steps == {"idle", "read", "next", "recheck", "lease", "after", "fetch",
          "write", "release", "refused", "done"}

\* asOf and floor record, for the properties, the clock and the entries at the
\* time of the call; the rest are the locals of query and _fetch_and_store.
QueryState ==
    [pc       : Steps,
     need     : SUBSET Keys,      \* requirements
     force    : BOOLEAN,          \* force_refresh
     stale    : BOOLEAN,          \* allow_stale_on_error
     todo     : SUBSET Keys,      \* requirements still to be dealt with
     existing : [Keys -> Nat],    \* existing_records
     got      : [Keys -> Nat],    \* records
     fetched  : SUBSET Keys,      \* counted in fetched_count
     old      : SUBSET Keys,      \* counted in stale_count
     payload  : Nat,              \* the provider's answer
     outcome  : {"none", "stored", "failed", "invalid", "raised"},
     source   : {"none", "cache", "external", "external_refresh",
                 "partial_hit", "mixed", "stale_cache", "error"},
     asOf     : Nat,
     floor    : [Keys -> Nat]]

Nothing == [k \in Keys |-> 0]

Idle ==
    [pc |-> "idle", need |-> {}, force |-> FALSE, stale |-> FALSE, todo |-> {},
     existing |-> Nothing, got |-> Nothing, fetched |-> {}, old |-> {},
     payload |-> 0, outcome |-> "none", source |-> "none",
     asOf |-> 0, floor |-> Nothing]

TypeOK ==
    /\ entry  \in [Keys -> Nat]
    /\ lease  \in SUBSET Keys
    /\ locked \in [Services -> SUBSET Keys]
    /\ caller \in [Callers -> QueryState]
    /\ \A c \in Callers : caller[c].pc = "done" <=> caller[c].source # "none"
    /\ clock  \in Nat
    /\ asked  \in 0 .. MaxQueries

Init ==
    /\ entry  = Nothing
    /\ lease  = {}
    /\ locked = [s \in Services |-> {}]
    /\ caller = [c \in Callers |-> Idle]
    /\ clock  = 0
    /\ asked  = 0

\* The requirement a query is dealing with.
Key(q) == CHOOSE k \in q.todo : \A i \in q.todo : k <= i

Unlock(c) == locked' = [locked EXCEPT ![Home[c]] = @ \ {Key(caller[c])}]

Becomes(c, q) == caller' = [caller EXCEPT ![c] = q]

\* Mutant of Obtained: the requirement is dealt with once more.
ObtainedAgain(q, record) ==
    [q EXCEPT !.pc = "next",
              !.got[Key(q)] = record,
              !.fetched = @ \cup {Key(q)},
              !.payload = 0,
              !.outcome = "none"]

\* A record has been found or fetched for the key: on to the next one.
Obtained(q, record) ==
    [q EXCEPT !.pc = "next",
              !.got[Key(q)] = record,
              !.fetched = @ \cup {Key(q)},
              !.todo = @ \ {Key(q)},
              !.payload = 0,
              !.outcome = "none"]

\* The query is going to be answered by an error.
Refused == [Idle EXCEPT !.pc = "refused"]

\* A GatewayError in the loop: the existing record if there is one and the
\* caller allows stale ones, otherwise the query fails as a whole.
Fallback(q) ==
    IF q.existing[Key(q)] # 0 /\ q.stale
    THEN [q EXCEPT !.pc = "next",
                   !.got[Key(q)] = q.existing[Key(q)],
                   !.old = @ \cup {Key(q)},
                   !.todo = @ \ {Key(q)},
                   !.outcome = "none"]
    ELSE Refused

Commits == IF "store" \in Faults THEN BOOLEAN ELSE {TRUE}

----------------------------------------------------------------------------
(* query *)

Ask(c) ==
    /\ caller[c].pc \in {"idle", "done"}
    /\ asked < MaxQueries
    /\ asked' = asked + 1
    /\ \E need \in (SUBSET Keys) \ {{}}, force, stale \in BOOLEAN :
          Becomes(c, [Idle EXCEPT !.pc = "read", !.need = need, !.todo = need,
                                  !.force = force, !.stale = stale,
                                  !.asOf = clock, !.floor = entry])
    /\ UNCHANGED <<entry, lease, locked, clock>>

\* Offline, a query with a missing record is answered here.
AllRead(q, s) ==
    IF s \in Offline /\ \E k \in q.need : q.existing[k] = 0
    THEN Refused
    ELSE [q EXCEPT !.pc = "next", !.todo = q.need]

ReadExisting(c) ==
    LET q == [caller[c] EXCEPT !.existing[Key(caller[c])] = entry[Key(caller[c])],
                               !.todo = @ \ {Key(caller[c])}]
    IN  /\ caller[c].pc = "read"
        /\ Becomes(c, IF q.todo = {} THEN AllRead(q, Home[c]) ELSE q)
        /\ UNCHANGED <<entry, lease, locked, clock, asked>>

\* An existing record will do, unless a refresh is forced.
Hit(q) == q.existing[Key(q)] # 0 /\ ~q.force

UseExisting(c) ==
    LET q == caller[c] IN
    /\ q.pc = "next" /\ q.todo # {}
    /\ Hit(q)
    /\ Becomes(c, [q EXCEPT !.got[Key(q)] = q.existing[Key(q)],
                            !.todo = @ \ {Key(q)}])
    /\ UNCHANGED <<entry, lease, locked, clock, asked>>

\* Mutant of Source: no answer for stale and fetched records together.
SourceForgettingMixed(q) ==
    CASE q.old # {} /\ q.fetched = {}      -> "stale_cache"
      [] q.old = {} /\ q.fetched = {}      -> "cache"
      [] q.old = {} /\ q.fetched = q.need  -> "external"
      [] q.old = {} /\ q.fetched # q.need  -> "partial_hit"
      [] OTHER                             -> "none"

Source(q) ==
    CASE q.old # {} /\ q.fetched = {}   -> "stale_cache"
      [] q.old # {} /\ q.fetched # {}   -> "mixed"
      [] q.old = {} /\ q.fetched = {}   -> "cache"
      [] q.old = {} /\ q.fetched = q.need ->
            IF q.force THEN "external_refresh" ELSE "external"
      [] OTHER                          -> "partial_hit"

\* The answer or the error is audited and returned; a record that lacks a
\* requested field turns the one into the other.
Answer(c) ==
    LET q == caller[c] IN
    /\ \/ /\ q.pc = "next" /\ q.todo = {}
          /\ \/ Becomes(c, [q EXCEPT !.pc = "done", !.source = Source(q),
                                     !.existing = Nothing, !.fetched = {},
                                     !.old = {}, !.stale = FALSE, !.floor = Nothing])
             \/ Becomes(c, Refused)
       \/ /\ q.pc = "refused"
          /\ Becomes(c, [q EXCEPT !.pc = "done", !.source = "error"])
    /\ UNCHANGED <<entry, lease, locked, clock, asked>>

----------------------------------------------------------------------------
(* _fetch_and_store *)

AwaitLock(c) ==
    LET q == caller[c] IN
    /\ q.pc = "next" /\ q.todo # {}
    /\ ~Hit(q)
    /\ Key(q) \notin locked[Home[c]]
    /\ locked' = [locked EXCEPT ![Home[c]] = @ \cup {Key(q)}]
    /\ Becomes(c, [q EXCEPT !.pc = "recheck"])
    /\ UNCHANGED <<entry, lease, clock, asked>>

\* Mutant of Recheck: a forced refresh is content with what it finds.
RecheckIgnoringForce(c) ==
    LET q == caller[c] IN
    /\ q.pc = "recheck"
    /\ IF entry[Key(q)] # 0
       THEN Becomes(c, Obtained(q, entry[Key(q)])) /\ Unlock(c)
       ELSE Becomes(c, [q EXCEPT !.pc = "lease"]) /\ UNCHANGED locked
    /\ UNCHANGED <<entry, lease, clock, asked>>

\* Mutant of Recheck: a hit leaves the key locked.
RecheckKeepingLock(c) ==
    LET q == caller[c] IN
    /\ q.pc = "recheck"
    /\ Becomes(c, IF entry[Key(q)] # 0 /\ ~q.force
                  THEN Obtained(q, entry[Key(q)])
                  ELSE [q EXCEPT !.pc = "lease"])
    /\ UNCHANGED <<entry, lease, locked, clock, asked>>

Recheck(c) ==
    LET q == caller[c] IN
    /\ q.pc = "recheck"
    /\ IF entry[Key(q)] # 0 /\ ~q.force
       THEN Becomes(c, Obtained(q, entry[Key(q)])) /\ Unlock(c)
       ELSE Becomes(c, [q EXCEPT !.pc = "lease"]) /\ UNCHANGED locked
    /\ UNCHANGED <<entry, lease, clock, asked>>

\* Mutant of TakeLease: the row is replaced if it is there.
TakeLeaseAnyway(c) ==
    /\ caller[c].pc = "lease"
    /\ lease' = lease \cup {Key(caller[c])}
    /\ Becomes(c, [caller[c] EXCEPT !.pc = "fetch"])
    /\ UNCHANGED <<entry, locked, clock, asked>>

\* acquire_fetch_lease: INSERT, which fails if the row is there.
TakeLease(c) ==
    LET k == Key(caller[c]) IN
    /\ caller[c].pc = "lease"
    /\ lease' = lease \cup {k}
    /\ Becomes(c, [caller[c] EXCEPT !.pc = IF k \in lease THEN "after" ELSE "fetch"])
    /\ UNCHANGED <<entry, locked, clock, asked>>

\* Somebody else holds the lease: the record there is by now, or an error.
ReadAfterLease(c) ==
    LET q == caller[c] IN
    /\ q.pc = "after"
    /\ Becomes(c, IF entry[Key(q)] # 0 THEN Obtained(q, entry[Key(q)])
                                       ELSE Fallback(q))
    /\ Unlock(c)
    /\ UNCHANGED <<entry, lease, clock, asked>>

\* The provider answers, with rows or without; or fails with a GatewayError,
\* which is written to the provider events; or with a ValueError, which query
\* turns into an error; or this or the provider raises some other exception.
Fetch(c) ==
    /\ caller[c].pc = "fetch"
    /\ \/ /\ clock' = clock + 1
          /\ Becomes(c, [caller[c] EXCEPT !.pc = "write", !.payload = clock + 1])
       \/ /\ \E outcome \in {"failed", "invalid", "raised"} :
                Becomes(c, [caller[c] EXCEPT !.pc = "release", !.outcome = outcome])
          /\ UNCHANGED clock
    /\ UNCHANGED <<entry, lease, locked, asked>>

\* Mutant of WriteEntry: the entry is inserted unless there is one.
WriteEntryIfAbsent(c) ==
    LET k == Key(caller[c]) IN
    /\ caller[c].pc = "write"
    /\ entry' = [entry EXCEPT ![k] = IF @ = 0 THEN caller[c].payload ELSE @]
    /\ Becomes(c, [caller[c] EXCEPT !.pc = "release", !.outcome = "stored"])
    /\ UNCHANGED <<lease, locked, clock, asked>>

\* write_entry: version, conflict record and current entry in one transaction.
WriteEntry(c) ==
    /\ caller[c].pc = "write"
    /\ \E commits \in Commits :
          /\ entry' = IF commits THEN [entry EXCEPT ![Key(caller[c])] = caller[c].payload]
                                 ELSE entry
          /\ Becomes(c, [caller[c] EXCEPT !.pc = "release",
                            !.outcome = IF commits THEN "stored" ELSE "raised"])
    /\ UNCHANGED <<lease, locked, clock, asked>>

\* Mutant of Left: a record that could not be stored is returned all the same.
LeftUnstored(q) ==
    IF q.outcome = "failed" THEN Fallback(q) ELSE Obtained(q, q.payload)

\* What becomes of the query when _fetch_and_store is left.
Left(q) ==
    CASE q.outcome = "stored"  -> Obtained(q, q.payload)
      [] q.outcome = "failed"  -> Fallback(q)
      [] q.outcome = "invalid" -> Refused
      [] OTHER                 -> Idle

\* Mutant of Release: the lease is released after success only.
ReleaseIfStored(c) ==
    /\ caller[c].pc = "release"
    /\ lease' = IF caller[c].outcome = "stored" THEN lease \ {Key(caller[c])} ELSE lease
    /\ Becomes(c, Left(caller[c]))
    /\ Unlock(c)
    /\ UNCHANGED <<entry, clock, asked>>

\* release_fetch_lease, in the finally clause, and the end of the lock's
\* block.  The DELETE does not ask whose lease it is; if it raises, its
\* exception replaces whatever the block was leaving with.
Release(c) ==
    /\ caller[c].pc = "release"
    /\ \E commits \in Commits :
          /\ lease' = IF commits THEN lease \ {Key(caller[c])} ELSE lease
          /\ Becomes(c, IF commits THEN Left(caller[c]) ELSE Idle)
    /\ Unlock(c)
    /\ UNCHANGED <<entry, clock, asked>>

\* Mutant of StoreError: the lock is not released when a store call raises.
StoreErrorKeepingLock(c) ==
    /\ "store" \in Faults
    /\ \/ caller[c].pc \in {"recheck", "lease", "after", "read", "refused"}
       \/ caller[c].pc = "next" /\ caller[c].todo = {}
    /\ Becomes(c, Idle)
    /\ UNCHANGED <<entry, lease, locked, clock, asked>>

\* The other store calls of a query may raise too, the audit of its answer
\* included.  query does not catch the exception; the lock's block, if the
\* query is in it, is left.
StoreError(c) ==
    LET pc == caller[c].pc IN
    /\ "store" \in Faults
    /\ \/ pc \in {"recheck", "lease", "after"} /\ Unlock(c)
       \/ pc \in {"read", "refused"} /\ UNCHANGED locked
       \/ pc = "next" /\ caller[c].todo = {} /\ UNCHANGED locked
    /\ Becomes(c, Idle)
    /\ UNCHANGED <<entry, lease, clock, asked>>

QueryStep(c) ==
    \/ ReadExisting(c) \/ UseExisting(c) \/ Answer(c)
    \/ AwaitLock(c) \/ Recheck(c) \/ TakeLease(c) \/ ReadAfterLease(c)
    \/ Fetch(c) \/ WriteEntry(c) \/ Release(c)

----------------------------------------------------------------------------
(* The environment *)

\* A process with a query under way dies and is started again: its threads
\* and locks are gone, the database and with it the leases are not.
Crash(s) ==
    /\ "crash" \in Faults
    /\ \E c \in Callers : Home[c] = s /\ caller[c].pc \notin {"idle", "done"}
    /\ caller' = [c \in Callers |-> IF Home[c] = s THEN Idle ELSE caller[c]]
    /\ locked' = [locked EXCEPT ![s] = {}]
    /\ UNCHANGED <<entry, lease, clock, asked>>

\* clear_cache deletes the entries and the leases that match its filter.
Clear ==
    /\ "clear" \in Faults
    /\ \E ks \in (SUBSET Keys) \ {{}} :
          /\ entry' = [k \in Keys |-> IF k \in ks THEN 0 ELSE entry[k]]
          /\ lease' = lease \ ks
    /\ UNCHANGED <<locked, caller, clock, asked>>

Next ==
    \/ \E c \in Callers : Ask(c) \/ QueryStep(c) \/ StoreError(c)
    \/ \E s \in Services : Crash(s)
    \/ Clear

\* Threads are scheduled and providers answer or time out.
Fairness == \A c \in Callers : WF_vars(QueryStep(c))

Spec == Init /\ [][Next]_vars
FairSpec == Spec /\ Fairness

----------------------------------------------------------------------------
(* Properties *)

InFlight == {"fetch", "write", "release"}

Busy == {"recheck", "lease", "after"} \cup InFlight

\* c is between acquiring and releasing the lease of k.
Fetching(c, k) == caller[c].pc \in InFlight /\ Key(caller[c]) = k

\* Concurrent misses and refreshes of a key, of one service or of several,
\* lead to one provider call at a time (unless an administrator clears the
\* lease of a fetch under way).
SingleFlight ==
    \A k \in Keys, c, d \in Callers : Fetching(c, k) /\ Fetching(d, k) => c = d

\* A lease is held by a query that is going to release it, so an error that
\* blames "another request" is right.
LeaseIsHeld == \A k \in lease : \E c \in Callers : Fetching(c, k)

\* A lock is held by a query inside its block, which waits for no other lock:
\* neither errors nor deaths of processes leave one behind to wait for.
LockIsHeld ==
    \A s \in Services : \A k \in locked[s] :
        \E c \in Callers : Home[c] = s /\ caller[c].pc \in Busy /\ Key(caller[c]) = k

\* A current entry is never replaced by the answer of an earlier fetch.
NeverBackwards ==
    [][\A k \in Keys : entry[k] # 0 /\ entry'[k] # 0 => entry[k] <= entry'[k]]_vars

\* Each record of an answer was stored, and is no older than what was current
\* when the query began.
AnswerInWindow ==
    \A c \in Callers : \A k \in caller[c].need :
        caller[c].got[k] # 0 =>
            /\ caller[c].floor[k] <= caller[c].got[k]
            /\ caller[c].got[k] <= entry[k]

\* An answer marked as a refresh has no record fetched before the query.
RefreshIsFresh ==
    \A c \in Callers : caller[c].source = "external_refresh" =>
        \A k \in caller[c].need : caller[c].got[k] > caller[c].asOf

\* A query is answered by what it asked for, or as a whole by an error.
AnswerIsComplete ==
    \A c \in Callers : caller[c].source \notin {"none", "error"} =>
        \A k \in caller[c].need : caller[c].got[k] # 0

\* A service in offline mode does not call its providers.
OfflineStaysOffline ==
    \A c \in Callers : Home[c] \in Offline => caller[c].pc # "fetch"

\* How many steps of its own a query can still take, at most.
StepsLeft(q) ==
    CASE q.pc \in {"idle", "done"}    -> 0
      [] q.pc = "refused"             -> 1
      [] q.pc = "release"             -> 8 * Cardinality(q.todo) - 4
      [] q.pc = "write"               -> 8 * Cardinality(q.todo) - 3
      [] q.pc \in {"fetch", "after"}  -> 8 * Cardinality(q.todo) - 2
      [] q.pc = "lease"               -> 8 * Cardinality(q.todo) - 1
      [] q.pc = "recheck"             -> 8 * Cardinality(q.todo)
      [] q.pc = "next"                -> 8 * Cardinality(q.todo) + 2
      [] q.pc = "read"                -> 8 * Cardinality(q.need) + 3 + Cardinality(q.todo)

\* A query does not go round in circles, whatever others or the environment do:
\* each step of it leaves fewer to take, and no step of another's adds any.
QueriesAdvance ==
    [][\A c \in Callers : caller[c].pc \notin {"idle", "done"} =>
          caller'[c] = caller[c] \/ StepsLeft(caller'[c]) < StepsLeft(caller[c])]_vars

\* Every query is answered or fails.
QueriesEnd ==
    \A c \in Callers :
        caller[c].pc \notin {"idle", "done"} ~> caller[c].pc \in {"idle", "done"}

----------------------------------------------------------------------------
(* The invariants behind the safety properties *)

\* A query that reads or fetches has requirements left.
CallerOK(q) ==
    /\ q \in QueryState
    /\ q.pc = "done" <=> q.source # "none"
    /\ q.pc \in Busy \cup {"read"} => q.todo # {}

CallersOK ==
    /\ TypeOK
    /\ \A c \in Callers : CallerOK(caller[c])

\* Whoever fetches a key has its lease, and nobody else fetches it.
FlightOK ==
    /\ \A c \in Callers, k \in Keys : Fetching(c, k) => k \in lease
    /\ SingleFlight

\* Given the entries e and the clock n, the records of a query lie between its
\* floor and e, and what it is about to write is later than what is there.
InWindow(q, e, n) ==
    /\ q.payload <= n
    /\ q.pc = "write" => e[Key(q)] < q.payload
    /\ q.pc = "release" /\ q.outcome = "stored" => q.payload = e[Key(q)]
    /\ \A k \in Keys :
          /\ q.floor[k] <= e[k]
          /\ q.existing[k] # 0 => q.floor[k] <= q.existing[k] /\ q.existing[k] <= e[k]
          /\ q.got[k] # 0 => q.floor[k] <= q.got[k] /\ q.got[k] <= e[k]

VersionsOK ==
    /\ \A k \in Keys : entry[k] <= clock
    /\ \A c \in Callers : InWindow(caller[c], entry, clock)

\* Inductive unless "clear" is one of the faults.
IInv == CallersOK /\ FlightOK /\ VersionsOK
============================================================================
