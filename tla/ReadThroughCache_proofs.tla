----------------------- MODULE ReadThroughCache_proofs -----------------------
(***************************************************************************)
(* Theorems about the read-through cache, for every set of callers and     *)
(* services, every set of keys and any number of queries.                  *)
(***************************************************************************)
EXTENDS MCReadThroughCache, FiniteSetTheorems, WellFoundedInduction, TLAPS

----------------------------------------------------------------------------
(* Keys *)

LEMMA LeastNumber ==
    ASSUME NEW T, T \subseteq Nat, T # {}
    PROVE  \E x \in T : \A y \in T : x <= y
<1> DEFINE R == {ss \in Nat \X Nat : ss[1] < ss[2]}
<1>1. IsWellFoundedOn(R, Nat)
  BY NatLessThanWellFounded DEF OpToRel
<1>2. \A x, y \in Nat : <<y, x>> \in R <=> y < x
  OBVIOUS
<1> HIDE DEF R
<1>3. PICK x \in T : \A y \in T : ~ (<<y, x>> \in R)
  BY <1>1, WFMin
<1>4. \A y \in T : ~ (y < x)
  BY <1>2, <1>3
<1> QED
  BY <1>4

\* A query that has requirements left is dealing with one of them.
LEMMA KeyIsTodo ==
    ASSUME NEW q, q.todo \subseteq Keys, q.todo # {}
    PROVE  Key(q) \in q.todo /\ Key(q) \in Keys
<1>1. \E k \in q.todo : \A i \in q.todo : k <= i
  BY CacheConstants, LeastNumber
<1> QED
  BY <1>1 DEF Key

\* It is the requirements left that determine it.
LEMMA SameKey ==
    ASSUME NEW q, NEW r, q.todo = r.todo
    PROVE  Key(q) = Key(r)
BY DEF Key

----------------------------------------------------------------------------
(* Type correctness *)

\* TypeOK, variable by variable.
LEMMA TypeParts ==
    CallersOK <=> /\ entry  \in [Keys -> Nat]
                  /\ lease  \in SUBSET Keys
                  /\ locked \in [Services -> SUBSET Keys]
                  /\ caller \in [Callers -> QueryState]
                  /\ clock  \in Nat
                  /\ asked  \in 0 .. MaxQueries
                  /\ \A c \in Callers : CallerOK(caller[c])
BY DEF CallersOK, TypeOK, CallerOK

LEMMA IdleOK == CallerOK(Idle) /\ CallerOK(Refused) /\ Nothing \in [Keys -> Nat]
BY DEF CallerOK, Idle, Refused, QueryState, Steps, Busy, InFlight, Nothing

\* A query in the loop, or in _fetch_and_store, has not been answered.
LEMMA Unanswered ==
    ASSUME NEW q, CallerOK(q), q.pc \in Busy
    PROVE  /\ q \in QueryState /\ q.source = "none"
           /\ Key(q) \in q.todo /\ Key(q) \in Keys
<1>1. q \in QueryState /\ q.source = "none" /\ q.todo # {} /\ q.todo \subseteq Keys
  BY DEF CallerOK, QueryState, Busy, InFlight
<1> QED
  BY <1>1, KeyIsTodo

LEMMA ObtainedOK ==
    ASSUME NEW q, CallerOK(q), q.pc \in Busy, NEW record \in Nat
    PROVE  CallerOK(Obtained(q, record))
<1>1. q \in QueryState /\ q.source = "none" /\ Key(q) \in Keys
  BY Unanswered
<1>2. [q.got EXCEPT ![Key(q)] = record] \in [Keys -> Nat]
  BY <1>1 DEF QueryState
<1>3. Obtained(q, record) \in QueryState
  BY <1>1, <1>2 DEF Obtained, QueryState, Steps
<1>4. Obtained(q, record).pc = "next" /\ Obtained(q, record).source = "none"
  BY <1>1 DEF Obtained, QueryState
<1> QED
  BY <1>3, <1>4 DEF CallerOK, Busy, InFlight

LEMMA FallbackOK ==
    ASSUME NEW q, CallerOK(q), q.pc \in Busy
    PROVE  CallerOK(Fallback(q))
<1>1. q \in QueryState /\ q.source = "none" /\ Key(q) \in Keys
  BY Unanswered
<1> DEFINE r == [q EXCEPT !.pc = "next",
                          !.got[Key(q)] = q.existing[Key(q)],
                          !.old = @ \cup {Key(q)},
                          !.todo = @ \ {Key(q)},
                          !.outcome = "none"]
<1>2. [q.got EXCEPT ![Key(q)] = q.existing[Key(q)]] \in [Keys -> Nat]
  BY <1>1 DEF QueryState
<1>3. r \in QueryState /\ r.pc = "next" /\ r.source = "none"
  BY <1>1, <1>2 DEF QueryState, Steps
<1>4. CallerOK(r)
  BY <1>3 DEF CallerOK, Busy, InFlight
<1> QED
  BY <1>4, IdleOK DEF Fallback

LEMMA LeftOK ==
    ASSUME NEW q, CallerOK(q), q.pc \in Busy
    PROVE  CallerOK(Left(q))
<1>1. q.payload \in Nat
  BY DEF CallerOK, QueryState
<1> QED
  BY <1>1, ObtainedOK, FallbackOK, IdleOK DEF Left

\* The next state of one caller is well formed, and so are the others still.
LEMMA BecomesOK ==
    ASSUME CallersOK, NEW c \in Callers, NEW q, CallerOK(q), Becomes(c, q)
    PROVE  /\ caller' \in [Callers -> QueryState]
           /\ \A d \in Callers : CallerOK(caller'[d])
           /\ caller'[c] = q
           /\ \A d \in Callers \ {c} : caller'[d] = caller[d]
BY TypeParts DEF Becomes, CallerOK

\* The parts of CallersOK, in the next state.
LEMMA NextOK ==
    ASSUME entry'  \in [Keys -> Nat],
           lease'  \in SUBSET Keys,
           locked' \in [Services -> SUBSET Keys],
           caller' \in [Callers -> QueryState],
           clock'  \in Nat,
           asked'  \in 0 .. MaxQueries,
           \A c \in Callers : CallerOK(caller'[c])
    PROVE  CallersOK'
BY DEF CallersOK, TypeOK, CallerOK

LEMMA UnlockOK ==
    ASSUME CallersOK, NEW c \in Callers, Unlock(c)
    PROVE  locked' \in [Services -> SUBSET Keys]
BY TypeParts, CacheConstants DEF Unlock

----------------------------------------------------------------------------
(* Each action keeps it *)

LEMMA InitType == Init => CallersOK
<1> SUFFICES ASSUME Init PROVE CallersOK
  OBVIOUS
<1>1. entry \in [Keys -> Nat] /\ lease \in SUBSET Keys
  BY DEF Init, Nothing
<1>2. locked \in [Services -> SUBSET Keys] /\ clock \in Nat /\ asked \in 0 .. MaxQueries
  BY CacheConstants DEF Init
<1>3. caller \in [Callers -> QueryState] /\ \A c \in Callers : CallerOK(caller[c])
  BY IdleOK DEF Init, CallerOK
<1> QED
  BY <1>1, <1>2, <1>3, TypeParts

LEMMA AskType == ASSUME CallersOK, NEW c \in Callers, Ask(c) PROVE CallersOK'
<1>1. PICK need \in (SUBSET Keys) \ {{}}, force \in BOOLEAN, stale \in BOOLEAN :
         Becomes(c, [Idle EXCEPT !.pc = "read", !.need = need, !.todo = need,
                                 !.force = force, !.stale = stale,
                                 !.asOf = clock, !.floor = entry])
  BY DEF Ask
<1> DEFINE q == [Idle EXCEPT !.pc = "read", !.need = need, !.todo = need,
                             !.force = force, !.stale = stale,
                             !.asOf = clock, !.floor = entry]
<1>2. Idle \in QueryState /\ entry \in [Keys -> Nat] /\ clock \in Nat
  BY IdleOK, TypeParts DEF CallerOK
<1>3. q \in QueryState /\ q.pc = "read" /\ q.source = "none" /\ q.todo # {}
  BY <1>2 DEF QueryState, Steps, Idle
<1>4. CallerOK(q)
  BY <1>3 DEF CallerOK, Busy, InFlight
<1>5. asked' \in 0 .. MaxQueries
  BY TypeParts, CacheConstants DEF Ask
<1> QED
  BY <1>1, <1>4, <1>5, BecomesOK, TypeParts, NextOK DEF Ask

LEMMA ReadExistingType ==
    ASSUME CallersOK, NEW c \in Callers, ReadExisting(c) PROVE CallersOK'
<1> DEFINE p == caller[c]
           q == [p EXCEPT !.existing[Key(p)] = entry[Key(p)], !.todo = @ \ {Key(p)}]
<1>1. p \in QueryState /\ p.pc = "read" /\ p.source = "none" /\ p.todo # {}
  BY TypeParts DEF ReadExisting, CallerOK
<1>2. Key(p) \in Keys
  BY <1>1, KeyIsTodo DEF QueryState
<1>3. [p.existing EXCEPT ![Key(p)] = entry[Key(p)]] \in [Keys -> Nat]
  BY <1>1, <1>2, TypeParts DEF QueryState
<1>4. q \in QueryState /\ q.pc = "read" /\ q.source = "none"
  BY <1>1, <1>3 DEF QueryState
<1>5. CallerOK([q EXCEPT !.pc = "next", !.todo = q.need])
  BY <1>4 DEF CallerOK, QueryState, Steps, Busy, InFlight
<1>6. CallerOK(IF q.todo = {} THEN AllRead(q, Home[c]) ELSE q)
  BY <1>4, <1>5, IdleOK DEF AllRead, CallerOK
<1> HIDE DEF q
<1>7. Becomes(c, IF q.todo = {} THEN AllRead(q, Home[c]) ELSE q)
  BY DEF ReadExisting, q
<1> QED
  BY <1>6, <1>7, BecomesOK, TypeParts, NextOK DEF ReadExisting

LEMMA UseExistingType ==
    ASSUME CallersOK, NEW c \in Callers, UseExisting(c) PROVE CallersOK'
<1> DEFINE p == caller[c]
           q == [p EXCEPT !.got[Key(p)] = p.existing[Key(p)], !.todo = @ \ {Key(p)}]
<1>1. p \in QueryState /\ p.pc = "next" /\ p.source = "none" /\ p.todo # {}
  BY TypeParts DEF UseExisting, CallerOK
<1>2. Key(p) \in Keys
  BY <1>1, KeyIsTodo DEF QueryState
<1>3. [p.got EXCEPT ![Key(p)] = p.existing[Key(p)]] \in [Keys -> Nat]
  BY <1>1, <1>2 DEF QueryState
<1>4. q \in QueryState /\ q.pc = "next" /\ q.source = "none"
  BY <1>1, <1>3 DEF QueryState
<1>5. CallerOK(q)
  BY <1>4 DEF CallerOK, Busy, InFlight
<1>6. Becomes(c, q)
  BY DEF UseExisting
<1> HIDE DEF q
<1> QED
  BY <1>5, <1>6, BecomesOK, TypeParts, NextOK DEF UseExisting

LEMMA AnswerType == ASSUME CallersOK, NEW c \in Callers, Answer(c) PROVE CallersOK'
<1> DEFINE p == caller[c]
           q == [p EXCEPT !.pc = "done", !.source = Source(p),
                          !.existing = Nothing, !.fetched = {},
                          !.old = {}, !.stale = FALSE, !.floor = Nothing]
           r == [p EXCEPT !.pc = "done", !.source = "error"]
<1>1. p \in QueryState
  BY TypeParts
<1>2. Source(p) \in {"cache", "external", "external_refresh", "partial_hit", "mixed", "stale_cache"}
  BY DEF Source
<1>3. q \in QueryState /\ q.pc = "done" /\ q.source = Source(p)
  BY <1>1, <1>2, IdleOK DEF QueryState, Steps
<1>4. CallerOK(q)
  BY <1>2, <1>3 DEF CallerOK, Busy, InFlight
<1>5. r \in QueryState /\ r.pc = "done" /\ r.source = "error"
  BY <1>1 DEF QueryState, Steps
<1>6. CallerOK(r)
  BY <1>5 DEF CallerOK, Busy, InFlight
<1>7. Becomes(c, q) \/ Becomes(c, Refused) \/ Becomes(c, r)
  BY DEF Answer
<1> HIDE DEF q, r
<1> QED
  BY <1>4, <1>6, <1>7, IdleOK, BecomesOK, TypeParts, NextOK DEF Answer

LEMMA AwaitLockType == ASSUME CallersOK, NEW c \in Callers, AwaitLock(c) PROVE CallersOK'
<1> DEFINE p == caller[c]
           q == [p EXCEPT !.pc = "recheck"]
<1>1. p \in QueryState /\ p.pc = "next" /\ p.source = "none" /\ p.todo # {}
  BY TypeParts DEF AwaitLock, CallerOK
<1>2. Key(p) \in Keys
  BY <1>1, KeyIsTodo DEF QueryState
<1>3. q \in QueryState /\ q.pc = "recheck" /\ q.source = "none" /\ q.todo # {}
  BY <1>1 DEF QueryState, Steps
<1>4. CallerOK(q)
  BY <1>3 DEF CallerOK
<1>5. locked' \in [Services -> SUBSET Keys]
  BY <1>2, TypeParts, CacheConstants DEF AwaitLock
<1>6. Becomes(c, q)
  BY DEF AwaitLock
<1> HIDE DEF q
<1> QED
  BY <1>4, <1>5, <1>6, BecomesOK, TypeParts, NextOK DEF AwaitLock

\* A step within _fetch_and_store that leaves the requirements alone.
LEMMA StepOK ==
    ASSUME NEW q, CallerOK(q), q.pc \in Busy, NEW r \in QueryState,
           r.pc \in Busy, r.source = q.source, r.todo = q.todo
    PROVE  CallerOK(r)
BY DEF CallerOK, Busy, InFlight

LEMMA RecheckType == ASSUME CallersOK, NEW c \in Callers, Recheck(c) PROVE CallersOK'
<1> DEFINE p == caller[c]
           q == [p EXCEPT !.pc = "lease"]
<1>1. CallerOK(p) /\ p \in QueryState /\ p.pc = "recheck" /\ p.pc \in Busy /\ Key(p) \in Keys
  BY TypeParts, Unanswered DEF Recheck, Busy, InFlight
<1>2. q \in QueryState /\ q.pc = "lease" /\ q.source = p.source /\ q.todo = p.todo
  BY <1>1 DEF QueryState, Steps
<1>3. CallerOK(q)
  BY <1>1, <1>2, StepOK DEF Busy, InFlight
<1>4. CallerOK(Obtained(p, entry[Key(p)]))
  BY <1>1, TypeParts, ObtainedOK
<1>5. \/ Becomes(c, Obtained(p, entry[Key(p)])) /\ Unlock(c)
      \/ Becomes(c, q) /\ UNCHANGED locked
  BY DEF Recheck
<1> HIDE DEF q
<1> QED
  BY <1>3, <1>4, <1>5, BecomesOK, UnlockOK, TypeParts, NextOK DEF Recheck

LEMMA TakeLeaseType == ASSUME CallersOK, NEW c \in Callers, TakeLease(c) PROVE CallersOK'
<1> DEFINE p == caller[c]
           q == [p EXCEPT !.pc = IF Key(p) \in lease THEN "after" ELSE "fetch"]
<1>1. CallerOK(p) /\ p \in QueryState /\ p.pc \in Busy /\ Key(p) \in Keys
  BY TypeParts, Unanswered DEF TakeLease, Busy, InFlight
<1>2. q \in QueryState /\ q.pc \in {"after", "fetch"} /\ q.source = p.source /\ q.todo = p.todo
  BY <1>1 DEF QueryState, Steps
<1>3. CallerOK(q)
  BY <1>1, <1>2, StepOK DEF Busy, InFlight
<1>4. Becomes(c, q) /\ lease' \in SUBSET Keys
  BY <1>1, TypeParts DEF TakeLease
<1> HIDE DEF q
<1> QED
  BY <1>3, <1>4, BecomesOK, TypeParts, NextOK DEF TakeLease

LEMMA ReadAfterLeaseType ==
    ASSUME CallersOK, NEW c \in Callers, ReadAfterLease(c) PROVE CallersOK'
<1> DEFINE p == caller[c]
<1>1. CallerOK(p) /\ p.pc \in Busy /\ Key(p) \in Keys
  BY TypeParts, Unanswered DEF ReadAfterLease, Busy, InFlight
<1>2. CallerOK(Obtained(p, entry[Key(p)])) /\ CallerOK(Fallback(p))
  BY <1>1, TypeParts, ObtainedOK, FallbackOK
<1>3. Becomes(c, Obtained(p, entry[Key(p)])) \/ Becomes(c, Fallback(p))
  BY DEF ReadAfterLease
<1> QED
  BY <1>2, <1>3, BecomesOK, UnlockOK, TypeParts, NextOK DEF ReadAfterLease

LEMMA FetchType == ASSUME CallersOK, NEW c \in Callers, Fetch(c) PROVE CallersOK'
<1> DEFINE p == caller[c]
           q == [p EXCEPT !.pc = "write", !.payload = clock + 1]
           r(outcome) == [p EXCEPT !.pc = "release", !.outcome = outcome]
<1>1. CallerOK(p) /\ p \in QueryState /\ p.pc \in Busy /\ clock + 1 \in Nat
  BY TypeParts DEF Fetch, Busy, InFlight
<1>2. q \in QueryState /\ q.pc = "write" /\ q.source = p.source /\ q.todo = p.todo
  BY <1>1 DEF QueryState, Steps
<1>3. CallerOK(q)
  BY <1>1, <1>2, StepOK DEF Busy, InFlight
<1>4. ASSUME NEW outcome \in {"failed", "invalid", "raised"} PROVE CallerOK(r(outcome))
  <2>1. r(outcome) \in QueryState
    BY <1>1 DEF QueryState, Steps
  <2>2. r(outcome).pc = "release" /\ r(outcome).source = p.source /\ r(outcome).todo = p.todo
    BY <1>1 DEF QueryState
  <2> QED
    BY <1>1, <2>1, <2>2, StepOK DEF Busy, InFlight
<1>5. clock' \in Nat /\ (Becomes(c, q) \/ \E outcome \in {"failed", "invalid", "raised"} : Becomes(c, r(outcome)))
  BY TypeParts DEF Fetch
<1> HIDE DEF q, r
<1> QED
  BY <1>3, <1>4, <1>5, BecomesOK, TypeParts, NextOK DEF Fetch

LEMMA WriteEntryType == ASSUME CallersOK, NEW c \in Callers, WriteEntry(c) PROVE CallersOK'
<1> DEFINE p == caller[c]
           q(outcome) == [p EXCEPT !.pc = "release", !.outcome = outcome]
<1>1. CallerOK(p) /\ p \in QueryState /\ p.pc \in Busy
  BY TypeParts DEF WriteEntry, Busy, InFlight
<1>2. ASSUME NEW outcome \in {"stored", "raised"} PROVE CallerOK(q(outcome))
  <2>1. q(outcome) \in QueryState
    BY <1>1 DEF QueryState, Steps
  <2>2. q(outcome).pc = "release" /\ q(outcome).source = p.source /\ q(outcome).todo = p.todo
    BY <1>1 DEF QueryState
  <2> QED
    BY <1>1, <2>1, <2>2, StepOK DEF Busy, InFlight
<1>3. \E outcome \in {"stored", "raised"} : Becomes(c, q(outcome))
  BY DEF WriteEntry
<1>4. entry' \in [Keys -> Nat]
  <2>1. p.payload \in Nat /\ entry \in [Keys -> Nat]
    BY <1>1, TypeParts DEF QueryState
  <2>2. entry' = entry \/ entry' = [entry EXCEPT ![Key(p)] = p.payload]
    BY DEF WriteEntry
  <2> QED
    BY <2>1, <2>2
<1> HIDE DEF q
<1> QED
  BY <1>2, <1>3, <1>4, BecomesOK, TypeParts, NextOK DEF WriteEntry

LEMMA ReleaseType == ASSUME CallersOK, NEW c \in Callers, Release(c) PROVE CallersOK'
<1> DEFINE p == caller[c]
<1>1. CallerOK(p) /\ p.pc \in Busy
  BY TypeParts DEF Release, Busy, InFlight
<1>2. CallerOK(Left(p)) /\ CallerOK(Idle)
  BY <1>1, LeftOK, IdleOK
<1>3. (Becomes(c, Left(p)) \/ Becomes(c, Idle)) /\ lease' \in SUBSET Keys
  BY TypeParts DEF Release
<1> QED
  BY <1>2, <1>3, BecomesOK, UnlockOK, TypeParts, NextOK DEF Release

LEMMA StoreErrorType == ASSUME CallersOK, NEW c \in Callers, StoreError(c) PROVE CallersOK'
<1>1. locked' \in [Services -> SUBSET Keys]
  BY UnlockOK, TypeParts DEF StoreError
<1> QED
  BY <1>1, IdleOK, BecomesOK, TypeParts, NextOK DEF StoreError

LEMMA CrashType == ASSUME CallersOK, NEW s \in Services, Crash(s) PROVE CallersOK'
<1>1. locked' \in [Services -> SUBSET Keys]
  BY TypeParts DEF Crash
<1>2. \A c \in Callers : caller'[c] = Idle \/ caller'[c] = caller[c]
  BY DEF Crash
<1>3. caller' \in [Callers -> QueryState] /\ \A c \in Callers : CallerOK(caller'[c])
  BY <1>2, IdleOK, TypeParts DEF Crash, CallerOK
<1> QED
  BY <1>1, <1>3, TypeParts, NextOK DEF Crash

LEMMA ClearType == ASSUME CallersOK, Clear PROVE CallersOK'
<1>1. entry' \in [Keys -> Nat] /\ lease' \in SUBSET Keys
  BY TypeParts DEF Clear
<1>2. caller' = caller
  BY DEF Clear
<1> QED
  BY <1>1, <1>2, TypeParts, NextOK DEF Clear

LEMMA TypeStep == CallersOK /\ [Next]_vars => CallersOK'
<1> SUFFICES ASSUME CallersOK, [Next]_vars PROVE CallersOK'
  OBVIOUS
<1>1. ASSUME NEW c \in Callers, Ask(c) \/ QueryStep(c) \/ StoreError(c) PROVE CallersOK'
  BY <1>1, AskType, ReadExistingType, UseExistingType, AnswerType, AwaitLockType,
     RecheckType, TakeLeaseType, ReadAfterLeaseType, FetchType, WriteEntryType,
     ReleaseType, StoreErrorType DEF QueryStep
<1>2. ASSUME NEW s \in Services, Crash(s) PROVE CallersOK'
  BY <1>2, CrashType
<1>3. CASE Clear
  BY <1>3, ClearType
<1>4. CASE UNCHANGED vars
  BY <1>4 DEF vars, CallersOK, TypeOK, CallerOK, QueryState
<1> QED
  BY <1>1, <1>2, <1>3, <1>4 DEF Next

\* Every variable keeps its type, an answered query has a source, and only an
\* answered one does, whatever fails and whoever clears the cache.
THEOREM CacheTypeCorrect == Spec => []TypeOK
<1>1. CallersOK => TypeOK
  BY DEF CallersOK
<1> QED
  BY <1>1, InitType, TypeStep, PTL DEF Spec

----------------------------------------------------------------------------
(* One fetch at a time *)

\* Where the results of the helpers go on from.
LEMMA Resumed ==
    ASSUME NEW q \in QueryState, NEW record
    PROVE  /\ Obtained(q, record).pc = "next"
           /\ Refused.pc = "refused"
           /\ Idle.pc = "idle"
           /\ Fallback(q).pc \in {"next", "refused"}
           /\ Left(q).pc \in {"next", "refused", "idle"}
BY DEF QueryState, Obtained, Refused, Idle, Fallback, Left

\* A step of c that ends outside the fetch, or stays inside it.
LEMMA FlightKept ==
    ASSUME FlightOK, NEW c \in Callers,
           \A d \in Callers \ {c} : caller'[d] = caller[d],
           lease' = lease,
           \/ caller'[c].pc \notin InFlight
           \/ caller[c].pc \in InFlight /\ caller'[c].todo = caller[c].todo
    PROVE  FlightOK'
<1>1. ASSUME NEW d \in Callers, NEW k \in Keys, Fetching(d, k)'
      PROVE  Fetching(d, k)
  <2>1. CASE d # c
    BY <1>1, <2>1 DEF Fetching, InFlight
  <2>2. CASE d = c
    <3>1. caller[c].pc \in InFlight /\ caller'[c].todo = caller[c].todo
      BY <1>1, <2>2 DEF Fetching, InFlight
    <3>2. Key(caller'[c]) = Key(caller[c])
      BY <3>1, SameKey
    <3> QED
      BY <1>1, <2>2, <3>1, <3>2 DEF Fetching, InFlight
  <2> QED
    BY <2>1, <2>2
<1> QED
  BY <1>1 DEF FlightOK, SingleFlight

LEMMA FlightStep ==
    ASSUME CallersOK, FlightOK, CallersOK', [Next]_vars, "clear" \notin Faults
    PROVE  FlightOK'
<1>1. caller \in [Callers -> QueryState]
  BY TypeParts
<1>2. ASSUME NEW c \in Callers, NEW q, Becomes(c, q)
      PROVE  caller'[c] = q /\ \A d \in Callers \ {c} : caller'[d] = caller[d]
  BY <1>1, <1>2 DEF Becomes
<1>3. ASSUME NEW c \in Callers, Ask(c) PROVE FlightOK'
  <2>1. /\ caller'[c].pc = "read"
        /\ \A d \in Callers \ {c} : caller'[d] = caller[d]
    BY <1>1, <1>3 DEF Ask, Becomes, Idle
  <2> QED
    BY <1>3, <2>1, FlightKept DEF Ask, InFlight
<1>4. ASSUME NEW c \in Callers, ReadExisting(c) PROVE FlightOK'
  <2> DEFINE p == caller[c]
             q == [p EXCEPT !.existing[Key(p)] = entry[Key(p)], !.todo = @ \ {Key(p)}]
             r == IF q.todo = {} THEN AllRead(q, Home[c]) ELSE q
  <2>1. q.pc = "read" /\ [q EXCEPT !.pc = "next", !.todo = q.need].pc = "next"
    BY <1>1, <1>4 DEF ReadExisting, QueryState
  <2> HIDE DEF q
  <2>2. r.pc \in {"read", "next", "refused"}
    BY <2>1 DEF AllRead, Refused
  <2>3. Becomes(c, r)
    BY <1>4 DEF ReadExisting, q
  <2> HIDE DEF r
  <2>4. /\ caller'[c].pc \in {"read", "next", "refused"}
        /\ \A d \in Callers \ {c} : caller'[d] = caller[d]
    BY <1>2, <2>2, <2>3
  <2> QED
    BY <1>4, <2>4, FlightKept DEF ReadExisting, InFlight
<1>5. ASSUME NEW c \in Callers, UseExisting(c) PROVE FlightOK'
  <2>1. /\ caller'[c].pc = "next"
        /\ \A d \in Callers \ {c} : caller'[d] = caller[d]
    BY <1>1, <1>5 DEF UseExisting, Becomes, QueryState
  <2> QED
    BY <1>5, <2>1, FlightKept DEF UseExisting, InFlight
<1>6. ASSUME NEW c \in Callers, Answer(c) PROVE FlightOK'
  <2> DEFINE p == caller[c]
             q == [p EXCEPT !.pc = "done", !.source = Source(p),
                            !.existing = Nothing, !.fetched = {},
                            !.old = {}, !.stale = FALSE, !.floor = Nothing]
             r == [p EXCEPT !.pc = "done", !.source = "error"]
  <2>1. q.pc = "done" /\ r.pc = "done" /\ Refused.pc = "refused"
    BY <1>1 DEF QueryState, Refused
  <2>2. Becomes(c, q) \/ Becomes(c, Refused) \/ Becomes(c, r)
    BY <1>6 DEF Answer
  <2> HIDE DEF q, r
  <2>3. /\ caller'[c].pc \in {"done", "refused"}
        /\ \A d \in Callers \ {c} : caller'[d] = caller[d]
    BY <1>2, <2>1, <2>2
  <2> QED
    BY <1>6, <2>3, FlightKept DEF Answer, InFlight
<1>7. ASSUME NEW c \in Callers, AwaitLock(c) PROVE FlightOK'
  <2>1. /\ caller'[c].pc = "recheck"
        /\ \A d \in Callers \ {c} : caller'[d] = caller[d]
    BY <1>1, <1>7 DEF AwaitLock, Becomes, QueryState
  <2> QED
    BY <1>7, <2>1, FlightKept DEF AwaitLock, InFlight
<1>8. ASSUME NEW c \in Callers, Recheck(c) PROVE FlightOK'
  <2>1. /\ caller'[c].pc \in {"next", "lease"}
        /\ \A d \in Callers \ {c} : caller'[d] = caller[d]
    BY <1>1, <1>8, Resumed DEF Recheck, Becomes, QueryState
  <2> QED
    BY <1>8, <2>1, FlightKept DEF Recheck, InFlight
<1>9. ASSUME NEW c \in Callers, TakeLease(c) PROVE FlightOK'
  <2> DEFINE k0 == Key(caller[c])
  <2>1. /\ caller'[c].pc = IF k0 \in lease THEN "after" ELSE "fetch"
        /\ caller'[c].todo = caller[c].todo
        /\ \A d \in Callers \ {c} : caller'[d] = caller[d]
        /\ lease' = lease \cup {k0}
    BY <1>1, <1>9 DEF TakeLease, Becomes, QueryState
  <2>2. CASE k0 \in lease
    BY <2>1, <2>2, FlightKept DEF InFlight
  <2>3. CASE k0 \notin lease
    <3>1. Key(caller'[c]) = k0
      BY <2>1, SameKey
    <3>2. \A k \in Keys : Fetching(c, k)' => k = k0
      BY <3>1 DEF Fetching, InFlight
    <3>3. \A d \in Callers \ {c}, k \in Keys : Fetching(d, k)' => Fetching(d, k)
      BY <2>1 DEF Fetching, InFlight
    <3>4. \A d \in Callers \ {c}, k \in Keys : Fetching(d, k)' => k # k0 /\ k \in lease
      BY <2>3, <3>3 DEF FlightOK
    <3> QED
      BY <2>1, <3>2, <3>3, <3>4 DEF FlightOK, SingleFlight
  <2> QED
    BY <2>2, <2>3
<1>10. ASSUME NEW c \in Callers, ReadAfterLease(c) PROVE FlightOK'
  <2>1. /\ caller'[c].pc \in {"next", "refused"}
        /\ \A d \in Callers \ {c} : caller'[d] = caller[d]
    BY <1>1, <1>10, Resumed DEF ReadAfterLease, Becomes
  <2> QED
    BY <1>10, <2>1, FlightKept DEF ReadAfterLease, InFlight
<1>11. ASSUME NEW c \in Callers, Fetch(c) PROVE FlightOK'
  <2> DEFINE p == caller[c]
             q == [p EXCEPT !.pc = "write", !.payload = clock + 1]
             r(outcome) == [p EXCEPT !.pc = "release", !.outcome = outcome]
  <2>1. q.todo = p.todo /\ \A outcome : r(outcome).todo = p.todo
    BY <1>1 DEF QueryState
  <2>2. Becomes(c, q) \/ \E outcome \in {"failed", "invalid", "raised"} : Becomes(c, r(outcome))
    BY <1>11 DEF Fetch
  <2> HIDE DEF q, r
  <2>3. caller'[c].todo = p.todo
    BY <1>2, <2>1, <2>2
  <2>4. \A d \in Callers \ {c} : caller'[d] = caller[d]
    BY <1>2, <2>2
  <2>5. /\ caller'[c].todo = caller[c].todo
        /\ \A d \in Callers \ {c} : caller'[d] = caller[d]
    BY <2>3, <2>4
  <2> QED
    BY <1>11, <2>5, FlightKept DEF Fetch, InFlight
<1>12. ASSUME NEW c \in Callers, WriteEntry(c) PROVE FlightOK'
  <2>1. /\ caller'[c].todo = caller[c].todo
        /\ \A d \in Callers \ {c} : caller'[d] = caller[d]
    BY <1>1, <1>12 DEF WriteEntry, Becomes, QueryState
  <2> QED
    BY <1>12, <2>1, FlightKept DEF WriteEntry, InFlight
<1>13. ASSUME NEW c \in Callers, Release(c) PROVE FlightOK'
  <2>1. /\ caller'[c].pc \notin InFlight
        /\ \A d \in Callers \ {c} : caller'[d] = caller[d]
    BY <1>1, <1>13, Resumed DEF Release, Becomes, InFlight
  <2>2. \A d \in Callers, k \in Keys : Fetching(d, k)' => Fetching(d, k) /\ d # c
    BY <2>1 DEF Fetching, InFlight
  <2>3. Fetching(c, Key(caller[c])) /\ Key(caller[c]) \in Keys
    BY <1>13, TypeParts, Unanswered DEF Release, Fetching, Busy, InFlight
  <2>4. \A d \in Callers \ {c} : ~ Fetching(d, Key(caller[c]))
    BY <2>3 DEF FlightOK, SingleFlight
  <2>5. lease \ {Key(caller[c])} \subseteq lease'
    BY <1>13 DEF Release
  <2> QED
    BY <2>2, <2>4, <2>5 DEF FlightOK, SingleFlight
<1>14. ASSUME NEW c \in Callers, StoreError(c) PROVE FlightOK'
  <2>1. /\ caller'[c].pc = "idle"
        /\ \A d \in Callers \ {c} : caller'[d] = caller[d]
    BY <1>1, <1>14, Resumed DEF StoreError, Becomes
  <2> QED
    BY <1>14, <2>1, FlightKept DEF StoreError, InFlight
<1>15. ASSUME NEW s \in Services, Crash(s) PROVE FlightOK'
  <2>1. \A d \in Callers : caller'[d] = caller[d] \/ caller'[d] = Idle
    BY <1>15 DEF Crash
  <2>2. \A d \in Callers, k \in Keys : Fetching(d, k)' => Fetching(d, k)
    BY <2>1 DEF Fetching, InFlight, Idle
  <2> QED
    BY <1>15, <2>2 DEF Crash, FlightOK, SingleFlight
<1>16. CASE UNCHANGED vars
  BY <1>16 DEF vars, FlightOK, SingleFlight, Fetching, InFlight, Key
<1> QED
  BY <1>3, <1>4, <1>5, <1>6, <1>7, <1>8, <1>9, <1>10, <1>11, <1>12, <1>13,
     <1>14, <1>15, <1>16 DEF Next, QueryStep, Clear

\* At most one query calls the provider for a key at a time, of however many
\* callers and services, whether processes die or transactions raise, as long
\* as no administrator deletes the lease of a fetch under way.
THEOREM OneFetchPerKey == "clear" \notin Faults => (Spec => []SingleFlight)
<1> SUFFICES ASSUME "clear" \notin Faults PROVE Spec => []SingleFlight
  OBVIOUS
<1>1. Init => CallersOK /\ FlightOK
  <2>1. Init => FlightOK
    BY DEF Init, Idle, FlightOK, SingleFlight, Fetching, InFlight
  <2> QED
    BY <2>1, InitType
<1>2. CallersOK /\ FlightOK /\ [Next]_vars => (CallersOK /\ FlightOK)'
  BY TypeStep, FlightStep
<1>3. FlightOK => SingleFlight
  BY DEF FlightOK
<1> QED
  BY <1>1, <1>2, <1>3, PTL DEF Spec

----------------------------------------------------------------------------
(* Versions *)

\* What InWindow needs of the clock and the entries.
Versions(e, n) == e \in [Keys -> Nat] /\ n \in Nat /\ \A k \in Keys : e[k] <= n

LEMMA IdleInWindow ==
    ASSUME NEW e, NEW n, Versions(e, n)
    PROVE  InWindow(Idle, e, n) /\ InWindow(Refused, e, n)
BY DEF InWindow, Idle, Refused, Nothing, Versions

\* A query that does not step is not disturbed by later entries, if they are
\* not of a key it writes itself.
LEMMA StillInWindow ==
    ASSUME NEW q \in QueryState, NEW e, NEW n, NEW f, NEW m,
           Versions(e, n), Versions(f, m), InWindow(q, e, n),
           n <= m, \A k \in Keys : e[k] <= f[k],
           q.pc \in {"write", "release"} => f[Key(q)] = e[Key(q)]
    PROVE  InWindow(q, f, m)
<1>1. q.payload \in Nat /\ q.floor \in [Keys -> Nat]
      /\ q.existing \in [Keys -> Nat] /\ q.got \in [Keys -> Nat]
  BY DEF QueryState
<1>2. q.payload <= m
  BY <1>1 DEF InWindow, Versions
<1>3. /\ q.pc = "write" => f[Key(q)] < q.payload
      /\ q.pc = "release" /\ q.outcome = "stored" => q.payload = f[Key(q)]
  BY DEF InWindow
<1>4. ASSUME NEW k \in Keys
      PROVE  /\ q.floor[k] <= f[k]
             /\ q.existing[k] # 0 => q.floor[k] <= q.existing[k] /\ q.existing[k] <= f[k]
             /\ q.got[k] # 0 => q.floor[k] <= q.got[k] /\ q.got[k] <= f[k]
  <2>1. e[k] \in Nat /\ f[k] \in Nat /\ e[k] <= f[k]
    BY DEF Versions
  <2> QED
    BY <1>1, <2>1 DEF InWindow
<1> QED
  BY <1>2, <1>3, <1>4 DEF InWindow

LEMMA ObtainedInWindow ==
    ASSUME NEW q, CallerOK(q), q.pc \in Busy, NEW e, NEW n, Versions(e, n),
           InWindow(q, e, n), NEW record \in Nat, record = e[Key(q)]
    PROVE  InWindow(Obtained(q, record), e, n)
<1> DEFINE r == Obtained(q, record)
<1>1. q \in QueryState /\ Key(q) \in Keys
  BY Unanswered
<1>2. /\ r.pc = "next" /\ r.payload = 0 /\ r.floor = q.floor /\ r.existing = q.existing
      /\ r.got = [q.got EXCEPT ![Key(q)] = record]
  BY <1>1 DEF Obtained, QueryState
<1>3. q.got \in [Keys -> Nat]
  BY <1>1 DEF QueryState
<1>4. \A k \in Keys : r.got[k] = IF k = Key(q) THEN record ELSE q.got[k]
  BY <1>2, <1>3
<1>5. q.floor[Key(q)] <= record /\ record <= record
  BY <1>1 DEF InWindow
<1> HIDE DEF r
<1>6. InWindow(r, e, n)
  BY <1>2, <1>4, <1>5 DEF InWindow, Versions
<1> QED
  BY <1>6 DEF r

LEMMA FallbackInWindow ==
    ASSUME NEW q, CallerOK(q), q.pc \in Busy, NEW e, NEW n, Versions(e, n),
           InWindow(q, e, n)
    PROVE  InWindow(Fallback(q), e, n)
<1> DEFINE r == [q EXCEPT !.pc = "next",
                          !.got[Key(q)] = q.existing[Key(q)],
                          !.old = @ \cup {Key(q)},
                          !.todo = @ \ {Key(q)},
                          !.outcome = "none"]
<1>1. q \in QueryState /\ Key(q) \in Keys
  BY Unanswered
<1>2. /\ r.pc = "next" /\ r.payload = q.payload /\ r.floor = q.floor
      /\ r.existing = q.existing /\ r.got = [q.got EXCEPT ![Key(q)] = q.existing[Key(q)]]
  BY <1>1 DEF QueryState
<1>3. q.got \in [Keys -> Nat]
  BY <1>1 DEF QueryState
<1>4. \A k \in Keys : r.got[k] = IF k = Key(q) THEN q.existing[k] ELSE q.got[k]
  BY <1>2, <1>3
<1> HIDE DEF r
<1>5. InWindow(r, e, n)
  BY <1>2, <1>4 DEF InWindow
<1>6. Fallback(q) = r \/ Fallback(q) = Refused
  BY DEF Fallback, r
<1> QED
  BY <1>5, <1>6, IdleInWindow

LEMMA LeftInWindow ==
    ASSUME NEW q, CallerOK(q), q.pc = "release", NEW e, NEW n, Versions(e, n),
           InWindow(q, e, n)
    PROVE  InWindow(Left(q), e, n)
<1>1. q.pc \in Busy /\ q.payload \in Nat
  BY DEF Busy, InFlight, CallerOK, QueryState
<1>2. CASE q.outcome = "stored"
  <2>1. q.payload = e[Key(q)]
    BY <1>2 DEF InWindow
  <2>2. InWindow(Obtained(q, q.payload), e, n)
    BY <1>1, <2>1, ObtainedInWindow
  <2> QED
    BY <1>2, <2>2 DEF Left
<1>3. CASE q.outcome = "failed"
  BY <1>1, <1>3, FallbackInWindow DEF Left
<1>4. CASE q.outcome \notin {"stored", "failed"}
  BY <1>4, IdleInWindow DEF Left
<1> QED
  BY <1>2, <1>3, <1>4

\* Where only c moves and the entries stay, it is enough that c's records are
\* in the window.
LEMMA VersionsKept ==
    ASSUME CallersOK, CallersOK', VersionsOK, NEW c \in Callers,
           \A d \in Callers \ {c} : caller'[d] = caller[d],
           entry' = entry, clock' = clock, InWindow(caller'[c], entry, clock)
    PROVE  VersionsOK'
BY DEF VersionsOK

LEMMA VersionsStep ==
    ASSUME CallersOK, FlightOK, VersionsOK, CallersOK', [Next]_vars,
           "clear" \notin Faults
    PROVE  VersionsOK' /\ \A k \in Keys : entry[k] <= entry'[k]
<1>1. caller \in [Callers -> QueryState] /\ Versions(entry, clock)
  BY TypeParts DEF Versions, VersionsOK
<1>2. \A c \in Callers : CallerOK(caller[c]) /\ InWindow(caller[c], entry, clock)
  BY TypeParts DEF VersionsOK
<1>3. ASSUME NEW c \in Callers, NEW q, Becomes(c, q)
      PROVE  caller'[c] = q /\ \A d \in Callers \ {c} : caller'[d] = caller[d]
  BY <1>1, <1>3 DEF Becomes
<1>4. ASSUME NEW c \in Callers, NEW q, Becomes(c, q), InWindow(q, entry, clock),
             entry' = entry, clock' = clock
      PROVE  VersionsOK' /\ \A k \in Keys : entry[k] <= entry'[k]
  <2>1. VersionsOK'
    BY <1>3, <1>4, VersionsKept
  <2> QED
    BY <1>1, <1>4, <2>1 DEF Versions
<1>5. ASSUME NEW c \in Callers, Ask(c)
      PROVE  VersionsOK' /\ \A k \in Keys : entry[k] <= entry'[k]
  <2>1. PICK need \in (SUBSET Keys) \ {{}}, force \in BOOLEAN, stale \in BOOLEAN :
           Becomes(c, [Idle EXCEPT !.pc = "read", !.need = need, !.todo = need,
                                   !.force = force, !.stale = stale,
                                   !.asOf = clock, !.floor = entry])
    BY <1>5 DEF Ask
  <2> DEFINE q == [Idle EXCEPT !.pc = "read", !.need = need, !.todo = need,
                               !.force = force, !.stale = stale,
                               !.asOf = clock, !.floor = entry]
  <2>2. /\ q.pc = "read" /\ q.payload = 0 /\ q.floor = entry
        /\ q.existing = Nothing /\ q.got = Nothing
    BY DEF Idle
  <2>3. Becomes(c, q)
    BY <2>1
  <2> HIDE DEF q
  <2>4. InWindow(q, entry, clock)
    BY <1>1, <2>2 DEF InWindow, Versions, Nothing
  <2> QED
    BY <1>4, <1>5, <2>3, <2>4 DEF Ask
<1>6. ASSUME NEW c \in Callers, ReadExisting(c)
      PROVE  VersionsOK' /\ \A k \in Keys : entry[k] <= entry'[k]
  <2> DEFINE p == caller[c]
             q == [p EXCEPT !.existing[Key(p)] = entry[Key(p)], !.todo = @ \ {Key(p)}]
             r == [q EXCEPT !.pc = "next", !.todo = q.need]
             s == IF q.todo = {} THEN AllRead(q, Home[c]) ELSE q
  <2>1. p \in QueryState /\ p.pc = "read" /\ InWindow(p, entry, clock)
    BY <1>1, <1>2, <1>6 DEF ReadExisting
  <2>2. /\ q.pc = "read" /\ q.payload = p.payload /\ q.floor = p.floor /\ q.got = p.got
        /\ q.existing = [p.existing EXCEPT ![Key(p)] = entry[Key(p)]]
    BY <2>1 DEF QueryState
  <2>3. \A k \in Keys : q.existing[k] = IF k = Key(p) THEN entry[k] ELSE p.existing[k]
    BY <2>1, <2>2 DEF QueryState
  <2>4. /\ r.pc = "next" /\ r.payload = q.payload /\ r.floor = q.floor
        /\ r.got = q.got /\ r.existing = q.existing
    BY <2>1 DEF QueryState
  <2>5. Becomes(c, s)
    BY <1>6 DEF ReadExisting
  <2>6. s \in {q, r, Refused}
    BY DEF AllRead
  <2> HIDE DEF q, r, s
  <2>7. InWindow(q, entry, clock)
    BY <1>1, <2>1, <2>2, <2>3 DEF InWindow, Versions
  <2>8. InWindow(r, entry, clock)
    BY <2>4, <2>7 DEF InWindow
  <2>9. InWindow(s, entry, clock)
    BY <1>1, <2>6, <2>7, <2>8, IdleInWindow
  <2> QED
    BY <1>4, <1>6, <2>5, <2>9 DEF ReadExisting
<1>7. ASSUME NEW c \in Callers, UseExisting(c)
      PROVE  VersionsOK' /\ \A k \in Keys : entry[k] <= entry'[k]
  <2> DEFINE p == caller[c]
             q == [p EXCEPT !.got[Key(p)] = p.existing[Key(p)], !.todo = @ \ {Key(p)}]
  <2>1. p \in QueryState /\ p.pc = "next" /\ InWindow(p, entry, clock)
    BY <1>1, <1>2, <1>7 DEF UseExisting
  <2>2. /\ q.pc = "next" /\ q.payload = p.payload /\ q.floor = p.floor
        /\ q.existing = p.existing
        /\ q.got = [p.got EXCEPT ![Key(p)] = p.existing[Key(p)]]
    BY <2>1 DEF QueryState
  <2>3. \A k \in Keys : q.got[k] = IF k = Key(p) THEN p.existing[k] ELSE p.got[k]
    BY <2>1, <2>2 DEF QueryState
  <2>4. Becomes(c, q)
    BY <1>7 DEF UseExisting
  <2> HIDE DEF q
  <2>5. InWindow(q, entry, clock)
    BY <2>1, <2>2, <2>3 DEF InWindow
  <2> QED
    BY <1>4, <1>7, <2>4, <2>5 DEF UseExisting
<1>8. ASSUME NEW c \in Callers, Answer(c)
      PROVE  VersionsOK' /\ \A k \in Keys : entry[k] <= entry'[k]
  <2> DEFINE p == caller[c]
             q == [p EXCEPT !.pc = "done", !.source = Source(p),
                            !.existing = Nothing, !.fetched = {},
                            !.old = {}, !.stale = FALSE, !.floor = Nothing]
             r == [p EXCEPT !.pc = "done", !.source = "error"]
  <2>1. p \in QueryState /\ InWindow(p, entry, clock) /\ p.got \in [Keys -> Nat]
    BY <1>1, <1>2 DEF QueryState
  <2>2. /\ q.pc = "done" /\ q.payload = p.payload /\ q.floor = Nothing
        /\ q.existing = Nothing /\ q.got = p.got
    BY <2>1 DEF QueryState
  <2>3. /\ r.pc = "done" /\ r.payload = p.payload /\ r.floor = p.floor
        /\ r.existing = p.existing /\ r.got = p.got
    BY <2>1 DEF QueryState
  <2>4. Becomes(c, q) \/ Becomes(c, Refused) \/ Becomes(c, r)
    BY <1>8 DEF Answer
  <2> HIDE DEF q, r
  <2>5. InWindow(q, entry, clock)
    BY <1>1, <2>1, <2>2 DEF InWindow, Versions, Nothing
  <2>6. InWindow(r, entry, clock)
    BY <2>1, <2>3 DEF InWindow
  <2> QED
    BY <1>1, <1>4, <1>8, <2>4, <2>5, <2>6, IdleInWindow DEF Answer
<1>9. ASSUME NEW c \in Callers, NEW pc \in Steps \ {"write", "release"},
             Becomes(c, [caller[c] EXCEPT !.pc = pc]),
             entry' = entry, clock' = clock
      PROVE  VersionsOK' /\ \A k \in Keys : entry[k] <= entry'[k]
  <2> DEFINE p == caller[c]
             q == [p EXCEPT !.pc = pc]
  <2>1. /\ q.pc = pc /\ q.payload = p.payload /\ q.floor = p.floor
        /\ q.existing = p.existing /\ q.got = p.got
    BY <1>1 DEF QueryState
  <2>2. Becomes(c, q)
    BY <1>9
  <2> HIDE DEF q
  <2>3. InWindow(q, entry, clock)
    BY <1>2, <2>1 DEF InWindow
  <2> QED
    BY <1>4, <1>9, <2>2, <2>3
<1>10. ASSUME NEW c \in Callers, Recheck(c)
       PROVE  VersionsOK' /\ \A k \in Keys : entry[k] <= entry'[k]
  <2>1. CallerOK(caller[c]) /\ caller[c].pc \in Busy /\ Key(caller[c]) \in Keys
    BY <1>2, <1>10, Unanswered DEF Recheck, Busy
  <2>2. entry[Key(caller[c])] \in Nat
    BY <2>1, TypeParts
  <2>3. InWindow(Obtained(caller[c], entry[Key(caller[c])]), entry, clock)
    BY <1>1, <1>2, <2>1, <2>2, ObtainedInWindow
  <2> QED
    BY <1>4, <1>9, <1>10, <2>3 DEF Recheck, Steps
<1>11. ASSUME NEW c \in Callers, ReadAfterLease(c)
       PROVE  VersionsOK' /\ \A k \in Keys : entry[k] <= entry'[k]
  <2>1. CallerOK(caller[c]) /\ caller[c].pc \in Busy /\ Key(caller[c]) \in Keys
    BY <1>2, <1>11, Unanswered DEF ReadAfterLease, Busy
  <2>2. entry[Key(caller[c])] \in Nat
    BY <2>1, TypeParts
  <2>3. InWindow(Obtained(caller[c], entry[Key(caller[c])]), entry, clock)
    BY <1>1, <1>2, <2>1, <2>2, ObtainedInWindow
  <2>4. InWindow(Fallback(caller[c]), entry, clock)
    BY <1>1, <1>2, <2>1, FallbackInWindow
  <2>5. \/ Becomes(c, Obtained(caller[c], entry[Key(caller[c])]))
        \/ Becomes(c, Fallback(caller[c]))
    BY <1>11 DEF ReadAfterLease
  <2> QED
    BY <1>4, <1>11, <2>3, <2>4, <2>5 DEF ReadAfterLease
<1>12. ASSUME NEW c \in Callers, Fetch(c)
       PROVE  VersionsOK' /\ \A k \in Keys : entry[k] <= entry'[k]
  <2> DEFINE p == caller[c]
             q == [p EXCEPT !.pc = "write", !.payload = clock + 1]
             r(outcome) == [p EXCEPT !.pc = "release", !.outcome = outcome]
  <2>1. p \in QueryState /\ CallerOK(p) /\ p.pc \in Busy /\ p.pc = "fetch" /\ Key(p) \in Keys
        /\ InWindow(p, entry, clock)
    BY <1>1, <1>2, <1>12, Unanswered DEF Fetch, Busy, InFlight
  <2>2. /\ q.pc = "write" /\ q.payload = clock + 1 /\ q.floor = p.floor
        /\ q.existing = p.existing /\ q.got = p.got /\ q.todo = p.todo
    BY <2>1 DEF QueryState
  <2>3. ASSUME NEW outcome \in {"failed", "invalid", "raised"}
        PROVE  /\ r(outcome).pc = "release" /\ r(outcome).payload = p.payload
               /\ r(outcome).floor = p.floor /\ r(outcome).existing = p.existing
               /\ r(outcome).got = p.got /\ r(outcome).outcome # "stored"
    BY <2>1 DEF QueryState
  <2>4. \/ clock' = clock + 1 /\ Becomes(c, q)
        \/ clock' = clock /\ \E outcome \in {"failed", "invalid", "raised"} : Becomes(c, r(outcome))
    BY <1>12 DEF Fetch
  <2> HIDE DEF q, r
  <2>5. ASSUME NEW outcome \in {"failed", "invalid", "raised"}
        PROVE  InWindow(r(outcome), entry, clock)
    BY <2>1, <2>3 DEF InWindow
  <2>6. CASE clock' = clock + 1 /\ Becomes(c, q)
    <3>1. Key(q) = Key(p)
      BY <2>2, SameKey
    <3>2. entry[Key(p)] < clock + 1 /\ clock + 1 <= clock + 1
      BY <1>1, <2>1 DEF Versions
    <3>3. InWindow(q, entry, clock + 1)
      BY <2>1, <2>2, <3>1, <3>2 DEF InWindow
    <3>4. Versions(entry, clock + 1) /\ clock <= clock + 1
      BY <1>1 DEF Versions
    <3>5. ASSUME NEW d \in Callers \ {c} PROVE InWindow(caller'[d], entry, clock + 1)
      <4>1. caller'[d] = caller[d] /\ caller[d] \in QueryState
        BY <1>1, <1>3, <2>6
      <4>2. \A k \in Keys : entry[k] <= entry[k]
        BY <1>1 DEF Versions
      <4>3. InWindow(caller[d], entry, clock)
        BY <1>2
      <4>4. InWindow(caller[d], entry, clock + 1)
        BY <1>1, <3>4, <4>1, <4>2, <4>3, StillInWindow
      <4> QED
        BY <4>1, <4>4
    <3>6. entry' = entry /\ caller'[c] = q
      BY <1>3, <1>12, <2>6 DEF Fetch
    <3> QED
      BY <2>6, <3>3, <3>4, <3>5, <3>6 DEF VersionsOK, Versions
  <2>7. CASE clock' = clock /\ \E outcome \in {"failed", "invalid", "raised"} : Becomes(c, r(outcome))
    BY <1>4, <1>12, <2>5, <2>7 DEF Fetch
  <2> QED
    BY <2>4, <2>6, <2>7
<1>13. ASSUME NEW c \in Callers, WriteEntry(c)
       PROVE  VersionsOK' /\ \A k \in Keys : entry[k] <= entry'[k]
  <2> DEFINE p == caller[c]
             q(outcome) == [p EXCEPT !.pc = "release", !.outcome = outcome]
             e == [entry EXCEPT ![Key(p)] = p.payload]
  <2>1. p \in QueryState /\ CallerOK(p) /\ p.pc \in Busy /\ p.pc = "write" /\ Key(p) \in Keys
        /\ InWindow(p, entry, clock)
    BY <1>1, <1>2, <1>13, Unanswered DEF WriteEntry, Busy, InFlight
  <2>2. ASSUME NEW outcome \in {"stored", "raised"}
        PROVE  /\ q(outcome).pc = "release" /\ q(outcome).payload = p.payload
               /\ q(outcome).floor = p.floor /\ q(outcome).existing = p.existing
               /\ q(outcome).got = p.got /\ q(outcome).outcome = outcome
               /\ q(outcome).todo = p.todo
    BY <2>1 DEF QueryState
  <2>3. \/ entry' = e /\ Becomes(c, q("stored"))
        \/ entry' = entry /\ Becomes(c, q("raised"))
    BY <1>13 DEF WriteEntry
  <2>4. clock' = clock
    BY <1>13 DEF WriteEntry
  <2>5. p.payload \in Nat /\ p.payload <= clock /\ entry[Key(p)] < p.payload
    BY <2>1 DEF QueryState, InWindow
  <2>6. /\ \A k \in Keys : e[k] = IF k = Key(p) THEN p.payload ELSE entry[k]
        /\ e \in [Keys -> Nat]
    BY <1>1, <2>1, <2>5 DEF Versions
  <2> HIDE DEF q, e
  <2>7. Versions(e, clock) /\ \A k \in Keys : entry[k] <= e[k]
    BY <1>1, <2>5, <2>6 DEF Versions
  <2>8. CASE entry' = e /\ Becomes(c, q("stored"))
    <3>1. Key(q("stored")) = Key(p)
      BY <2>2, SameKey
    <3>2. p.floor \in [Keys -> Nat] /\ p.existing \in [Keys -> Nat] /\ p.got \in [Keys -> Nat]
      BY <2>1 DEF QueryState
    <3>3. ASSUME NEW k \in Keys
          PROVE  /\ p.floor[k] <= e[k]
                 /\ p.existing[k] # 0 => p.floor[k] <= p.existing[k] /\ p.existing[k] <= e[k]
                 /\ p.got[k] # 0 => p.floor[k] <= p.got[k] /\ p.got[k] <= e[k]
      <4>1. entry[k] \in Nat /\ e[k] \in Nat /\ entry[k] <= e[k]
        BY <1>1, <2>7 DEF Versions
      <4>2. /\ p.floor[k] <= entry[k]
            /\ p.existing[k] # 0 => p.floor[k] <= p.existing[k] /\ p.existing[k] <= entry[k]
            /\ p.got[k] # 0 => p.floor[k] <= p.got[k] /\ p.got[k] <= entry[k]
        BY <2>1 DEF InWindow
      <4> QED
        BY <3>2, <4>1, <4>2
    <3>4. p.payload = e[Key(p)]
      BY <2>1, <2>6
    <3>5. InWindow(q("stored"), e, clock)
      BY <2>2, <2>5, <3>1, <3>3, <3>4 DEF InWindow
    <3>6. ASSUME NEW d \in Callers \ {c} PROVE InWindow(caller[d], e, clock)
      <4>1. caller[d] \in QueryState /\ CallerOK(caller[d]) /\ InWindow(caller[d], entry, clock)
        BY <1>1, <1>2
      <4>2. ASSUME caller[d].pc \in {"write", "release"}
            PROVE  e[Key(caller[d])] = entry[Key(caller[d])]
        <5>1. Key(caller[d]) \in Keys
          BY <4>1, <4>2, Unanswered DEF Busy, InFlight
        <5>2. Fetching(d, Key(caller[d])) /\ Fetching(c, Key(p))
          BY <2>1, <4>2 DEF Fetching, InFlight
        <5>3. Key(caller[d]) # Key(p)
          BY <2>1, <5>1, <5>2 DEF FlightOK, SingleFlight
        <5> QED
          BY <2>6, <5>1, <5>3
      <4>3. clock <= clock
        BY <1>1 DEF Versions
      <4> QED
        BY <1>1, <2>7, <4>1, <4>2, <4>3, StillInWindow
    <3>7. caller'[c] = q("stored") /\ \A d \in Callers \ {c} : caller'[d] = caller[d]
      BY <1>3, <2>8
    <3> QED
      BY <2>4, <2>7, <2>8, <3>5, <3>6, <3>7 DEF VersionsOK, Versions
  <2>9. CASE entry' = entry /\ Becomes(c, q("raised"))
    <3>1. InWindow(q("raised"), entry, clock)
      BY <2>1, <2>2 DEF InWindow
    <3> QED
      BY <1>4, <2>4, <2>9, <3>1
  <2> QED
    BY <2>3, <2>8, <2>9
<1>14. ASSUME NEW c \in Callers, Release(c)
       PROVE  VersionsOK' /\ \A k \in Keys : entry[k] <= entry'[k]
  <2>1. InWindow(Left(caller[c]), entry, clock)
    BY <1>1, <1>2, <1>14, LeftInWindow DEF Release
  <2>2. Becomes(c, Left(caller[c])) \/ Becomes(c, Idle)
    BY <1>14 DEF Release
  <2> QED
    BY <1>1, <1>4, <1>14, <2>1, <2>2, IdleInWindow DEF Release
<1>15. ASSUME NEW c \in Callers, AwaitLock(c) \/ TakeLease(c)
       PROVE  VersionsOK' /\ \A k \in Keys : entry[k] <= entry'[k]
  <2>1. \E pc \in {"recheck", "after", "fetch"} : Becomes(c, [caller[c] EXCEPT !.pc = pc])
    BY <1>15 DEF AwaitLock, TakeLease
  <2>2. entry' = entry /\ clock' = clock
    BY <1>15 DEF AwaitLock, TakeLease
  <2> QED
    BY <1>9, <2>1, <2>2 DEF Steps
<1>16. ASSUME NEW c \in Callers, StoreError(c)
       PROVE  VersionsOK' /\ \A k \in Keys : entry[k] <= entry'[k]
  BY <1>1, <1>4, <1>16, IdleInWindow DEF StoreError
<1>17. ASSUME NEW s \in Services, Crash(s)
       PROVE  VersionsOK' /\ \A k \in Keys : entry[k] <= entry'[k]
  <2>1. \A d \in Callers : caller'[d] = caller[d] \/ caller'[d] = Idle
    BY <1>17 DEF Crash
  <2>2. entry' = entry /\ clock' = clock
    BY <1>17 DEF Crash
  <2> QED
    BY <1>1, <1>2, <2>1, <2>2, IdleInWindow DEF VersionsOK, Versions
<1>18. CASE UNCHANGED vars
  BY <1>1, <1>18 DEF vars, VersionsOK, Versions
<1> QED
  BY <1>5, <1>6, <1>7, <1>8, <1>10, <1>11, <1>12, <1>13, <1>14, <1>15, <1>16,
     <1>17, <1>18 DEF Next, QueryStep, Clear

LEMMA CacheInitInv == Init => IInv
<1> SUFFICES ASSUME Init PROVE IInv
  OBVIOUS
<1>1. CallersOK
  BY InitType
<1>2. FlightOK
  BY DEF Init, Idle, FlightOK, SingleFlight, Fetching, InFlight
<1>3. Versions(entry, clock) /\ \A c \in Callers : caller[c] = Idle
  BY DEF Init, Nothing, Versions
<1>4. VersionsOK
  BY <1>3, IdleInWindow DEF VersionsOK, Versions
<1> QED
  BY <1>1, <1>2, <1>4 DEF IInv

LEMMA CacheInvStep ==
    ASSUME IInv, [Next]_vars, "clear" \notin Faults
    PROVE  IInv' /\ \A k \in Keys : entry[k] <= entry'[k]
BY TypeStep, FlightStep, VersionsStep DEF IInv

\* What a query returns was stored and is no older than what was current when
\* it was asked, and what is current is never replaced by an earlier answer:
\* under any interleaving of any number of callers and services, crashes and
\* failing transactions, but no administrator who clears the cache.
THEOREM CacheInvariance == "clear" \notin Faults => (Spec => []IInv)
<1> SUFFICES ASSUME "clear" \notin Faults PROVE Spec => []IInv
  OBVIOUS
<1>1. IInv /\ [Next]_vars => IInv'
  BY CacheInvStep
<1> QED
  BY <1>1, CacheInitInv, PTL DEF Spec

\* The records of an answer lie between what was current when the query was
\* asked and what is current now.
THEOREM AnswersInWindow == "clear" \notin Faults => (Spec => []AnswerInWindow)
<1> SUFFICES ASSUME "clear" \notin Faults PROVE Spec => []AnswerInWindow
  OBVIOUS
<1>1. Spec => []IInv
  BY CacheInvariance
<1>2. IInv => AnswerInWindow
  <2> SUFFICES ASSUME IInv, NEW c \in Callers, NEW k \in caller[c].need,
                      caller[c].got[k] # 0
               PROVE  caller[c].floor[k] <= caller[c].got[k] /\ caller[c].got[k] <= entry[k]
    BY DEF AnswerInWindow
  <2>1. k \in Keys
    BY TypeParts DEF IInv, QueryState
  <2> QED
    BY <2>1 DEF IInv, VersionsOK, InWindow
<1> QED
  BY <1>1, <1>2, PTL

\* No fetch, however late its answer is written, takes a key back.
THEOREM NoStepBackwards == "clear" \notin Faults => (Spec => NeverBackwards)
<1> SUFFICES ASSUME "clear" \notin Faults PROVE Spec => NeverBackwards
  OBVIOUS
<1>1. Spec => []IInv
  BY CacheInvariance
<1>2. IInv /\ [Next]_vars =>
         [\A k \in Keys : entry[k] # 0 /\ entry'[k] # 0 => entry[k] <= entry'[k]]_vars
  BY CacheInvStep
<1> QED
  BY <1>1, <1>2, PTL DEF Spec, NeverBackwards

----------------------------------------------------------------------------
(* Complete answers *)

\* A query has a record for every requirement it is done with, and none of them
\* is empty.
Complete(q) ==
    /\ q.pc \in Busy \cup {"next"} => \A k \in q.need \ q.todo : q.got[k] # 0
    /\ q.source \notin {"none", "error"} => \A k \in q.need : q.got[k] # 0
    /\ q.pc = "write" \/ q.outcome = "stored" => q.payload # 0

LEMMA IdleComplete == Complete(Idle) /\ Complete(Refused)
BY DEF Complete, Idle, Refused, Busy, InFlight

LEMMA ObtainedComplete ==
    ASSUME NEW q, CallerOK(q), q.pc \in Busy, Complete(q), NEW record \in Nat \ {0}
    PROVE  Complete(Obtained(q, record))
<1> DEFINE r == Obtained(q, record)
<1>1. q \in QueryState /\ q.source = "none" /\ Key(q) \in Keys
  BY Unanswered
<1>2. /\ r.pc = "next" /\ r.source = "none" /\ r.outcome = "none" /\ r.need = q.need
      /\ r.todo = q.todo \ {Key(q)} /\ r.got = [q.got EXCEPT ![Key(q)] = record]
  BY <1>1 DEF Obtained, QueryState
<1>3. \A k \in Keys : r.got[k] = IF k = Key(q) THEN record ELSE q.got[k]
  BY <1>1, <1>2 DEF QueryState
<1>4. q.need \subseteq Keys
  BY <1>1 DEF QueryState
<1> HIDE DEF r
<1>5. Complete(r)
  BY <1>2, <1>3, <1>4 DEF Complete
<1> QED
  BY <1>5 DEF r

LEMMA FallbackComplete ==
    ASSUME NEW q, CallerOK(q), q.pc \in Busy, Complete(q)
    PROVE  Complete(Fallback(q))
<1> DEFINE r == [q EXCEPT !.pc = "next",
                          !.got[Key(q)] = q.existing[Key(q)],
                          !.old = @ \cup {Key(q)},
                          !.todo = @ \ {Key(q)},
                          !.outcome = "none"]
<1>1. q \in QueryState /\ q.source = "none" /\ Key(q) \in Keys
  BY Unanswered
<1>2. /\ r.pc = "next" /\ r.source = "none" /\ r.outcome = "none" /\ r.need = q.need
      /\ r.todo = q.todo \ {Key(q)} /\ r.got = [q.got EXCEPT ![Key(q)] = q.existing[Key(q)]]
  BY <1>1 DEF QueryState
<1>3. \A k \in Keys : r.got[k] = IF k = Key(q) THEN q.existing[Key(q)] ELSE q.got[k]
  BY <1>1, <1>2 DEF QueryState
<1>4. q.need \subseteq Keys
  BY <1>1 DEF QueryState
<1>5. Fallback(q) = IF q.existing[Key(q)] # 0 /\ q.stale THEN r ELSE Refused
  BY DEF Fallback
<1> HIDE DEF r
<1>6. q.existing[Key(q)] # 0 => Complete(r)
  BY <1>2, <1>3, <1>4 DEF Complete
<1> QED
  BY <1>5, <1>6, IdleComplete

LEMMA LeftComplete ==
    ASSUME NEW q, CallerOK(q), q.pc \in Busy, Complete(q)
    PROVE  Complete(Left(q))
<1>1. q.payload \in Nat
  BY DEF CallerOK, QueryState
<1>2. q.outcome = "stored" => Complete(Obtained(q, q.payload))
  BY <1>1, ObtainedComplete DEF Complete
<1> QED
  BY <1>2, FallbackComplete, IdleComplete DEF Left

\* Progress within _fetch_and_store.
LEMMA MovedComplete ==
    ASSUME NEW q \in QueryState, Complete(q), q.pc \in Busy \cup {"next"},
           NEW r \in QueryState, r.need = q.need, r.todo = q.todo, r.got = q.got,
           r.source = q.source,
           r.pc = "write" \/ r.outcome = "stored" => r.payload # 0
    PROVE  Complete(r)
BY DEF Complete

LEMMA CompleteStep ==
    ASSUME CallersOK, \A c \in Callers : Complete(caller[c]), [Next]_vars
    PROVE  \A c \in Callers : Complete(caller[c])'
<1>1. caller \in [Callers -> QueryState] /\ \A c \in Callers : CallerOK(caller[c])
  BY TypeParts
<1>2. entry \in [Keys -> Nat] /\ clock \in Nat
  BY TypeParts
<1>3. ASSUME NEW c \in Callers, NEW q, Becomes(c, q), Complete(q)
      PROVE  \A d \in Callers : Complete(caller[d])'
  <2>1. caller'[c] = q /\ \A d \in Callers \ {c} : caller'[d] = caller[d]
    BY <1>1, <1>3 DEF Becomes
  <2> QED
    BY <1>3, <2>1
<1>4. ASSUME NEW c \in Callers, Ask(c)
      PROVE  \A d \in Callers : Complete(caller[d])'
  <2>1. PICK need \in (SUBSET Keys) \ {{}}, force \in BOOLEAN, stale \in BOOLEAN :
           Becomes(c, [Idle EXCEPT !.pc = "read", !.need = need, !.todo = need,
                                   !.force = force, !.stale = stale,
                                   !.asOf = clock, !.floor = entry])
    BY <1>4 DEF Ask
  <2> DEFINE q == [Idle EXCEPT !.pc = "read", !.need = need, !.todo = need,
                               !.force = force, !.stale = stale,
                               !.asOf = clock, !.floor = entry]
  <2>2. q.pc = "read" /\ q.source = "none" /\ q.outcome = "none"
    BY DEF Idle
  <2> HIDE DEF q
  <2>3. Complete(q)
    BY <2>2 DEF Complete, Busy, InFlight
  <2> QED
    BY <1>3, <2>1, <2>3 DEF q
<1>5. ASSUME NEW c \in Callers, ReadExisting(c)
      PROVE  \A d \in Callers : Complete(caller[d])'
  <2> DEFINE p == caller[c]
             q == [p EXCEPT !.existing[Key(p)] = entry[Key(p)], !.todo = @ \ {Key(p)}]
             r == [q EXCEPT !.pc = "next", !.todo = q.need]
             s == IF q.todo = {} THEN AllRead(q, Home[c]) ELSE q
  <2>1. p \in QueryState /\ p.pc = "read" /\ p.source = "none" /\ Complete(p)
    BY <1>1, <1>5 DEF ReadExisting, CallerOK
  <2>2. q.pc = "read" /\ q.source = "none" /\ q.outcome = p.outcome /\ q.payload = p.payload
    BY <2>1 DEF QueryState
  <2>3. /\ r.pc = "next" /\ r.source = "none" /\ r.need = q.need /\ r.todo = q.need
        /\ r.outcome = q.outcome /\ r.payload = q.payload
    BY <2>1 DEF QueryState
  <2>4. Becomes(c, s)
    BY <1>5 DEF ReadExisting
  <2>5. s \in {q, r, Refused}
    BY DEF AllRead
  <2> HIDE DEF q, r, s
  <2>6. Complete(q) /\ Complete(r)
    BY <2>1, <2>2, <2>3 DEF Complete, Busy, InFlight
  <2> QED
    BY <1>3, <2>4, <2>5, <2>6, IdleComplete
<1>6. ASSUME NEW c \in Callers, UseExisting(c)
      PROVE  \A d \in Callers : Complete(caller[d])'
  <2> DEFINE p == caller[c]
             q == [p EXCEPT !.got[Key(p)] = p.existing[Key(p)], !.todo = @ \ {Key(p)}]
  <2>1. /\ p \in QueryState /\ p.pc = "next" /\ p.source = "none" /\ Complete(p)
        /\ p.existing[Key(p)] # 0
    BY <1>1, <1>6 DEF UseExisting, CallerOK, Hit
  <2>2. /\ q.pc = "next" /\ q.source = "none" /\ q.need = p.need /\ q.outcome = p.outcome
        /\ q.payload = p.payload /\ q.todo = p.todo \ {Key(p)}
        /\ q.got = [p.got EXCEPT ![Key(p)] = p.existing[Key(p)]]
    BY <2>1 DEF QueryState
  <2>3. \A k \in p.need : q.got[k] = IF k = Key(p) THEN p.existing[Key(p)] ELSE p.got[k]
    BY <2>1, <2>2 DEF QueryState
  <2>4. Becomes(c, q)
    BY <1>6 DEF UseExisting
  <2> HIDE DEF q
  <2>5. Complete(q)
    BY <2>1, <2>2, <2>3 DEF Complete
  <2> QED
    BY <1>3, <2>4, <2>5
<1>7. ASSUME NEW c \in Callers, Answer(c)
      PROVE  \A d \in Callers : Complete(caller[d])'
  <2> DEFINE p == caller[c]
             q == [p EXCEPT !.pc = "done", !.source = Source(p),
                            !.existing = Nothing, !.fetched = {},
                            !.old = {}, !.stale = FALSE, !.floor = Nothing]
             r == [p EXCEPT !.pc = "done", !.source = "error"]
  <2>1. p \in QueryState /\ Complete(p) /\ p.pc \in {"next", "refused"}
    BY <1>1, <1>7 DEF Answer
  <2>2. /\ q.pc = "done" /\ q.need = p.need /\ q.got = p.got /\ q.outcome = p.outcome
        /\ q.payload = p.payload
    BY <2>1 DEF QueryState
  <2>3. /\ r.pc = "done" /\ r.source = "error" /\ r.outcome = p.outcome
        /\ r.payload = p.payload
    BY <2>1 DEF QueryState
  <2>4. \/ p.pc = "next" /\ p.todo = {} /\ (Becomes(c, q) \/ Becomes(c, Refused))
        \/ Becomes(c, r)
    BY <1>7 DEF Answer
  <2> HIDE DEF q, r
  <2>5. Complete(r)
    BY <2>1, <2>3 DEF Complete, Busy, InFlight
  <2>6. p.pc = "next" /\ p.todo = {} => Complete(q)
    BY <2>1, <2>2 DEF Complete, Busy, InFlight
  <2> QED
    BY <1>3, <2>4, <2>5, <2>6, IdleComplete
<1>8. ASSUME NEW c \in Callers, NEW pc \in Steps \ {"write"}, caller[c].pc \in Busy \cup {"next"},
             Becomes(c, [caller[c] EXCEPT !.pc = pc])
      PROVE  \A d \in Callers : Complete(caller[d])'
  <2> DEFINE p == caller[c]
             q == [p EXCEPT !.pc = pc]
  <2>1. p \in QueryState /\ Complete(p)
    BY <1>1
  <2>2. /\ q \in QueryState /\ q.pc = pc /\ q.need = p.need /\ q.todo = p.todo /\ q.got = p.got
        /\ q.source = p.source /\ q.outcome = p.outcome /\ q.payload = p.payload
    BY <2>1 DEF QueryState
  <2> HIDE DEF q
  <2>3. Complete(q)
    BY <1>8, <2>1, <2>2, MovedComplete DEF Complete
  <2> QED
    BY <1>3, <1>8, <2>3 DEF q
<1>9. ASSUME NEW c \in Callers, AwaitLock(c) \/ TakeLease(c)
      PROVE  \A d \in Callers : Complete(caller[d])'
  BY <1>8, <1>9 DEF AwaitLock, TakeLease, Steps, Busy
<1>10. ASSUME NEW c \in Callers, Recheck(c)
       PROVE  \A d \in Callers : Complete(caller[d])'
  <2>1. CallerOK(caller[c]) /\ caller[c].pc \in Busy /\ Key(caller[c]) \in Keys
    BY <1>1, <1>10, Unanswered DEF Recheck, Busy
  <2>2. entry[Key(caller[c])] # 0 => Complete(Obtained(caller[c], entry[Key(caller[c])]))
    BY <1>2, <2>1, ObtainedComplete
  <2> QED
    BY <1>3, <1>8, <1>10, <2>1, <2>2 DEF Recheck, Steps
<1>11. ASSUME NEW c \in Callers, ReadAfterLease(c)
       PROVE  \A d \in Callers : Complete(caller[d])'
  <2>1. CallerOK(caller[c]) /\ caller[c].pc \in Busy /\ Key(caller[c]) \in Keys
    BY <1>1, <1>11, Unanswered DEF ReadAfterLease, Busy
  <2>2. entry[Key(caller[c])] # 0 => Complete(Obtained(caller[c], entry[Key(caller[c])]))
    BY <1>2, <2>1, ObtainedComplete
  <2>3. Complete(Fallback(caller[c]))
    BY <2>1, FallbackComplete
  <2> QED
    BY <1>3, <1>11, <2>2, <2>3 DEF ReadAfterLease
<1>12. ASSUME NEW c \in Callers, Fetch(c)
       PROVE  \A d \in Callers : Complete(caller[d])'
  <2> DEFINE p == caller[c]
             q == [p EXCEPT !.pc = "write", !.payload = clock + 1]
             r(outcome) == [p EXCEPT !.pc = "release", !.outcome = outcome]
  <2>1. p \in QueryState /\ Complete(p) /\ p.pc \in Busy
    BY <1>1, <1>12 DEF Fetch, Busy, InFlight
  <2>7. clock + 1 \in Nat /\ clock + 1 # 0
    BY <1>2
  <2>2. /\ q \in QueryState /\ q.need = p.need /\ q.todo = p.todo /\ q.got = p.got
        /\ q.source = p.source /\ q.payload = clock + 1
    BY <2>1, <2>7 DEF QueryState, Steps
  <2>3. ASSUME NEW outcome \in {"failed", "invalid", "raised"}
        PROVE  /\ r(outcome) \in QueryState /\ r(outcome).need = p.need
               /\ r(outcome).todo = p.todo /\ r(outcome).got = p.got
               /\ r(outcome).source = p.source /\ r(outcome).outcome = outcome
               /\ r(outcome).pc = "release"
    BY <2>1 DEF QueryState, Steps
  <2>4. \/ Becomes(c, q)
        \/ \E outcome \in {"failed", "invalid", "raised"} : Becomes(c, r(outcome))
    BY <1>12 DEF Fetch
  <2> HIDE DEF q, r
  <2>5. Complete(q)
    BY <2>1, <2>2, <2>7, MovedComplete
  <2>6. ASSUME NEW outcome \in {"failed", "invalid", "raised"} PROVE Complete(r(outcome))
    BY <2>1, <2>3, MovedComplete
  <2> QED
    BY <1>3, <2>4, <2>5, <2>6
<1>13. ASSUME NEW c \in Callers, WriteEntry(c)
       PROVE  \A d \in Callers : Complete(caller[d])'
  <2> DEFINE p == caller[c]
             q(outcome) == [p EXCEPT !.pc = "release", !.outcome = outcome]
  <2>1. p \in QueryState /\ Complete(p) /\ p.pc \in Busy /\ p.payload # 0
    BY <1>1, <1>13 DEF WriteEntry, Busy, InFlight, Complete
  <2>2. ASSUME NEW outcome \in {"stored", "raised"}
        PROVE  /\ q(outcome) \in QueryState /\ q(outcome).need = p.need
               /\ q(outcome).todo = p.todo /\ q(outcome).got = p.got
               /\ q(outcome).source = p.source /\ q(outcome).payload = p.payload
    BY <2>1 DEF QueryState, Steps
  <2>3. \E outcome \in {"stored", "raised"} : Becomes(c, q(outcome))
    BY <1>13 DEF WriteEntry
  <2> HIDE DEF q
  <2>4. ASSUME NEW outcome \in {"stored", "raised"} PROVE Complete(q(outcome))
    BY <2>1, <2>2, MovedComplete
  <2> QED
    BY <1>3, <2>3, <2>4
<1>14. ASSUME NEW c \in Callers, Release(c)
       PROVE  \A d \in Callers : Complete(caller[d])'
  <2>1. CallerOK(caller[c]) /\ caller[c].pc \in Busy
    BY <1>1, <1>14 DEF Release, Busy, InFlight
  <2>2. Becomes(c, Left(caller[c])) \/ Becomes(c, Idle)
    BY <1>14 DEF Release
  <2> QED
    BY <1>3, <2>1, <2>2, LeftComplete, IdleComplete
<1>15. ASSUME NEW c \in Callers, StoreError(c)
       PROVE  \A d \in Callers : Complete(caller[d])'
  BY <1>3, <1>15, IdleComplete DEF StoreError
<1>16. ASSUME NEW s \in Services, Crash(s)
       PROVE  \A d \in Callers : Complete(caller[d])'
  <2>1. \A d \in Callers : caller'[d] = caller[d] \/ caller'[d] = Idle
    BY <1>16 DEF Crash
  <2> QED
    BY <2>1, IdleComplete
<1>17. CASE Clear \/ UNCHANGED vars
  BY <1>17 DEF vars, Clear
<1> QED
  BY <1>4, <1>5, <1>6, <1>7, <1>9, <1>10, <1>11, <1>12, <1>13, <1>14, <1>15,
     <1>16, <1>17 DEF Next, QueryStep

\* An answer has a record for everything that was asked for, whichever of them
\* were read, fetched or fallen back on, and whatever failed meanwhile: with
\* every fault.
THEOREM AnswersAreComplete == Spec => []AnswerIsComplete
<1> DEFINE I == CallersOK /\ \A c \in Callers : Complete(caller[c])
<1>1. Init => I
  BY InitType, IdleComplete DEF Init
<1>2. I /\ [Next]_vars => I'
  BY TypeStep, CompleteStep
<1>3. I => AnswerIsComplete
  BY DEF AnswerIsComplete, Complete
<1> QED
  BY <1>1, <1>2, <1>3, PTL DEF Spec

----------------------------------------------------------------------------
(* Leases and locks *)

LEMMA OthersUnchanged ==
    ASSUME CallersOK, NEW c \in Callers, Ask(c) \/ QueryStep(c) \/ StoreError(c)
    PROVE  \A d \in Callers \ {c} : caller'[d] = caller[d]
<1>1. \E q : Becomes(c, q)
  BY DEF Ask, QueryStep, StoreError, ReadExisting, UseExisting, Answer, AwaitLock,
         Recheck, TakeLease, ReadAfterLease, Fetch, WriteEntry, Release
<1> QED
  BY <1>1 DEF Becomes

\* What a query is dealing with while it is fetched.
LEMMA InFlightMoves ==
    ASSUME CallersOK, NEW c \in Callers, Fetch(c) \/ WriteEntry(c)
    PROVE  /\ caller[c].pc \in InFlight /\ caller'[c].pc \in InFlight
           /\ caller'[c].todo = caller[c].todo
<1> DEFINE p == caller[c]
           q == [p EXCEPT !.pc = "write", !.payload = clock + 1]
           r(outcome) == [p EXCEPT !.pc = "release", !.outcome = outcome]
<1>1. p \in QueryState /\ p.pc \in InFlight
  BY TypeParts DEF Fetch, WriteEntry, InFlight
<1>2. /\ q.todo = p.todo /\ q.pc = "write"
      /\ \A outcome : r(outcome).todo = p.todo /\ r(outcome).pc = "release"
  BY <1>1 DEF QueryState
<1>3. Becomes(c, q) \/ \E outcome : Becomes(c, r(outcome))
  BY DEF Fetch, WriteEntry
<1> HIDE DEF q, r
<1>4. \A s : Becomes(c, s) => caller'[c] = s
  BY TypeParts DEF Becomes
<1> QED
  BY <1>1, <1>2, <1>3, <1>4 DEF InFlight

\* Once the lock is held and until it is released, the key stays the same.
LEMMA BusyMoves ==
    ASSUME CallersOK, NEW c \in Callers, TakeLease(c) \/ Fetch(c) \/ WriteEntry(c)
    PROVE  caller[c].pc \in Busy /\ caller'[c].todo = caller[c].todo
<1>1. CASE TakeLease(c)
  BY <1>1, TypeParts DEF TakeLease, Becomes, Busy, QueryState
<1> QED
  BY <1>1, InFlightMoves DEF Busy

\* A step of c that takes no lease and leaves none.
LEMMA HeldKept ==
    ASSUME LeaseIsHeld, NEW c \in Callers,
           \A d \in Callers \ {c} : caller'[d] = caller[d],
           lease' \subseteq lease,
           \/ caller[c].pc \notin InFlight
           \/ caller'[c].pc \in InFlight /\ caller'[c].todo = caller[c].todo
    PROVE  LeaseIsHeld'
<1> SUFFICES ASSUME NEW k \in lease' PROVE \E d \in Callers : Fetching(d, k)'
  BY DEF LeaseIsHeld
<1>1. PICK d \in Callers : Fetching(d, k)
  BY DEF LeaseIsHeld
<1>2. Fetching(d, k)'
  <2>1. CASE d # c
    BY <1>1, <2>1 DEF Fetching, InFlight
  <2>2. CASE d = c
    <3>1. caller'[c].pc \in InFlight /\ caller'[c].todo = caller[c].todo
      BY <1>1, <2>2 DEF Fetching, InFlight
    <3> QED
      BY <1>1, <2>2, <3>1, SameKey DEF Fetching, InFlight
  <2> QED
    BY <2>1, <2>2
<1> QED
  BY <1>2

LEMMA HeldStep ==
    ASSUME CallersOK, LeaseIsHeld, [Next]_vars, "crash" \notin Faults, "store" \notin Faults
    PROVE  LeaseIsHeld'
<1>1. ASSUME NEW c \in Callers,
             \/ Ask(c) \/ ReadExisting(c) \/ UseExisting(c) \/ Answer(c)
             \/ AwaitLock(c) \/ Recheck(c) \/ ReadAfterLease(c)
      PROVE  LeaseIsHeld'
  <2>1. \A d \in Callers \ {c} : caller'[d] = caller[d]
    BY <1>1, OthersUnchanged DEF QueryStep
  <2>2. lease' = lease /\ caller[c].pc \notin InFlight
    BY <1>1 DEF Ask, ReadExisting, UseExisting, Answer, AwaitLock, Recheck,
                ReadAfterLease, InFlight
  <2> QED
    BY <2>1, <2>2, HeldKept
<1>2. ASSUME NEW c \in Callers, Fetch(c) \/ WriteEntry(c) PROVE LeaseIsHeld'
  <2>1. \A d \in Callers \ {c} : caller'[d] = caller[d]
    BY <1>2, OthersUnchanged DEF QueryStep
  <2>2. lease' = lease
    BY <1>2 DEF Fetch, WriteEntry
  <2> QED
    BY <1>2, <2>1, <2>2, InFlightMoves, HeldKept
<1>3. ASSUME NEW c \in Callers, TakeLease(c) PROVE LeaseIsHeld'
  <2> DEFINE k0 == Key(caller[c])
  <2>1. \A d \in Callers \ {c} : caller'[d] = caller[d]
    BY <1>3, OthersUnchanged DEF QueryStep
  <2>2. /\ caller[c].pc = "lease" /\ lease' = lease \cup {k0}
        /\ caller'[c].todo = caller[c].todo
        /\ k0 \notin lease => caller'[c].pc = "fetch"
    BY <1>3, TypeParts DEF TakeLease, Becomes, QueryState
  <2>3. CASE k0 \in lease
    BY <2>1, <2>2, <2>3, HeldKept DEF InFlight
  <2>4. CASE k0 \notin lease
    <3> SUFFICES ASSUME NEW k \in lease' PROVE \E d \in Callers : Fetching(d, k)'
      BY DEF LeaseIsHeld
    <3>1. CASE k = k0
      <4>1. Key(caller'[c]) = k0
        BY <2>2, SameKey
      <4> QED
        BY <2>2, <2>4, <3>1, <4>1 DEF Fetching, InFlight
    <3>2. CASE k # k0
      <4>1. PICK d \in Callers : Fetching(d, k)
        BY <2>2, <3>2 DEF LeaseIsHeld
      <4>2. d # c
        BY <2>2, <4>1 DEF Fetching, InFlight
      <4> QED
        BY <2>1, <4>1, <4>2 DEF Fetching, InFlight
    <3> QED
      BY <3>1, <3>2
  <2> QED
    BY <2>3, <2>4
<1>4. ASSUME NEW c \in Callers, Release(c) PROVE LeaseIsHeld'
  <2>1. \A d \in Callers \ {c} : caller'[d] = caller[d]
    BY <1>4, OthersUnchanged DEF QueryStep
  <2>2. lease' = lease \ {Key(caller[c])}
    BY <1>4 DEF Release, Commits
  <2> SUFFICES ASSUME NEW k \in lease' PROVE \E d \in Callers : Fetching(d, k)'
    BY DEF LeaseIsHeld
  <2>3. PICK d \in Callers : Fetching(d, k)
    BY <2>2 DEF LeaseIsHeld
  <2>4. d # c
    BY <2>2, <2>3 DEF Fetching, InFlight
  <2> QED
    BY <2>1, <2>3, <2>4 DEF Fetching, InFlight
<1>5. CASE Clear \/ UNCHANGED vars
  <2>1. caller' = caller /\ lease' \subseteq lease
    BY <1>5 DEF Clear, vars
  <2> QED
    BY <2>1 DEF LeaseIsHeld, Fetching, InFlight
<1> QED
  BY <1>1, <1>2, <1>3, <1>4, <1>5 DEF Next, QueryStep, StoreError, Crash

\* As long as no process dies and no transaction raises, a lease that is found
\* taken belongs to a query that will release it, even if an administrator
\* deletes leases.
THEOREM LeasesAreHeld ==
    "crash" \notin Faults /\ "store" \notin Faults => (Spec => []LeaseIsHeld)
<1> SUFFICES ASSUME "crash" \notin Faults, "store" \notin Faults
             PROVE  Spec => []LeaseIsHeld
  OBVIOUS
<1> DEFINE I == CallersOK /\ LeaseIsHeld
<1>1. Init => I
  BY InitType DEF Init, LeaseIsHeld
<1>2. I /\ [Next]_vars => I'
  BY TypeStep, HeldStep
<1> QED
  BY <1>1, <1>2, PTL DEF Spec

\* Whoever is between taking and releasing the lock of a key holds it, alone.
Locked ==
    /\ \A c \in Callers : caller[c].pc \in Busy => Key(caller[c]) \in locked[Home[c]]
    /\ \A c, d \in Callers :
          /\ caller[c].pc \in Busy /\ caller[d].pc \in Busy
          /\ Home[c] = Home[d] /\ Key(caller[c]) = Key(caller[d])
          => c = d

\* A step of c that neither takes nor releases a lock.
LEMMA LockedKept ==
    ASSUME Locked, NEW c \in Callers,
           \A d \in Callers \ {c} : caller'[d] = caller[d],
           locked' = locked,
           \/ caller'[c].pc \notin Busy
           \/ caller[c].pc \in Busy /\ caller'[c].todo = caller[c].todo
    PROVE  Locked'
<1>1. ASSUME NEW d \in Callers, caller'[d].pc \in Busy
      PROVE  caller[d].pc \in Busy /\ Key(caller'[d]) = Key(caller[d])
  BY <1>1, SameKey
<1> QED
  BY <1>1 DEF Locked

\* A step of c that releases its lock.
LEMMA LockedReleased ==
    ASSUME CallersOK, Locked, NEW c \in Callers,
           \A d \in Callers \ {c} : caller'[d] = caller[d],
           caller[c].pc \in Busy, caller'[c].pc \notin Busy, Unlock(c)
    PROVE  Locked'
<1>1. locked \in [Services -> SUBSET Keys] /\ Home \in [Callers -> Services]
  BY TypeParts, CacheConstants
<1>2. ASSUME NEW d \in Callers, caller'[d].pc \in Busy
      PROVE  d # c /\ caller'[d] = caller[d]
  BY <1>2
<1>3. ASSUME NEW d \in Callers, caller'[d].pc \in Busy
      PROVE  Key(caller'[d]) \in locked'[Home[d]]
  <2>1. Key(caller[d]) \in locked[Home[d]] /\ caller[d].pc \in Busy /\ d # c
    BY <1>2, <1>3 DEF Locked
  <2>2. Home[d] = Home[c] => Key(caller[d]) # Key(caller[c])
    BY <2>1 DEF Locked
  <2>3. locked'[Home[d]] = IF Home[d] = Home[c] THEN locked[Home[c]] \ {Key(caller[c])}
                                                ELSE locked[Home[d]]
    BY <1>1 DEF Unlock
  <2> QED
    BY <1>2, <1>3, <2>1, <2>2, <2>3
<1> QED
  BY <1>2, <1>3 DEF Locked

LEMMA LockedStep ==
    ASSUME CallersOK, Locked, [Next]_vars
    PROVE  Locked'
<1>1. caller \in [Callers -> QueryState] /\ Home \in [Callers -> Services]
      /\ locked \in [Services -> SUBSET Keys]
  BY TypeParts, CacheConstants
<1>2. ASSUME NEW c \in Callers, NEW q, Becomes(c, q)
      PROVE  caller'[c] = q
  BY <1>1, <1>2 DEF Becomes
<1>3. ASSUME NEW c \in Callers, Ask(c) \/ ReadExisting(c) \/ UseExisting(c) \/ Answer(c)
      PROVE  Locked'
  <2>1. \A d \in Callers \ {c} : caller'[d] = caller[d]
    BY <1>3, OthersUnchanged DEF QueryStep
  <2>2. locked' = locked
    BY <1>3 DEF Ask, ReadExisting, UseExisting, Answer
  <2>3. caller'[c].pc \notin Busy
    <3>1. CASE Ask(c)
      BY <1>1, <3>1 DEF Ask, Becomes, Idle, Busy, InFlight
    <3>2. CASE ReadExisting(c)
      <4> DEFINE p == caller[c]
                 q == [p EXCEPT !.existing[Key(p)] = entry[Key(p)], !.todo = @ \ {Key(p)}]
                 r == [q EXCEPT !.pc = "next", !.todo = q.need]
      <4>1. q.pc = "read" /\ r.pc = "next" /\ Refused.pc = "refused"
        BY <1>1, <3>2, Resumed DEF ReadExisting, QueryState
      <4>2. Becomes(c, q) \/ Becomes(c, r) \/ Becomes(c, Refused)
        BY <3>2 DEF ReadExisting, AllRead
      <4> HIDE DEF q, r
      <4> QED
        BY <1>2, <4>1, <4>2 DEF Busy, InFlight
    <3>3. CASE UseExisting(c)
      BY <1>1, <3>3 DEF UseExisting, Becomes, QueryState, Busy, InFlight
    <3>4. CASE Answer(c)
      <4> DEFINE p == caller[c]
                 q == [p EXCEPT !.pc = "done", !.source = Source(p),
                                !.existing = Nothing, !.fetched = {},
                                !.old = {}, !.stale = FALSE, !.floor = Nothing]
                 r == [p EXCEPT !.pc = "done", !.source = "error"]
      <4>1. q.pc = "done" /\ r.pc = "done" /\ Refused.pc = "refused"
        BY <1>1, Resumed DEF QueryState
      <4>2. Becomes(c, q) \/ Becomes(c, Refused) \/ Becomes(c, r)
        BY <3>4 DEF Answer
      <4> HIDE DEF q, r
      <4> QED
        BY <1>2, <4>1, <4>2 DEF Busy, InFlight
    <3> QED
      BY <1>3, <3>1, <3>2, <3>3, <3>4
  <2> QED
    BY <2>1, <2>2, <2>3, LockedKept
<1>4. ASSUME NEW c \in Callers, TakeLease(c) \/ Fetch(c) \/ WriteEntry(c) PROVE Locked'
  <2>1. \A d \in Callers \ {c} : caller'[d] = caller[d]
    BY <1>4, OthersUnchanged DEF QueryStep
  <2>2. locked' = locked
    BY <1>4 DEF TakeLease, Fetch, WriteEntry
  <2> QED
    BY <1>4, <2>1, <2>2, BusyMoves, LockedKept
<1>5. ASSUME NEW c \in Callers, AwaitLock(c) PROVE Locked'
  <2> DEFINE k0 == Key(caller[c])
  <2>1. \A d \in Callers \ {c} : caller'[d] = caller[d]
    BY <1>5, OthersUnchanged DEF QueryStep
  <2>2. caller'[c].todo = caller[c].todo
    BY <1>1, <1>5 DEF AwaitLock, Becomes, QueryState
  <2>3. Key(caller'[c]) = k0
    BY <2>2, SameKey
  <2>4. /\ k0 \notin locked[Home[c]]
        /\ \A s \in Services : locked'[s] = IF s = Home[c] THEN locked[s] \cup {k0}
                                                           ELSE locked[s]
    BY <1>1, <1>5 DEF AwaitLock
  <2>5. \A d \in Callers \ {c} : caller[d].pc \in Busy =>
            Key(caller[d]) \in locked[Home[d]] /\ (Home[d] = Home[c] => Key(caller[d]) # k0)
    BY <2>4 DEF Locked
  <2>6. ASSUME NEW d \in Callers, caller'[d].pc \in Busy
        PROVE  Key(caller'[d]) \in locked'[Home[d]]
    <3>1. Home[d] \in Services
      BY <1>1
    <3>2. CASE d = c
      BY <2>3, <2>4, <3>1, <3>2
    <3>3. CASE d # c
      BY <2>1, <2>4, <2>5, <2>6, <3>1, <3>3
    <3> QED
      BY <3>2, <3>3
  <2>7. ASSUME NEW d \in Callers, NEW e \in Callers,
               caller'[d].pc \in Busy, caller'[e].pc \in Busy,
               Home[d] = Home[e], Key(caller'[d]) = Key(caller'[e])
        PROVE  d = e
    BY <2>1, <2>3, <2>5, <2>7 DEF Locked
  <2> QED
    BY <2>6, <2>7 DEF Locked
<1>6. ASSUME NEW c \in Callers, Recheck(c) \/ ReadAfterLease(c) \/ Release(c) \/ StoreError(c)
      PROVE  Locked'
  <2> DEFINE p == caller[c]
             q == [p EXCEPT !.pc = "lease"]
  <2>1. \A d \in Callers \ {c} : caller'[d] = caller[d]
    BY <1>6, OthersUnchanged DEF QueryStep
  <2>2. p \in QueryState /\ q.todo = p.todo
    BY <1>1 DEF QueryState
  <2>3. \/ p.pc \in Busy /\ Unlock(c)
           /\ \/ \E record : Becomes(c, Obtained(p, record))
              \/ Becomes(c, Fallback(p)) \/ Becomes(c, Left(p)) \/ Becomes(c, Idle)
        \/ locked' = locked /\ Becomes(c, Idle)
        \/ p.pc \in Busy /\ locked' = locked /\ Becomes(c, q)
    BY <1>6 DEF Recheck, ReadAfterLease, Release, StoreError, Busy, InFlight
  <2> HIDE DEF q
  <2>4. CASE p.pc \in Busy /\ Unlock(c)
             /\ \/ \E record : Becomes(c, Obtained(p, record))
                \/ Becomes(c, Fallback(p)) \/ Becomes(c, Left(p)) \/ Becomes(c, Idle)
    <3>1. caller'[c].pc \notin Busy
      BY <1>2, <2>2, <2>4, Resumed DEF Busy, InFlight
    <3> QED
      BY <2>1, <2>4, <3>1, LockedReleased
  <2>5. CASE locked' = locked /\ Becomes(c, Idle)
    <3>1. caller'[c].pc \notin Busy
      BY <1>2, <2>5 DEF Idle, Busy, InFlight
    <3> QED
      BY <2>1, <2>5, <3>1, LockedKept
  <2>6. CASE p.pc \in Busy /\ locked' = locked /\ Becomes(c, q)
    BY <1>2, <2>1, <2>2, <2>6, LockedKept
  <2> QED
    BY <2>3, <2>4, <2>5, <2>6
<1>7. ASSUME NEW s \in Services, Crash(s) PROVE Locked'
  <2>1. \A d \in Callers : caller'[d] = IF Home[d] = s THEN Idle ELSE caller[d]
    BY <1>7 DEF Crash
  <2>2. \A t \in Services \ {s} : locked'[t] = locked[t]
    BY <1>1, <1>7 DEF Crash
  <2>3. \A d \in Callers : caller'[d].pc \in Busy => Home[d] # s /\ caller'[d] = caller[d]
    BY <2>1 DEF Idle, Busy, InFlight
  <2> QED
    BY <1>1, <2>2, <2>3 DEF Locked
<1>8. CASE Clear \/ UNCHANGED vars
  <2>1. caller' = caller /\ locked' = locked
    BY <1>8 DEF Clear, vars
  <2> QED
    BY <2>1 DEF Locked
<1> QED
  BY <1>3, <1>4, <1>5, <1>6, <1>7, <1>8 DEF Next, QueryStep

----------------------------------------------------------------------------
(* No lock is left behind *)

\* A step of c outside its lock's block, or inside and staying in it.
LEMMA LocksKept ==
    ASSUME LockIsHeld, NEW c \in Callers,
           \A d \in Callers \ {c} : caller'[d] = caller[d], locked' = locked,
           caller[c].pc \in Busy =>
               caller'[c].pc \in Busy /\ caller'[c].todo = caller[c].todo
    PROVE  LockIsHeld'
<1>1. ASSUME NEW d \in Callers, caller[d].pc \in Busy
      PROVE  caller'[d].pc \in Busy /\ Key(caller'[d]) = Key(caller[d])
  BY <1>1, SameKey
<1> QED
  BY <1>1 DEF LockIsHeld

\* A step of c that releases its lock.
LEMMA LocksReleased ==
    ASSUME CallersOK, LockIsHeld, NEW c \in Callers,
           \A d \in Callers \ {c} : caller'[d] = caller[d], Unlock(c)
    PROVE  LockIsHeld'
<1>1. locked \in [Services -> SUBSET Keys] /\ Home \in [Callers -> Services]
  BY TypeParts, CacheConstants
<1>2. ASSUME NEW s \in Services, NEW k \in locked'[s]
      PROVE  \E d \in Callers : /\ Home[d] = s /\ caller'[d].pc \in Busy
                                /\ Key(caller'[d]) = k
  <2>1. k \in locked[s] /\ ~ (s = Home[c] /\ k = Key(caller[c]))
    BY <1>1, <1>2 DEF Unlock
  <2>2. PICK d \in Callers : Home[d] = s /\ caller[d].pc \in Busy /\ Key(caller[d]) = k
    BY <2>1 DEF LockIsHeld
  <2>3. caller'[d] = caller[d]
    BY <2>1, <2>2
  <2> QED
    BY <2>2, <2>3
<1> QED
  BY <1>2 DEF LockIsHeld

LEMMA LocksStep ==
    ASSUME CallersOK, LockIsHeld, [Next]_vars
    PROVE  LockIsHeld'
<1>1. caller \in [Callers -> QueryState] /\ Home \in [Callers -> Services]
      /\ locked \in [Services -> SUBSET Keys]
  BY TypeParts, CacheConstants
<1>2. ASSUME NEW c \in Callers, Ask(c) \/ QueryStep(c) \/ StoreError(c)
      PROVE  \A d \in Callers \ {c} : caller'[d] = caller[d]
  BY <1>2, OthersUnchanged
<1>3. ASSUME NEW c \in Callers, Ask(c) \/ ReadExisting(c) \/ UseExisting(c) \/ Answer(c)
      PROVE  LockIsHeld'
  <2>1. locked' = locked /\ caller[c].pc \notin Busy
    BY <1>3 DEF Ask, ReadExisting, UseExisting, Answer, Busy, InFlight
  <2> QED
    BY <1>2, <1>3, <2>1, LocksKept DEF QueryStep
<1>4. ASSUME NEW c \in Callers, TakeLease(c) \/ Fetch(c) \/ WriteEntry(c)
      PROVE  LockIsHeld'
  <2>1. locked' = locked /\ caller[c].pc \in Busy /\ caller'[c].todo = caller[c].todo
    BY <1>4, BusyMoves DEF TakeLease, Fetch, WriteEntry
  <2>2. caller'[c].pc \in Busy
    <3>1. CASE TakeLease(c)
      BY <1>1, <3>1 DEF TakeLease, Becomes, QueryState, Busy, InFlight
    <3> QED
      BY <1>4, <3>1, InFlightMoves DEF Busy
  <2> QED
    BY <1>2, <1>4, <2>1, <2>2, LocksKept DEF QueryStep
<1>5. ASSUME NEW c \in Callers, AwaitLock(c)
      PROVE  LockIsHeld'
  <2>1. caller'[c].todo = caller[c].todo /\ caller'[c].pc = "recheck"
    BY <1>1, <1>5 DEF AwaitLock, Becomes, QueryState
  <2>2. Key(caller'[c]) = Key(caller[c]) /\ caller[c].pc \notin Busy
        /\ caller'[c].pc \in Busy
    BY <1>5, <2>1, SameKey DEF AwaitLock, Busy, InFlight
  <2>3. \A d \in Callers : caller[d].pc \in Busy => caller'[d] = caller[d]
    BY <1>2, <1>5, <2>2 DEF QueryStep
  <2>4. \A s \in Services : \A k \in locked'[s] :
            k \in locked[s] \/ (s = Home[c] /\ k = Key(caller[c]))
    BY <1>1, <1>5 DEF AwaitLock
  <2> QED
    BY <2>2, <2>3, <2>4 DEF LockIsHeld
<1>6. ASSUME NEW c \in Callers, Recheck(c)
      PROVE  LockIsHeld'
  <2>1. CASE Unlock(c)
    BY <1>2, <1>6, <2>1, LocksReleased DEF QueryStep
  <2>2. CASE locked' = locked /\ Becomes(c, [caller[c] EXCEPT !.pc = "lease"])
    <3>1. caller'[c].pc \in Busy /\ caller'[c].todo = caller[c].todo
      BY <1>1, <2>2 DEF Becomes, QueryState, Busy
    <3> QED
      BY <1>2, <1>6, <2>2, <3>1, LocksKept DEF QueryStep
  <2> QED
    BY <1>6, <2>1, <2>2 DEF Recheck
<1>7. ASSUME NEW c \in Callers, ReadAfterLease(c) \/ Release(c)
      PROVE  LockIsHeld'
  <2>1. Unlock(c)
    BY <1>7 DEF ReadAfterLease, Release
  <2> QED
    BY <1>2, <1>7, <2>1, LocksReleased DEF QueryStep
<1>8. ASSUME NEW c \in Callers, StoreError(c)
      PROVE  LockIsHeld'
  <2>1. CASE Unlock(c)
    BY <1>2, <1>8, <2>1, LocksReleased
  <2>2. CASE locked' = locked /\ caller[c].pc \notin Busy
    BY <1>2, <1>8, <2>2, LocksKept
  <2> QED
    BY <1>8, <2>1, <2>2 DEF StoreError, Busy, InFlight
<1>9. ASSUME NEW s \in Services, Crash(s)
      PROVE  LockIsHeld'
  <2>1. \A d \in Callers : Home[d] # s => caller'[d] = caller[d]
    BY <1>9 DEF Crash
  <2>2. \A t \in Services : \A k \in locked'[t] : t # s /\ k \in locked[t]
    BY <1>1, <1>9 DEF Crash
  <2> QED
    BY <2>1, <2>2 DEF LockIsHeld
<1>10. CASE Clear \/ UNCHANGED vars
  <2>1. caller' = caller /\ locked' = locked
    BY <1>10 DEF Clear, vars
  <2> QED
    BY <2>1 DEF LockIsHeld
<1> QED
  BY <1>3, <1>4, <1>5, <1>6, <1>7, <1>8, <1>9, <1>10 DEF Next, QueryStep

LEMMA LocksInitially == Init => Locked /\ LockIsHeld
BY CacheConstants DEF Init, Locked, LockIsHeld, Idle, Busy, InFlight

\* LockIsHeld, with every fault: no lock outlives the query that took it.
THEOREM LocksAreHeld == Spec => []LockIsHeld
<1> DEFINE I == CallersOK /\ LockIsHeld
<1>1. Init => I
  BY InitType, LocksInitially
<1>2. I /\ [Next]_vars => I'
  BY TypeStep, LocksStep
<1> QED
  BY <1>1, <1>2, PTL DEF Spec

\* SingleFlight for one service, with every fault: when an administrator has
\* deleted the lease of a fetch under way, the lock still keeps others out.
THEOREM OneFetchPerService ==
    (\A c, d \in Callers : Home[c] = Home[d]) => (Spec => []SingleFlight)
<1> SUFFICES ASSUME \A c, d \in Callers : Home[c] = Home[d]
             PROVE  Spec => []SingleFlight
  OBVIOUS
<1> DEFINE I == CallersOK /\ Locked
<1>1. Init => I
  BY InitType, LocksInitially
<1>2. I /\ [Next]_vars => I'
  BY TypeStep, LockedStep
<1>3. I => SingleFlight
  BY DEF Locked, SingleFlight, Fetching, Busy
<1> QED
  BY <1>1, <1>2, <1>3, PTL DEF Spec

----------------------------------------------------------------------------
(* Queries advance *)

\* The requirements left, counted.
LEMMA TodoCount ==
    ASSUME IsFiniteSet(Keys), NEW q \in QueryState
    PROVE  /\ Cardinality(q.todo) \in Nat /\ Cardinality(q.need) \in Nat
           /\ q.todo # {} => /\ Cardinality(q.todo) >= 1
                             /\ Cardinality(q.todo \ {Key(q)}) = Cardinality(q.todo) - 1
<1>1. q.todo \subseteq Keys /\ q.need \subseteq Keys
  BY DEF QueryState
<1>2. /\ IsFiniteSet(q.todo)
      /\ Cardinality(q.todo) \in Nat /\ Cardinality(q.need) \in Nat
  BY <1>1, FS_Subset, FS_CardinalityType
<1>3. ASSUME q.todo # {}
      PROVE  /\ Cardinality(q.todo) # 0
             /\ Cardinality(q.todo \ {Key(q)}) = Cardinality(q.todo) - 1
  BY <1>1, <1>2, <1>3, KeyIsTodo, FS_EmptySet, FS_RemoveElement
<1> QED
  BY <1>2, <1>3

LEMMA StepsLeftIs ==
    ASSUME NEW q
    PROVE  /\ q.pc \in {"idle", "done"} => StepsLeft(q) = 0
           /\ q.pc = "refused" => StepsLeft(q) = 1
           /\ q.pc = "release" => StepsLeft(q) = 8 * Cardinality(q.todo) - 4
           /\ q.pc = "write"   => StepsLeft(q) = 8 * Cardinality(q.todo) - 3
           /\ q.pc \in {"fetch", "after"} => StepsLeft(q) = 8 * Cardinality(q.todo) - 2
           /\ q.pc = "lease"   => StepsLeft(q) = 8 * Cardinality(q.todo) - 1
           /\ q.pc = "recheck" => StepsLeft(q) = 8 * Cardinality(q.todo)
           /\ q.pc = "next"    => StepsLeft(q) = 8 * Cardinality(q.todo) + 2
           /\ q.pc = "read"    =>
                 StepsLeft(q) = 8 * Cardinality(q.need) + 3 + Cardinality(q.todo)
BY DEF StepsLeft

\* To be refused, or to be over, is nearer to the end than to be open.
LEMMA EndIsNearer ==
    ASSUME IsFiniteSet(Keys), NEW q, CallerOK(q), q.pc \notin {"idle", "done"}
    PROVE  /\ StepsLeft(Idle) < StepsLeft(q)
           /\ q.pc # "refused" => StepsLeft(Refused) < StepsLeft(q)
           /\ \A r : r.pc = "done" => StepsLeft(r) < StepsLeft(q)
<1>1. q \in QueryState /\ q.pc \in Steps
  BY DEF CallerOK, QueryState
<1>2. /\ Cardinality(q.todo) \in Nat /\ Cardinality(q.need) \in Nat
      /\ q.pc \in Busy \cup {"read"} => Cardinality(q.todo) >= 1
  BY <1>1, TodoCount DEF CallerOK
<1>3. q.pc # "refused" => StepsLeft(q) \in Nat /\ StepsLeft(q) >= 2
  BY <1>1, <1>2, StepsLeftIs DEF Steps, Busy, InFlight
<1>4. /\ StepsLeft(Idle) = 0 /\ StepsLeft(Refused) = 1
      /\ \A r : r.pc = "done" => StepsLeft(r) = 0
  BY StepsLeftIs DEF Idle, Refused
<1>5. q.pc = "refused" => StepsLeft(q) = 1
  BY StepsLeftIs
<1> QED
  BY <1>3, <1>4, <1>5

\* To be done with a requirement is nearer than to be in the lock's block for it.
LEMMA NextIsNearer ==
    ASSUME IsFiniteSet(Keys), NEW q, CallerOK(q), q.pc \in Busy,
           NEW r, r.pc = "next", r.todo = q.todo \ {Key(q)}
    PROVE  StepsLeft(r) < StepsLeft(q)
<1>1. q \in QueryState /\ q.todo # {}
  BY DEF CallerOK
<1>2. /\ Cardinality(q.todo) \in Nat /\ Cardinality(q.todo) >= 1
      /\ Cardinality(r.todo) = Cardinality(q.todo) - 1
  BY <1>1, TodoCount
<1>3. StepsLeft(r) = 8 * Cardinality(q.todo) - 6
  <2>1. StepsLeft(r) = 8 * Cardinality(r.todo) + 2
    BY StepsLeftIs
  <2> QED
    BY <1>2, <2>1
<1>4. StepsLeft(q) >= 8 * Cardinality(q.todo) - 4
  BY <1>2, StepsLeftIs DEF Busy, InFlight
<1>5. StepsLeft(q) \in Int
  BY <1>2, StepsLeftIs DEF Busy, InFlight
<1> QED
  BY <1>2, <1>3, <1>4, <1>5

LEMMA LeavingIsNearer ==
    ASSUME IsFiniteSet(Keys), NEW q, CallerOK(q), q.pc \in Busy
    PROVE  /\ \A record : StepsLeft(Obtained(q, record)) < StepsLeft(q)
           /\ StepsLeft(Fallback(q)) < StepsLeft(q)
           /\ StepsLeft(Left(q)) < StepsLeft(q)
<1>1. q \in QueryState /\ q.pc \notin {"idle", "done", "refused"}
  BY DEF CallerOK, Busy, InFlight
<1>2. ASSUME NEW record
      PROVE  StepsLeft(Obtained(q, record)) < StepsLeft(q)
  <2> DEFINE r == Obtained(q, record)
  <2>1. r.pc = "next" /\ r.todo = q.todo \ {Key(q)}
    BY <1>1 DEF Obtained, QueryState
  <2> HIDE DEF r
  <2> QED
    BY <2>1, NextIsNearer DEF r
<1>3. StepsLeft(Fallback(q)) < StepsLeft(q)
  <2> DEFINE r == [q EXCEPT !.pc = "next", !.got[Key(q)] = q.existing[Key(q)],
                            !.old = @ \cup {Key(q)}, !.todo = @ \ {Key(q)},
                            !.outcome = "none"]
  <2>1. r.pc = "next" /\ r.todo = q.todo \ {Key(q)}
    BY <1>1 DEF QueryState
  <2>2. Fallback(q) = r \/ Fallback(q) = Refused
    BY DEF Fallback
  <2> HIDE DEF r
  <2> QED
    BY <1>1, <2>1, <2>2, NextIsNearer, EndIsNearer
<1>4. StepsLeft(Left(q)) < StepsLeft(q)
  BY <1>1, <1>2, <1>3, EndIsNearer DEF Left
<1> QED
  BY <1>2, <1>3, <1>4

LEMMA CallerAdvances ==
    ASSUME CallersOK, IsFiniteSet(Keys), NEW c \in Callers,
           caller[c].pc \notin {"idle", "done"}, QueryStep(c) \/ StoreError(c)
    PROVE  StepsLeft(caller'[c]) < StepsLeft(caller[c])
<1> DEFINE p == caller[c]
           n == Cardinality(p.todo)
<1>1. CallerOK(p) /\ p \in QueryState /\ caller \in [Callers -> QueryState]
  BY TypeParts
<1>2. \A q : Becomes(c, q) => caller'[c] = q
  BY <1>1 DEF Becomes
<1>3. n \in Nat /\ Cardinality(p.need) \in Nat
      /\ (p.todo # {} => n >= 1 /\ Cardinality(p.todo \ {Key(p)}) = n - 1)
  BY <1>1, TodoCount
<1>4. /\ StepsLeft(Idle) < StepsLeft(p)
      /\ p.pc # "refused" => StepsLeft(Refused) < StepsLeft(p)
      /\ \A r : r.pc = "done" => StepsLeft(r) < StepsLeft(p)
  BY <1>1, EndIsNearer
<1>5. ASSUME p.pc \in Busy
      PROVE  /\ \A record : StepsLeft(Obtained(p, record)) < StepsLeft(p)
             /\ StepsLeft(Fallback(p)) < StepsLeft(p)
             /\ StepsLeft(Left(p)) < StepsLeft(p)
  BY <1>1, <1>5, LeavingIsNearer
<1> HIDE DEF n
<1>6. CASE ReadExisting(c)
  <2> DEFINE q == [p EXCEPT !.existing[Key(p)] = entry[Key(p)], !.todo = @ \ {Key(p)}]
             r == [q EXCEPT !.pc = "next", !.todo = q.need]
  <2>1. p.pc = "read" /\ p.todo # {}
    BY <1>1, <1>6 DEF ReadExisting, CallerOK
  <2>2. /\ q.pc = "read" /\ q.need = p.need /\ q.todo = p.todo \ {Key(p)}
        /\ r.pc = "next" /\ r.todo = p.need
    BY <1>1, <2>1 DEF QueryState
  <2>3. Becomes(c, q) \/ Becomes(c, r) \/ Becomes(c, Refused)
    BY <1>6 DEF ReadExisting, AllRead
  <2> HIDE DEF q, r
  <2>4. /\ StepsLeft(p) = 8 * Cardinality(p.need) + 3 + n
        /\ StepsLeft(q) = 8 * Cardinality(p.need) + 3 + (n - 1)
        /\ StepsLeft(r) = 8 * Cardinality(p.need) + 2
    BY <1>3, <2>1, <2>2, StepsLeftIs DEF n
  <2>5. StepsLeft(q) < StepsLeft(p) /\ StepsLeft(r) < StepsLeft(p)
    BY <1>3, <2>1, <2>4
  <2> QED
    BY <1>2, <1>4, <2>1, <2>3, <2>5
<1>7. CASE UseExisting(c)
  <2> DEFINE q == [p EXCEPT !.got[Key(p)] = p.existing[Key(p)], !.todo = @ \ {Key(p)}]
  <2>1. p.pc = "next" /\ p.todo # {} /\ Becomes(c, q)
    BY <1>7 DEF UseExisting
  <2>2. q.pc = "next" /\ q.todo = p.todo \ {Key(p)}
    BY <1>1, <2>1 DEF QueryState
  <2> HIDE DEF q
  <2>3. StepsLeft(p) = 8 * n + 2 /\ StepsLeft(q) = 8 * (n - 1) + 2
    BY <1>3, <2>1, <2>2, StepsLeftIs DEF n
  <2> QED
    BY <1>2, <1>3, <2>1, <2>3
<1>8. CASE Answer(c)
  <2> DEFINE q == [p EXCEPT !.pc = "done", !.source = Source(p),
                            !.existing = Nothing, !.fetched = {},
                            !.old = {}, !.stale = FALSE, !.floor = Nothing]
             r == [p EXCEPT !.pc = "done", !.source = "error"]
  <2>1. q.pc = "done" /\ r.pc = "done"
    BY <1>1 DEF QueryState
  <2>2. Becomes(c, q) \/ Becomes(c, r) \/ (p.pc = "next" /\ Becomes(c, Refused))
    BY <1>8 DEF Answer
  <2> HIDE DEF q, r
  <2> QED
    BY <1>2, <1>4, <2>1, <2>2
<1>9. CASE AwaitLock(c)
  <2>1. /\ p.pc = "next" /\ caller'[c].pc = "recheck" /\ caller'[c].todo = p.todo
    BY <1>1, <1>9 DEF AwaitLock, Becomes, QueryState
  <2>2. StepsLeft(p) = 8 * n + 2 /\ StepsLeft(caller'[c]) = 8 * n
    BY <2>1, StepsLeftIs DEF n
  <2> QED
    BY <1>3, <2>2
<1>10. CASE Recheck(c)
  <2>1. p.pc = "recheck" /\ p.pc \in Busy
    BY <1>10 DEF Recheck, Busy
  <2>2. CASE Becomes(c, Obtained(p, entry[Key(p)]))
    BY <1>2, <1>5, <2>1, <2>2
  <2>3. CASE Becomes(c, [p EXCEPT !.pc = "lease"])
    <3>1. caller'[c].pc = "lease" /\ caller'[c].todo = p.todo
      BY <1>1, <2>3 DEF Becomes, QueryState
    <3>2. StepsLeft(p) = 8 * n /\ StepsLeft(caller'[c]) = 8 * n - 1
      BY <2>1, <3>1, StepsLeftIs DEF n
    <3> QED
      BY <1>3, <3>2
  <2> QED
    BY <1>10, <2>2, <2>3 DEF Recheck
<1>11. CASE TakeLease(c)
  <2>1. /\ p.pc = "lease" /\ caller'[c].pc \in {"after", "fetch"}
        /\ caller'[c].todo = p.todo
    BY <1>1, <1>11 DEF TakeLease, Becomes, QueryState
  <2>2. StepsLeft(p) = 8 * n - 1 /\ StepsLeft(caller'[c]) = 8 * n - 2
    BY <2>1, StepsLeftIs DEF n
  <2> QED
    BY <1>3, <2>2
<1>12. CASE ReadAfterLease(c)
  <2>1. p.pc \in Busy
    BY <1>12 DEF ReadAfterLease, Busy
  <2>2. Becomes(c, Obtained(p, entry[Key(p)])) \/ Becomes(c, Fallback(p))
    BY <1>12 DEF ReadAfterLease
  <2> QED
    BY <1>2, <1>5, <2>1, <2>2
<1>13. CASE Fetch(c)
  <2> DEFINE q == [p EXCEPT !.pc = "write", !.payload = clock + 1]
             r(outcome) == [p EXCEPT !.pc = "release", !.outcome = outcome]
  <2>1. /\ q.pc = "write" /\ q.todo = p.todo
        /\ \A outcome : r(outcome).pc = "release" /\ r(outcome).todo = p.todo
    BY <1>1 DEF QueryState
  <2>2. p.pc = "fetch" /\ (Becomes(c, q) \/ \E outcome : Becomes(c, r(outcome)))
    BY <1>13 DEF Fetch
  <2> HIDE DEF q, r
  <2>3. caller'[c].pc \in {"write", "release"} /\ caller'[c].todo = p.todo
    BY <1>2, <2>1, <2>2
  <2>4. StepsLeft(p) = 8 * n - 2 /\ StepsLeft(caller'[c]) \in {8 * n - 3, 8 * n - 4}
    BY <2>2, <2>3, StepsLeftIs DEF n
  <2> QED
    BY <1>3, <2>4
<1>14. CASE WriteEntry(c)
  <2> DEFINE r(outcome) == [p EXCEPT !.pc = "release", !.outcome = outcome]
  <2>1. \A outcome : r(outcome).pc = "release" /\ r(outcome).todo = p.todo
    BY <1>1 DEF QueryState
  <2>2. p.pc = "write" /\ \E outcome : Becomes(c, r(outcome))
    BY <1>14 DEF WriteEntry
  <2> HIDE DEF r
  <2>3. caller'[c].pc = "release" /\ caller'[c].todo = p.todo
    BY <1>2, <2>1, <2>2
  <2>4. StepsLeft(p) = 8 * n - 3 /\ StepsLeft(caller'[c]) = 8 * n - 4
    BY <2>2, <2>3, StepsLeftIs DEF n
  <2> QED
    BY <1>3, <2>4
<1>15. CASE Release(c)
  <2>1. p.pc \in Busy /\ (Becomes(c, Left(p)) \/ Becomes(c, Idle))
    BY <1>15 DEF Release, Busy, InFlight
  <2> QED
    BY <1>2, <1>4, <1>5, <2>1
<1>16. CASE StoreError(c)
  <2>1. Becomes(c, Idle)
    BY <1>16 DEF StoreError
  <2> QED
    BY <1>2, <1>4, <2>1
<1> QED
  BY <1>6, <1>7, <1>8, <1>9, <1>10, <1>11, <1>12, <1>13, <1>14, <1>15, <1>16
     DEF QueryStep

LEMMA AllAdvance ==
    ASSUME CallersOK, IsFiniteSet(Keys), [Next]_vars, NEW c \in Callers,
           caller[c].pc \notin {"idle", "done"}
    PROVE  caller'[c] = caller[c] \/ StepsLeft(caller'[c]) < StepsLeft(caller[c])
<1>1. CASE QueryStep(c) \/ StoreError(c)
  BY <1>1, CallerAdvances
<1>2. ASSUME NEW d \in Callers, d # c, Ask(d) \/ QueryStep(d) \/ StoreError(d)
      PROVE  caller'[c] = caller[c]
  BY <1>2, OthersUnchanged
<1>3. ~ Ask(c)
  BY DEF Ask
<1>4. ASSUME NEW s \in Services, Crash(s)
      PROVE  caller'[c] = caller[c] \/ StepsLeft(caller'[c]) < StepsLeft(caller[c])
  <2>1. caller'[c] = caller[c] \/ caller'[c] = Idle
    BY <1>4 DEF Crash
  <2>2. StepsLeft(Idle) < StepsLeft(caller[c])
    BY TypeParts, EndIsNearer
  <2> QED
    BY <2>1, <2>2
<1>5. CASE Clear \/ UNCHANGED vars
  BY <1>5 DEF Clear, vars
<1> QED
  BY <1>1, <1>2, <1>3, <1>4, <1>5 DEF Next

\* QueriesAdvance, with every fault: a query takes a bounded number of steps,
\* nine for each of its keys and a few more.  With LocksAreHeld, what QueriesEnd
\* still needs is that whoever can take a step does.
THEOREM QueriesGoForward == IsFiniteSet(Keys) => (Spec => QueriesAdvance)
<1> SUFFICES ASSUME IsFiniteSet(Keys) PROVE Spec => QueriesAdvance
  OBVIOUS
<1> DEFINE Advance == \A c \in Callers : caller[c].pc \notin {"idle", "done"} =>
                          caller'[c] = caller[c] \/ StepsLeft(caller'[c]) < StepsLeft(caller[c])
<1>1. CallersOK /\ [Next]_vars => [Advance]_vars
  BY AllAdvance
<1>2. CallersOK /\ [Next]_vars => CallersOK'
  BY TypeStep
<1>3. Init => CallersOK
  BY InitType
<1> QED
  BY <1>1, <1>2, <1>3, PTL DEF Spec, QueriesAdvance

----------------------------------------------------------------------------
(* Fresh answers *)

\* Given the clock n: what a query of a forced refresh has fetched is younger
\* than the query.
Fresh(q, n) ==
    /\ q.asOf <= n
    /\ q.pc # "after"
    /\ q.fetched \cap q.todo = {}
    /\ q.pc = "read" => q.fetched = {}
    /\ q.pc = "write" \/ q.outcome = "stored" => q.asOf < q.payload
    /\ q.force => \A k \in q.fetched : q.asOf < q.got[k]
    /\ q.source = "external_refresh" => \A k \in q.need : q.asOf < q.got[k]

LEMMA IdleFresh ==
    ASSUME NEW n \in Nat
    PROVE  Fresh(Idle, n) /\ Fresh(Refused, n)
BY DEF Fresh, Idle, Refused

LEMMA ObtainedFresh ==
    ASSUME NEW n \in Nat, NEW q, CallerOK(q), q.pc \in Busy, Fresh(q, n),
           NEW record \in Nat, q.force => q.asOf < record
    PROVE  Fresh(Obtained(q, record), n)
<1> DEFINE r == Obtained(q, record)
<1>1. q \in QueryState /\ q.source = "none" /\ Key(q) \in q.todo /\ Key(q) \in Keys
  BY Unanswered
<1>2. /\ r.pc = "next" /\ r.source = "none" /\ r.outcome = "none" /\ r.need = q.need
      /\ r.todo = q.todo \ {Key(q)} /\ r.got = [q.got EXCEPT ![Key(q)] = record]
      /\ r.fetched = q.fetched \cup {Key(q)} /\ r.force = q.force /\ r.asOf = q.asOf
  BY <1>1 DEF Obtained, QueryState
<1>3. \A k \in Keys : r.got[k] = IF k = Key(q) THEN record ELSE q.got[k]
  BY <1>1, <1>2 DEF QueryState
<1>4. q.fetched \subseteq Keys
  BY <1>1 DEF QueryState
<1> HIDE DEF r
<1>5. r.force => \A k \in r.fetched : r.asOf < r.got[k]
  BY <1>1, <1>2, <1>3, <1>4 DEF Fresh
<1>6. Fresh(r, n)
  BY <1>2, <1>5 DEF Fresh
<1> QED
  BY <1>6 DEF r

LEMMA FallbackFresh ==
    ASSUME NEW n \in Nat, NEW q, CallerOK(q), q.pc \in Busy, Fresh(q, n)
    PROVE  Fresh(Fallback(q), n)
<1> DEFINE r == [q EXCEPT !.pc = "next",
                          !.got[Key(q)] = q.existing[Key(q)],
                          !.old = @ \cup {Key(q)},
                          !.todo = @ \ {Key(q)},
                          !.outcome = "none"]
<1>1. q \in QueryState /\ q.source = "none" /\ Key(q) \in q.todo /\ Key(q) \in Keys
  BY Unanswered
<1>2. /\ r.pc = "next" /\ r.source = "none" /\ r.outcome = "none" /\ r.need = q.need
      /\ r.todo = q.todo \ {Key(q)} /\ r.got = [q.got EXCEPT ![Key(q)] = q.existing[Key(q)]]
      /\ r.fetched = q.fetched /\ r.force = q.force /\ r.asOf = q.asOf
  BY <1>1 DEF QueryState
<1>3. \A k \in Keys \ {Key(q)} : r.got[k] = q.got[k]
  BY <1>1, <1>2 DEF QueryState
<1>4. q.fetched \subseteq Keys /\ Key(q) \notin q.fetched
  BY <1>1 DEF QueryState, Fresh
<1>5. Fallback(q) = IF q.existing[Key(q)] # 0 /\ q.stale THEN r ELSE Refused
  BY DEF Fallback
<1> HIDE DEF r
<1>6. r.force => \A k \in r.fetched : r.asOf < r.got[k]
  BY <1>2, <1>3, <1>4 DEF Fresh
<1>7. Fresh(r, n)
  BY <1>2, <1>6 DEF Fresh
<1> QED
  BY <1>5, <1>7, IdleFresh

LEMMA LeftFresh ==
    ASSUME NEW n \in Nat, NEW q, CallerOK(q), q.pc \in Busy, Fresh(q, n)
    PROVE  Fresh(Left(q), n)
<1>1. q.payload \in Nat
  BY DEF CallerOK, QueryState
<1>2. q.outcome = "stored" => Fresh(Obtained(q, q.payload), n)
  BY <1>1, ObtainedFresh DEF Fresh
<1> QED
  BY <1>2, FallbackFresh, IdleFresh DEF Left

\* Progress of a query that changes neither its records nor its requirements.
LEMMA MovedFresh ==
    ASSUME NEW n \in Nat, NEW q \in QueryState, Fresh(q, n), q.source = "none",
           NEW r \in QueryState, r.todo = q.todo, r.got = q.got, r.fetched = q.fetched,
           r.force = q.force, r.asOf = q.asOf, r.source = q.source,
           r.pc \notin {"after", "read"},
           r.pc = "write" \/ r.outcome = "stored" => q.asOf < r.payload
    PROVE  Fresh(r, n)
BY DEF Fresh

\* A query of the one service finds no lease taken: nobody else fetches a key
\* whose lock it holds.
LEMMA LeaseIsFree ==
    ASSUME CallersOK, LeaseIsHeld, Locked, \A c, d \in Callers : Home[c] = Home[d],
           NEW c \in Callers, caller[c].pc = "lease"
    PROVE  Key(caller[c]) \notin lease
<1> SUFFICES ASSUME Key(caller[c]) \in lease PROVE FALSE
  OBVIOUS
<1>1. PICK d \in Callers : Fetching(d, Key(caller[c]))
  BY DEF LeaseIsHeld
<1>2. d = c
  BY <1>1 DEF Fetching, Locked, Busy, InFlight
<1> QED
  BY <1>1, <1>2 DEF Fetching, InFlight

LEMMA FreshStep ==
    ASSUME CallersOK, LeaseIsHeld, Locked, \A c \in Callers : Fresh(caller[c], clock),
           [Next]_vars, "crash" \notin Faults, "store" \notin Faults,
           \A c, d \in Callers : Home[c] = Home[d]
    PROVE  \A c \in Callers : Fresh(caller[c], clock)'
<1>1. caller \in [Callers -> QueryState] /\ \A c \in Callers : CallerOK(caller[c])
  BY TypeParts
<1>2. entry \in [Keys -> Nat] /\ clock \in Nat
  BY TypeParts
<1>3. ASSUME NEW c \in Callers, NEW q, Becomes(c, q), Fresh(q, clock'),
             clock' = clock \/ clock' = clock + 1
      PROVE  \A d \in Callers : Fresh(caller[d], clock)'
  <2>1. caller'[c] = q /\ \A d \in Callers \ {c} : caller'[d] = caller[d]
    BY <1>1, <1>3 DEF Becomes
  <2>2. ASSUME NEW d \in Callers PROVE Fresh(caller[d], clock')
    <3>1. caller[d].asOf \in Nat
      BY <1>1 DEF QueryState
    <3>2. caller[d].asOf <= clock'
      BY <1>2, <1>3, <3>1 DEF Fresh
    <3> QED
      BY <3>2 DEF Fresh
  <2> QED
    BY <1>3, <2>1, <2>2
<1>4. ASSUME NEW c \in Callers, Ask(c)
      PROVE  \A d \in Callers : Fresh(caller[d], clock)'
  <2>1. PICK need \in (SUBSET Keys) \ {{}}, force \in BOOLEAN, stale \in BOOLEAN :
           Becomes(c, [Idle EXCEPT !.pc = "read", !.need = need, !.todo = need,
                                   !.force = force, !.stale = stale,
                                   !.asOf = clock, !.floor = entry])
    BY <1>4 DEF Ask
  <2> DEFINE q == [Idle EXCEPT !.pc = "read", !.need = need, !.todo = need,
                               !.force = force, !.stale = stale,
                               !.asOf = clock, !.floor = entry]
  <2>2. /\ q.pc = "read" /\ q.source = "none" /\ q.outcome = "none" /\ q.fetched = {}
        /\ q.asOf = clock
    BY DEF Idle
  <2>3. clock' = clock
    BY <1>4 DEF Ask
  <2> HIDE DEF q
  <2>4. Fresh(q, clock')
    BY <1>2, <2>2, <2>3 DEF Fresh
  <2> QED
    BY <1>3, <2>1, <2>3, <2>4 DEF q
<1>5. ASSUME NEW c \in Callers, ReadExisting(c)
      PROVE  \A d \in Callers : Fresh(caller[d], clock)'
  <2> DEFINE p == caller[c]
             q == [p EXCEPT !.existing[Key(p)] = entry[Key(p)], !.todo = @ \ {Key(p)}]
             r == [q EXCEPT !.pc = "next", !.todo = q.need]
             s == IF q.todo = {} THEN AllRead(q, Home[c]) ELSE q
  <2>1. /\ p \in QueryState /\ p.pc = "read" /\ p.source = "none" /\ Fresh(p, clock)
        /\ p.fetched = {} /\ clock' = clock
    BY <1>1, <1>5 DEF ReadExisting, CallerOK, Fresh
  <2>2. /\ q.pc = "read" /\ q.source = "none" /\ q.outcome = p.outcome
        /\ q.payload = p.payload /\ q.fetched = {} /\ q.asOf = p.asOf
    BY <2>1 DEF QueryState
  <2>3. /\ r.pc = "next" /\ r.source = "none" /\ r.fetched = {} /\ r.asOf = p.asOf
        /\ r.outcome = q.outcome /\ r.payload = q.payload
    BY <2>1 DEF QueryState
  <2>4. Becomes(c, s)
    BY <1>5 DEF ReadExisting
  <2>5. s \in {q, r, Refused}
    BY DEF AllRead
  <2> HIDE DEF q, r, s
  <2>6. Fresh(q, clock) /\ Fresh(r, clock)
    BY <2>1, <2>2, <2>3 DEF Fresh
  <2> QED
    BY <1>2, <1>3, <2>1, <2>4, <2>5, <2>6, IdleFresh
<1>6. ASSUME NEW c \in Callers, UseExisting(c)
      PROVE  \A d \in Callers : Fresh(caller[d], clock)'
  <2> DEFINE p == caller[c]
             q == [p EXCEPT !.got[Key(p)] = p.existing[Key(p)], !.todo = @ \ {Key(p)}]
  <2>1. /\ p \in QueryState /\ p.pc = "next" /\ p.source = "none" /\ Fresh(p, clock)
        /\ ~p.force /\ clock' = clock
    BY <1>1, <1>6 DEF UseExisting, CallerOK, Hit
  <2>2. /\ q.pc = "next" /\ q.source = "none" /\ q.outcome = p.outcome
        /\ q.payload = p.payload /\ q.todo = p.todo \ {Key(p)} /\ q.fetched = p.fetched
        /\ q.force = p.force /\ q.asOf = p.asOf
    BY <2>1 DEF QueryState
  <2>3. Becomes(c, q)
    BY <1>6 DEF UseExisting
  <2> HIDE DEF q
  <2>4. Fresh(q, clock)
    BY <2>1, <2>2 DEF Fresh
  <2> QED
    BY <1>3, <2>1, <2>3, <2>4
<1>7. ASSUME NEW c \in Callers, Answer(c)
      PROVE  \A d \in Callers : Fresh(caller[d], clock)'
  <2> DEFINE p == caller[c]
             q == [p EXCEPT !.pc = "done", !.source = Source(p),
                            !.existing = Nothing, !.fetched = {},
                            !.old = {}, !.stale = FALSE, !.floor = Nothing]
             r == [p EXCEPT !.pc = "done", !.source = "error"]
  <2>1. p \in QueryState /\ Fresh(p, clock) /\ p.pc \in {"next", "refused"} /\ clock' = clock
    BY <1>1, <1>7 DEF Answer
  <2>2. /\ q.pc = "done" /\ q.source = Source(p) /\ q.need = p.need /\ q.got = p.got
        /\ q.outcome = p.outcome /\ q.payload = p.payload /\ q.fetched = {}
        /\ q.asOf = p.asOf
    BY <2>1 DEF QueryState
  <2>3. /\ r.pc = "done" /\ r.source = "error" /\ r.outcome = p.outcome
        /\ r.payload = p.payload /\ r.fetched = p.fetched /\ r.todo = p.todo
        /\ r.force = p.force /\ r.got = p.got /\ r.asOf = p.asOf
    BY <2>1 DEF QueryState
  <2>4. Becomes(c, q) \/ Becomes(c, Refused) \/ Becomes(c, r)
    BY <1>7 DEF Answer
  <2>5. Source(p) = "external_refresh" => p.force /\ p.fetched = p.need
    BY DEF Source
  <2> HIDE DEF q, r
  <2>6. Fresh(r, clock)
    BY <2>1, <2>3 DEF Fresh
  <2>7. Fresh(q, clock)
    BY <2>1, <2>2, <2>5 DEF Fresh
  <2> QED
    BY <1>2, <1>3, <2>1, <2>4, <2>6, <2>7, IdleFresh
<1>8. ASSUME NEW c \in Callers, NEW pc \in Steps \ {"write", "after", "read"},
             caller[c].source = "none", clock' = clock,
             Becomes(c, [caller[c] EXCEPT !.pc = pc])
      PROVE  \A d \in Callers : Fresh(caller[d], clock)'
  <2> DEFINE p == caller[c]
             q == [p EXCEPT !.pc = pc]
  <2>1. p \in QueryState /\ Fresh(p, clock)
    BY <1>1
  <2>2. /\ q \in QueryState /\ q.pc = pc /\ q.todo = p.todo /\ q.got = p.got
        /\ q.fetched = p.fetched /\ q.force = p.force /\ q.asOf = p.asOf
        /\ q.source = p.source /\ q.outcome = p.outcome /\ q.payload = p.payload
    BY <2>1 DEF QueryState
  <2> HIDE DEF q
  <2>3. Fresh(q, clock)
    BY <1>2, <1>8, <2>1, <2>2, MovedFresh DEF Fresh
  <2> QED
    BY <1>3, <1>8, <2>3 DEF q
<1>9. ASSUME NEW c \in Callers, AwaitLock(c)
      PROVE  \A d \in Callers : Fresh(caller[d], clock)'
  <2>1. caller[c].source = "none"
    BY <1>1, <1>9 DEF AwaitLock, CallerOK
  <2> QED
    BY <1>8, <1>9, <2>1 DEF AwaitLock, Steps
<1>10. ASSUME NEW c \in Callers, TakeLease(c)
       PROVE  \A d \in Callers : Fresh(caller[d], clock)'
  <2>1. caller[c].source = "none" /\ Key(caller[c]) \notin lease
    BY <1>1, <1>10, LeaseIsFree DEF TakeLease, CallerOK
  <2>2. Becomes(c, [caller[c] EXCEPT !.pc = "fetch"]) /\ clock' = clock
    BY <1>10, <2>1 DEF TakeLease
  <2> QED
    BY <1>8, <2>1, <2>2 DEF Steps
<1>11. ASSUME NEW c \in Callers, Recheck(c)
       PROVE  \A d \in Callers : Fresh(caller[d], clock)'
  <2>1. /\ CallerOK(caller[c]) /\ caller[c].pc \in Busy /\ Key(caller[c]) \in Keys
        /\ caller[c].source = "none" /\ clock' = clock
    BY <1>1, <1>11, Unanswered DEF Recheck, Busy
  <2>2. ~caller[c].force => Fresh(Obtained(caller[c], entry[Key(caller[c])]), clock)
    BY <1>2, <2>1, ObtainedFresh
  <2> QED
    BY <1>3, <1>8, <1>11, <2>1, <2>2 DEF Recheck, Steps
<1>12. ASSUME NEW c \in Callers, ReadAfterLease(c)
       PROVE  \A d \in Callers : Fresh(caller[d], clock)'
  BY <1>12 DEF ReadAfterLease, Fresh
<1>13. ASSUME NEW c \in Callers, Fetch(c)
       PROVE  \A d \in Callers : Fresh(caller[d], clock)'
  <2> DEFINE p == caller[c]
             q == [p EXCEPT !.pc = "write", !.payload = clock + 1]
             r(outcome) == [p EXCEPT !.pc = "release", !.outcome = outcome]
  <2>1. p \in QueryState /\ Fresh(p, clock) /\ p.source = "none" /\ p.asOf \in Nat
        /\ p.asOf < clock + 1
    BY <1>1, <1>2, <1>13 DEF Fetch, CallerOK, QueryState, Fresh
  <2>2. clock + 1 \in Nat
    BY <1>2
  <2>3. /\ q \in QueryState /\ q.pc = "write" /\ q.todo = p.todo /\ q.got = p.got
        /\ q.fetched = p.fetched /\ q.force = p.force /\ q.asOf = p.asOf
        /\ q.source = p.source /\ q.payload = clock + 1
    BY <2>1, <2>2 DEF QueryState, Steps
  <2>4. ASSUME NEW outcome \in {"failed", "invalid", "raised"}
        PROVE  /\ r(outcome) \in QueryState /\ r(outcome).todo = p.todo
               /\ r(outcome).got = p.got /\ r(outcome).fetched = p.fetched
               /\ r(outcome).force = p.force /\ r(outcome).asOf = p.asOf
               /\ r(outcome).source = p.source /\ r(outcome).outcome = outcome
               /\ r(outcome).pc = "release"
    BY <2>1 DEF QueryState, Steps
  <2>5. \/ Becomes(c, q) /\ clock' = clock + 1
        \/ clock' = clock
           /\ \E outcome \in {"failed", "invalid", "raised"} : Becomes(c, r(outcome))
    BY <1>13 DEF Fetch
  <2> HIDE DEF q, r
  <2>6. Fresh(q, clock) /\ Fresh(q, clock + 1)
    <3>1. Fresh(q, clock)
      BY <1>2, <2>1, <2>3, MovedFresh
    <3> QED
      BY <2>1, <2>2, <2>3, <3>1 DEF Fresh
  <2>7. ASSUME NEW outcome \in {"failed", "invalid", "raised"} PROVE Fresh(r(outcome), clock)
    BY <1>2, <2>1, <2>4, MovedFresh
  <2> QED
    BY <1>3, <2>5, <2>6, <2>7
<1>14. ASSUME NEW c \in Callers, WriteEntry(c)
       PROVE  \A d \in Callers : Fresh(caller[d], clock)'
  <2> DEFINE p == caller[c]
             q(outcome) == [p EXCEPT !.pc = "release", !.outcome = outcome]
  <2>1. p \in QueryState /\ Fresh(p, clock) /\ p.source = "none" /\ p.asOf < p.payload
        /\ clock' = clock
    BY <1>1, <1>14 DEF WriteEntry, CallerOK, Fresh
  <2>2. ASSUME NEW outcome \in {"stored", "raised"}
        PROVE  /\ q(outcome) \in QueryState /\ q(outcome).todo = p.todo
               /\ q(outcome).got = p.got /\ q(outcome).fetched = p.fetched
               /\ q(outcome).force = p.force /\ q(outcome).asOf = p.asOf
               /\ q(outcome).source = p.source /\ q(outcome).payload = p.payload
               /\ q(outcome).pc = "release"
    BY <2>1 DEF QueryState, Steps
  <2>3. \E outcome \in {"stored", "raised"} : Becomes(c, q(outcome))
    BY <1>14 DEF WriteEntry
  <2> HIDE DEF q
  <2>4. ASSUME NEW outcome \in {"stored", "raised"} PROVE Fresh(q(outcome), clock)
    BY <1>2, <2>1, <2>2, MovedFresh
  <2> QED
    BY <1>3, <2>1, <2>3, <2>4
<1>15. ASSUME NEW c \in Callers, Release(c)
       PROVE  \A d \in Callers : Fresh(caller[d], clock)'
  <2>1. CallerOK(caller[c]) /\ caller[c].pc \in Busy /\ clock' = clock
    BY <1>1, <1>15 DEF Release, Busy, InFlight
  <2>2. Becomes(c, Left(caller[c])) \/ Becomes(c, Idle)
    BY <1>15 DEF Release
  <2> QED
    BY <1>2, <1>3, <2>1, <2>2, LeftFresh, IdleFresh
<1>16. CASE Clear \/ UNCHANGED vars
  <2>1. caller' = caller /\ clock' = clock
    BY <1>16 DEF vars, Clear
  <2> QED
    BY <2>1
<1> QED
  BY <1>4, <1>5, <1>6, <1>7, <1>9, <1>10, <1>11, <1>12, <1>13, <1>14, <1>15,
     <1>16 DEF Next, QueryStep, StoreError, Crash

\* A forced refresh returns nothing that was fetched before it was asked for:
\* for one service, as long as no process dies and no transaction raises, even
\* if an administrator clears the cache meanwhile.
THEOREM RefreshesAreFresh ==
    /\ "crash" \notin Faults /\ "store" \notin Faults
    /\ \A c, d \in Callers : Home[c] = Home[d]
    => (Spec => []RefreshIsFresh)
<1> SUFFICES ASSUME "crash" \notin Faults, "store" \notin Faults,
                    \A c, d \in Callers : Home[c] = Home[d]
             PROVE  Spec => []RefreshIsFresh
  OBVIOUS
<1> DEFINE F == \A c \in Callers : Fresh(caller[c], clock)
           I == CallersOK /\ LeaseIsHeld /\ Locked /\ F
<1>1. Init => I
  <2> SUFFICES ASSUME Init PROVE I
    OBVIOUS
  <2>1. \A c \in Callers : caller[c] = Idle /\ clock = 0 /\ lease = {}
    BY DEF Init
  <2>2. LeaseIsHeld
    BY DEF Init, LeaseIsHeld
  <2>3. Locked
    BY <2>1 DEF Locked, Idle, Busy, InFlight
  <2>4. F
    BY <2>1, IdleFresh
  <2> QED
    BY <2>2, <2>3, <2>4, InitType
<1>2. I /\ [Next]_vars => I'
  <2> SUFFICES ASSUME I, [Next]_vars PROVE I'
    OBVIOUS
  <2>1. CallersOK' /\ LeaseIsHeld' /\ Locked'
    BY TypeStep, HeldStep, LockedStep
  <2>2. F'
    BY FreshStep
  <2> QED
    BY <2>1, <2>2
<1>3. I => RefreshIsFresh
  <2> SUFFICES ASSUME I, NEW c \in Callers, caller[c].source = "external_refresh",
                      NEW k \in caller[c].need
               PROVE  caller[c].got[k] > caller[c].asOf
    BY DEF RefreshIsFresh
  <2>1. caller[c].asOf < caller[c].got[k]
    BY DEF Fresh
  <2>2. caller[c] \in QueryState
    BY TypeParts
  <2>3. caller[c].asOf \in Nat /\ caller[c].got[k] \in Nat
    BY <2>2 DEF QueryState
  <2> QED
    BY <2>1, <2>3
<1> HIDE DEF I
<1> QED
  BY <1>1, <1>2, <1>3, PTL DEF Spec

----------------------------------------------------------------------------
(* The promise to callers: the cache implements CachePromise *)

\* A query deals with what it was asked for.
AskedOnly(q) == q.todo \subseteq q.need

PromiseInv ==
    /\ IInv
    /\ \A c \in Callers : Complete(caller[c]) /\ AskedOnly(caller[c])

OpenSteps == {"read", "next"} \cup Busy

\* What is to be shown of every step.
Kept ==
    /\ \A c \in Callers : AskedOnly(caller'[c])
    /\ [Abstract!PNext]_(Abstract!pvars)

LEMMA SeenOpen ==
    ASSUME NEW q, CallerOK(q), q.pc \in OpenSteps
    PROVE  SeenQuery(q) = Abstract!Open(q.need, q.floor, q.got)
<1>1. q.pc \notin {"idle", "refused", "done"}
  BY DEF OpenSteps, Busy, InFlight
<1>2. q.source # "error"
  BY <1>1 DEF CallerOK
<1> QED
  BY <1>1, <1>2 DEF SeenQuery, Abstract!Open

LEMMA SeenClosed ==
    /\ SeenQuery(Idle) = Abstract!NoQuery
    /\ SeenQuery(Refused) = Abstract!Refusal
BY DEF SeenQuery, Idle, Refused, Abstract!NoQuery, Abstract!Refusal

\* The invariant, as it is used of one query.
LEMMA PromiseParts ==
    ASSUME PromiseInv, NEW c \in Callers
    PROVE  /\ CallerOK(caller[c]) /\ caller[c] \in QueryState
           /\ InWindow(caller[c], entry, clock)
           /\ Complete(caller[c]) /\ AskedOnly(caller[c])
           /\ entry \in [Keys -> Nat] /\ clock \in Nat
           /\ caller \in [Callers -> QueryState]
BY TypeParts DEF PromiseInv, IInv, VersionsOK

\* One caller moves: what is seen of the others stays.
LEMMA OneSeen ==
    ASSUME PromiseInv, NEW c \in Callers, NEW q, Becomes(c, q), AskedOnly(q)
    PROVE  /\ caller'[c] = q /\ \A d \in Callers \ {c} : caller'[d] = caller[d]
           /\ Seen' = [Seen EXCEPT ![c] = SeenQuery(q)]
           /\ Seen[c] = SeenQuery(caller[c])
           /\ SeenQuery(q) = SeenQuery(caller[c]) => Seen' = Seen
           /\ \A d \in Callers : AskedOnly(caller'[d])
<1>1. caller \in [Callers -> QueryState]
  BY PromiseParts
<1>2. caller'[c] = q /\ \A d \in Callers \ {c} : caller'[d] = caller[d]
  BY <1>1 DEF Becomes
<1>3. Seen' = [d \in Callers |-> SeenQuery(caller'[d])]
  BY DEF Seen
<1>4. Seen' = [Seen EXCEPT ![c] = SeenQuery(q)] /\ Seen[c] = SeenQuery(caller[c])
  BY <1>2, <1>3 DEF Seen
<1>5. SeenQuery(q) = SeenQuery(caller[c]) => Seen' = Seen
  BY <1>4 DEF Seen
<1>6. \A d \in Callers : AskedOnly(caller'[d])
  BY <1>2 DEF PromiseInv
<1> QED
  BY <1>2, <1>4, <1>5, <1>6

\* A caller that is not calling a provider, and will not be, changes no call.
LEMMA CallsStay ==
    ASSUME NEW c \in Callers, \A d \in Callers \ {c} : caller'[d] = caller[d],
           caller[c].pc \notin {"fetch", "write"}, caller'[c].pc \notin {"fetch", "write"}
    PROVE  Waiting' = Waiting /\ Arrived' = Arrived
<1>1. ASSUME NEW pc \in {"fetch", "write"}
      PROVE  {d \in Callers : caller'[d].pc = pc} = {d \in Callers : caller[d].pc = pc}
  OBVIOUS
<1>2. At("fetch")' = At("fetch") /\ At("write")' = At("write")
  <2>1. /\ {d \in Callers : caller'[d].pc = "fetch"} = {d \in Callers : caller[d].pc = "fetch"}
        /\ {d \in Callers : caller'[d].pc = "write"} = {d \in Callers : caller[d].pc = "write"}
    BY <1>1
  <2>2. \A d \in Callers : caller[d].pc \in {"fetch", "write"} => caller'[d] = caller[d]
    OBVIOUS
  <2> QED
    BY <2>1, <2>2 DEF At
<1> QED
  BY <1>2 DEF Waiting, Arrived

\* A query outside its provider call goes on without its caller noticing.
LEMMA Unnoticed ==
    ASSUME PromiseInv, NEW c \in Callers, NEW q, Becomes(c, q), AskedOnly(q),
           entry' = entry, clock' = clock,
           caller[c].pc \notin {"fetch", "write"}, q.pc \notin {"fetch", "write"},
           SeenQuery(q) = SeenQuery(caller[c])
    PROVE  Kept
<1>1. Seen' = Seen /\ \A d \in Callers : AskedOnly(caller'[d])
  BY OneSeen
<1>2. Waiting' = Waiting /\ Arrived' = Arrived
  BY OneSeen, CallsStay
<1> QED
  BY <1>1, <1>2 DEF Kept, Abstract!pvars

LEMMA OpenGoesOn ==
    ASSUME PromiseInv, NEW c \in Callers, NEW q, CallerOK(q), Becomes(c, q),
           entry' = entry, clock' = clock,
           caller[c].pc \in OpenSteps \ {"fetch", "write"},
           q.pc \in OpenSteps \ {"fetch", "write"},
           AskedOnly(q), q.need = caller[c].need, q.floor = caller[c].floor,
           q.got = caller[c].got
    PROVE  Kept
<1>1. SeenQuery(q) = SeenQuery(caller[c])
  BY PromiseParts, SeenOpen
<1> QED
  BY <1>1, Unnoticed

\* It takes a record for one of its keys.
LEMMA Takes ==
    ASSUME PromiseInv, NEW c \in Callers, NEW q, CallerOK(q), Becomes(c, q),
           entry' = entry, clock' = clock,
           caller[c].pc \in OpenSteps \ {"fetch", "write"},
           q.pc \in OpenSteps \ {"fetch", "write"},
           AskedOnly(q), q.need = caller[c].need, q.floor = caller[c].floor,
           NEW k \in caller[c].need, NEW record \in Nat,
           q.got = [caller[c].got EXCEPT ![k] = record],
           record # 0, caller[c].floor[k] <= record, record <= entry[k]
    PROVE  Kept
<1> DEFINE p == caller[c]
<1>1. /\ Seen' = [Seen EXCEPT ![c] = SeenQuery(q)] /\ Seen[c] = SeenQuery(p)
      /\ \A d \in Callers : AskedOnly(caller'[d])
  BY OneSeen
<1>2. Waiting' = Waiting /\ Arrived' = Arrived
  BY OneSeen, CallsStay
<1>3. /\ SeenQuery(p) = Abstract!Open(p.need, p.floor, p.got)
      /\ SeenQuery(q) = Abstract!Open(p.need, p.floor, [p.got EXCEPT ![k] = record])
  BY PromiseParts, SeenOpen
<1>4. /\ Seen[c].phase = "open" /\ Seen[c].need = p.need /\ Seen[c].low = p.floor
      /\ Seen[c].got = p.got
  BY <1>1, <1>3 DEF Abstract!Open
<1>5. Abstract!Take(c, k, record)
  BY <1>1, <1>2, <1>3, <1>4 DEF Abstract!Take, Abstract!OpenQuery
<1>6. k \in Keys /\ record \in 1 .. entry[k]
  BY PromiseParts DEF QueryState
<1> QED
  BY <1>1, <1>5, <1>6 DEF Kept, Abstract!PNext

\* It is over, without an answer.
LEMMA Closes ==
    ASSUME PromiseInv, NEW c \in Callers, entry' = entry, clock' = clock,
           caller[c].pc \in OpenSteps \ {"fetch", "write"},
           Becomes(c, Idle) \/ Becomes(c, Refused)
    PROVE  Kept
<1> DEFINE p == caller[c]
<1>1. PICK q \in {Idle, Refused} : Becomes(c, q)
  OBVIOUS
<1>2. AskedOnly(q) /\ q.pc \in {"idle", "refused"}
  BY <1>1 DEF AskedOnly, Idle, Refused
<1>3. /\ Seen' = [Seen EXCEPT ![c] = SeenQuery(q)] /\ Seen[c] = SeenQuery(p)
      /\ \A d \in Callers : AskedOnly(caller'[d])
  BY <1>1, <1>2, OneSeen
<1>4. Waiting' = Waiting /\ Arrived' = Arrived
  BY <1>1, <1>2, OneSeen, CallsStay
<1>5. Seen[c].phase = "open"
  BY <1>3, PromiseParts, SeenOpen DEF Abstract!Open
<1>6. Abstract!Refuse(c) \/ Abstract!Lose(c)
  BY <1>1, <1>3, <1>4, <1>5, SeenClosed
     DEF Abstract!Refuse, Abstract!Lose, Abstract!OpenQuery
<1> QED
  BY <1>3, <1>6 DEF Kept, Abstract!PNext

\* What a caller's query becomes is in order, since the next state is.
LEMMA NowOK ==
    ASSUME PromiseInv, CallersOK', NEW c \in Callers, NEW q, Becomes(c, q)
    PROVE  CallerOK(q)
<1>1. CallerOK(caller'[c])
  BY DEF CallersOK
<1>2. caller'[c] = q
  BY PromiseParts DEF Becomes
<1> QED
  BY <1>1, <1>2

----------------------------------------------------------------------------
(* Each action keeps the promise *)

LEMMA AskPromise ==
    ASSUME PromiseInv, NEW c \in Callers, Ask(c)
    PROVE  Kept
<1>1. PICK need \in (SUBSET Keys) \ {{}}, force \in BOOLEAN, stale \in BOOLEAN :
         Becomes(c, [Idle EXCEPT !.pc = "read", !.need = need, !.todo = need,
                                 !.force = force, !.stale = stale,
                                 !.asOf = clock, !.floor = entry])
  BY DEF Ask
<1> DEFINE p == caller[c]
           q == [Idle EXCEPT !.pc = "read", !.need = need, !.todo = need,
                             !.force = force, !.stale = stale,
                             !.asOf = clock, !.floor = entry]
<1>2. /\ q.pc = "read" /\ q.need = need /\ q.todo = need /\ q.floor = entry
      /\ q.got = Nothing /\ q.source = "none"
  BY DEF Idle
<1>3. SeenQuery(q) = Abstract!Open(need, entry, [k \in Keys |-> 0])
  BY <1>2 DEF SeenQuery, Abstract!Open, Nothing
<1>4. Becomes(c, q) /\ AskedOnly(q)
  BY <1>1, <1>2 DEF AskedOnly
<1>5. p.pc \in {"idle", "done"} /\ CallerOK(p) /\ entry' = entry /\ clock' = clock
  BY PromiseParts DEF Ask
<1> HIDE DEF p, q
<1>6. /\ Seen' = [Seen EXCEPT ![c] = SeenQuery(q)] /\ Seen[c] = SeenQuery(p)
      /\ \A d \in Callers : AskedOnly(caller'[d])
      /\ caller'[c] = q /\ \A d \in Callers \ {c} : caller'[d] = caller[d]
  BY <1>4, OneSeen DEF p
<1>7. Waiting' = Waiting /\ Arrived' = Arrived
  BY <1>2, <1>5, <1>6, CallsStay DEF p
<1>8. Seen[c].phase # "open"
  BY <1>5, <1>6 DEF SeenQuery
<1>9. Abstract!AskFor(c, need)
  BY <1>3, <1>5, <1>6, <1>7, <1>8 DEF Abstract!AskFor, Abstract!OpenQuery
<1> QED
  BY <1>6, <1>9 DEF Kept, Abstract!PNext

LEMMA ReadExistingPromise ==
    ASSUME PromiseInv, CallersOK', NEW c \in Callers, ReadExisting(c)
    PROVE  Kept
<1> DEFINE p == caller[c]
           q == [p EXCEPT !.existing[Key(p)] = entry[Key(p)], !.todo = @ \ {Key(p)}]
           n == [q EXCEPT !.pc = "next", !.todo = q.need]
<1>1. p \in QueryState /\ p.pc = "read" /\ AskedOnly(p)
  BY PromiseParts DEF ReadExisting
<1>2. /\ q.pc = "read" /\ q.need = p.need /\ q.floor = p.floor /\ q.got = p.got
      /\ q.todo \subseteq p.todo
  BY <1>1 DEF QueryState
<1>3. /\ n.pc = "next" /\ n.need = p.need /\ n.floor = p.floor /\ n.got = p.got
      /\ n.todo = p.need
  BY <1>1 DEF QueryState
<1>4. /\ Becomes(c, q) \/ Becomes(c, n) \/ Becomes(c, Refused)
      /\ entry' = entry /\ clock' = clock
  BY DEF ReadExisting, AllRead
<1> HIDE DEF p, q, n
<1>6. \A r : Becomes(c, r) => CallerOK(r)
  BY NowOK
<1>7. AskedOnly(q) /\ AskedOnly(n)
  BY <1>1, <1>2, <1>3 DEF AskedOnly
<1>8. p.pc \in OpenSteps \ {"fetch", "write"}
  BY <1>1 DEF OpenSteps
<1>9. CASE Becomes(c, q)
  BY <1>2, <1>4, <1>6, <1>7, <1>8, <1>9, OpenGoesOn DEF p, OpenSteps
<1>10. CASE Becomes(c, n)
  BY <1>3, <1>4, <1>6, <1>7, <1>8, <1>10, OpenGoesOn DEF p, OpenSteps
<1>11. CASE Becomes(c, Refused)
  BY <1>4, <1>8, <1>11, Closes DEF p
<1> QED
  BY <1>4, <1>9, <1>10, <1>11

\* In the lock's block or out of it, the record found for its key is taken.
LEMMA ObtainedPromise ==
    ASSUME PromiseInv, CallersOK', NEW c \in Callers, entry' = entry, clock' = clock,
           caller[c].pc \in Busy \ {"fetch", "write"}, NEW record,
           record = entry[Key(caller[c])], record # 0,
           Becomes(c, Obtained(caller[c], record))
    PROVE  Kept
<1> DEFINE p == caller[c]
           q == Obtained(p, record)
<1>1. CallerOK(p) /\ p \in QueryState /\ AskedOnly(p)
      /\ entry \in [Keys -> Nat] /\ InWindow(p, entry, clock)
  BY PromiseParts
<1>2. Key(p) \in p.todo /\ Key(p) \in Keys
  BY <1>1, Unanswered
<1>3. Key(p) \in p.need /\ record \in Nat /\ p.floor[Key(p)] <= record
      /\ record <= entry[Key(p)]
  BY <1>1, <1>2 DEF AskedOnly, InWindow, QueryState
<1>4. /\ q.pc = "next" /\ q.need = p.need /\ q.floor = p.floor
      /\ q.got = [p.got EXCEPT ![Key(p)] = record] /\ q.todo \subseteq p.todo
  BY <1>1 DEF QueryState, Obtained
<1>5. AskedOnly(q)
  BY <1>1, <1>4 DEF AskedOnly
<1>6. CallerOK(q)
  BY NowOK
<1> HIDE DEF q
<1>7. Becomes(c, q) /\ p.pc \in OpenSteps \ {"fetch", "write"}
      /\ q.pc \in OpenSteps \ {"fetch", "write"}
  BY <1>4 DEF q, OpenSteps
<1> QED
  BY <1>3, <1>4, <1>5, <1>6, <1>7, Takes

\* Or the existing one is, when it is a stale one that will do.
LEMMA ExistingPromise ==
    ASSUME PromiseInv, CallersOK', NEW c \in Callers, entry' = entry, clock' = clock,
           caller[c].pc \in OpenSteps \ {"fetch", "write"}, caller[c].todo # {},
           caller[c].existing[Key(caller[c])] # 0,
           NEW q, Becomes(c, q), q.pc = "next", q.need = caller[c].need,
           q.floor = caller[c].floor, q.todo \subseteq caller[c].todo,
           q.got = [caller[c].got EXCEPT ![Key(caller[c])]
                                       = caller[c].existing[Key(caller[c])]]
    PROVE  Kept
<1> DEFINE p == caller[c]
           record == p.existing[Key(p)]
<1>1. p \in QueryState /\ AskedOnly(p) /\ InWindow(p, entry, clock)
  BY PromiseParts
<1>2. Key(p) \in p.todo /\ Key(p) \in Keys
  BY <1>1, KeyIsTodo DEF QueryState
<1>3. Key(p) \in p.need /\ record \in Nat /\ p.floor[Key(p)] <= record
      /\ record <= entry[Key(p)]
  BY <1>1, <1>2 DEF AskedOnly, InWindow, QueryState
<1>4. AskedOnly(q)
  BY <1>1 DEF AskedOnly
<1>5. CallerOK(q) /\ q.pc \in OpenSteps \ {"fetch", "write"}
  BY NowOK DEF OpenSteps
<1> HIDE DEF record
<1> QED
  BY <1>3, <1>4, <1>5, Takes DEF record

LEMMA FallbackPromise ==
    ASSUME PromiseInv, CallersOK', NEW c \in Callers, entry' = entry, clock' = clock,
           caller[c].pc \in Busy \ {"fetch", "write"}, Becomes(c, Fallback(caller[c]))
    PROVE  Kept
<1> DEFINE p == caller[c]
           q == [p EXCEPT !.pc = "next", !.got[Key(p)] = p.existing[Key(p)],
                          !.old = @ \cup {Key(p)}, !.todo = @ \ {Key(p)},
                          !.outcome = "none"]
<1>1. CallerOK(p) /\ p \in QueryState /\ p.todo # {}
      /\ p.pc \in OpenSteps \ {"fetch", "write"}
  BY PromiseParts DEF CallerOK, OpenSteps
<1>2. /\ q.pc = "next" /\ q.need = p.need /\ q.floor = p.floor /\ q.todo \subseteq p.todo
      /\ q.got = [p.got EXCEPT ![Key(p)] = p.existing[Key(p)]]
  BY <1>1 DEF QueryState
<1>3. CASE p.existing[Key(p)] # 0 /\ p.stale
  <2>1. Becomes(c, q)
    BY <1>3 DEF Fallback
  <2> HIDE DEF q
  <2> QED
    BY <1>1, <1>2, <1>3, <2>1, ExistingPromise
<1>4. CASE ~ (p.existing[Key(p)] # 0 /\ p.stale)
  <2>1. Becomes(c, Refused)
    BY <1>4 DEF Fallback
  <2> QED
    BY <1>1, <2>1, Closes
<1> QED
  BY <1>3, <1>4

LEMMA UseExistingPromise ==
    ASSUME PromiseInv, CallersOK', NEW c \in Callers, UseExisting(c)
    PROVE  Kept
<1> DEFINE p == caller[c]
           q == [p EXCEPT !.got[Key(p)] = p.existing[Key(p)], !.todo = @ \ {Key(p)}]
<1>1. /\ p.pc = "next" /\ p.todo # {} /\ p.existing[Key(p)] # 0 /\ Becomes(c, q)
      /\ entry' = entry /\ clock' = clock
  BY DEF UseExisting, Hit
<1>2. /\ q.pc = "next" /\ q.need = p.need /\ q.floor = p.floor /\ q.todo \subseteq p.todo
      /\ q.got = [p.got EXCEPT ![Key(p)] = p.existing[Key(p)]]
  BY <1>1, PromiseParts DEF QueryState
<1>3. p.pc \in OpenSteps \ {"fetch", "write"}
  BY <1>1 DEF OpenSteps
<1> HIDE DEF q
<1> QED
  BY <1>1, <1>2, <1>3, ExistingPromise

LEMMA AwaitLockPromise ==
    ASSUME PromiseInv, CallersOK', NEW c \in Callers, AwaitLock(c)
    PROVE  Kept
<1> DEFINE p == caller[c]
           q == [p EXCEPT !.pc = "recheck"]
<1>1. Becomes(c, q) /\ p.pc = "next" /\ entry' = entry /\ clock' = clock
      /\ p \in QueryState /\ AskedOnly(p)
  BY PromiseParts DEF AwaitLock
<1>2. /\ q.pc = "recheck" /\ q.need = p.need /\ q.floor = p.floor /\ q.got = p.got
      /\ q.todo = p.todo
  BY <1>1 DEF QueryState
<1>3. CallerOK(q)
  BY <1>1, NowOK
<1> HIDE DEF q
<1> QED
  BY <1>1, <1>2, <1>3, OpenGoesOn DEF OpenSteps, Busy, AskedOnly

LEMMA RecheckPromise ==
    ASSUME PromiseInv, CallersOK', NEW c \in Callers, Recheck(c)
    PROVE  Kept
<1> DEFINE p == caller[c]
           q == [p EXCEPT !.pc = "lease"]
<1>1. p.pc = "recheck" /\ entry' = entry /\ clock' = clock
      /\ p \in QueryState /\ AskedOnly(p)
  BY PromiseParts DEF Recheck
<1>2. CASE entry[Key(p)] # 0 /\ ~p.force
  <2>1. Becomes(c, Obtained(p, entry[Key(p)]))
    BY <1>2 DEF Recheck
  <2> QED
    BY <1>1, <1>2, <2>1, ObtainedPromise DEF Busy
<1>3. CASE ~ (entry[Key(p)] # 0 /\ ~p.force)
  <2>1. Becomes(c, q)
    BY <1>3 DEF Recheck
  <2>2. /\ q.pc = "lease" /\ q.need = p.need /\ q.floor = p.floor /\ q.got = p.got
        /\ q.todo = p.todo
    BY <1>1 DEF QueryState
  <2>3. CallerOK(q)
    BY <2>1, NowOK
  <2> HIDE DEF q
  <2> QED
    BY <1>1, <2>1, <2>2, <2>3, OpenGoesOn DEF OpenSteps, Busy, AskedOnly
<1> QED
  BY <1>2, <1>3

LEMMA ReadAfterLeasePromise ==
    ASSUME PromiseInv, CallersOK', NEW c \in Callers, ReadAfterLease(c)
    PROVE  Kept
<1> DEFINE p == caller[c]
<1>1. p.pc = "after" /\ entry' = entry /\ clock' = clock
  BY DEF ReadAfterLease
<1>2. CASE entry[Key(p)] # 0
  <2>1. Becomes(c, Obtained(p, entry[Key(p)]))
    BY <1>2 DEF ReadAfterLease
  <2> QED
    BY <1>1, <1>2, <2>1, ObtainedPromise DEF Busy
<1>3. CASE entry[Key(p)] = 0
  <2>1. Becomes(c, Fallback(p))
    BY <1>3 DEF ReadAfterLease
  <2> QED
    BY <1>1, <2>1, FallbackPromise DEF Busy
<1> QED
  BY <1>2, <1>3

LEMMA ReleasePromise ==
    ASSUME PromiseInv, CallersOK', NEW c \in Callers, Release(c)
    PROVE  Kept
<1> DEFINE p == caller[c]
<1>1. /\ p.pc = "release" /\ entry' = entry /\ clock' = clock
      /\ p.pc \in Busy \ {"fetch", "write"} /\ p.pc \in OpenSteps \ {"fetch", "write"}
  BY DEF Release, Busy, InFlight, OpenSteps
<1>2. CASE Becomes(c, Left(p)) /\ p.outcome = "stored"
  <2>1. Becomes(c, Obtained(p, p.payload))
    BY <1>2 DEF Left
  <2>2. p.payload = entry[Key(p)] /\ p.payload # 0
    BY <1>1, <1>2, PromiseParts DEF InWindow, Complete
  <2> QED
    BY <1>1, <2>1, <2>2, ObtainedPromise
<1>3. CASE Becomes(c, Left(p)) /\ p.outcome = "failed"
  <2>1. Becomes(c, Fallback(p))
    BY <1>3 DEF Left
  <2> QED
    BY <1>1, <2>1, FallbackPromise
<1>4. CASE Becomes(c, Left(p)) /\ p.outcome \notin {"stored", "failed"}
  <2>1. Becomes(c, Refused) \/ Becomes(c, Idle)
    BY <1>4 DEF Left
  <2> QED
    BY <1>1, <2>1, Closes
<1>5. CASE Becomes(c, Idle)
  BY <1>1, <1>5, Closes
<1>6. Becomes(c, Left(p)) \/ Becomes(c, Idle)
  BY DEF Release
<1> QED
  BY <1>2, <1>3, <1>4, <1>5, <1>6

\* Which keys are waited for, and which answers have arrived.
LEMMA CallsAre ==
    /\ \A k : k \in Waiting <=>
          \E d \in Callers : caller[d].pc = "fetch" /\ k = Key(caller[d])
    /\ \A k : k \in Waiting' <=>
          \E d \in Callers : caller'[d].pc = "fetch" /\ k = Key(caller'[d])
    /\ \A a : a \in Arrived <=>
          \E d \in Callers : /\ caller[d].pc = "write"
                             /\ a = <<Key(caller[d]), caller[d].payload>>
    /\ \A a : a \in Arrived' <=>
          \E d \in Callers : /\ caller'[d].pc = "write"
                             /\ a = <<Key(caller'[d]), caller'[d].payload>>
<1>1. \A q : q \in At("fetch") <=> \E d \in Callers : caller[d].pc = "fetch" /\ q = caller[d]
  BY DEF At
<1>2. \A q : q \in At("write") <=> \E d \in Callers : caller[d].pc = "write" /\ q = caller[d]
  BY DEF At
<1>3. \A q : q \in At("fetch")' <=> \E d \in Callers : caller'[d].pc = "fetch" /\ q = caller'[d]
  BY DEF At
<1>4. \A q : q \in At("write")' <=> \E d \in Callers : caller'[d].pc = "write" /\ q = caller'[d]
  BY DEF At
<1>5. Waiting = {Key(q) : q \in At("fetch")} /\ Waiting' = {Key(q) : q \in At("fetch")'}
  BY DEF Waiting
<1>6. /\ Arrived = {<<Key(q), q.payload>> : q \in At("write")}
      /\ Arrived' = {<<Key(q), q.payload>> : q \in At("write")'}
  BY DEF Arrived
<1>7. \A k : k \in Waiting <=>
          \E d \in Callers : caller[d].pc = "fetch" /\ k = Key(caller[d])
  BY <1>1, <1>5
<1>8. \A k : k \in Waiting' <=>
          \E d \in Callers : caller'[d].pc = "fetch" /\ k = Key(caller'[d])
  BY <1>3, <1>5
<1>9. \A a : a \in Arrived <=>
          \E d \in Callers : /\ caller[d].pc = "write"
                             /\ a = <<Key(caller[d]), caller[d].payload>>
  BY <1>2, <1>6
<1>10. \A a : a \in Arrived' <=>
          \E d \in Callers : /\ caller'[d].pc = "write"
                             /\ a = <<Key(caller'[d]), caller'[d].payload>>
  BY <1>4, <1>6
<1> QED
  BY <1>7, <1>8, <1>9, <1>10

\* Nobody else is fetching the key of a query that fetches it.
LEMMA AloneInFlight ==
    ASSUME PromiseInv, NEW c \in Callers, NEW d \in Callers, c # d,
           caller[c].pc \in InFlight, caller[d].pc \in InFlight
    PROVE  Key(caller[c]) # Key(caller[d])
<1>1. Key(caller[c]) \in Keys
  BY PromiseParts, Unanswered DEF Busy
<1>2. \A k \in Keys : Fetching(c, k) /\ Fetching(d, k) => c = d
  BY DEF PromiseInv, IInv, FlightOK, SingleFlight
<1> QED
  BY <1>1, <1>2 DEF Fetching, InFlight

\* A provider call goes on without its caller noticing.
LEMMA FlightUnseen ==
    ASSUME PromiseInv, CallersOK', NEW c \in Callers, NEW q, Becomes(c, q),
           caller[c].pc \in Busy, q.pc \in Busy, q.need = caller[c].need,
           q.floor = caller[c].floor, q.got = caller[c].got, q.todo = caller[c].todo
    PROVE  /\ Seen' = Seen /\ Key(q) = Key(caller[c]) /\ Key(q) \in Keys
           /\ \A d \in Callers : AskedOnly(caller'[d])
           /\ caller'[c] = q /\ \A d \in Callers \ {c} : caller'[d] = caller[d]
<1>1. CallerOK(q) /\ CallerOK(caller[c]) /\ AskedOnly(caller[c])
  BY NowOK, PromiseParts
<1>2. SeenQuery(q) = SeenQuery(caller[c])
  BY <1>1, SeenOpen DEF OpenSteps
<1>3. Key(q) = Key(caller[c]) /\ Key(q) \in Keys
  BY <1>1, SameKey, Unanswered
<1>4. AskedOnly(q)
  BY <1>1 DEF AskedOnly
<1> QED
  BY <1>2, <1>3, <1>4, OneSeen

LEMMA TakeLeasePromise ==
    ASSUME PromiseInv, CallersOK', NEW c \in Callers, TakeLease(c)
    PROVE  Kept
<1> DEFINE p == caller[c]
           q == [p EXCEPT !.pc = IF Key(p) \in lease THEN "after" ELSE "fetch"]
<1>1. /\ p.pc = "lease" /\ Becomes(c, q) /\ entry' = entry /\ clock' = clock
      /\ p \in QueryState /\ AskedOnly(p)
  BY PromiseParts DEF TakeLease
<1>2. /\ q.need = p.need /\ q.floor = p.floor /\ q.got = p.got
      /\ q.todo = p.todo /\ q.pc = IF Key(p) \in lease THEN "after" ELSE "fetch"
  BY <1>1 DEF QueryState
<1>3. CallerOK(q)
  BY <1>1, NowOK
<1> HIDE DEF q
<1>4. CASE Key(p) \in lease
  BY <1>1, <1>2, <1>3, <1>4, OpenGoesOn DEF OpenSteps, Busy, AskedOnly
<1>5. CASE Key(p) \notin lease
  <2>1. q.pc = "fetch"
    BY <1>2, <1>5
  <2>2. /\ Seen' = Seen /\ Key(q) = Key(p) /\ Key(q) \in Keys
        /\ \A d \in Callers : AskedOnly(caller'[d])
        /\ caller'[c] = q /\ \A d \in Callers \ {c} : caller'[d] = caller[d]
    BY <1>1, <1>2, <2>1, FlightUnseen DEF Busy, InFlight
  <2>3. \A d \in Callers : ~ Fetching(d, Key(p))
    BY <1>5, <2>2 DEF PromiseInv, IInv, FlightOK
  <2>4. Key(p) \notin Waiting /\ \A a \in Arrived : a[1] # Key(p)
    BY <2>3, CallsAre DEF Fetching, InFlight
  <2>5. Waiting' = Waiting \cup {Key(p)}
    <3>1. \A k : k \in Waiting' <=> k \in Waiting \/ k = Key(p)
      BY <1>1, <2>1, <2>2, CallsAre
    <3> QED
      BY <3>1
  <2>6. Arrived' = Arrived
    <3>1. \A a : a \in Arrived' <=> a \in Arrived
      BY <1>1, <2>1, <2>2, CallsAre
    <3> QED
      BY <3>1
  <2>7. Abstract!Call(Key(p))
    BY <1>1, <2>2, <2>4, <2>5, <2>6 DEF Abstract!Call
  <2> QED
    BY <2>2, <2>7 DEF Kept, Abstract!PNext
<1> QED
  BY <1>4, <1>5

LEMMA FetchPromise ==
    ASSUME PromiseInv, CallersOK', NEW c \in Callers, Fetch(c)
    PROVE  Kept
<1> DEFINE p == caller[c]
           q == [p EXCEPT !.pc = "write", !.payload = clock + 1]
<1>1. p.pc = "fetch" /\ p \in QueryState /\ entry' = entry
  BY PromiseParts DEF Fetch
<1>2. ASSUME NEW d \in Callers \ {c}, caller[d].pc = "fetch"
      PROVE  Key(caller[d]) # Key(p)
  BY <1>1, <1>2, AloneInFlight DEF InFlight
<1>3. Key(p) \in Waiting
  BY <1>1, CallsAre
<1>4. CASE clock' = clock + 1 /\ Becomes(c, q)
  <2>1. /\ q.pc = "write" /\ q.need = p.need /\ q.floor = p.floor /\ q.got = p.got
        /\ q.todo = p.todo /\ q.payload = clock + 1
    BY <1>1 DEF QueryState
  <2> HIDE DEF q
  <2>2. /\ Seen' = Seen /\ Key(q) = Key(p) /\ Key(q) \in Keys
        /\ \A d \in Callers : AskedOnly(caller'[d])
        /\ caller'[c] = q /\ \A d \in Callers \ {c} : caller'[d] = caller[d]
    BY <1>1, <1>4, <2>1, FlightUnseen DEF Busy, InFlight
  <2>3. Waiting' = Waiting \ {Key(p)}
    <3>1. \A k : k \in Waiting' <=> k \in Waiting /\ k # Key(p)
      BY <1>1, <1>2, <2>1, <2>2, CallsAre
    <3> QED
      BY <3>1
  <2>4. Arrived' = Arrived \cup {<<Key(p), clock + 1>>}
    <3>1. \A a : a \in Arrived' <=> a \in Arrived \/ a = <<Key(p), clock + 1>>
      BY <1>1, <2>1, <2>2, CallsAre
    <3> QED
      BY <3>1
  <2>5. Abstract!Arrive(Key(p))
    BY <1>1, <1>3, <1>4, <2>2, <2>3, <2>4 DEF Abstract!Arrive
  <2> QED
    BY <2>2, <2>5 DEF Kept, Abstract!PNext
<1>5. ASSUME clock' = clock,
             NEW outcome, Becomes(c, [p EXCEPT !.pc = "release", !.outcome = outcome])
      PROVE  Kept
  <2> DEFINE r == [p EXCEPT !.pc = "release", !.outcome = outcome]
  <2>1. /\ r.pc = "release" /\ r.need = p.need /\ r.floor = p.floor /\ r.got = p.got
        /\ r.todo = p.todo /\ Becomes(c, r)
    BY <1>1, <1>5 DEF QueryState
  <2> HIDE DEF r
  <2>2. /\ Seen' = Seen /\ Key(r) = Key(p) /\ Key(r) \in Keys
        /\ \A d \in Callers : AskedOnly(caller'[d])
        /\ caller'[c] = r /\ \A d \in Callers \ {c} : caller'[d] = caller[d]
    BY <1>1, <2>1, FlightUnseen DEF Busy, InFlight
  <2>3. Waiting' = Waiting \ {Key(p)}
    <3>1. \A k : k \in Waiting' <=> k \in Waiting /\ k # Key(p)
      BY <1>1, <1>2, <2>1, <2>2, CallsAre
    <3> QED
      BY <3>1
  <2>4. Arrived' = Arrived
    <3>1. \A a : a \in Arrived' <=> a \in Arrived
      BY <1>1, <2>1, <2>2, CallsAre
    <3> QED
      BY <3>1
  <2>5. Abstract!Fail(Key(p))
    BY <1>1, <1>3, <1>5, <2>2, <2>3, <2>4 DEF Abstract!Fail
  <2> QED
    BY <2>2, <2>5 DEF Kept, Abstract!PNext
<1> QED
  BY <1>4, <1>5 DEF Fetch

LEMMA WriteEntryPromise ==
    ASSUME PromiseInv, CallersOK', NEW c \in Callers, WriteEntry(c)
    PROVE  Kept
<1> DEFINE p == caller[c]
           answer == <<Key(p), p.payload>>
<1>1. /\ p.pc = "write" /\ p \in QueryState /\ clock' = clock
      /\ entry[Key(p)] < p.payload
  BY PromiseParts DEF WriteEntry, InWindow
<1>2. ASSUME NEW d \in Callers \ {c}, caller[d].pc = "write"
      PROVE  Key(caller[d]) # Key(p)
  BY <1>1, <1>2, AloneInFlight DEF InFlight
<1>3. answer \in Arrived
  BY <1>1, CallsAre
<1>4. ASSUME NEW outcome, Becomes(c, [p EXCEPT !.pc = "release", !.outcome = outcome])
      PROVE  /\ Seen' = Seen /\ Waiting' = Waiting /\ Arrived' = Arrived \ {answer}
             /\ \A d \in Callers : AskedOnly(caller'[d])
  <2> DEFINE r == [p EXCEPT !.pc = "release", !.outcome = outcome]
  <2>1. /\ r.pc = "release" /\ r.need = p.need /\ r.floor = p.floor /\ r.got = p.got
        /\ r.todo = p.todo /\ Becomes(c, r)
    BY <1>1, <1>4 DEF QueryState
  <2> HIDE DEF r
  <2>2. /\ Seen' = Seen
        /\ \A d \in Callers : AskedOnly(caller'[d])
        /\ caller'[c] = r /\ \A d \in Callers \ {c} : caller'[d] = caller[d]
    BY <1>1, <2>1, FlightUnseen DEF Busy, InFlight
  <2>3. Waiting' = Waiting
    <3>1. \A k : k \in Waiting' <=> k \in Waiting
      BY <1>1, <2>1, <2>2, CallsAre
    <3> QED
      BY <3>1
  <2>4. Arrived' = Arrived \ {answer}
    <3>1. \A a : a \in Arrived' <=> a \in Arrived /\ a # answer
      BY <1>1, <1>2, <2>1, <2>2, CallsAre
    <3> QED
      BY <3>1
  <2> QED
    BY <2>2, <2>3, <2>4
<1>5. PICK commits \in BOOLEAN :
          /\ entry' = IF commits THEN [entry EXCEPT ![Key(p)] = p.payload] ELSE entry
          /\ Becomes(c, [p EXCEPT !.pc = "release",
                            !.outcome = IF commits THEN "stored" ELSE "raised"])
  BY DEF WriteEntry, Commits
<1>6. /\ Seen' = Seen /\ Waiting' = Waiting /\ Arrived' = Arrived \ {answer}
      /\ \A d \in Callers : AskedOnly(caller'[d])
  BY <1>4, <1>5
<1>7. CASE commits
  <2>1. entry' = [entry EXCEPT ![Key(p)] = p.payload]
    BY <1>5, <1>7
  <2>2. Abstract!Store(answer)
    BY <1>1, <1>3, <1>6, <2>1 DEF Abstract!Store
  <2> QED
    BY <1>3, <1>6, <2>2 DEF Kept, Abstract!PNext
<1>8. CASE ~ commits
  <2>1. entry' = entry
    BY <1>5, <1>8
  <2>2. Abstract!Drop(answer)
    BY <1>1, <1>3, <1>6, <2>1 DEF Abstract!Drop
  <2> QED
    BY <1>3, <1>6, <2>2 DEF Kept, Abstract!PNext
<1> QED
  BY <1>7, <1>8

LEMMA AnswerPromise ==
    ASSUME PromiseInv, CallersOK', NEW c \in Callers, Answer(c)
    PROVE  Kept
<1> DEFINE p == caller[c]
           q == [p EXCEPT !.pc = "done", !.source = Source(p),
                          !.existing = Nothing, !.fetched = {},
                          !.old = {}, !.stale = FALSE, !.floor = Nothing]
           r == [p EXCEPT !.pc = "done", !.source = "error"]
<1>1. p \in QueryState /\ CallerOK(p) /\ AskedOnly(p) /\ Complete(p)
      /\ entry' = entry /\ clock' = clock
  BY PromiseParts DEF Answer
<1>2. CASE p.pc = "next" /\ p.todo = {} /\ Becomes(c, q)
  <2>1. /\ q.pc = "done" /\ q.source # "error" /\ q.need = p.need /\ q.got = p.got
        /\ q.todo = {}
    BY <1>1, <1>2 DEF QueryState, Source
  <2> HIDE DEF q
  <2>2. AskedOnly(q) /\ SeenQuery(q) = Abstract!Reply(p.need, p.got)
    BY <2>1 DEF AskedOnly, SeenQuery, Abstract!Reply
  <2>3. /\ Seen' = [Seen EXCEPT ![c] = SeenQuery(q)] /\ Seen[c] = SeenQuery(p)
        /\ \A d \in Callers : AskedOnly(caller'[d])
        /\ caller'[c] = q /\ \A d \in Callers \ {c} : caller'[d] = caller[d]
    BY <1>2, <2>2, OneSeen
  <2>4. Waiting' = Waiting /\ Arrived' = Arrived
    BY <1>2, <2>1, <2>3, CallsStay
  <2>5. SeenQuery(p) = Abstract!Open(p.need, p.floor, p.got)
    BY <1>1, <1>2, SeenOpen DEF OpenSteps
  <2>6. /\ Seen[c].phase = "open" /\ Seen[c].need = p.need /\ Seen[c].got = p.got
    BY <2>3, <2>5 DEF Abstract!Open
  <2>7. \A k \in p.need : p.got[k] # 0
    BY <1>1, <1>2 DEF Complete
  <2>8. Abstract!AnswerWhole(c)
    BY <1>1, <2>2, <2>3, <2>4, <2>6, <2>7 DEF Abstract!AnswerWhole, Abstract!OpenQuery
  <2> QED
    BY <2>3, <2>8 DEF Kept, Abstract!PNext
<1>3. CASE p.pc = "next" /\ Becomes(c, Refused)
  BY <1>1, <1>3, Closes DEF OpenSteps
<1>4. CASE p.pc = "refused" /\ Becomes(c, r)
  <2>1. r.pc = "done" /\ r.source = "error" /\ r.todo = p.todo /\ r.need = p.need
    BY <1>1 DEF QueryState
  <2> HIDE DEF r
  <2>2. AskedOnly(r) /\ SeenQuery(r) = SeenQuery(p)
    BY <1>1, <1>4, <2>1 DEF AskedOnly, SeenQuery
  <2> QED
    BY <1>1, <1>4, <2>1, <2>2, Unnoticed
<1> QED
  BY <1>2, <1>3, <1>4 DEF Answer

LEMMA StoreErrorPromise ==
    ASSUME PromiseInv, CallersOK', NEW c \in Callers, StoreError(c)
    PROVE  Kept
<1>1. Becomes(c, Idle) /\ entry' = entry /\ clock' = clock
  BY DEF StoreError
<1>2. CASE caller[c].pc \in {"read", "next", "recheck", "lease", "after"}
  BY <1>1, <1>2, Closes DEF OpenSteps, Busy
<1>3. CASE caller[c].pc = "refused"
  <2>1. AskedOnly(Idle) /\ Idle.pc = "idle"
    BY DEF AskedOnly, Idle
  <2>2. /\ Seen' = [Seen EXCEPT ![c] = SeenQuery(Idle)]
        /\ \A d \in Callers : AskedOnly(caller'[d])
        /\ caller'[c] = Idle /\ \A d \in Callers \ {c} : caller'[d] = caller[d]
    BY <1>1, <2>1, OneSeen
  <2>3. Waiting' = Waiting /\ Arrived' = Arrived
    BY <1>3, <2>1, <2>2, CallsStay
  <2>4. Seen' = [d \in Callers |-> IF d \in {c} THEN Abstract!NoQuery ELSE Seen[d]]
    BY <2>2, SeenClosed DEF Seen
  <2>5. Abstract!Die
    BY <1>1, <2>3, <2>4 DEF Abstract!Die
  <2> QED
    BY <2>2, <2>5 DEF Kept, Abstract!PNext
<1> QED
  BY <1>2, <1>3 DEF StoreError

LEMMA CrashPromise ==
    ASSUME PromiseInv, CallersOK', NEW s \in Services, Crash(s)
    PROVE  Kept
<1> DEFINE lost == {c \in Callers : Home[c] = s}
<1>1. entry' = entry /\ clock' = clock
  BY DEF Crash
<1>2. \A c \in Callers : caller'[c] = IF c \in lost THEN Idle ELSE caller[c]
  BY DEF Crash
<1>3. Idle.pc = "idle" /\ AskedOnly(Idle)
  BY DEF Idle, AskedOnly
<1>4. \A c \in Callers : AskedOnly(caller'[c])
  BY <1>2, <1>3 DEF PromiseInv
<1>5. Seen' = [c \in Callers |-> IF c \in lost THEN Abstract!NoQuery ELSE Seen[c]]
  BY <1>2, SeenClosed DEF Seen
<1>6. Waiting' \subseteq Waiting /\ Arrived' \subseteq Arrived
  <2>1. \A c \in Callers : caller'[c].pc \in {"fetch", "write"} => caller'[c] = caller[c]
    BY <1>2, <1>3
  <2>2. \A k : k \in Waiting' => k \in Waiting
    BY <2>1, CallsAre
  <2>3. \A a : a \in Arrived' => a \in Arrived
    BY <2>1, CallsAre
  <2> QED
    BY <2>2, <2>3
<1> HIDE DEF lost
<1>7. lost \in SUBSET Callers
  BY DEF lost
<1>8. Abstract!Die
  BY <1>1, <1>5, <1>6, <1>7 DEF Abstract!Die
<1> QED
  BY <1>4, <1>8 DEF Kept, Abstract!PNext

LEMMA PromiseStep ==
    ASSUME PromiseInv, CallersOK', [Next]_vars, "clear" \notin Faults
    PROVE  Kept
<1>1. ASSUME NEW c \in Callers, QueryStep(c)
      PROVE  Kept
  BY <1>1, ReadExistingPromise, UseExistingPromise, AnswerPromise, AwaitLockPromise,
     RecheckPromise, TakeLeasePromise, ReadAfterLeasePromise, FetchPromise,
     WriteEntryPromise, ReleasePromise DEF QueryStep
<1>2. ASSUME NEW c \in Callers, Ask(c) \/ StoreError(c)
      PROVE  Kept
  BY <1>2, AskPromise, StoreErrorPromise
<1>3. ASSUME NEW s \in Services, Crash(s)
      PROVE  Kept
  BY <1>3, CrashPromise
<1>4. ~ Clear
  BY DEF Clear
<1>5. CASE UNCHANGED vars
  <2>1. caller' = caller /\ entry' = entry /\ clock' = clock
    BY <1>5 DEF vars
  <2>2. Seen' = Seen
    BY <2>1 DEF Seen
  <2>3. Waiting' = Waiting /\ Arrived' = Arrived
    <3>1. \A k : k \in Waiting' <=> k \in Waiting
      BY <2>1, CallsAre
    <3>2. \A a : a \in Arrived' <=> a \in Arrived
      BY <2>1, CallsAre
    <3> QED
      BY <3>1, <3>2
  <2>4. \A c \in Callers : AskedOnly(caller'[c])
    BY <2>1 DEF PromiseInv
  <2> QED
    BY <2>1, <2>2, <2>3, <2>4 DEF Kept, Abstract!pvars
<1> QED
  BY <1>1, <1>2, <1>3, <1>4, <1>5 DEF Next

LEMMA PromiseInitially == Init => PromiseInv /\ Abstract!PInit
<1> SUFFICES ASSUME Init PROVE PromiseInv /\ Abstract!PInit
  OBVIOUS
<1>1. \A c \in Callers : caller[c] = Idle
  BY DEF Init
<1>2. AskedOnly(Idle) /\ Idle.pc = "idle"
  BY DEF AskedOnly, Idle
<1>3. PromiseInv
  BY <1>1, <1>2, CacheInitInv, IdleComplete DEF PromiseInv
<1>4. Waiting = {} /\ Arrived = {}
  <2>1. \A k : k \notin Waiting
    BY <1>1, <1>2, CallsAre
  <2>2. \A a : a \notin Arrived
    BY <1>1, <1>2, CallsAre
  <2> QED
    BY <2>1, <2>2
<1>5. Seen = [c \in Callers |-> Abstract!NoQuery]
  BY <1>1, SeenClosed DEF Seen
<1>6. entry = [k \in Keys |-> 0] /\ clock = 0
  BY DEF Init, Nothing
<1> QED
  BY <1>3, <1>4, <1>5, <1>6 DEF Abstract!PInit

\* Unless an administrator clears the cache, callers see the steps of
\* CachePromise and no others, however many services share the database and
\* whichever of them die.
THEOREM ImplementsPromise ==
    "clear" \notin Faults =>
        (Spec => Abstract!PInit /\ [][Abstract!PNext]_(Abstract!pvars))
<1> SUFFICES ASSUME "clear" \notin Faults
             PROVE  Spec => Abstract!PInit /\ [][Abstract!PNext]_(Abstract!pvars)
  OBVIOUS
<1>1. Init => PromiseInv /\ Abstract!PInit
  BY PromiseInitially
<1>2. PromiseInv /\ [Next]_vars => PromiseInv' /\ [Abstract!PNext]_(Abstract!pvars)
  <2> SUFFICES ASSUME PromiseInv, [Next]_vars
               PROVE  PromiseInv' /\ [Abstract!PNext]_(Abstract!pvars)
    OBVIOUS
  <2>1. IInv'
    BY CacheInvStep DEF PromiseInv
  <2>2. CallersOK' /\ CallersOK
    BY <2>1 DEF IInv, PromiseInv
  <2>3. Kept
    BY <2>2, PromiseStep
  <2>4. \A c \in Callers : Complete(caller[c])'
    BY <2>2, CompleteStep DEF PromiseInv
  <2>5. PromiseInv'
    BY <2>1, <2>3, <2>4 DEF PromiseInv, Kept
  <2> QED
    BY <2>3, <2>5 DEF Kept
<1> QED
  BY <1>1, <1>2, PTL DEF Spec
=============================================================================
