---------------------------- MODULE SourceEvents ----------------------------
(***************************************************************************)
(* SourceEventService of source_events.py: a ledger of events, found by    *)
(* the request that fetched them last.                                     *)
(*                                                                         *)
(* A request is answered from the events stored under its key, unless it   *)
(* is forced or there are none.  Otherwise the sources of its route are    *)
(* asked one after the other until there are enough rows, the rows are     *)
(* written, and the fetch is recorded.  A row that is already known, by    *)
(* its id or by its dedupe key, updates the known event, keeps its id and  *)
(* first_seen_at, and moves it to the request that writes.  Each table     *)
(* access is a transaction under the lock of the service; nothing is held  *)
(* in between.                                                             *)
(***************************************************************************)
EXTENDS Requests

CONSTANTS
    Keys,     \* request keys: records as in KeyRecords
    Sources,  \* source ids, numbers; a feed route asks them in this order
    Items,    \* what providers publish, numbers; a higher one is younger
    IdOf,     \* the source_event_id of each item, a number
    UrlOf,    \* what identifies each item besides: its URL or provider_item_id
    SourceOf, \* the source of each item
    Seeds     \* OFFICIAL_SOURCE_SEEDS

\* What the routes differ in.  feed: the route registers the seeds, and asks
\* the enabled ones that match; topical: the dedupe key of an event contains
\* the query of the request; optional: the route has to be enabled.  A limit of
\* 0 is accepted: the answer is empty.
Route(feed, topical, optional) ==
    [feed |-> feed, topical |-> topical, optional |-> optional]

OfficialFilings     == Route(FALSE, FALSE, FALSE)
OfficialDisclosures == Route(FALSE, FALSE, FALSE)
NewsContext         == Route(FALSE, TRUE, FALSE)
OpenNewsIndex       == Route(FALSE, TRUE, FALSE)
SocialHeat          == Route(FALSE, FALSE, TRUE)
OfficialSources     == Route(TRUE, FALSE, FALSE)
IndustryMedia       == Route(TRUE, FALSE, FALSE)

Routes == {OfficialFilings, OfficialDisclosures, NewsContext, OpenNewsIndex,
           SocialHeat, OfficialSources, IndustryMedia}

KeyRecords ==
    [route : Routes, query : Nat, limit : Nat, sources : SUBSET Sources]

Ids == {IdOf[i] : i \in Items}

ASSUME EventConstants ==
    /\ Sources \subseteq Nat /\ Items \subseteq Nat \ {0} /\ IsFiniteSet(Items)
    /\ Keys \subseteq KeyRecords
    /\ SourceOf \in [Items -> Sources]
    /\ IdOf \in [Items -> Nat] /\ DOMAIN UrlOf = Items
    /\ Seeds \subseteq Sources
    /\ \A k \in Keys : IF k.route.feed THEN k.sources \subseteq Seeds
                                       ELSE Cardinality(k.sources) = 1

VARIABLES
    events,    \* source_events: for each id the stored event, or NoEvent
    registry,  \* the source_id of source_registry
    draft,     \* events, as the open transaction of _write_source_events sees it
    request,   \* the state of each client's request
    clock,     \* fetched_at: how many times a provider has answered
    shown,     \* for the properties: the events each key was last answered with
               \* from upstream, but for those that others have taken over since
    rekeyed    \* for the properties: dedupe keys that known events have changed to

eventVars == <<events, registry, draft, request, clock, shown, rekeyed>>

----------------------------------------------------------------------------
(* The ledger *)

NoEvent == [item |-> 0, key |-> <<>>, owner |-> <<>>, first |-> 0]

\* _dedupe_key: as part of it the source is given by the item.
DedupeKey(k, i) == <<SourceOf[i], UrlOf[i], IF k.route.topical THEN k.query ELSE 0>>

DedupeKeys == {DedupeKey(k, i) : k \in Keys, i \in Items}

Event == [item : Items, key : DedupeKeys, owner : Keys, first : Nat]

Known(ledger) == {id \in Ids : ledger[id] # NoEvent}

\* Mutant of Matches: an event is known by its id only.
MatchesById(ledger, k, i) == {IdOf[i]} \cap Known(ledger)

\* The rows _find_existing_event chooses from: the event of the same id, or
\* else the events of the same dedupe key that were seen first.
Matches(ledger, k, i) ==
    LET same == {id \in Known(ledger) : ledger[id].key = DedupeKey(k, i)} IN
    IF IdOf[i] \in Known(ledger) THEN {IdOf[i]}
    ELSE {id \in same : \A e \in same : ledger[id].first <= ledger[e].first}

\* Mutant of Owner: an update leaves the event to the request that inserted it.
OwnerKept(ledger, id, k) == IF id \in Known(ledger) THEN ledger[id].owner ELSE k

Owner(ledger, id, k) == k

\* Mutant of FirstSeen: an event that changes its dedupe key counts as new.
FirstSeenByKey(ledger, id, k, i, stamp) ==
    IF id \in Known(ledger) /\ ledger[id].key = DedupeKey(k, i)
    THEN ledger[id].first ELSE stamp

FirstSeen(ledger, id, k, i, stamp) ==
    IF id \in Known(ledger) THEN ledger[id].first ELSE stamp

\* _write_source_event_row: item i, fetched at stamp, is written as event id.
Upserted(ledger, id, k, i, stamp) ==
    [ledger EXCEPT ![id] = [item |-> i, key |-> DedupeKey(k, i),
                            owner |-> Owner(ledger, id, k),
                            first |-> FirstSeen(ledger, id, k, i, stamp)]]

Owned(k) == {id \in Known(events) : events[id].owner = k}

\* The order of _read_cached_events: the youngest first, then by id.
Before(d, e) ==
    events[d].item > events[e].item \/ (events[d].item = events[e].item /\ d < e)

CachedEvents(k) ==
    {id \in Owned(k) : Cardinality({e \in Owned(k) : Before(e, id)}) < k.limit}

----------------------------------------------------------------------------
(* Requests *)

RequestState ==
    [pc     : {"idle", "registry", "read", "fetch", "begin", "write", "run", "done"},
     key    : Keys \cup {<<>>},
     force  : BOOLEAN,
     todo   : SUBSET Sources,        \* sources still to be asked
     failed : BOOLEAN,               \* degradation_events
     batch  : [Items -> Nat],        \* rows to be written: their stamps; 0: none
     answer : SUBSET Ids,
     status : {"none", "cached", "ok", "degraded"},
     kept   : SUBSET Ids]            \* for the properties: shown, at the read

NoBatch == [i \in Items |-> 0]

NoRequest ==
    [pc |-> "idle", key |-> <<>>, force |-> FALSE, todo |-> {}, failed |-> FALSE,
     batch |-> NoBatch, answer |-> {}, status |-> "none", kept |-> {}]

Batch(q) == {i \in Items : q.batch[i] # 0}

Room(q) == q.key.limit - Cardinality(Batch(q))

EventsTypeOK ==
    /\ events \in [Ids -> Event \cup {NoEvent}]
    /\ draft \in [Ids -> Event \cup {NoEvent}]
    /\ registry \subseteq Sources
    /\ request \in [Clients -> RequestState]
    /\ clock \in Nat
    /\ shown \in [Keys -> SUBSET Ids]
    /\ rekeyed \subseteq DedupeKeys

EventsInit ==
    /\ events = [id \in Ids |-> NoEvent]
    /\ draft = events
    /\ registry = {}
    /\ request = [c \in Clients |-> NoRequest]
    /\ clock = 0
    /\ shown = [k \in Keys |-> {}]
    /\ rekeyed = {}

RequestBecomes(c, q) == request' = [request EXCEPT ![c] = q]

\* No transaction of _write_source_events is open: the lock is free.
LockFree == \A c \in Clients : request[c].pc # "write"

Answered(q, answer, status) ==
    [NoRequest EXCEPT !.pc = "done", !.key = q.key, !.answer = answer,
                      !.status = status, !.kept = q.kept]

\* The next source is asked, if there is one.  The loop of a route of feeds is
\* left when there are enough rows; the other routes ask their source always.
Fetched(q) ==
    IF q.todo # {} /\ (q.key.route.feed => Room(q) > 0) THEN q
    ELSE [q EXCEPT !.pc = IF Batch(q) = {} THEN "run" ELSE "begin",
                   !.todo = {}]

----------------------------------------------------------------------------
(* Reading *)

\* A route of feeds registers the seeds before it reads; an optional route may
\* be switched off.
AskEvents(c, k) ==
    /\ request[c].pc \in {"idle", "done"}
    /\ \E force \in BOOLEAN :
          \/ RequestBecomes(c, [NoRequest EXCEPT !.pc = IF k.route.feed THEN "registry"
                                                                        ELSE "read",
                                                 !.key = k, !.force = force])
          \/ /\ k.route.optional
             /\ RequestBecomes(c, [NoRequest EXCEPT !.pc = "done", !.key = k,
                                                    !.status = "degraded"])
    /\ UNCHANGED <<events, registry, draft, clock, shown, rekeyed>>

\* _write_official_source_registry
RegisterSeeds(c) ==
    LET q == request[c] IN
    /\ q.pc = "registry" /\ LockFree
    /\ \E commits \in Commits :
          /\ registry' = IF commits THEN registry \cup Seeds ELSE registry
          /\ RequestBecomes(c, IF commits THEN [q EXCEPT !.pc = "read"] ELSE NoRequest)
    /\ UNCHANGED <<events, draft, clock, shown, rekeyed>>

\* official_source_registry, a request of its own.
ListRegistry ==
    /\ LockFree
    /\ \E listed \in SUBSET Seeds : registry' = registry \cup listed
    /\ UNCHANGED <<events, draft, request, clock, shown, rekeyed>>

\* Without an enabled source that matches there is nothing to fetch.
ReadEvents(c) ==
    LET q    == [request[c] EXCEPT !.kept = shown[request[c].key]]
        rows == CachedEvents(q.key)
    IN  /\ request[c].pc = "read" /\ LockFree
        /\ RequestBecomes(c,
              IF rows # {} /\ ~q.force      THEN Answered(q, rows, "cached")
              ELSE IF q.key.sources = {}    THEN Answered(q, {}, "degraded")
              ELSE Fetched([q EXCEPT !.pc = "fetch", !.force = FALSE,
                                     !.todo = q.key.sources, !.kept = {}]))
        /\ UNCHANGED <<events, registry, draft, clock, shown, rekeyed>>

----------------------------------------------------------------------------
(* Fetching *)

NextSource(q) == CHOOSE s \in q.todo : \A e \in q.todo : s <= e

\* A source has some rows, and as many are taken as there is room for.
SourceAnswers(c) ==
    LET q == request[c]
        s == NextSource(q)
    IN  /\ q.pc = "fetch"
        /\ clock' = clock + 1
        /\ \E rows \in SUBSET {i \in Items : SourceOf[i] = s} :
              /\ rows # {} /\ Cardinality(rows) <= Room(q)
              /\ RequestBecomes(c, Fetched([q EXCEPT
                    !.todo = @ \ {s},
                    !.batch = [i \in Items |-> IF i \in rows THEN clock + 1 ELSE @[i]]]))
        /\ UNCHANGED <<events, registry, draft, shown, rekeyed>>

\* Mutant of Failed: the source is asked again.
FailedRetry(q, s) == [q EXCEPT !.failed = TRUE]

Failed(q, s) == [q EXCEPT !.failed = TRUE, !.todo = @ \ {s}]

\* The call fails, times out or has no rows, or there is room for none: on to
\* the next source.
SourceFails(c) ==
    LET q == request[c] IN
    /\ q.pc = "fetch"
    /\ "provider" \in Faults \/ Room(q) = 0
    /\ RequestBecomes(c, Fetched(Failed(q, NextSource(q))))
    /\ UNCHANGED <<events, registry, draft, clock, shown, rekeyed>>

\* deadline_at has passed: every source that is left fails at once.
EventsDeadline(c) ==
    LET q == request[c] IN
    /\ "deadline" \in Faults
    /\ q.pc = "fetch"
    /\ RequestBecomes(c, Fetched([q EXCEPT !.failed = TRUE, !.todo = {}]))
    /\ UNCHANGED <<events, registry, draft, clock, shown, rekeyed>>

----------------------------------------------------------------------------
(* Writing *)

\* _write_source_events takes the lock and opens its transaction.
BeginWrite(c) ==
    /\ request[c].pc = "begin" /\ LockFree
    /\ RequestBecomes(c, [request[c] EXCEPT !.pc = "write"])
    /\ draft' = events
    /\ UNCHANGED <<events, registry, clock, shown, rekeyed>>

\* A row that is not known is inserted under its own id.
WriteRow(c) ==
    LET q == request[c] IN
    /\ q.pc = "write"
    /\ \E i \in Batch(q) :
       \E id \in (IF Matches(draft, q.key, i) = {} THEN {IdOf[i]}
                                                   ELSE Matches(draft, q.key, i)) :
          /\ draft' = Upserted(draft, id, q.key, i, q.batch[i])
          /\ RequestBecomes(c, [q EXCEPT !.batch[i] = 0, !.answer = @ \cup {id}])
          /\ rekeyed' = rekeyed \cup
                {k \in {DedupeKey(q.key, i)} : id \in Known(draft) /\ draft[id].key # k}
    /\ UNCHANGED <<events, registry, clock, shown>>

\* Mutant of Registered: every route relies on the seeds.
SeedsOnly(k) == registry

\* The descriptor's source is registered with the rows; a route of feeds has
\* registered their sources before.
Registered(k) == IF k.route.feed THEN registry ELSE registry \cup k.sources

\* The transaction is committed: the rows are stored.
CommitWrite(c) ==
    LET q == request[c] IN
    /\ q.pc = "write" /\ Batch(q) = {}
    /\ events' = draft
    /\ registry' = Registered(q.key)
    /\ RequestBecomes(c, [q EXCEPT !.pc = "run"])
    /\ shown' = [k \in Keys |-> IF k = q.key THEN q.answer ELSE shown[k] \ q.answer]
    /\ UNCHANGED <<draft, clock, rekeyed>>

\* A statement raises: the transaction is rolled back, and the request fails.
RollBack(c) ==
    /\ "store" \in Faults
    /\ request[c].pc = "write"
    /\ RequestBecomes(c, NoRequest)
    /\ draft' = events
    /\ UNCHANGED <<events, registry, clock, shown, rekeyed>>

\* An answer without events is degraded, like one that not every source asked
\* for has contributed to.
RunStatus(q) == IF q.failed \/ q.answer = {} THEN "degraded" ELSE "ok"

\* _write_fetch_run, a transaction of its own: if it raises, the request fails
\* although its events are stored.
RecordRun(c) ==
    LET q == request[c] IN
    /\ q.pc = "run" /\ LockFree
    /\ \E commits \in Commits :
          RequestBecomes(c, IF commits THEN Answered(q, q.answer, RunStatus(q))
                                       ELSE NoRequest)
    /\ UNCHANGED <<events, registry, draft, clock, shown, rekeyed>>

\* The table cannot be read: the request fails.
EventsReadError(c) ==
    /\ "store" \in Faults
    /\ request[c].pc = "read" /\ LockFree
    /\ RequestBecomes(c, NoRequest)
    /\ UNCHANGED <<events, registry, draft, clock, shown, rekeyed>>

\* The handler has the answer and is done with it.
EventsReturn(c) ==
    /\ request[c].pc = "done"
    /\ RequestBecomes(c, NoRequest)
    /\ UNCHANGED <<events, registry, draft, clock, shown, rekeyed>>

EventsStep(c) ==
    \/ RegisterSeeds(c) \/ ReadEvents(c)
    \/ SourceAnswers(c) \/ SourceFails(c)
    \/ BeginWrite(c) \/ WriteRow(c) \/ CommitWrite(c) \/ RecordRun(c)

EventsFault(c) == EventsDeadline(c) \/ RollBack(c) \/ EventsReadError(c)

EventsNext ==
    \/ ListRegistry
    \/ \E c \in Clients : \/ \E k \in Keys : AskEvents(c, k)
                         \/ EventsStep(c) \/ EventsReturn(c) \/ EventsFault(c)

EventsSpec == EventsInit /\ [][EventsNext]_eventVars

----------------------------------------------------------------------------
(* Properties *)

\* An event that is stored stays, and keeps the time it was first seen: whether
\* it comes again by another route, with another id or another dedupe key, and
\* in whichever order concurrent requests write.
FirstSeenKept ==
    [][\A id \in Known(events) :
          id \in Known(events)' /\ events'[id].first = events[id].first]_events

\* No two stored events have the same dedupe key, unless an event had another
\* one before and took this one over when it came again by its id.
OneEventPerKey ==
    \A d, e \in Known(events) :
        d # e /\ events[d].key = events[e].key => events[d].key \in rekeyed

\* An answer from the ledger has as many events as the last answer that was
\* fetched for the same request, but for the events that other requests have
\* taken over since: none are lost between an answer and its repetition.
CachedAnswerIsWhole ==
    \A c \in Clients : request[c].status = "cached" =>
        Cardinality(request[c].answer) >= Cardinality(request[c].kept)

\* The source of every stored event is registered, although the table has no
\* foreign key and feeds register their sources in a transaction of their own.
SourcesRegistered == \A id \in Known(events) : SourceOf[events[id].item] \in registry
=============================================================================
