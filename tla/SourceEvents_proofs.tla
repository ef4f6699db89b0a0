------------------------- MODULE SourceEvents_proofs -------------------------
(***************************************************************************)
(* Theorems about the source-event service, for every set of clients,      *)
(* items and request keys, and any number of requests.                     *)
(***************************************************************************)
EXTENDS SourceEvents, FiniteSetTheorems, WellFoundedInduction, TLAPS

----------------------------------------------------------------------------
(* The inductive invariant *)

AfterRegistry == {"read", "fetch", "begin", "write", "run"}

\* What holds of a request by itself: it asks the sources of its key, and has
\* rows of no other.
RequestOK(q) ==
    /\ q \in RequestState
    /\ q.pc # "idle" => q.key \in Keys
    /\ q.pc = "fetch" => q.todo # {} /\ q.todo \subseteq q.key.sources
    /\ \A i \in Items : q.batch[i] # 0 => q.pc # "idle" /\ SourceOf[i] \in q.key.sources

\* The transaction of a writer adds to the ledger and takes nothing from it.
Extends(ledger, old) ==
    \A id \in Known(old) : id \in Known(ledger) /\ ledger[id].first = old[id].first

OnePerKey(ledger) ==
    \A d, e \in Known(ledger) :
        d # e /\ ledger[d].key = ledger[e].key => ledger[d].key \in rekeyed

SourcesIn(ledger, sources) == \A id \in Known(ledger) : SourceOf[ledger[id].item] \in sources

OneWriter ==
    \A c, e \in Clients : request[c].pc = "write" /\ request[e].pc = "write" => c = e

\* A request that writes, or will, finds its sources registered or registers
\* them.
SeedsFirst ==
    \A c \in Clients :
        request[c].pc \in AfterRegistry /\ request[c].key.route.feed => Seeds \subseteq registry

DraftSources ==
    \A c \in Clients :
        request[c].pc = "write" => SourcesIn(draft, registry \cup request[c].key.sources)

EventsInv ==
    /\ EventsTypeOK
    /\ \A c \in Clients : RequestOK(request[c])
    /\ OneWriter
    /\ Extends(draft, events)
    /\ OnePerKey(events) /\ OnePerKey(draft)
    /\ SourcesIn(events, registry)
    /\ SeedsFirst
    /\ DraftSources

\* The parts of it that are about the tables only.
TablesOK ==
    /\ events \in [Ids -> Event \cup {NoEvent}]
    /\ draft \in [Ids -> Event \cup {NoEvent}]
    /\ registry \subseteq Sources
    /\ clock \in Nat
    /\ shown \in [Keys -> SUBSET Ids]
    /\ rekeyed \subseteq DedupeKeys

----------------------------------------------------------------------------
(* Constants *)

LEMMA LeastElement ==
    ASSUME NEW T, T \subseteq Nat, T # {}
    PROVE  \E x \in T : \A y \in T : x <= y
<1> DEFINE R == {ss \in Nat \X Nat : ss[1] < ss[2]}
<1>1. IsWellFoundedOn(R, Nat)
  BY NatLessThanWellFounded DEF OpToRel
<1>2. \A x, y \in Nat : <<y, x>> \in R <=> y < x
  OBVIOUS
<1> HIDE DEF R
<1>3. PICK x \in T : \A y \in T : ~ (<<y, x>> \in R)
  BY <1>1, WFMin
<1>4. \A y \in T : ~ (y < x)
  BY <1>2, <1>3
<1> QED
  BY <1>4

LEMMA KeyParts ==
    ASSUME NEW k \in Keys
    PROVE  /\ k.sources \subseteq Sources
           /\ k.route.feed => k.sources \subseteq Seeds
<1>1. k \in KeyRecords
  BY EventConstants
<1> QED
  BY <1>1, EventConstants DEF KeyRecords

LEMMA NextSourceIsLeft ==
    ASSUME NEW q, q.todo \subseteq Sources, q.todo # {}
    PROVE  NextSource(q) \in q.todo
<1>1. \E s \in q.todo : \A e \in q.todo : s <= e
  BY EventConstants, LeastElement
<1> QED
  BY <1>1 DEF NextSource

----------------------------------------------------------------------------
(* The ledger *)

LEMMA KnownEvents ==
    ASSUME NEW ledger, ledger \in [Ids -> Event \cup {NoEvent}], NEW id \in Known(ledger)
    PROVE  /\ id \in Ids /\ ledger[id] \in Event /\ ledger[id].first \in Nat
           /\ ledger[id].item \in Items /\ ledger[id].key \in DedupeKeys
BY DEF Known, Event

\* A row goes to an event of its dedupe key, to the event of its id, or to a new
\* one if there is neither.
LEMMA RowTarget ==
    ASSUME NEW ledger, ledger \in [Ids -> Event \cup {NoEvent}],
           NEW k \in Keys, NEW i \in Items,
           NEW id \in (IF Matches(ledger, k, i) = {} THEN {IdOf[i]} ELSE Matches(ledger, k, i))
    PROVE  /\ id \in Ids
           /\ id \notin Known(ledger) =>
                 \A e \in Known(ledger) : ledger[e].key # DedupeKey(k, i)
<1> DEFINE same == {e \in Known(ledger) : ledger[e].key = DedupeKey(k, i)}
<1>1. IdOf[i] \in Ids
  BY DEF Ids
<1>2. Matches(ledger, k, i) \subseteq Known(ledger)
  BY DEF Matches
<1>3. id \in Ids
  BY <1>1, <1>2 DEF Known
<1>4. ASSUME id \notin Known(ledger) PROVE same = {}
  <2>1. Matches(ledger, k, i) = {}
    BY <1>2, <1>4
  <2>2. {e \in same : \A f \in same : ledger[e].first <= ledger[f].first} = {}
    BY <2>1, <1>4 DEF Matches
  <2> SUFFICES ASSUME same # {} PROVE FALSE
    OBVIOUS
  <2> DEFINE T == {ledger[e].first : e \in same}
  <2>3. T \subseteq Nat /\ T # {}
    BY KnownEvents
  <2>4. PICK n \in T : \A m \in T : n <= m
    BY <2>3, LeastElement
  <2> QED
    BY <2>2, <2>4
<1> QED
  BY <1>3, <1>4

\* What writing a row makes of a ledger.
LEMMA RowWritten ==
    ASSUME NEW ledger, ledger \in [Ids -> Event \cup {NoEvent}],
           NEW k \in Keys, NEW i \in Items, NEW stamp \in Nat, NEW id \in Ids
    PROVE  LET new == Upserted(ledger, id, k, i, stamp) IN
           /\ new \in [Ids -> Event \cup {NoEvent}]
           /\ Known(new) = Known(ledger) \cup {id}
           /\ Extends(new, ledger)
           /\ new[id].key = DedupeKey(k, i) /\ new[id].item = i
           /\ \A e \in Ids \ {id} : new[e] = ledger[e]
<1> DEFINE new == Upserted(ledger, id, k, i, stamp)
           row == [item |-> i, key |-> DedupeKey(k, i), owner |-> Owner(ledger, id, k),
                   first |-> FirstSeen(ledger, id, k, i, stamp)]
<1>1. FirstSeen(ledger, id, k, i, stamp) \in Nat
  BY KnownEvents DEF FirstSeen
<1>2. DedupeKey(k, i) \in DedupeKeys
  BY DEF DedupeKeys
<1>3. row \in Event /\ row.item # 0
  BY <1>1, <1>2, EventConstants DEF Event, Owner
<1>4. new = [ledger EXCEPT ![id] = row]
  BY DEF Upserted
<1>5. row # NoEvent
  BY <1>3 DEF NoEvent
<1>6. row.key = DedupeKey(k, i) /\ row.item = i
      /\ row.first = FirstSeen(ledger, id, k, i, stamp)
  OBVIOUS
<1> HIDE DEF row, new
<1>7. /\ new \in [Ids -> Event \cup {NoEvent}] /\ new[id] = row
      /\ \A e \in Ids \ {id} : new[e] = ledger[e]
  BY <1>3, <1>4
<1>8. Known(new) = Known(ledger) \cup {id}
  BY <1>5, <1>7 DEF Known
<1>9. Extends(new, ledger)
  BY <1>6, <1>7, <1>8 DEF Extends, FirstSeen, Known
<1> QED
  BY <1>6, <1>7, <1>8, <1>9 DEF new

LEMMA RowKeepsOnePerKey ==
    ASSUME TablesOK, OnePerKey(draft), NEW k \in Keys, NEW i \in Items, NEW stamp \in Nat,
           NEW id \in (IF Matches(draft, k, i) = {} THEN {IdOf[i]} ELSE Matches(draft, k, i)),
           draft' = Upserted(draft, id, k, i, stamp),
           rekeyed' = rekeyed \cup
              {x \in {DedupeKey(k, i)} : id \in Known(draft) /\ draft[id].key # x}
    PROVE  OnePerKey(draft)'
<1> DEFINE key == DedupeKey(k, i)
<1>1. /\ id \in Ids
      /\ id \notin Known(draft) => \A e \in Known(draft) : draft[e].key # key
  BY RowTarget DEF TablesOK
<1>2. /\ Known(draft') = Known(draft) \cup {id}
      /\ draft'[id].key = key
      /\ \A e \in Ids \ {id} : draft'[e] = draft[e]
  BY <1>1, RowWritten DEF TablesOK
<1>3. Known(draft) \subseteq Ids
  BY DEF Known
<1> HIDE DEF key
<1>4. ASSUME NEW e \in Known(draft) \ {id}, draft[e].key = key PROVE key \in rekeyed'
  <2>1. id \in Known(draft)
    BY <1>1, <1>4
  <2>2. CASE draft[id].key = key
    <3>1. e # id /\ e \in Known(draft) /\ draft[id].key = draft[e].key
      BY <1>4, <2>2
    <3>2. draft[id].key \in rekeyed
      BY <2>1, <3>1 DEF OnePerKey
    <3> QED
      BY <2>2, <3>2
  <2>3. CASE draft[id].key # key
    BY <2>1, <2>3 DEF key
  <2> QED
    BY <2>2, <2>3
<1>5. SUFFICES ASSUME NEW d \in Known(draft'), NEW e \in Known(draft'),
                      d # e, draft'[d].key = draft'[e].key
               PROVE  draft'[d].key \in rekeyed'
  BY DEF OnePerKey, Known
<1>6. CASE d = id
  <2>1. e \in Known(draft) \ {id} /\ draft[e].key = key
    BY <1>2, <1>3, <1>5, <1>6
  <2> QED
    BY <1>2, <1>4, <1>6, <2>1
<1>7. CASE e = id
  <2>1. d \in Known(draft) \ {id} /\ draft[d].key = key
    BY <1>2, <1>3, <1>5, <1>7
  <2>2. draft'[d].key = key
    BY <1>2, <1>5, <1>7
  <2> QED
    BY <1>4, <2>1, <2>2
<1>8. CASE d # id /\ e # id
  <2>1. /\ d \in Known(draft) /\ e \in Known(draft)
        /\ draft'[d] = draft[d] /\ draft'[e] = draft[e]
    BY <1>2, <1>3, <1>8
  <2>2. draft[d].key \in rekeyed
    BY <1>5, <2>1 DEF OnePerKey
  <2> QED
    BY <2>1, <2>2
<1> QED
  BY <1>6, <1>7, <1>8

----------------------------------------------------------------------------
(* The states of a request *)

LEMMA NoRequestOK == RequestOK(NoRequest) /\ NoRequest.pc = "idle"
BY DEF RequestOK, NoRequest, RequestState, NoBatch

LEMMA EventsAnsweredOK ==
    ASSUME NEW q, RequestOK(q), q.pc # "idle", NEW answer, answer \subseteq Ids,
           NEW status \in {"cached", "ok", "degraded"}
    PROVE  RequestOK(Answered(q, answer, status)) /\ Answered(q, answer, status).pc = "done"
<1> DEFINE r == Answered(q, answer, status)
<1>1. q.key \in Keys /\ q.kept \subseteq Ids
  BY DEF RequestOK, RequestState
<1>2. /\ r \in RequestState /\ r.pc = "done" /\ r.key = q.key
      /\ r.batch = NoBatch
  BY <1>1 DEF Answered, NoRequest, RequestState, NoBatch
<1>3. \A i \in Items : r.batch[i] = 0
  BY <1>2 DEF NoBatch
<1> HIDE DEF r
<1>4. RequestOK(r)
  BY <1>1, <1>2, <1>3 DEF RequestOK
<1> QED
  BY <1>2, <1>4 DEF r

\* A source has been asked: the request goes on to the next, or to its writing.
LEMMA FetchedOK ==
    ASSUME NEW q, q \in RequestState, q.pc = "fetch", q.key \in Keys,
           q.todo \subseteq q.key.sources,
           \A i \in Items : q.batch[i] # 0 => SourceOf[i] \in q.key.sources
    PROVE  LET r == Fetched(q) IN
           /\ RequestOK(r) /\ r.key = q.key
           /\ r.pc \in {"fetch", "begin", "run"}
<1> DEFINE r  == Fetched(q)
           to == IF Batch(q) = {} THEN "run" ELSE "begin"
           e  == [q EXCEPT !.pc = to, !.todo = {}]
<1>1. to \in {"run", "begin"}
  OBVIOUS
<1> HIDE DEF to
<1>2. /\ e \in RequestState /\ e.pc = to /\ e.key = q.key /\ e.todo = {}
      /\ e.batch = q.batch
  BY <1>1 DEF RequestState
<1> DEFINE stays == q.todo # {} /\ (q.key.route.feed => Room(q) > 0)
<1>3. CASE stays
  <2>1. r = q
    BY <1>3 DEF Fetched
  <2> QED
    BY <1>3, <2>1 DEF RequestOK
<1>4. CASE ~stays
  <2>1. r = e
    BY <1>4 DEF Fetched, to
  <2> HIDE DEF r, e
  <2>2. RequestOK(e)
    <3>1. e \in RequestState /\ e.key \in Keys /\ e.pc \notin {"fetch", "idle"}
      BY <1>1, <1>2
    <3>2. \A i \in Items : e.batch[i] # 0 => SourceOf[i] \in e.key.sources
      BY <1>2
    <3> QED
      BY <3>1, <3>2 DEF RequestOK
  <2>3. RequestOK(r) /\ r.key = q.key /\ r.pc \in {"fetch", "begin", "run"}
    BY <1>1, <1>2, <2>1, <2>2
  <2> QED
    BY <2>3 DEF r
<1> QED
  BY <1>3, <1>4

----------------------------------------------------------------------------
(* One request moves *)

LEMMA RequestMoves ==
    ASSUME EventsInv, NEW c \in Clients, NEW q, RequestOK(q), RequestBecomes(c, q),
           TablesOK', registry \subseteq registry',
           Extends(draft', events'), OnePerKey(events)', OnePerKey(draft)',
           SourcesIn(events', registry'),
           q.pc \in AfterRegistry /\ q.key.route.feed => Seeds \subseteq registry',
           q.pc = "write" => SourcesIn(draft', registry' \cup q.key.sources),
           \/ q.pc # "write" /\ draft' = draft
           \/ \A e \in Clients \ {c} : request[e].pc # "write"
    PROVE  EventsInv'
<1>1. /\ request \in [Clients -> RequestState] /\ q \in RequestState
      /\ request' = [request EXCEPT ![c] = q]
  BY DEF EventsInv, EventsTypeOK, RequestOK, RequestBecomes
<1>2. /\ request' \in [Clients -> RequestState] /\ request'[c] = q
      /\ \A e \in Clients \ {c} : request'[e] = request[e]
  BY <1>1
<1>3. EventsTypeOK'
  BY <1>2 DEF EventsTypeOK, TablesOK
<1>4. \A e \in Clients : RequestOK(request[e])'
  BY <1>2 DEF EventsInv, RequestOK
<1>5. OneWriter'
  BY <1>2 DEF EventsInv, OneWriter
<1>6. SeedsFirst'
  BY <1>2 DEF EventsInv, SeedsFirst
<1>7. DraftSources'
  <2> SUFFICES ASSUME NEW e \in Clients, request'[e].pc = "write"
               PROVE  SourcesIn(draft', registry' \cup request'[e].key.sources)
    BY DEF DraftSources, SourcesIn, Known
  <2>1. CASE e = c
    BY <1>2, <2>1
  <2>2. CASE e # c
    <3>1. request'[e] = request[e] /\ draft' = draft
      BY <1>2, <2>2
    <3>2. SourcesIn(draft, registry \cup request[e].key.sources)
      BY <3>1 DEF EventsInv, DraftSources
    <3> QED
      BY <3>1, <3>2 DEF SourcesIn
  <2> QED
    BY <2>1, <2>2
<1>8. Extends(draft, events)' /\ SourcesIn(events, registry)'
  BY DEF Extends, SourcesIn, Known
<1> QED
  BY <1>3, <1>4, <1>5, <1>6, <1>7, <1>8 DEF EventsInv

LEMMA TablesFromInv == EventsInv => TablesOK
BY DEF EventsInv, EventsTypeOK, TablesOK

\* One that neither writes nor stops writing: the ledger and its draft stay.
LEMMA RequestMovesAlone ==
    ASSUME EventsInv, NEW c \in Clients, NEW q, RequestOK(q), RequestBecomes(c, q),
           q.pc # "write",
           UNCHANGED <<events, draft, shown, rekeyed>>, clock' \in Nat,
           registry \subseteq registry', registry' \subseteq Sources,
           q.pc \in AfterRegistry /\ q.key.route.feed => Seeds \subseteq registry'
    PROVE  EventsInv'
<1>1. TablesOK'
  BY TablesFromInv DEF TablesOK
<1>2. Extends(draft', events') /\ OnePerKey(events)' /\ OnePerKey(draft)'
  BY DEF EventsInv, Extends, OnePerKey, Known
<1>3. SourcesIn(events', registry')
  BY DEF EventsInv, SourcesIn, Known
<1> QED
  BY <1>1, <1>2, <1>3, RequestMoves

----------------------------------------------------------------------------
(* Each action keeps the invariant *)

LEMMA EventsInitKeeps == EventsInit => EventsInv
<1> SUFFICES ASSUME EventsInit PROVE EventsInv
  OBVIOUS
<1>1. Known(events) = {} /\ Known(draft) = {}
  BY DEF EventsInit, Known
<1>2. EventsTypeOK
  BY NoRequestOK DEF EventsInit, EventsTypeOK, RequestOK
<1>3. \A c \in Clients : RequestOK(request[c]) /\ request[c].pc = "idle"
  BY NoRequestOK DEF EventsInit
<1>4. OneWriter /\ SeedsFirst /\ DraftSources
  BY <1>3 DEF OneWriter, SeedsFirst, DraftSources, AfterRegistry
<1>5. Extends(draft, events) /\ OnePerKey(events) /\ OnePerKey(draft)
  BY <1>1 DEF Extends, OnePerKey
<1>6. SourcesIn(events, registry)
  BY <1>1 DEF SourcesIn
<1> QED
  BY <1>2, <1>3, <1>4, <1>5, <1>6 DEF EventsInv

LEMMA AskEventsKeeps ==
    ASSUME EventsInv, NEW c \in Clients, NEW k \in Keys, AskEvents(c, k)
    PROVE  EventsInv'
<1>1. /\ UNCHANGED <<events, draft, shown, rekeyed, registry, clock>>
      /\ clock \in Nat /\ registry \subseteq Sources
  BY DEF AskEvents, EventsInv, EventsTypeOK
<1>2. ASSUME NEW q \in RequestState, q.pc \in {"registry", "read", "done"}, q.key = k,
             \A i \in Items : q.batch[i] = 0,
             q.pc = "read" => ~k.route.feed,
             RequestBecomes(c, q)
      PROVE  EventsInv'
  <2>1. RequestOK(q)
    BY <1>2 DEF RequestOK
  <2> QED
    BY <1>1, <1>2, <2>1, RequestMovesAlone DEF AfterRegistry
<1>3. PICK force \in BOOLEAN :
         \/ RequestBecomes(c, [NoRequest EXCEPT !.pc = IF k.route.feed THEN "registry"
                                                                       ELSE "read",
                                                !.key = k, !.force = force])
         \/ RequestBecomes(c, [NoRequest EXCEPT !.pc = "done", !.key = k,
                                                !.status = "degraded"])
  BY DEF AskEvents
<1>4. CASE RequestBecomes(c, [NoRequest EXCEPT !.pc = "done", !.key = k,
                                               !.status = "degraded"])
  <2> DEFINE q == [NoRequest EXCEPT !.pc = "done", !.key = k, !.status = "degraded"]
  <2>1. /\ q \in RequestState /\ q.pc = "done" /\ q.key = k
        /\ \A i \in Items : q.batch[i] = 0
    BY DEF NoRequest, RequestState, NoBatch
  <2>2. RequestBecomes(c, q)
    BY <1>4
  <2> HIDE DEF q
  <2> QED
    BY <1>2, <2>1, <2>2
<1>5. CASE RequestBecomes(c, [NoRequest EXCEPT !.pc = IF k.route.feed THEN "registry"
                                                                      ELSE "read",
                                               !.key = k, !.force = force])
  <2> DEFINE pc == IF k.route.feed THEN "registry" ELSE "read"
             q  == [NoRequest EXCEPT !.pc = pc, !.key = k, !.force = force]
  <2>1. RequestBecomes(c, q)
    BY <1>5
  <2>2. pc \in {"registry", "read"} /\ (pc = "read" => ~k.route.feed)
    OBVIOUS
  <2> HIDE DEF pc
  <2>3. /\ q \in RequestState /\ q.pc = pc /\ q.key = k
        /\ \A i \in Items : q.batch[i] = 0
    BY <2>2 DEF NoRequest, RequestState, NoBatch
  <2> HIDE DEF q
  <2> QED
    BY <1>2, <2>1, <2>2, <2>3
<1> QED
  BY <1>3, <1>4, <1>5

LEMMA RegisterSeedsKeeps ==
    ASSUME EventsInv, NEW c \in Clients, RegisterSeeds(c)
    PROVE  EventsInv'
<1> DEFINE q == request[c]
           r == [q EXCEPT !.pc = "read"]
<1>1. q.pc = "registry" /\ RequestOK(q) /\ q \in RequestState
  BY DEF RegisterSeeds, EventsInv, RequestOK
<1>2. /\ UNCHANGED <<events, draft, shown, rekeyed, clock>>
      /\ clock \in Nat /\ registry \subseteq Sources /\ Seeds \subseteq Sources
  BY EventConstants DEF RegisterSeeds, EventsInv, EventsTypeOK
<1>3. /\ r \in RequestState /\ r.pc = "read" /\ r.key = q.key
      /\ r.batch = q.batch
  BY <1>1 DEF RequestState
<1>4. \/ registry' = registry \cup Seeds /\ RequestBecomes(c, r)
      \/ registry' = registry /\ RequestBecomes(c, NoRequest)
  BY DEF RegisterSeeds
<1> HIDE DEF q, r
<1>5. RequestOK(r)
  BY <1>1, <1>3 DEF RequestOK
<1>6. CASE registry' = registry \cup Seeds /\ RequestBecomes(c, r)
  BY <1>2, <1>3, <1>5, <1>6, RequestMovesAlone
<1>7. CASE registry' = registry /\ RequestBecomes(c, NoRequest)
  BY <1>2, <1>7, NoRequestOK, RequestMovesAlone DEF AfterRegistry
<1> QED
  BY <1>4, <1>6, <1>7

LEMMA ListRegistryKeeps ==
    ASSUME EventsInv, ListRegistry
    PROVE  EventsInv'
<1>1. /\ UNCHANGED <<events, draft, request, clock, shown, rekeyed>>
      /\ registry \subseteq registry' /\ registry' \subseteq Sources
  BY EventConstants DEF ListRegistry, EventsInv, EventsTypeOK
<1>2. EventsTypeOK' /\ OneWriter'
  BY <1>1 DEF EventsInv, EventsTypeOK, OneWriter
<1>3. \A c \in Clients : RequestOK(request[c])'
  BY <1>1 DEF EventsInv, RequestOK
<1>4. Extends(draft, events)' /\ OnePerKey(events)' /\ OnePerKey(draft)'
  BY <1>1 DEF EventsInv, Extends, OnePerKey, Known
<1>5. SourcesIn(events, registry)' /\ SeedsFirst'
  BY <1>1 DEF EventsInv, SourcesIn, Known, SeedsFirst
<1>6. DraftSources'
  BY <1>1 DEF EventsInv, DraftSources, SourcesIn, Known
<1> QED
  BY <1>2, <1>3, <1>4, <1>5, <1>6 DEF EventsInv

LEMMA ReadEventsKeeps ==
    ASSUME EventsInv, NEW c \in Clients, ReadEvents(c)
    PROVE  EventsInv'
<1> DEFINE p    == request[c]
           q    == [p EXCEPT !.kept = shown[p.key]]
           rows == CachedEvents(q.key)
           r    == [q EXCEPT !.pc = "fetch", !.force = FALSE, !.todo = q.key.sources,
                             !.kept = {}]
<1>1. p.pc = "read" /\ RequestOK(p) /\ p \in RequestState /\ p.key \in Keys
  BY DEF ReadEvents, EventsInv, RequestOK
<1>2. /\ UNCHANGED <<events, draft, shown, rekeyed, clock, registry>>
      /\ clock \in Nat /\ registry \subseteq Sources /\ shown[p.key] \subseteq Ids
  BY <1>1 DEF ReadEvents, EventsInv, EventsTypeOK
<1>3. /\ q \in RequestState /\ q.pc = "read" /\ q.key = p.key /\ q.todo = p.todo
      /\ q.batch = p.batch
  BY <1>1, <1>2 DEF RequestState
<1>4. p.key.sources \subseteq Sources
  BY <1>1, KeyParts
<1>5. rows \subseteq Ids
  BY DEF CachedEvents, Owned, Known
<1>6. RequestBecomes(c, IF rows # {} /\ ~q.force   THEN Answered(q, rows, "cached")
                        ELSE IF q.key.sources = {} THEN Answered(q, {}, "degraded")
                        ELSE Fetched(r))
  BY DEF ReadEvents
<1> HIDE DEF p, q, rows
<1>7. /\ r \in RequestState /\ r.pc = "fetch" /\ r.key = p.key
      /\ r.todo = p.key.sources /\ r.batch = p.batch
  BY <1>3, <1>4 DEF RequestState
<1> HIDE DEF r
<1>8. RequestOK(q)
  BY <1>1, <1>3 DEF RequestOK
<1>9. p.key.route.feed => Seeds \subseteq registry'
  BY <1>1, <1>2 DEF EventsInv, SeedsFirst, AfterRegistry, p
<1>10. ASSUME NEW answer, answer \subseteq Ids, NEW status \in {"cached", "degraded"},
              RequestBecomes(c, Answered(q, answer, status))
       PROVE  EventsInv'
  <2>1. RequestOK(Answered(q, answer, status)) /\ Answered(q, answer, status).pc = "done"
    BY <1>3, <1>8, <1>10, EventsAnsweredOK
  <2> QED
    BY <1>2, <1>10, <2>1, RequestMovesAlone DEF AfterRegistry
<1>11. CASE rows # {} /\ ~q.force
  BY <1>5, <1>6, <1>10, <1>11
<1>12. CASE ~(rows # {} /\ ~q.force) /\ q.key.sources = {}
  BY <1>6, <1>10, <1>12
<1>13. CASE ~(rows # {} /\ ~q.force) /\ q.key.sources # {}
  <2>1. RequestBecomes(c, Fetched(r))
    BY <1>6, <1>13
  <2>2. /\ RequestOK(Fetched(r)) /\ Fetched(r).key = r.key
        /\ Fetched(r).pc \in {"fetch", "begin", "run"}
    <3>1. r.todo \subseteq r.key.sources /\ r.key \in Keys
      BY <1>1, <1>7
    <3>2. \A i \in Items : r.batch[i] # 0 => SourceOf[i] \in r.key.sources
      BY <1>1, <1>7 DEF RequestOK
    <3> QED
      BY <1>7, <3>1, <3>2, FetchedOK
  <2> QED
    BY <1>2, <1>7, <1>9, <2>1, <2>2, RequestMovesAlone
<1> QED
  BY <1>11, <1>12, <1>13

\* A source has answered or failed: what is common to the three actions.
LEMMA SourceDealtWith ==
    ASSUME EventsInv, NEW c \in Clients, request[c].pc = "fetch",
           NEW q \in RequestState, q.pc = "fetch", q.key = request[c].key,
           q.todo \subseteq request[c].todo,
           \A i \in Items : q.batch[i] # 0 => SourceOf[i] \in q.key.sources,
           RequestBecomes(c, Fetched(q)),
           UNCHANGED <<events, draft, shown, rekeyed, registry>>, clock' \in Nat
    PROVE  EventsInv'
<1>1. /\ RequestOK(request[c]) /\ request[c].key \in Keys
      /\ request[c].todo \subseteq request[c].key.sources
  BY DEF EventsInv, RequestOK
<1>2. q.todo \subseteq q.key.sources /\ q.key \in Keys
  BY <1>1
<1>3. /\ RequestOK(Fetched(q)) /\ Fetched(q).key = q.key
      /\ Fetched(q).pc \in {"fetch", "begin", "run"}
  BY <1>2, FetchedOK
<1>4. q.key.route.feed => Seeds \subseteq registry'
  BY DEF EventsInv, SeedsFirst, AfterRegistry
<1>5. registry \subseteq Sources
  BY DEF EventsInv, EventsTypeOK
<1> QED
  BY <1>3, <1>4, <1>5, RequestMovesAlone

LEMMA SourceAnswersKeeps ==
    ASSUME EventsInv, NEW c \in Clients, SourceAnswers(c)
    PROVE  EventsInv'
<1> DEFINE q == request[c]
           s == NextSource(q)
<1>1. /\ q.pc = "fetch" /\ q \in RequestState
      /\ q.todo # {} /\ q.todo \subseteq q.key.sources /\ q.todo \subseteq Sources
      /\ \A i \in Items : q.batch[i] # 0 => SourceOf[i] \in q.key.sources
  BY DEF SourceAnswers, EventsInv, RequestOK, RequestState
<1>2. /\ UNCHANGED <<events, draft, shown, rekeyed, registry>>
      /\ clock \in Nat /\ clock' = clock + 1
  BY DEF SourceAnswers, EventsInv, EventsTypeOK
<1>3. s \in q.key.sources
  BY <1>1, NextSourceIsLeft
<1>4. PICK rows \in SUBSET {i \in Items : SourceOf[i] = s} :
         RequestBecomes(c, Fetched([q EXCEPT
            !.todo = @ \ {s},
            !.batch = [i \in Items |-> IF i \in rows THEN clock + 1 ELSE @[i]]]))
  BY DEF SourceAnswers
<1> DEFINE batch == [i \in Items |-> IF i \in rows THEN clock + 1 ELSE q.batch[i]]
           r     == [q EXCEPT !.todo = @ \ {s}, !.batch = batch]
<1>5. RequestBecomes(c, Fetched(r))
  BY <1>4
<1>6. batch \in [Items -> Nat]
  BY <1>1, <1>2 DEF RequestState
<1>7. \A i \in Items : batch[i] # 0 => SourceOf[i] \in q.key.sources
  BY <1>1, <1>3, <1>4
<1> HIDE DEF batch, s
<1>8. /\ r \in RequestState /\ r.pc = "fetch" /\ r.key = q.key
      /\ r.todo = q.todo \ {s} /\ r.batch = batch
  BY <1>1, <1>6 DEF RequestState
<1>9. clock' \in Nat
  BY <1>2
<1> HIDE DEF r
<1> QED
  BY <1>1, <1>2, <1>5, <1>7, <1>8, <1>9, SourceDealtWith

LEMMA SourceFailsKeeps ==
    ASSUME EventsInv, NEW c \in Clients, SourceFails(c) \/ EventsDeadline(c)
    PROVE  EventsInv'
<1> DEFINE q == request[c]
           f == Failed(q, NextSource(q))
           d == [q EXCEPT !.failed = TRUE, !.todo = {}]
<1>1. /\ q.pc = "fetch" /\ q \in RequestState
      /\ \A i \in Items : q.batch[i] # 0 => SourceOf[i] \in q.key.sources
  BY DEF SourceFails, EventsDeadline, EventsInv, RequestOK
<1>2. UNCHANGED <<events, draft, shown, rekeyed, registry, clock>> /\ clock \in Nat
  BY DEF SourceFails, EventsDeadline, EventsInv, EventsTypeOK
<1>3. /\ f \in RequestState /\ f.pc = "fetch" /\ f.key = q.key
      /\ f.todo \subseteq q.todo /\ f.batch = q.batch
  BY <1>1 DEF RequestState, Failed
<1>4. /\ d \in RequestState /\ d.pc = "fetch" /\ d.key = q.key
      /\ d.todo \subseteq q.todo /\ d.batch = q.batch
  BY <1>1 DEF RequestState
<1>5. RequestBecomes(c, Fetched(f)) \/ RequestBecomes(c, Fetched(d))
  BY DEF SourceFails, EventsDeadline
<1> HIDE DEF f, d
<1>6. CASE RequestBecomes(c, Fetched(f))
  BY <1>1, <1>2, <1>3, <1>6, SourceDealtWith
<1>7. CASE RequestBecomes(c, Fetched(d))
  BY <1>1, <1>2, <1>4, <1>7, SourceDealtWith
<1> QED
  BY <1>5, <1>6, <1>7

LEMMA BeginWriteKeeps ==
    ASSUME EventsInv, NEW c \in Clients, BeginWrite(c)
    PROVE  EventsInv'
<1> DEFINE q == request[c]
           r == [q EXCEPT !.pc = "write"]
<1>1. q.pc = "begin" /\ RequestOK(q) /\ q \in RequestState
  BY DEF BeginWrite, EventsInv, RequestOK
<1>2. /\ r \in RequestState /\ r.pc = "write" /\ r.key = q.key /\ r.batch = q.batch
  BY <1>1 DEF RequestState
<1>3. /\ RequestBecomes(c, r) /\ draft' = events
      /\ UNCHANGED <<events, registry, clock, shown, rekeyed>>
      /\ \A e \in Clients : request[e].pc # "write"
  BY DEF BeginWrite, LockFree
<1> HIDE DEF q, r
<1>4. RequestOK(r)
  BY <1>1, <1>2 DEF RequestOK
<1>5. r.key.route.feed => Seeds \subseteq registry'
  BY <1>1, <1>2, <1>3 DEF EventsInv, SeedsFirst, AfterRegistry, q
<1>6. TablesOK'
  BY <1>3, TablesFromInv DEF TablesOK
<1>7. Extends(draft', events') /\ OnePerKey(events)' /\ OnePerKey(draft)'
  BY <1>3 DEF EventsInv, Extends, OnePerKey, Known
<1>8. SourcesIn(events', registry') /\ SourcesIn(draft', registry' \cup r.key.sources)
  BY <1>3 DEF EventsInv, SourcesIn, Known
<1> QED
  BY <1>2, <1>3, <1>4, <1>5, <1>6, <1>7, <1>8, RequestMoves

LEMMA WriterIsAlone ==
    ASSUME EventsInv, NEW c \in Clients, request[c].pc = "write"
    PROVE  \A e \in Clients \ {c} : request[e].pc # "write"
BY DEF EventsInv, OneWriter

LEMMA WriteRowKeeps ==
    ASSUME EventsInv, NEW c \in Clients, WriteRow(c)
    PROVE  EventsInv'
<1> DEFINE q == request[c]
           k == q.key
<1>1. /\ q.pc = "write" /\ RequestOK(q) /\ q \in RequestState /\ k \in Keys
      /\ UNCHANGED <<events, registry, clock, shown>>
  BY DEF WriteRow, EventsInv, RequestOK
<1>2. PICK i \in Batch(q) :
       \E id \in (IF Matches(draft, k, i) = {} THEN {IdOf[i]} ELSE Matches(draft, k, i)) :
          /\ draft' = Upserted(draft, id, k, i, q.batch[i])
          /\ RequestBecomes(c, [q EXCEPT !.batch[i] = 0, !.answer = @ \cup {id}])
          /\ rekeyed' = rekeyed \cup
                {x \in {DedupeKey(k, i)} : id \in Known(draft) /\ draft[id].key # x}
  BY DEF WriteRow
<1>3. PICK id \in (IF Matches(draft, k, i) = {} THEN {IdOf[i]} ELSE Matches(draft, k, i)) :
          /\ draft' = Upserted(draft, id, k, i, q.batch[i])
          /\ RequestBecomes(c, [q EXCEPT !.batch[i] = 0, !.answer = @ \cup {id}])
          /\ rekeyed' = rekeyed \cup
                {x \in {DedupeKey(k, i)} : id \in Known(draft) /\ draft[id].key # x}
  BY <1>2
<1>4. /\ i \in Items /\ q.batch[i] # 0 /\ q.batch[i] \in Nat
      /\ SourceOf[i] \in k.sources
  BY <1>1 DEF Batch, RequestOK, RequestState
<1>5. draft \in [Ids -> Event \cup {NoEvent}] /\ TablesOK
  BY TablesFromInv DEF TablesOK
<1>6. id \in Ids
  BY <1>1, <1>4, <1>5, RowTarget
<1>7. /\ draft' \in [Ids -> Event \cup {NoEvent}]
      /\ Known(draft') = Known(draft) \cup {id}
      /\ Extends(draft', draft)
      /\ draft'[id].item = i
      /\ \A e \in Ids \ {id} : draft'[e] = draft[e]
  BY <1>1, <1>3, <1>4, <1>5, <1>6, RowWritten
<1>8. OnePerKey(draft)'
  BY <1>1, <1>3, <1>4, <1>5, RowKeepsOnePerKey DEF EventsInv
<1> DEFINE batch == [q.batch EXCEPT ![i] = 0]
           r     == [q EXCEPT !.batch = batch, !.answer = @ \cup {id}]
<1>9. batch \in [Items -> Nat] /\ \A e \in Items : batch[e] # 0 => q.batch[e] # 0
  BY <1>1 DEF RequestState
<1>10. RequestBecomes(c, r)
  BY <1>3
<1> HIDE DEF batch
<1>11. /\ r \in RequestState /\ r.pc = "write" /\ r.key = k /\ r.batch = batch
  BY <1>1, <1>6, <1>9 DEF RequestState
<1> HIDE DEF r, q
<1>12. RequestOK(r)
  BY <1>1, <1>9, <1>11 DEF RequestOK
<1>13. k.route.feed => Seeds \subseteq registry'
  BY <1>1 DEF EventsInv, SeedsFirst, AfterRegistry, q
<1>14. rekeyed' \subseteq DedupeKeys
  BY <1>1, <1>3, <1>4, <1>5 DEF TablesOK, DedupeKeys
<1>15. TablesOK'
  BY <1>1, <1>5, <1>7, <1>14 DEF TablesOK
<1>16. Extends(draft', events')
  BY <1>1, <1>7 DEF EventsInv, Extends
<1>17. OnePerKey(events)'
  BY <1>1, <1>3 DEF EventsInv, OnePerKey, Known
<1>18. SourcesIn(events', registry')
  BY <1>1 DEF EventsInv, SourcesIn, Known
<1>19. SourcesIn(draft, registry \cup k.sources)
  BY <1>1 DEF EventsInv, DraftSources, q
<1>20. SourcesIn(draft', registry' \cup k.sources)
  BY <1>1, <1>4, <1>7, <1>19 DEF SourcesIn, Known
<1>21. \A e \in Clients \ {c} : request[e].pc # "write"
  BY <1>1, WriterIsAlone DEF q
<1> QED
  BY <1>1, <1>8, <1>10, <1>11, <1>12, <1>13, <1>15, <1>16, <1>17, <1>18, <1>20, <1>21,
     RequestMoves

LEMMA CommitWriteKeeps ==
    ASSUME EventsInv, NEW c \in Clients, CommitWrite(c)
    PROVE  EventsInv'
<1> DEFINE q == request[c]
           k == q.key
           r == [q EXCEPT !.pc = "run"]
<1>1. /\ q.pc = "write" /\ RequestOK(q) /\ q \in RequestState /\ k \in Keys
      /\ q.answer \subseteq Ids
  BY DEF CommitWrite, EventsInv, RequestOK, RequestState
<1>2. /\ r \in RequestState /\ r.pc = "run" /\ r.key = k /\ r.batch = q.batch
  BY <1>1 DEF RequestState
<1>3. /\ RequestBecomes(c, r) /\ events' = draft
      /\ registry' = IF k.route.feed THEN registry ELSE registry \cup k.sources
      /\ UNCHANGED <<draft, clock, rekeyed>>
      /\ shown' = [x \in Keys |-> IF x = k THEN q.answer ELSE shown[x] \ q.answer]
  BY DEF CommitWrite, Registered
<1>4. k.sources \subseteq Sources /\ (k.route.feed => k.sources \subseteq Seeds)
  BY <1>1, KeyParts
<1>5. k.route.feed => Seeds \subseteq registry
  BY <1>1 DEF EventsInv, SeedsFirst, AfterRegistry
<1>6. SourcesIn(draft, registry \cup k.sources)
  BY <1>1 DEF EventsInv, DraftSources
<1>7. \A e \in Clients \ {c} : request[e].pc # "write"
  BY <1>1, WriterIsAlone
<1> HIDE DEF q, r
<1>8. RequestOK(r)
  BY <1>1, <1>2 DEF RequestOK
<1>9. shown' \in [Keys -> SUBSET Ids]
  BY <1>1, <1>3, TablesFromInv DEF TablesOK
<1>10. TablesOK'
  BY <1>3, <1>4, <1>9, TablesFromInv DEF TablesOK
<1>11. Extends(draft', events') /\ OnePerKey(events)' /\ OnePerKey(draft)'
  BY <1>3 DEF EventsInv, Extends, OnePerKey, Known
<1>12. /\ registry \subseteq registry'
       /\ k.route.feed => Seeds \subseteq registry'
       /\ registry \cup k.sources \subseteq registry'
  BY <1>3, <1>4, <1>5
<1>13. SourcesIn(events', registry')
  BY <1>3, <1>6, <1>12 DEF SourcesIn
<1> QED
  BY <1>2, <1>3, <1>7, <1>8, <1>10, <1>11, <1>12, <1>13, RequestMoves

LEMMA RollBackKeeps ==
    ASSUME EventsInv, NEW c \in Clients, RollBack(c)
    PROVE  EventsInv'
<1>1. /\ request[c].pc = "write" /\ RequestBecomes(c, NoRequest) /\ draft' = events
      /\ UNCHANGED <<events, registry, clock, shown, rekeyed>>
  BY DEF RollBack
<1>2. \A e \in Clients \ {c} : request[e].pc # "write"
  BY <1>1, WriterIsAlone
<1>3. TablesOK'
  BY <1>1, TablesFromInv DEF TablesOK
<1>4. Extends(draft', events') /\ OnePerKey(events)' /\ OnePerKey(draft)'
  BY <1>1 DEF EventsInv, Extends, OnePerKey, Known
<1>5. SourcesIn(events', registry')
  BY <1>1 DEF EventsInv, SourcesIn, Known
<1> QED
  BY <1>1, <1>2, <1>3, <1>4, <1>5, NoRequestOK, RequestMoves DEF AfterRegistry

LEMMA RecordRunKeeps ==
    ASSUME EventsInv, NEW c \in Clients, RecordRun(c)
    PROVE  EventsInv'
<1> DEFINE q      == request[c]
           status == RunStatus(q)
           r      == Answered(q, q.answer, status)
<1>1. q.pc = "run" /\ RequestOK(q) /\ q.answer \subseteq Ids
  BY DEF RecordRun, EventsInv, RequestOK, RequestState
<1>2. RequestOK(r) /\ r.pc = "done"
  BY <1>1, EventsAnsweredOK DEF RunStatus
<1>3. /\ UNCHANGED <<events, draft, shown, rekeyed, clock, registry>>
      /\ clock \in Nat /\ registry \subseteq Sources
  BY DEF RecordRun, EventsInv, EventsTypeOK
<1>4. RequestBecomes(c, r) \/ RequestBecomes(c, NoRequest)
  BY DEF RecordRun
<1> HIDE DEF r
<1>5. CASE RequestBecomes(c, r)
  BY <1>2, <1>3, <1>5, RequestMovesAlone DEF AfterRegistry
<1>6. CASE RequestBecomes(c, NoRequest)
  BY <1>3, <1>6, NoRequestOK, RequestMovesAlone DEF AfterRegistry
<1> QED
  BY <1>4, <1>5, <1>6

LEMMA RequestEndsKeeps ==
    ASSUME EventsInv, NEW c \in Clients, EventsReadError(c) \/ EventsReturn(c)
    PROVE  EventsInv'
<1>1. /\ UNCHANGED <<events, draft, shown, rekeyed, clock, registry>>
      /\ clock \in Nat /\ registry \subseteq Sources /\ RequestBecomes(c, NoRequest)
  BY DEF EventsReadError, EventsReturn, EventsInv, EventsTypeOK
<1> QED
  BY <1>1, NoRequestOK, RequestMovesAlone DEF AfterRegistry

LEMMA EventsStepKeeps ==
    ASSUME EventsInv, [EventsNext]_eventVars
    PROVE  EventsInv'
<1>1. CASE UNCHANGED eventVars
  <2>1. EventsTypeOK' /\ OneWriter'
    BY <1>1 DEF EventsInv, EventsTypeOK, OneWriter, eventVars
  <2>2. \A c \in Clients : RequestOK(request[c])'
    BY <1>1 DEF EventsInv, RequestOK, eventVars
  <2>3. Extends(draft, events)' /\ OnePerKey(events)' /\ OnePerKey(draft)'
    BY <1>1 DEF EventsInv, Extends, OnePerKey, Known, eventVars
  <2>4. SourcesIn(events, registry)' /\ SeedsFirst'
    BY <1>1 DEF EventsInv, SourcesIn, Known, SeedsFirst, eventVars
  <2>5. DraftSources'
    BY <1>1 DEF EventsInv, DraftSources, SourcesIn, Known, eventVars
  <2> QED
    BY <2>1, <2>2, <2>3, <2>4, <2>5 DEF EventsInv
<1>2. CASE ListRegistry
  BY <1>2, ListRegistryKeeps
<1>3. ASSUME NEW c \in Clients, NEW k \in Keys, AskEvents(c, k)
      PROVE  EventsInv'
  BY <1>3, AskEventsKeeps
<1>4. ASSUME NEW c \in Clients, EventsStep(c)
      PROVE  EventsInv'
  <2>1. CASE RegisterSeeds(c) \/ ReadEvents(c)
    BY <2>1, RegisterSeedsKeeps, ReadEventsKeeps
  <2>2. CASE SourceAnswers(c) \/ SourceFails(c)
    BY <2>2, SourceAnswersKeeps, SourceFailsKeeps
  <2>3. CASE BeginWrite(c) \/ WriteRow(c)
    BY <2>3, BeginWriteKeeps, WriteRowKeeps
  <2>4. CASE CommitWrite(c) \/ RecordRun(c)
    BY <2>4, CommitWriteKeeps, RecordRunKeeps
  <2> QED
    BY <1>4, <2>1, <2>2, <2>3, <2>4 DEF EventsStep
<1>5. ASSUME NEW c \in Clients, EventsReturn(c) \/ EventsFault(c)
      PROVE  EventsInv'
  BY <1>5, RequestEndsKeeps, SourceFailsKeeps, RollBackKeeps DEF EventsFault
<1> QED
  BY <1>1, <1>2, <1>3, <1>4, <1>5 DEF EventsNext

\* Only a commit changes the ledger, to a draft that extends it.
LEMMA LedgerGrows ==
    ASSUME EventsInv, [EventsNext]_eventVars, events' # events
    PROVE  Extends(events', events)
<1>1. PICK c \in Clients : CommitWrite(c)
  BY DEF EventsNext, eventVars, ListRegistry, AskEvents, EventsStep, RegisterSeeds,
         ReadEvents, SourceAnswers, SourceFails, BeginWrite, WriteRow, RecordRun,
         EventsReturn, EventsFault, EventsDeadline, RollBack, EventsReadError
<1>2. events' = draft
  BY <1>1 DEF CommitWrite
<1> QED
  BY <1>2 DEF EventsInv

----------------------------------------------------------------------------
(* Theorems *)

\* The inductive invariant: one request writes at a time, its draft extends the
\* ledger, and sources are registered before their events are stored.
THEOREM EventsInvHolds == EventsSpec => []EventsInv
<1>1. EventsInv /\ [EventsNext]_eventVars => EventsInv'
  BY EventsStepKeeps
<1> QED
  BY EventsInitKeeps, <1>1, PTL DEF EventsSpec

\* Stored events stay, with the time they were first seen.
THEOREM FirstSeenStays == EventsSpec => FirstSeenKept
<1>1. EventsInv /\ [EventsNext]_eventVars =>
        [\A id \in Known(events) :
            id \in Known(events)' /\ events'[id].first = events[id].first]_events
  BY LedgerGrows DEF Extends, Known
<1> QED
  BY EventsInvHolds, <1>1, PTL DEF EventsSpec, FirstSeenKept

\* Two events have one dedupe key only if one of them changed its key.
THEOREM OneEventEach == EventsSpec => []OneEventPerKey
<1>1. EventsInv => OneEventPerKey
  BY DEF EventsInv, OnePerKey, OneEventPerKey
<1> QED
  BY EventsInvHolds, <1>1, PTL

\* The sources of stored events are registered.
THEOREM SourcesKnown == EventsSpec => []SourcesRegistered
<1>1. EventsInv => SourcesRegistered
  BY DEF EventsInv, SourcesIn, SourcesRegistered
<1> QED
  BY EventsInvHolds, <1>1, PTL
----------------------------------------------------------------------------
(* Cached answers are whole *)

OwnedIn(ledger, k) == {id \in Known(ledger) : ledger[id].owner = k}

BeforeWrite == {"registry", "read", "fetch", "begin"}

Asking == BeforeWrite \cup {"write", "run"}

\* Until a request is answered, it has room for all its rows: each becomes one
\* event of the answer, or less.
WholeRequest(q) ==
    /\ q.pc # "done" => q.status = "none"
    /\ q.pc \in BeforeWrite => q.answer = {}
    /\ q.pc \in Asking => Cardinality(q.answer) + Cardinality(Batch(q)) <= q.key.limit
    /\ q.status = "cached" => Cardinality(q.kept) <= Cardinality(q.answer)

\* A writer has changed the events of its answer only, and they are its own.
WholeWrite(q, stored, new) ==
    /\ \A id \in Known(stored) \ q.answer : new[id] = stored[id]
    /\ q.answer \subseteq OwnedIn(new, q.key)

\* What is left of the last answer of a key is stored under this key, and there
\* is room for it in an answer.
ShownIn(seen, ledger) ==
    \A k \in Keys : seen[k] \subseteq OwnedIn(ledger, k) /\ Cardinality(seen[k]) <= k.limit

WholeInv ==
    /\ \A c \in Clients : WholeRequest(request[c])
    /\ \A c \in Clients : request[c].pc = "write" => WholeWrite(request[c], events, draft)
    /\ ShownIn(shown, events)

LEMMA IdsAreFinite == IsFiniteSet(Ids)
<1>1. IdOf \in Surjection(Items, Ids)
  BY EventConstants DEF Surjection, Ids
<1> QED
  BY <1>1, FS_Surjection, EventConstants

LEMMA FiniteIds ==
    ASSUME NEW T, T \subseteq Ids
    PROVE  IsFiniteSet(T) /\ Cardinality(T) \in Nat
BY IdsAreFinite, FS_Subset, FS_CardinalityType

LEMMA FiniteItems ==
    ASSUME NEW T, T \subseteq Items
    PROVE  IsFiniteSet(T) /\ Cardinality(T) \in Nat
BY EventConstants, FS_Subset, FS_CardinalityType

LEMMA UnionBound ==
    ASSUME NEW S, NEW T, IsFiniteSet(S), IsFiniteSet(T)
    PROVE  /\ Cardinality(S \cup T) \in Nat
           /\ Cardinality(S \cup T) <= Cardinality(S) + Cardinality(T)
<1>1. /\ IsFiniteSet(S \cup T)
      /\ Cardinality(S \cup T) = Cardinality(S) + Cardinality(T) - Cardinality(S \cap T)
  BY FS_Union
<1>2. IsFiniteSet(S \cap T)
  <2>1. S \cap T \in SUBSET S
    OBVIOUS
  <2> QED
    BY <2>1, FS_Subset
<1>3. /\ Cardinality(S) \in Nat /\ Cardinality(T) \in Nat
      /\ Cardinality(S \cup T) \in Nat /\ Cardinality(S \cap T) \in Nat
  BY <1>1, <1>2, FS_CardinalityType
<1> QED
  BY <1>1, <1>3

LEMMA LimitOfKey ==
    ASSUME NEW k \in Keys
    PROVE  k.limit \in Nat
BY EventConstants DEF KeyRecords

\* Of a finite set in some order, P[x] are the elements before x: those that
\* fewer than n are before are n, or all, and no smaller than any set of at most n.
LEMMA FirstOnes ==
    ASSUME NEW S, IsFiniteSet(S), NEW P \in [S -> SUBSET S],
           \A x \in S : x \notin P[x],
           \A x \in S : \A y \in P[x] : P[y] \subseteq P[x],
           NEW n \in Nat, NEW T \in SUBSET S, Cardinality(T) <= n
    PROVE  Cardinality(T) <= Cardinality({x \in S : Cardinality(P[x]) < n})
<1> DEFINE Top == {x \in S : Cardinality(P[x]) < n}
           C   == [x \in S |-> Cardinality(P[x])]
<1>1. \A x \in S : P[x] \in SUBSET S /\ IsFiniteSet(P[x]) /\ Cardinality(P[x]) \in Nat
  BY FS_Subset, FS_CardinalityType
<1>2. /\ Top \in SUBSET S /\ IsFiniteSet(Top) /\ Cardinality(Top) \in Nat
      /\ IsFiniteSet(T) /\ Cardinality(T) \in Nat
  BY FS_Subset, FS_CardinalityType
<1>3. CASE Top = S
  BY <1>3, FS_Subset
<1>4. CASE Top # S
  <2> DEFINE N == {C[x] : x \in S \ Top}
  <2>1. \A x \in S : C[x] = Cardinality(P[x]) /\ C[x] \in Nat
    BY <1>1
  <2>2. \A x \in S \ Top : n <= C[x]
    BY <2>1
  <2> HIDE DEF C, Top
  <2>3. N \subseteq Nat /\ N # {}
    BY <1>2, <1>4, <2>1
  <2>4. PICK m \in N : \A j \in N : m <= j
    BY <2>3, LeastElement
  <2>5. PICK x \in S \ Top : C[x] = m
    BY <2>4
  <2>6. P[x] \subseteq Top
    <3> SUFFICES ASSUME NEW y \in P[x], y \notin Top PROVE FALSE
      OBVIOUS
    <3>1. y \in S \ Top /\ y \notin P[y] /\ P[y] \in SUBSET P[x]
      BY <1>1, <2>5
    <3>2. /\ Cardinality(P[y]) <= Cardinality(P[x])
          /\ Cardinality(P[x]) = Cardinality(P[y]) => P[x] = P[y]
      BY <1>1, <2>5, <3>1, FS_Subset
    <3>3. C[y] < C[x]
      BY <2>1, <2>5, <3>1, <3>2
    <3>4. C[y] \in N
      BY <3>1
    <3>5. m <= C[y]
      BY <2>4, <3>4
    <3> HIDE DEF N
    <3> QED
      BY <2>1, <2>5, <3>1, <3>3, <3>5
  <2>7. C[x] <= Cardinality(Top)
    BY <1>2, <2>1, <2>5, <2>6, FS_Subset
  <2>8. Cardinality(T) <= Cardinality(Top)
    BY <1>2, <2>1, <2>2, <2>5, <2>7
  <2> QED
    BY <2>8 DEF Top
<1> QED
  BY <1>3, <1>4

\* The events read under a key are as many as any set of events of the key that
\* an answer has room for.
LEMMA CachedFillsAnswer ==
    ASSUME EventsInv, NEW k \in Keys, NEW T \in SUBSET Owned(k), Cardinality(T) <= k.limit
    PROVE  Cardinality(T) <= Cardinality(CachedEvents(k))
<1> DEFINE S == Owned(k)
           P == [x \in S |-> {e \in S : Before(e, x)}]
<1>1. S \subseteq Ids /\ IsFiniteSet(S)
  BY FiniteIds DEF Owned, Known
<1>2. \A x \in S : events[x].item \in Nat /\ x \in Nat
  <2>1. \A x \in S : events[x].item \in Items
    BY KnownEvents DEF EventsInv, EventsTypeOK, Owned
  <2> QED
    BY <1>1, <2>1, EventConstants DEF Ids
<1>3. CachedEvents(k) = {x \in S : Cardinality(P[x]) < k.limit}
  BY DEF CachedEvents
<1>4. T \in SUBSET S /\ k.limit \in Nat
  BY LimitOfKey
<1> HIDE DEF S
<1>5. P \in [S -> SUBSET S]
  OBVIOUS
<1>6. \A x \in S : x \notin P[x]
  BY <1>2 DEF Before
<1>7. \A x \in S : \A y \in P[x] : P[y] \subseteq P[x]
  BY <1>2 DEF Before
<1> HIDE DEF P
<1> QED
  BY <1>1, <1>3, <1>4, <1>5, <1>6, <1>7, FirstOnes

----------------------------------------------------------------------------
(* The states of a request that is whole *)

LEMMA EmptyBatch ==
    ASSUME NEW q, q.batch = NoBatch
    PROVE  Batch(q) = {}
BY DEF Batch, NoBatch

LEMMA NoRequestWhole == WholeRequest(NoRequest) /\ NoRequest.pc = "idle"
BY DEF WholeRequest, NoRequest, Asking, BeforeWrite

LEMMA NewRequestWhole ==
    ASSUME NEW q, q.key \in Keys, q.pc \in {"registry", "read", "done"}, q.answer = {},
           q.batch = NoBatch, q.status \in {"none", "degraded"},
           q.pc # "done" => q.status = "none"
    PROVE  WholeRequest(q)
<1>1. Cardinality(q.answer) + Cardinality(Batch(q)) <= q.key.limit
  <2>1. Batch(q) = {} /\ q.key.limit \in Nat
    BY EmptyBatch, LimitOfKey
  <2>2. Cardinality(q.answer) = 0 /\ Cardinality(Batch(q)) = 0
    BY <2>1, FS_EmptySet
  <2> QED
    BY <2>1, <2>2
<1> QED
  BY <1>1 DEF WholeRequest

LEMMA AnsweredWhole ==
    ASSUME NEW q, NEW answer, NEW status,
           status = "cached" => Cardinality(q.kept) <= Cardinality(answer)
    PROVE  WholeRequest(Answered(q, answer, status)) /\ Answered(q, answer, status).pc = "done"
<1> DEFINE r == Answered(q, answer, status)
<1>1. r.pc = "done" /\ r.answer = answer /\ r.status = status /\ r.kept = q.kept
  BY DEF Answered, NoRequest
<1> HIDE DEF r
<1>2. WholeRequest(r) /\ r.pc = "done"
  BY <1>1 DEF WholeRequest, Asking, BeforeWrite
<1> QED
  BY <1>2 DEF r

LEMMA MovedWhole ==
    ASSUME NEW q, WholeRequest(q), q.pc \in Asking,
           NEW r, r.pc \in Asking, r.key = q.key, r.batch = q.batch, r.answer = q.answer,
           r.status = q.status, r.pc \in BeforeWrite => q.pc \in BeforeWrite
    PROVE  WholeRequest(r)
<1>1. Batch(r) = Batch(q)
  BY DEF Batch
<1>2. q.status = "none" /\ r.pc # "done"
  BY DEF WholeRequest, Asking, BeforeWrite
<1> QED
  BY <1>1, <1>2 DEF WholeRequest

LEMMA FetchedWhole ==
    ASSUME NEW q \in RequestState, WholeRequest(q), q.pc = "fetch"
    PROVE  WholeRequest(Fetched(q)) /\ Fetched(q).pc \in {"fetch", "begin", "run"}
<1> DEFINE to == IF Batch(q) = {} THEN "run" ELSE "begin"
           e  == [q EXCEPT !.pc = to, !.todo = {}]
<1>1. to \in {"run", "begin"}
  OBVIOUS
<1>2. Fetched(q) = q \/ Fetched(q) = e
  BY DEF Fetched
<1> HIDE DEF to
<1>3. e.pc = to /\ e.key = q.key /\ e.batch = q.batch /\ e.answer = q.answer
      /\ e.status = q.status
  BY DEF RequestState
<1> HIDE DEF e
<1>4. WholeRequest(e)
  BY <1>1, <1>3, MovedWhole DEF Asking, BeforeWrite
<1> QED
  BY <1>1, <1>2, <1>3, <1>4

----------------------------------------------------------------------------
(* One request moves, and answers stay whole *)

LEMMA WholeMoves ==
    ASSUME EventsInv, WholeInv, NEW c \in Clients, NEW q, WholeRequest(q),
           RequestBecomes(c, q), ShownIn(shown', events'),
           q.pc = "write" => WholeWrite(q, events', draft'),
           \/ UNCHANGED <<events, draft>>
           \/ \A e \in Clients \ {c} : request[e].pc # "write"
    PROVE  WholeInv'
<1>1. /\ request'[c] = q
      /\ \A e \in Clients \ {c} : request'[e] = request[e]
  BY DEF EventsInv, EventsTypeOK, RequestBecomes
<1>2. \A e \in Clients : WholeRequest(request'[e])
  BY <1>1 DEF WholeInv
<1>3. \A e \in Clients : request'[e].pc = "write" => WholeWrite(request'[e], events', draft')
  <2> SUFFICES ASSUME NEW e \in Clients, request'[e].pc = "write"
               PROVE  WholeWrite(request'[e], events', draft')
    OBVIOUS
  <2>1. CASE e = c
    BY <1>1, <2>1
  <2>2. CASE e # c
    <3>1. request'[e] = request[e] /\ UNCHANGED <<events, draft>>
      BY <1>1, <2>2
    <3>2. WholeWrite(request[e], events, draft)
      BY <3>1 DEF WholeInv
    <3> QED
      BY <3>1, <3>2
  <2> QED
    BY <2>1, <2>2
<1> QED
  BY <1>2, <1>3 DEF WholeInv

LEMMA WholeMovesAlone ==
    ASSUME EventsInv, WholeInv, NEW c \in Clients, NEW q, WholeRequest(q), q.pc # "write",
           RequestBecomes(c, q), UNCHANGED <<events, draft, shown>>
    PROVE  WholeInv'
<1>1. ShownIn(shown', events')
  BY DEF WholeInv
<1> QED
  BY <1>1, WholeMoves

\* What the actions that leave the tables alone make of the request.
LEMMA AskEventsWhole ==
    ASSUME EventsInv, WholeInv, NEW c \in Clients, NEW k \in Keys, AskEvents(c, k)
    PROVE  WholeInv'
<1>1. UNCHANGED <<events, draft, shown>>
  BY DEF AskEvents
<1>2. PICK force \in BOOLEAN :
         \/ RequestBecomes(c, [NoRequest EXCEPT !.pc = IF k.route.feed THEN "registry"
                                                                       ELSE "read",
                                                !.key = k, !.force = force])
         \/ RequestBecomes(c, [NoRequest EXCEPT !.pc = "done", !.key = k,
                                                !.status = "degraded"])
  BY DEF AskEvents
<1>3. CASE RequestBecomes(c, [NoRequest EXCEPT !.pc = "done", !.key = k,
                                               !.status = "degraded"])
  <2> DEFINE q == [NoRequest EXCEPT !.pc = "done", !.key = k, !.status = "degraded"]
  <2>1. /\ q.pc = "done" /\ q.key = k /\ q.status = "degraded" /\ q.answer = {}
        /\ q.batch = NoBatch
    BY DEF NoRequest
  <2>2. RequestBecomes(c, q)
    BY <1>3
  <2> HIDE DEF q
  <2> QED
    BY <1>1, <2>1, <2>2, NewRequestWhole, WholeMovesAlone
<1>4. CASE RequestBecomes(c, [NoRequest EXCEPT !.pc = IF k.route.feed THEN "registry"
                                                                      ELSE "read",
                                               !.key = k, !.force = force])
  <2> DEFINE pc == IF k.route.feed THEN "registry" ELSE "read"
             q  == [NoRequest EXCEPT !.pc = pc, !.key = k, !.force = force]
  <2>1. RequestBecomes(c, q)
    BY <1>4
  <2>2. pc \in {"registry", "read"}
    OBVIOUS
  <2> HIDE DEF pc
  <2>3. q.pc = pc /\ q.key = k /\ q.status = "none" /\ q.answer = {} /\ q.batch = NoBatch
    BY DEF NoRequest
  <2> HIDE DEF q
  <2> QED
    BY <1>1, <2>1, <2>2, <2>3, NewRequestWhole, WholeMovesAlone
<1> QED
  BY <1>2, <1>3, <1>4

LEMMA RegisterSeedsWhole ==
    ASSUME EventsInv, WholeInv, NEW c \in Clients, RegisterSeeds(c)
    PROVE  WholeInv'
<1> DEFINE q == request[c]
           r == [q EXCEPT !.pc = "read"]
<1>1. q.pc = "registry" /\ q \in RequestState /\ WholeRequest(q)
  BY DEF RegisterSeeds, EventsInv, RequestOK, WholeInv
<1>2. r.pc = "read" /\ r.key = q.key /\ r.batch = q.batch /\ r.answer = q.answer
      /\ r.status = q.status
  BY <1>1 DEF RequestState
<1>3. UNCHANGED <<events, draft, shown>>
  BY DEF RegisterSeeds
<1>4. RequestBecomes(c, r) \/ RequestBecomes(c, NoRequest)
  BY DEF RegisterSeeds
<1> HIDE DEF q, r
<1>5. WholeRequest(r)
  BY <1>1, <1>2, MovedWhole DEF Asking, BeforeWrite
<1> QED
  BY <1>2, <1>3, <1>4, <1>5, NoRequestWhole, WholeMovesAlone

\* A repetition has at least what is left of the last answer.
LEMMA ReadEventsWhole ==
    ASSUME EventsInv, WholeInv, NEW c \in Clients, ReadEvents(c)
    PROVE  WholeInv'
<1> DEFINE p    == request[c]
           q    == [p EXCEPT !.kept = shown[p.key]]
           rows == CachedEvents(q.key)
           r    == [q EXCEPT !.pc = "fetch", !.force = FALSE, !.todo = q.key.sources,
                             !.kept = {}]
<1>1. p.pc = "read" /\ p \in RequestState /\ p.key \in Keys /\ WholeRequest(p)
  BY DEF ReadEvents, EventsInv, RequestOK, WholeInv
<1>2. /\ UNCHANGED <<events, draft, shown>>
      /\ shown[p.key] \in SUBSET Owned(p.key) /\ Cardinality(shown[p.key]) <= p.key.limit
  BY <1>1 DEF ReadEvents, WholeInv, ShownIn, OwnedIn, Owned
<1>3. /\ q.pc = "read" /\ q.key = p.key /\ q.batch = p.batch /\ q.answer = p.answer
      /\ q.status = p.status /\ q.kept = shown[p.key] /\ DOMAIN q = DOMAIN p
  BY <1>1 DEF RequestState
<1>4. /\ r.pc = "fetch" /\ r.key = p.key /\ r.batch = p.batch /\ r.answer = p.answer
      /\ r.status = p.status /\ r \in RequestState
  <2>1. p.key.sources \subseteq Sources /\ shown[p.key] \subseteq Ids
    BY <1>1, KeyParts DEF EventsInv, EventsTypeOK
  <2>2. q \in RequestState /\ q.key.sources \subseteq Sources
    BY <1>1, <1>3, <2>1 DEF RequestState
  <2>3. r \in RequestState /\ r.pc = "fetch"
    BY <2>2 DEF RequestState
  <2> QED
    BY <1>1, <2>3 DEF RequestState
<1>5. RequestBecomes(c, IF rows # {} /\ ~q.force   THEN Answered(q, rows, "cached")
                        ELSE IF q.key.sources = {} THEN Answered(q, {}, "degraded")
                        ELSE Fetched(r))
  BY DEF ReadEvents
<1>6. Cardinality(q.kept) <= Cardinality(rows)
  BY <1>1, <1>2, <1>3, CachedFillsAnswer
<1> HIDE DEF p, q, r, rows
<1>7. WholeRequest(Fetched(r)) /\ Fetched(r).pc \in {"fetch", "begin", "run"}
  <2>1. WholeRequest(r)
    BY <1>1, <1>4, MovedWhole DEF Asking, BeforeWrite
  <2> QED
    BY <1>4, <2>1, FetchedWhole
<1>8. /\ WholeRequest(Answered(q, rows, "cached"))
      /\ Answered(q, rows, "cached").pc = "done"
      /\ WholeRequest(Answered(q, {}, "degraded"))
      /\ Answered(q, {}, "degraded").pc = "done"
  BY <1>6, AnsweredWhole
<1>9. \/ RequestBecomes(c, Fetched(r))
      \/ RequestBecomes(c, Answered(q, rows, "cached"))
      \/ RequestBecomes(c, Answered(q, {}, "degraded"))
  BY <1>5
<1> QED
  BY <1>2, <1>4, <1>7, <1>8, <1>9, WholeMovesAlone

\* A source adds no more rows than there is room for.
LEMMA SourceAnswersWhole ==
    ASSUME EventsInv, WholeInv, NEW c \in Clients, SourceAnswers(c)
    PROVE  WholeInv'
<1> DEFINE q == request[c]
           s == NextSource(q)
<1>1. /\ q.pc = "fetch" /\ q \in RequestState /\ WholeRequest(q) /\ q.key \in Keys
      /\ UNCHANGED <<events, draft, shown>> /\ clock \in Nat
  BY DEF SourceAnswers, EventsInv, EventsTypeOK, RequestOK, WholeInv
<1>2. PICK rows \in SUBSET {i \in Items : SourceOf[i] = s} :
         /\ rows # {} /\ Cardinality(rows) <= Room(q)
         /\ RequestBecomes(c, Fetched([q EXCEPT
               !.todo = @ \ {s},
               !.batch = [i \in Items |-> IF i \in rows THEN clock + 1 ELSE @[i]]]))
  BY DEF SourceAnswers
<1> DEFINE batch == [i \in Items |-> IF i \in rows THEN clock + 1 ELSE q.batch[i]]
           r     == [q EXCEPT !.todo = @ \ {s}, !.batch = batch]
<1>3. RequestBecomes(c, Fetched(r))
  BY <1>2
<1>4. batch \in [Items -> Nat]
  BY <1>1 DEF RequestState
<1>5. {i \in Items : batch[i] # 0} = Batch(q) \cup rows
  BY <1>1, <1>2 DEF Batch, RequestState
<1> HIDE DEF batch, s
<1>6. /\ r \in RequestState /\ r.pc = "fetch" /\ r.key = q.key /\ r.batch = batch
      /\ r.answer = q.answer /\ r.status = q.status
  BY <1>1, <1>4 DEF RequestState
<1>7. /\ IsFiniteSet(Batch(q)) /\ Cardinality(Batch(q)) \in Nat
      /\ IsFiniteSet(rows) /\ Cardinality(rows) \in Nat
  BY FiniteItems DEF Batch
<1>8. /\ Cardinality(Batch(q) \cup rows) \in Nat
      /\ Cardinality(Batch(q) \cup rows) <= Cardinality(Batch(q)) + Cardinality(rows)
  BY <1>7, UnionBound
<1>9. Cardinality(rows) <= q.key.limit - Cardinality(Batch(q)) /\ q.key.limit \in Nat
  BY <1>1, <1>2, LimitOfKey DEF Room
<1>10. Cardinality(Batch(q) \cup rows) <= q.key.limit
  BY <1>7, <1>8, <1>9
<1>11. q.answer = {} /\ q.status = "none"
  BY <1>1 DEF WholeRequest, BeforeWrite
<1> HIDE DEF r, q
<1>12. Batch(r) = Batch(q) \cup rows
  BY <1>5, <1>6 DEF Batch
<1>13. Cardinality(r.answer) + Cardinality(Batch(r)) <= r.key.limit
  BY <1>6, <1>8, <1>10, <1>11, <1>12, FS_EmptySet
<1>14. WholeRequest(r)
  BY <1>6, <1>11, <1>13 DEF WholeRequest
<1>15. WholeRequest(Fetched(r)) /\ Fetched(r).pc # "write"
  BY <1>6, <1>14, FetchedWhole
<1> QED
  BY <1>1, <1>3, <1>15, WholeMovesAlone

LEMMA SourceFailsWhole ==
    ASSUME EventsInv, WholeInv, NEW c \in Clients, SourceFails(c) \/ EventsDeadline(c)
    PROVE  WholeInv'
<1> DEFINE q == request[c]
           f == Failed(q, NextSource(q))
           d == [q EXCEPT !.failed = TRUE, !.todo = {}]
<1>1. /\ q.pc = "fetch" /\ q \in RequestState /\ WholeRequest(q)
      /\ UNCHANGED <<events, draft, shown>>
  BY DEF SourceFails, EventsDeadline, EventsInv, RequestOK, WholeInv
<1>2. /\ f \in RequestState /\ f.pc = "fetch" /\ f.key = q.key /\ f.batch = q.batch
      /\ f.answer = q.answer /\ f.status = q.status
  BY <1>1 DEF RequestState, Failed
<1>3. /\ d \in RequestState /\ d.pc = "fetch" /\ d.key = q.key /\ d.batch = q.batch
      /\ d.answer = q.answer /\ d.status = q.status
  BY <1>1 DEF RequestState
<1>4. RequestBecomes(c, Fetched(f)) \/ RequestBecomes(c, Fetched(d))
  BY DEF SourceFails, EventsDeadline
<1> HIDE DEF f, d, q
<1>5. WholeRequest(f) /\ WholeRequest(d)
  BY <1>1, <1>2, <1>3, MovedWhole DEF Asking, BeforeWrite
<1>6. /\ WholeRequest(Fetched(f)) /\ Fetched(f).pc # "write"
      /\ WholeRequest(Fetched(d)) /\ Fetched(d).pc # "write"
  BY <1>2, <1>3, <1>5, FetchedWhole
<1> QED
  BY <1>1, <1>4, <1>6, WholeMovesAlone

LEMMA RequestEndsWhole ==
    ASSUME EventsInv, WholeInv, NEW c \in Clients,
           RecordRun(c) \/ EventsReadError(c) \/ EventsReturn(c)
    PROVE  WholeInv'
<1> DEFINE q      == request[c]
           status == RunStatus(q)
<1>1. UNCHANGED <<events, draft, shown>>
  BY DEF RecordRun, EventsReadError, EventsReturn
<1>2. RequestBecomes(c, Answered(q, q.answer, status)) \/ RequestBecomes(c, NoRequest)
  BY DEF RecordRun, EventsReadError, EventsReturn
<1>3. status # "cached"
  BY DEF RunStatus
<1> HIDE DEF q, status
<1>4. /\ WholeRequest(Answered(q, q.answer, status))
      /\ Answered(q, q.answer, status).pc = "done"
  BY <1>3, AnsweredWhole
<1> QED
  BY <1>1, <1>2, <1>4, NoRequestWhole, WholeMovesAlone

----------------------------------------------------------------------------
(* Writing keeps answers whole *)

LEMMA BeginWriteWhole ==
    ASSUME EventsInv, WholeInv, NEW c \in Clients, BeginWrite(c)
    PROVE  WholeInv'
<1> DEFINE q == request[c]
           r == [q EXCEPT !.pc = "write"]
<1>1. q.pc = "begin" /\ q \in RequestState /\ WholeRequest(q)
  BY DEF BeginWrite, EventsInv, RequestOK, WholeInv
<1>2. /\ r.pc = "write" /\ r.key = q.key /\ r.batch = q.batch /\ r.answer = q.answer
      /\ r.status = q.status
  BY <1>1 DEF RequestState
<1>3. /\ RequestBecomes(c, r) /\ draft' = events /\ events' = events /\ shown' = shown
      /\ \A e \in Clients : request[e].pc # "write"
  BY DEF BeginWrite, LockFree
<1> HIDE DEF q, r
<1>4. WholeRequest(r)
  BY <1>1, <1>2, MovedWhole DEF Asking, BeforeWrite
<1>5. r.answer = {}
  BY <1>1, <1>2 DEF WholeRequest, BeforeWrite
<1>6. WholeWrite(r, events', draft')
  BY <1>3, <1>5 DEF WholeWrite
<1>7. ShownIn(shown', events')
  BY <1>3 DEF WholeInv
<1> QED
  BY <1>3, <1>4, <1>6, <1>7, WholeMoves

\* The event of a row becomes one of the answer, and of the request's key.
LEMMA RowIsOwned ==
    ASSUME NEW ledger, ledger \in [Ids -> Event \cup {NoEvent}], NEW stored,
           NEW k \in Keys, NEW i \in Items, NEW stamp \in Nat, NEW id \in Ids,
           NEW q, q.key = k, WholeWrite(q, stored, ledger),
           NEW r, r.key = k, r.answer = q.answer \cup {id}
    PROVE  WholeWrite(r, stored, Upserted(ledger, id, k, i, stamp))
<1> DEFINE new == Upserted(ledger, id, k, i, stamp)
<1>1. /\ Known(new) = Known(ledger) \cup {id}
      /\ \A e \in Ids \ {id} : new[e] = ledger[e]
  BY RowWritten
<1>2. new[id].owner = k
  BY DEF Upserted, Owner
<1> HIDE DEF new
<1>3. \A e \in Known(stored) \ r.answer : new[e] = stored[e]
  BY <1>1 DEF WholeWrite, Known
<1>4. r.answer \subseteq OwnedIn(new, k)
  <2> SUFFICES ASSUME NEW e \in r.answer PROVE e \in OwnedIn(new, k)
    OBVIOUS
  <2>1. CASE e = id
    BY <1>1, <1>2, <2>1 DEF OwnedIn
  <2>2. CASE e # id
    <3>1. e \in Known(ledger) /\ ledger[e].owner = k /\ e \in Ids
      BY <2>2 DEF WholeWrite, OwnedIn, Known
    <3> QED
      BY <1>1, <2>2, <3>1 DEF OwnedIn
  <2> QED
    BY <2>1, <2>2
<1> QED
  BY <1>3, <1>4 DEF WholeWrite, new

LEMMA WriteRowWhole ==
    ASSUME EventsInv, WholeInv, NEW c \in Clients, WriteRow(c)
    PROVE  WholeInv'
<1> DEFINE q == request[c]
           k == q.key
<1>1. /\ q.pc = "write" /\ q \in RequestState /\ k \in Keys /\ WholeRequest(q)
      /\ WholeWrite(q, events, draft) /\ events' = events /\ shown' = shown
  BY DEF WriteRow, EventsInv, RequestOK, WholeInv
<1>2. PICK i \in Batch(q) :
       \E id \in (IF Matches(draft, k, i) = {} THEN {IdOf[i]} ELSE Matches(draft, k, i)) :
          /\ draft' = Upserted(draft, id, k, i, q.batch[i])
          /\ RequestBecomes(c, [q EXCEPT !.batch[i] = 0, !.answer = @ \cup {id}])
  BY DEF WriteRow
<1>3. PICK id \in (IF Matches(draft, k, i) = {} THEN {IdOf[i]} ELSE Matches(draft, k, i)) :
          /\ draft' = Upserted(draft, id, k, i, q.batch[i])
          /\ RequestBecomes(c, [q EXCEPT !.batch[i] = 0, !.answer = @ \cup {id}])
  BY <1>2
<1>4. /\ i \in Items /\ i \in Batch(q) /\ q.batch[i] \in Nat /\ q.answer \subseteq Ids
      /\ draft \in [Ids -> Event \cup {NoEvent}]
  BY <1>1 DEF Batch, RequestState, EventsInv, EventsTypeOK
<1>5. id \in Ids
  BY <1>1, <1>3, <1>4, RowTarget
<1> DEFINE batch == [q.batch EXCEPT ![i] = 0]
           r     == [q EXCEPT !.batch = batch, !.answer = @ \cup {id}]
<1>6. RequestBecomes(c, r)
  BY <1>3
<1>7. {e \in Items : batch[e] # 0} = Batch(q) \ {i}
  BY <1>1 DEF Batch, RequestState
<1> HIDE DEF batch
<1>8. /\ r.pc = "write" /\ r.key = k /\ r.batch = batch /\ r.status = q.status
      /\ r.answer = q.answer \cup {id}
  BY <1>1 DEF RequestState
<1> HIDE DEF r, q
<1>9. Batch(r) = Batch(q) \ {i}
  BY <1>7, <1>8 DEF Batch
<1>10. /\ IsFiniteSet(Batch(q)) /\ Cardinality(Batch(q)) \in Nat
       /\ IsFiniteSet(q.answer) /\ Cardinality(q.answer) \in Nat
  BY <1>4, FiniteItems, FiniteIds DEF Batch
<1>11. Cardinality(Batch(r)) = Cardinality(Batch(q)) - 1
  BY <1>4, <1>9, <1>10, FS_RemoveElement
<1>12. /\ Cardinality(r.answer) \in Nat
       /\ Cardinality(r.answer) <= Cardinality(q.answer) + 1
  BY <1>8, <1>10, FS_Singleton, UnionBound
<1>13. /\ Cardinality(q.answer) + Cardinality(Batch(q)) <= k.limit /\ k.limit \in Nat
       /\ q.status = "none"
  BY <1>1, LimitOfKey DEF WholeRequest, Asking
<1>14. Cardinality(r.answer) + Cardinality(Batch(r)) <= r.key.limit
  BY <1>8, <1>10, <1>11, <1>12, <1>13
<1>15. WholeRequest(r)
  BY <1>8, <1>13, <1>14 DEF WholeRequest, BeforeWrite
<1>16. WholeWrite(r, events', draft')
  BY <1>1, <1>3, <1>4, <1>5, <1>8, RowIsOwned
<1>17. ShownIn(shown', events')
  BY <1>1 DEF WholeInv
<1>18. \A e \in Clients \ {c} : request[e].pc # "write"
  BY <1>1, WriterIsAlone DEF q
<1> QED
  BY <1>6, <1>15, <1>16, <1>17, <1>18, WholeMoves

\* The answer of the writer is stored under its key; of the other keys' answers
\* remains what it has not taken over.
LEMMA CommitWriteWhole ==
    ASSUME EventsInv, WholeInv, NEW c \in Clients, CommitWrite(c)
    PROVE  WholeInv'
<1> DEFINE q == request[c]
           k == q.key
           r == [q EXCEPT !.pc = "run"]
<1>1. /\ q.pc = "write" /\ q \in RequestState /\ k \in Keys /\ WholeRequest(q)
      /\ WholeWrite(q, events, draft) /\ q.answer \subseteq Ids
  BY DEF CommitWrite, EventsInv, RequestOK, WholeInv, RequestState
<1>2. /\ r.pc = "run" /\ r.key = k /\ r.batch = q.batch /\ r.answer = q.answer
      /\ r.status = q.status
  BY <1>1 DEF RequestState
<1>3. /\ RequestBecomes(c, r) /\ events' = draft /\ draft' = draft
      /\ shown' = [x \in Keys |-> IF x = k THEN q.answer ELSE shown[x] \ q.answer]
  BY DEF CommitWrite
<1>4. \A e \in Clients \ {c} : request[e].pc # "write"
  BY <1>1, WriterIsAlone
<1> HIDE DEF q, r
<1>5. WholeRequest(r)
  BY <1>1, <1>2, MovedWhole DEF Asking, BeforeWrite
<1>6. /\ IsFiniteSet(Batch(q)) /\ Cardinality(Batch(q)) \in Nat
      /\ Cardinality(q.answer) \in Nat /\ k.limit \in Nat
  BY <1>1, FiniteItems, FiniteIds, LimitOfKey DEF Batch
<1>7. Cardinality(q.answer) <= k.limit
  BY <1>1, <1>6 DEF WholeRequest, Asking
<1>8. ASSUME NEW x \in Keys, x # k
      PROVE  /\ shown[x] \ q.answer \subseteq OwnedIn(draft, x)
             /\ Cardinality(shown[x] \ q.answer) <= x.limit
  <2>1. shown[x] \subseteq OwnedIn(events, x) /\ Cardinality(shown[x]) <= x.limit
    BY DEF WholeInv, ShownIn
  <2>2. \A id \in shown[x] \ q.answer : id \in Known(events) /\ draft[id] = events[id]
    BY <1>1, <2>1 DEF WholeWrite, OwnedIn
  <2>3. shown[x] \ q.answer \subseteq OwnedIn(draft, x)
    BY <2>1, <2>2 DEF OwnedIn, Known
  <2>4. shown[x] \subseteq Ids /\ x.limit \in Nat
    BY <2>1, LimitOfKey DEF OwnedIn, Known
  <2>5. /\ IsFiniteSet(shown[x]) /\ Cardinality(shown[x]) \in Nat
        /\ Cardinality(shown[x] \ q.answer) \in Nat
    BY <2>4, FiniteIds
  <2>6. Cardinality(shown[x] \ q.answer) <= Cardinality(shown[x])
    BY <2>5, FS_Subset
  <2> QED
    BY <2>1, <2>3, <2>4, <2>5, <2>6
<1>9. q.answer \subseteq OwnedIn(draft, k)
  BY <1>1 DEF WholeWrite
<1>10. ShownIn(shown', events')
  BY <1>3, <1>7, <1>8, <1>9 DEF ShownIn
<1> QED
  BY <1>2, <1>3, <1>4, <1>5, <1>10, WholeMoves

LEMMA RollBackWhole ==
    ASSUME EventsInv, WholeInv, NEW c \in Clients, RollBack(c)
    PROVE  WholeInv'
<1>1. /\ request[c].pc = "write" /\ RequestBecomes(c, NoRequest)
      /\ UNCHANGED <<events, shown>>
  BY DEF RollBack
<1>2. \A e \in Clients \ {c} : request[e].pc # "write"
  BY <1>1, WriterIsAlone
<1>3. ShownIn(shown', events')
  BY <1>1 DEF WholeInv
<1> QED
  BY <1>1, <1>2, <1>3, NoRequestWhole, WholeMoves

LEMMA WholeInit == EventsInit => WholeInv
<1> SUFFICES ASSUME EventsInit PROVE WholeInv
  OBVIOUS
<1>1. \A c \in Clients : WholeRequest(request[c]) /\ request[c].pc = "idle"
  BY NoRequestWhole DEF EventsInit
<1>2. ShownIn(shown, events)
  BY FS_EmptySet, LimitOfKey DEF EventsInit, ShownIn
<1> QED
  BY <1>1, <1>2 DEF WholeInv

LEMMA EventsStepWhole ==
    ASSUME EventsInv, WholeInv, [EventsNext]_eventVars
    PROVE  WholeInv'
<1>1. CASE UNCHANGED eventVars \/ ListRegistry
  <2>1. UNCHANGED <<events, draft, request, shown>>
    BY <1>1 DEF eventVars, ListRegistry
  <2> QED
    BY <2>1 DEF WholeInv
<1>2. ASSUME NEW c \in Clients, NEW k \in Keys, AskEvents(c, k)
      PROVE  WholeInv'
  BY <1>2, AskEventsWhole
<1>3. ASSUME NEW c \in Clients, EventsStep(c)
      PROVE  WholeInv'
  <2>1. CASE RegisterSeeds(c) \/ ReadEvents(c)
    BY <2>1, RegisterSeedsWhole, ReadEventsWhole
  <2>2. CASE SourceAnswers(c) \/ SourceFails(c)
    BY <2>2, SourceAnswersWhole, SourceFailsWhole
  <2>3. CASE BeginWrite(c) \/ WriteRow(c)
    BY <2>3, BeginWriteWhole, WriteRowWhole
  <2>4. CASE CommitWrite(c) \/ RecordRun(c)
    BY <2>4, CommitWriteWhole, RequestEndsWhole
  <2> QED
    BY <1>3, <2>1, <2>2, <2>3, <2>4 DEF EventsStep
<1>4. ASSUME NEW c \in Clients, EventsReturn(c) \/ EventsFault(c)
      PROVE  WholeInv'
  BY <1>4, RequestEndsWhole, SourceFailsWhole, RollBackWhole DEF EventsFault
<1> QED
  BY <1>1, <1>2, <1>3, <1>4 DEF EventsNext

\* The inductive invariant: a request has room for its rows, its writes change
\* the events of its answer only, and what others leave of an answer stays stored
\* under its key.
THEOREM WholeInvHolds == EventsSpec => []WholeInv
<1>1. EventsInv /\ WholeInv /\ [EventsNext]_eventVars => WholeInv'
  BY EventsStepWhole
<1> QED
  BY EventsInvHolds, WholeInit, <1>1, PTL DEF EventsSpec

\* An answer from the ledger has as many events as are left of the last fetched
\* answer of the same request.
THEOREM RepetitionsAreWhole == EventsSpec => []CachedAnswerIsWhole
<1>1. WholeInv => CachedAnswerIsWhole
  <2> SUFFICES ASSUME WholeInv, NEW c \in Clients, request[c].status = "cached"
               PROVE  Cardinality(request[c].answer) >= Cardinality(request[c].kept)
    BY DEF CachedAnswerIsWhole
  <2>1. Cardinality(request[c].kept) <= Cardinality(request[c].answer)
    BY DEF WholeInv, WholeRequest
  <2> QED
    BY <2>1
<1> QED
  BY WholeInvHolds, <1>1, PTL
=============================================================================
