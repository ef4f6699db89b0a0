------------------------ MODULE MCReadThroughCache ------------------------
(* Instances of ReadThroughCache for TLC, and the mapping to CachePromise. *)
EXTENDS ReadThroughCache

CONSTANTS c1, c2, s1, s2

\* Both callers call one service; or each calls its own.
OneService  == [c \in Callers |-> s1]
TwoServices == [c \in Callers |-> IF c = c1 THEN s1 ELSE s2]

\* What a caller knows of its query.
SeenQuery(q) ==
    CASE q.pc = "idle"                                 -> [phase |-> "none"]
      [] q.pc = "refused" \/ q.source = "error"        -> [phase |-> "refused"]
      [] q.pc = "done" /\ q.source # "error"           ->
            [phase |-> "answered", records |-> [k \in q.need |-> q.got[k]]]
      [] OTHER -> [phase |-> "open", need |-> q.need, low |-> q.floor, got |-> q.got]

At(pc) == {caller[c] : c \in {d \in Callers : caller[d].pc = pc}}

Waiting == {Key(q) : q \in At("fetch")}
Arrived == {<<Key(q), q.payload>> : q \in At("write")}
Seen    == [c \in Callers |-> SeenQuery(caller[c])]

Abstract ==
    INSTANCE CachePromise WITH
        stored <- entry, answers <- clock, waiting <- Waiting, arrived <- Arrived,
        query <- Seen

\* Several services on one database, their locks, leases, crashes and errors
\* included, behave for their callers like CachePromise.
KeepsPromise == Abstract!Promise
============================================================================
