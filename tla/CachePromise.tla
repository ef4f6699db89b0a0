---------------------------- MODULE CachePromise ----------------------------
(***************************************************************************)
(* What the read-through cache promises its callers, without services,     *)
(* locks, leases or a lookup before the fetch.  A provider is asked for a  *)
(* key by one caller at a time.  Its answer is stored or dropped, and is   *)
(* stored over earlier ones only.  A query is answered as a whole, by      *)
(* stored records no older than what was current when it was asked; or it  *)
(* is refused, or lost.                                                    *)
(***************************************************************************)
EXTENDS Naturals

CONSTANTS Callers, Keys

VARIABLES
    stored,   \* the current entry of each key, the number of an answer; 0: none
    answers,  \* how many answers the providers have given
    waiting,  \* keys that a provider is being asked for
    arrived,  \* pairs of a key and an answer for it that is not stored yet
    query     \* the query of each caller

pvars == <<stored, answers, waiting, arrived, query>>

NoQuery              == [phase |-> "none"]
Refusal              == [phase |-> "refused"]
Open(need, low, got) == [phase |-> "open", need |-> need, low |-> low, got |-> got]
Reply(need, got)     == [phase |-> "answered", records |-> [k \in need |-> got[k]]]

PInit ==
    /\ stored  = [k \in Keys |-> 0]
    /\ answers = 0
    /\ waiting = {}
    /\ arrived = {}
    /\ query   = [c \in Callers |-> NoQuery]

OpenQuery(c) == query[c].phase = "open"

AskFor(c, need) ==
    /\ ~OpenQuery(c)
    /\ query' = [query EXCEPT ![c] = Open(need, stored, [k \in Keys |-> 0])]
    /\ UNCHANGED <<stored, answers, waiting, arrived>>

\* One call for a key at a time, until its answer is stored or dropped.
Call(k) ==
    /\ k \notin waiting
    /\ \A a \in arrived : a[1] # k
    /\ waiting' = waiting \cup {k}
    /\ UNCHANGED <<stored, answers, arrived, query>>

Arrive(k) ==
    /\ k \in waiting
    /\ waiting' = waiting \ {k}
    /\ answers' = answers + 1
    /\ arrived' = arrived \cup {<<k, answers + 1>>}
    /\ UNCHANGED <<stored, query>>

Fail(k) ==
    /\ k \in waiting
    /\ waiting' = waiting \ {k}
    /\ UNCHANGED <<stored, answers, arrived, query>>

\* The current entry goes forward only.
Store(a) ==
    /\ a \in arrived
    /\ stored[a[1]] < a[2]
    /\ stored' = [stored EXCEPT ![a[1]] = a[2]]
    /\ arrived' = arrived \ {a}
    /\ UNCHANGED <<answers, waiting, query>>

Drop(a) ==
    /\ a \in arrived
    /\ arrived' = arrived \ {a}
    /\ UNCHANGED <<stored, answers, waiting, query>>

\* A query takes a record that was current at some time since it was asked.
Take(c, k, record) ==
    /\ OpenQuery(c) /\ k \in query[c].need
    /\ record # 0 /\ query[c].low[k] <= record /\ record <= stored[k]
    /\ query' = [query EXCEPT ![c] = Open(query[c].need, query[c].low,
                                          [query[c].got EXCEPT ![k] = record])]
    /\ UNCHANGED <<stored, answers, waiting, arrived>>

AnswerWhole(c) ==
    /\ OpenQuery(c)
    /\ \A k \in query[c].need : query[c].got[k] # 0
    /\ query' = [query EXCEPT ![c] = Reply(query[c].need, query[c].got)]
    /\ UNCHANGED <<stored, answers, waiting, arrived>>

Refuse(c) ==
    /\ OpenQuery(c)
    /\ query' = [query EXCEPT ![c] = Refusal]
    /\ UNCHANGED <<stored, answers, waiting, arrived>>

Lose(c) ==
    /\ OpenQuery(c)
    /\ query' = [query EXCEPT ![c] = NoQuery]
    /\ UNCHANGED <<stored, answers, waiting, arrived>>

\* A process dies, and its callers' queries and provider calls with it.
Die ==
    /\ \E lost \in SUBSET Callers :
          query' = [c \in Callers |-> IF c \in lost THEN NoQuery ELSE query[c]]
    /\ waiting' \in SUBSET waiting
    /\ arrived' \in SUBSET arrived
    /\ UNCHANGED <<stored, answers>>

PNext ==
    \/ \E k \in Keys : Call(k) \/ Arrive(k) \/ Fail(k)
    \/ \E a \in arrived : Store(a) \/ Drop(a)
    \/ \E c \in Callers :
          \/ \E need \in SUBSET Keys : AskFor(c, need)
          \/ \E k \in Keys : \E record \in 1 .. stored[k] : Take(c, k, record)
          \/ AnswerWhole(c) \/ Refuse(c) \/ Lose(c)
    \/ Die

\* No query stays open for ever.
Promise ==
    /\ PInit
    /\ [][PNext]_pvars
    /\ \A c \in Callers : WF_pvars(AnswerWhole(c) \/ Refuse(c) \/ Lose(c))
=============================================================================
