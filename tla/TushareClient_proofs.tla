------------------------ MODULE TushareClient_proofs ------------------------
(***************************************************************************)
(* Theorems about the Tushare client, for every number of threads, length  *)
(* of the window, limit and number of retries.                             *)
(***************************************************************************)
EXTENDS TushareClient, FiniteSetTheorems, TLAPS

----------------------------------------------------------------------------
(* The inductive invariant *)

\* A call in _wait_for_rate_limit, or sent, or between two attempts.
Limiter == {"look", "roll", "test", "full", "read", "store", "send", "backoff"}

AttemptOK(q) ==
    /\ q.pc \in Limiter => q.attempt >= 1
    /\ q.pc = "backoff" => q.attempt < MaxRetries

CallOK(q, c) ==
    /\ AttemptOK(q)
    /\ q.pc = "use" => c # {}
    /\ q.pc \in Limiter => c # {} /\ \E b \in Clients : q.using = {b}

ClientInv ==
    /\ TypeOK
    /\ client = {} \/ \E b \in Clients : client = {b}
    /\ client = {} => \A age \in 0 .. Window - 1 : sent[age] = 0
    /\ \A b \in Clients : window[b].count <= limit
    /\ \A t \in Clients : CallOK(call[t], client)

\* A window w has counted the calls sent since its start; of those sent before
\* it, for as long as calls have not overlapped, there are no more than the limit.
\* l is the limit, n the calls sent, k how long calls have not overlapped, and o
\* is 1 if a call has been counted and not sent yet.
Covers(l, w, n, k, o) ==
    \A age \in 0 .. Window - 1 : age < k =>
        /\ age < w.age => n[age] + o <= w.count
        /\ n[age] + o <= w.count + l

\* What the only call that is under way knows of the window of its client.
StepOK(q, l, w, n, k) ==
    /\ q.pc = "roll" => /\ w.age = Window /\ q.elapsed = 0
                        /\ \A age \in 0 .. Window - 1 : age < q.read => n[age] = 0
    /\ q.pc = "test" => q.elapsed <= w.age
    /\ q.pc = "full" => w.age + q.wait >= Window
    /\ q.pc \in {"read", "store"} => w.count < l
    /\ q.pc = "store" => q.seen = w.count
    /\ q.pc = "send" => w.count >= 1 /\ Covers(l, w, n, k, 1)

CallCalm(q, b, l, w, n, k) ==
    /\ q.pc # "get"
    /\ q.pc \in Limiter => q.using = {b} /\ StepOK(q, l, w, n, k)

\* Calls are limited, and have not overlapped for some time.
Calm == limit > 0 /\ apart > 0

CalmInv ==
    Calm => /\ \A t, u \in InFlight : t = u
            /\ \A b \in client :
                  /\ Covers(limit, window[b], sent, apart, 0)
                  /\ \A t \in Clients :
                        CallCalm(call[t], b, limit, window[b], sent, apart)

PaceInv == ClientInv /\ CalmInv

----------------------------------------------------------------------------
(* Windows *)

WindowState == [age : Ages, count : Nat]

Tallies == [0 .. Window - 1 -> Nat]

LEMMA AgesAre ==
    /\ Window \in Nat /\ Window > 0
    /\ \A age \in Ages : /\ age \in Nat /\ age <= Window /\ Older(age) \in Ages
                         /\ Older(age) \in Nat /\ Older(age) >= age
                         /\ Older(age) > 0 /\ Older(age) <= age + 1
                         /\ age < Window => Older(age) = age + 1
                         /\ age = Window => Older(age) = Window
    /\ 0 \in Ages /\ Window \in Ages
BY TushareConstants DEF Ages, Older

\* A tick: the calls sent are of the tick before.
LEMMA CoversOlder ==
    ASSUME NEW l \in Nat, NEW w \in WindowState, NEW n \in Tallies, NEW k \in Ages,
           NEW o \in {0, 1}, Covers(l, w, n, k, o), o <= w.count,
           NEW v \in WindowState, v.age = Older(w.age), v.count = w.count,
           NEW m \in Tallies,
           \A age \in 0 .. Window - 1 : m[age] = IF age = 0 THEN 0 ELSE n[age - 1]
    PROVE  Covers(l, v, m, Older(k), o)
<1> SUFFICES ASSUME NEW age \in 0 .. Window - 1, age < Older(k)
             PROVE  /\ age < v.age => m[age] + o <= v.count
                    /\ m[age] + o <= v.count + l
  BY DEF Covers
<1>1. w.age \in Ages /\ w.count \in Nat
  BY DEF WindowState
<1>2. \A i \in Ages : i \in Nat /\ Older(i) \in Nat /\ Older(i) <= i + 1
  BY AgesAre
<1>3. k \in Nat /\ w.age \in Nat /\ age < k + 1 /\ (age < v.age => age < w.age + 1)
  <2>1. Older(k) \in Nat /\ Older(k) <= k + 1 /\ k \in Nat
    BY <1>2
  <2>2. v.age \in Nat /\ v.age <= w.age + 1 /\ w.age \in Nat
    BY <1>1, <1>2
  <2> QED
    BY <2>1, <2>2
<1>4. CASE age = 0
  BY <1>1, <1>4
<1>5. CASE age # 0
  <2>1. age - 1 \in 0 .. Window - 1 /\ age - 1 < k /\ (age < v.age => age - 1 < w.age)
    BY <1>3, <1>5, AgesAre
  <2>2. /\ age - 1 < w.age => n[age - 1] + o <= w.count
        /\ n[age - 1] + o <= w.count + l
    BY <2>1 DEF Covers
  <2>3. m[age] = n[age - 1]
    BY <1>5
  <2> QED
    BY <2>1, <2>2, <2>3
<1> QED
  BY <1>4, <1>5

\* A tick, for the only call that is under way.
LEMMA StepOlder ==
    ASSUME NEW l \in Nat, NEW w \in WindowState, NEW n \in Tallies, NEW k \in Ages,
           NEW q \in CallState, StepOK(q, l, w, n, k),
           NEW v \in WindowState, v.age = Older(w.age), v.count = w.count,
           NEW m \in Tallies,
           \A age \in 0 .. Window - 1 : m[age] = IF age = 0 THEN 0 ELSE n[age - 1],
           NEW r \in CallState, r.pc = q.pc, r.elapsed = q.elapsed, r.seen = q.seen,
           r.wait = IF q.wait > 0 THEN q.wait - 1 ELSE 0,
           q.pc = "roll" => r.read = Older(q.read)
    PROVE  StepOK(r, l, v, m, Older(k))
<1>1. w.age \in Ages /\ v.age \in Nat /\ w.age \in Nat /\ w.age <= Window /\ v.age >= w.age
  BY AgesAre DEF WindowState
<1>2. q.wait \in Nat /\ q.elapsed \in Nat /\ q.read \in Ages
  BY AgesAre DEF CallState
<1>3. CASE q.pc = "roll"
  <2>1. w.age = Window /\ v.age = Window /\ r.elapsed = 0
    BY <1>1, <1>3, AgesAre DEF StepOK
  <2>2. \A age \in 0 .. Window - 1 : age < r.read => m[age] = 0
    <3> SUFFICES ASSUME NEW age \in 0 .. Window - 1, age < r.read, age # 0
                 PROVE  m[age] = 0
      OBVIOUS
    <3>1. r.read <= q.read + 1 /\ q.read \in Nat /\ r.read \in Nat
      BY <1>2, <1>3, AgesAre
    <3>2. age - 1 \in 0 .. Window - 1 /\ age - 1 < q.read
      BY <3>1, TushareConstants
    <3> QED
      BY <1>3, <3>2 DEF StepOK
  <2> QED
    BY <1>3, <2>1, <2>2 DEF StepOK
<1>4. CASE q.pc = "test"
  BY <1>1, <1>2, <1>4 DEF StepOK
<1>5. CASE q.pc = "full"
  <2>1. v.age = IF w.age < Window THEN w.age + 1 ELSE w.age
    BY DEF Older
  <2>2. w.age + q.wait >= Window /\ Window \in Nat
    BY <1>5, AgesAre DEF StepOK
  <2>3. v.age + r.wait >= Window
    BY <1>1, <1>2, <2>1, <2>2
  <2> QED
    BY <1>5, <2>3 DEF StepOK
<1>6. CASE q.pc = "send"
  <2>1. w.count >= 1 /\ Covers(l, w, n, k, 1)
    BY <1>6 DEF StepOK
  <2>2. w.count \in Nat /\ 1 <= w.count
    BY <2>1 DEF WindowState
  <2>3. Covers(l, v, m, Older(k), 1)
    BY <2>1, <2>2, CoversOlder
  <2> QED
    BY <1>6, <2>1, <2>3 DEF StepOK
<1>7. CASE q.pc \notin {"roll", "test", "full", "send"}
  BY <1>7 DEF StepOK
<1> QED
  BY <1>3, <1>4, <1>5, <1>6, <1>7

\* A window that is over covers all calls: a new one may begin at any time since
\* when none has been sent.
LEMMA CoversReset ==
    ASSUME NEW l \in Nat, NEW w \in WindowState, NEW n \in Tallies, NEW k \in Ages,
           Covers(l, w, n, k, 0), w.age >= Window, w.count <= l,
           NEW v \in WindowState, v.count = 0,
           \A age \in 0 .. Window - 1 : age < v.age => n[age] = 0
    PROVE  Covers(l, v, n, k, 0)
<1> SUFFICES ASSUME NEW age \in 0 .. Window - 1, age < k
             PROVE  /\ age < v.age => n[age] + 0 <= v.count
                    /\ n[age] + 0 <= v.count + l
  BY DEF Covers
<1>1. w.age \in Nat /\ w.count \in Nat /\ Window \in Nat /\ n[age] \in Nat
  BY AgesAre DEF WindowState, Tallies
<1>2. n[age] + 0 <= w.count
  BY <1>1 DEF Covers
<1> QED
  BY <1>1, <1>2

\* A call is counted, and sent.
LEMMA CoversCounted ==
    ASSUME NEW l \in Nat, NEW w \in WindowState, NEW n \in Tallies, NEW k \in Ages,
           Covers(l, w, n, k, 0),
           NEW v \in WindowState, v.age = w.age, v.count = w.count + 1
    PROVE  Covers(l, v, n, k, 1) /\ Covers(l, v, n, k, 0)
<1> SUFFICES ASSUME NEW age \in 0 .. Window - 1, age < k
             PROVE  /\ age < v.age => n[age] + 1 <= v.count
                    /\ n[age] + 1 <= v.count + l
                    /\ age < v.age => n[age] + 0 <= v.count
                    /\ n[age] + 0 <= v.count + l
  BY DEF Covers
<1>1. w.count \in Nat /\ n[age] \in Nat
  BY DEF WindowState, Tallies
<1>2. /\ age < w.age => n[age] + 0 <= w.count
      /\ n[age] + 0 <= w.count + l
  BY DEF Covers
<1> QED
  BY <1>1, <1>2

LEMMA CoversSent ==
    ASSUME NEW l \in Nat, NEW w \in WindowState, NEW n \in Tallies, NEW k \in Ages,
           Covers(l, w, n, k, 1),
           NEW m \in Tallies, \A age \in 0 .. Window - 1 : m[age] = n[age] + 1
    PROVE  Covers(l, w, m, k, 0)
<1> SUFFICES ASSUME NEW age \in 0 .. Window - 1, age < k
             PROVE  /\ age < w.age => m[age] + 0 <= w.count
                    /\ m[age] + 0 <= w.count + l
  BY DEF Covers
<1>1. w.count \in Nat /\ n[age] \in Nat /\ m[age] = n[age] + 1
  BY DEF WindowState, Tallies
<1>2. /\ age < w.age => n[age] + 1 <= w.count
      /\ n[age] + 1 <= w.count + l
  BY DEF Covers
<1> QED
  BY <1>1, <1>2

----------------------------------------------------------------------------
(* One call moves *)

LEMMA NoCallState ==
    /\ NoCall \in CallState /\ NoCall.pc = "idle" /\ NoCall.using = {}
    /\ [NoCall EXCEPT !.pc = "get"] \in CallState
    /\ [NoCall EXCEPT !.pc = "use"] \in CallState
    /\ [NoCall EXCEPT !.pc = "get"].pc = "get"
    /\ [NoCall EXCEPT !.pc = "use"].pc = "use"
BY AgesAre, TushareConstants DEF NoCall, CallState

\* Whatever thread moves and whoever's window it changes.
LEMMA ClientMoves ==
    ASSUME ClientInv, NEW t \in Clients, NEW q \in CallState, CallBecomes(t, q),
           limit' = limit, client' = client, CallOK(q, client),
           NEW u \in Clients, NEW v \in WindowState, v.count <= limit,
           window' = [window EXCEPT ![u] = v],
           sent' \in Tallies, apart' \in Ages,
           client = {} => \A age \in 0 .. Window - 1 : sent'[age] = 0
    PROVE  ClientInv'
<1>1. TypeOK'
  BY DEF ClientInv, TypeOK, CallBecomes, WindowState, Tallies
<1>2. \A b \in Clients : window'[b].count <= limit'
  BY DEF ClientInv, TypeOK
<1>3. \A e \in Clients : CallOK(call'[e], client')
  BY DEF ClientInv, TypeOK, CallBecomes
<1> QED
  BY <1>1, <1>2, <1>3 DEF ClientInv

\* While calls do not overlap, nothing else is under way.
LEMMA CalmMoves ==
    ASSUME PaceInv, NEW t \in Clients, NEW q, CallBecomes(t, q), call[t].pc # "idle",
           limit' = limit, client' = client, apart' = apart,
           \A b \in client : Calm =>
                /\ Covers(limit, window'[b], sent', apart, 0)
                /\ CallCalm(q, b, limit, window'[b], sent', apart)
    PROVE  CalmInv'
<1> SUFFICES ASSUME Calm'
             PROVE  /\ \A e, f \in InFlight' : e = f
                    /\ \A b \in client :
                          /\ Covers(limit, window'[b], sent', apart, 0)
                          /\ \A e \in Clients :
                                CallCalm(call'[e], b, limit, window'[b], sent', apart)
  BY DEF CalmInv
<1>1. Calm
  BY DEF Calm
<1>2. call'[t] = q /\ \A e \in Clients \ {t} : call'[e] = call[e]
  BY DEF CallBecomes, PaceInv, ClientInv, TypeOK
<1>3. \A e \in Clients \ {t} : call[e].pc = "idle"
  BY <1>1 DEF PaceInv, CalmInv, InFlight
<1>4. \A e, f \in InFlight' : e = f
  BY <1>2, <1>3 DEF InFlight
<1>5. \A e \in Clients \ {t} : \A b \in client :
         CallCalm(call'[e], b, limit, window'[b], sent', apart)
  BY <1>2, <1>3 DEF CallCalm, Limiter
<1> QED
  BY <1>1, <1>2, <1>4, <1>5

\* What is known of a call that uses a client.
Uses(t, u) ==
    /\ call[t] \in CallState /\ call[t].using = {u} /\ Used(t) = u /\ AttemptOK(call[t])
    /\ client # {} /\ limit \in Nat /\ sent \in Tallies /\ apart \in Ages
    /\ window[u] \in WindowState /\ window[u].count <= limit
    /\ window = [window EXCEPT ![u] = window[u]]
    /\ Calm => /\ client = {u}
               /\ Covers(limit, window[u], sent, apart, 0)
               /\ StepOK(call[t], limit, window[u], sent, apart)

LEMMA LimiterFacts ==
    ASSUME PaceInv, NEW t \in Clients, call[t].pc \in Limiter
    PROVE  \E u \in Clients : Uses(t, u)
<1>1. TypeOK /\ CallOK(call[t], client)
  BY DEF PaceInv, ClientInv
<1>2. PICK u \in Clients : call[t].using = {u}
  BY <1>1 DEF CallOK
<1>3. Used(t) = u
  BY <1>2 DEF Used
<1>4. client # {} /\ \E b \in Clients : client = {b}
  BY <1>1 DEF CallOK, PaceInv, ClientInv
<1>5. Calm => client = {u} /\ Covers(limit, window[u], sent, apart, 0)
                           /\ StepOK(call[t], limit, window[u], sent, apart)
  <2> SUFFICES ASSUME Calm PROVE client = {u} /\ Covers(limit, window[u], sent, apart, 0)
                           /\ StepOK(call[t], limit, window[u], sent, apart)
    OBVIOUS
  <2>1. PICK b \in Clients : client = {b}
    BY <1>4
  <2>2. /\ Covers(limit, window[b], sent, apart, 0)
        /\ CallCalm(call[t], b, limit, window[b], sent, apart)
    BY <2>1 DEF PaceInv, CalmInv
  <2>3. call[t].using = {b} /\ StepOK(call[t], limit, window[b], sent, apart)
    BY <2>2 DEF CallCalm
  <2>4. b = u
    BY <2>3, <1>2
  <2> QED
    BY <2>1, <2>2, <2>3, <2>4
<1>6. /\ limit \in Nat /\ sent \in Tallies /\ apart \in Ages /\ call[t] \in CallState
      /\ window[u] \in WindowState /\ window[u].count <= limit
      /\ window = [window EXCEPT ![u] = window[u]]
  BY <1>1, TushareConstants DEF TypeOK, PaceInv, ClientInv, WindowState, Tallies
<1> QED
  BY <1>1, <1>2, <1>3, <1>4, <1>5, <1>6 DEF Uses, CallOK

\* A call that uses the client built by u moves, and may change its window.
LEMMA LimiterMoves ==
    ASSUME PaceInv, NEW t \in Clients, call[t].pc \in Limiter,
           NEW u \in Clients, Uses(t, u),
           NEW q \in CallState, CallBecomes(t, q),
           q.pc \in Limiter => q.using = {u}, q.pc \notin {"get", "use"}, AttemptOK(q),
           NEW v \in WindowState, v.count <= limit, window' = [window EXCEPT ![u] = v],
           limit' = limit, client' = client, apart' = apart, sent' \in Tallies,
           Calm => /\ Covers(limit, v, sent', apart, 0)
                   /\ q.pc \in Limiter => StepOK(q, limit, v, sent', apart)
    PROVE  PaceInv'
<1>1. /\ client # {} /\ apart \in Ages /\ (Calm => client = {u}) /\ call[t].pc # "idle"
  BY DEF Uses, Limiter
<1>2. CallOK(q, client)
  BY <1>1 DEF CallOK
<1>3. ClientInv'
  BY <1>1, <1>2, ClientMoves DEF PaceInv
<1>4. window'[u] = v
  BY DEF PaceInv, ClientInv, TypeOK
<1>5. CallCalm(q, u, limit, v, sent', apart) <=>
          (q.pc \in Limiter => StepOK(q, limit, v, sent', apart))
  BY DEF CallCalm
<1>6. \A b \in client : Calm =>
                /\ Covers(limit, window'[b], sent', apart, 0)
                /\ CallCalm(q, b, limit, window'[b], sent', apart)
  BY <1>1, <1>4, <1>5
<1>7. CalmInv'
  BY <1>1, <1>6, CalmMoves
<1> QED
  BY <1>3, <1>7 DEF PaceInv

----------------------------------------------------------------------------
(* Each action keeps the invariant *)

LEMMA InitKeeps == ASSUME Init PROVE PaceInv
<1>1. TypeOK
  BY NoCallState, AgesAre, TushareConstants, FS_EmptySet
  DEF Init, TypeOK
<1>2. ClientInv
  BY <1>1, TushareConstants DEF Init, ClientInv, CallOK, AttemptOK, NoCall, Limiter
<1>3. CalmInv
  BY DEF Init, CalmInv, InFlight, NoCall
<1> QED
  BY <1>2, <1>3 DEF PaceInv

LEMMA FetchKeeps ==
    ASSUME PaceInv, NEW t \in Clients, Fetch(t)
    PROVE  PaceInv'
<1> DEFINE q == [NoCall EXCEPT !.pc = IF client = {} THEN "get" ELSE "use"]
<1>1. q \in CallState /\ q.pc = IF client = {} THEN "get" ELSE "use"
  BY NoCallState
<1>2. CallBecomes(t, q) /\ call[t].pc = "idle" /\ TypeOK
  BY DEF Fetch, PaceInv, ClientInv
<1>3. /\ UNCHANGED <<limit, client, window, sent>>
      /\ apart' = IF InFlight = {} THEN apart ELSE 0
  BY DEF Fetch
<1> HIDE DEF q
<1>4. ClientInv'
  <2>1. CallOK(q, client)
    BY <1>1 DEF CallOK, AttemptOK, Limiter
  <2>2. apart' \in Ages /\ sent' \in Tallies
    BY <1>2, <1>3, AgesAre DEF TypeOK, Tallies
  <2>3. /\ window[t] \in WindowState /\ window[t].count <= limit
        /\ window' = [window EXCEPT ![t] = window[t]]
    BY <1>2, <1>3 DEF TypeOK, PaceInv, ClientInv, WindowState
  <2>4. client = {} => \A age \in 0 .. Window - 1 : sent'[age] = 0
    BY <1>3 DEF PaceInv, ClientInv
  <2> QED
    BY <1>1, <1>2, <1>3, <2>1, <2>2, <2>3, <2>4, ClientMoves DEF PaceInv
<1>5. CalmInv'
  <2> SUFFICES ASSUME Calm'
               PROVE  /\ \A e, f \in InFlight' : e = f
                      /\ \A b \in client :
                            /\ Covers(limit, window[b], sent, apart, 0)
                            /\ \A e \in Clients :
                                  CallCalm(call'[e], b, limit, window[b], sent, apart)
    BY <1>3 DEF CalmInv, Calm
  <2>1. Calm /\ InFlight = {} /\ apart' = apart
    BY <1>3 DEF Calm
  <2>2. call'[t] = q /\ \A e \in Clients \ {t} : call'[e] = call[e]
    BY <1>2 DEF CallBecomes, TypeOK
  <2>3. \A e \in Clients : call[e].pc = "idle"
    BY <2>1 DEF InFlight
  <2>4. \A e, f \in InFlight' : e = f
    BY <2>2, <2>3 DEF InFlight
  <2>5. \A b \in client : q.pc = "use"
    BY <1>1
  <2>6. \A b \in client : \A e \in Clients :
           CallCalm(call'[e], b, limit, window[b], sent, apart)
    BY <2>2, <2>3, <2>5 DEF CallCalm, Limiter
  <2> QED
    BY <2>1, <2>4, <2>6 DEF PaceInv, CalmInv
<1> QED
  BY <1>4, <1>5 DEF PaceInv

\* As long as calls have not overlapped, there was no client before this one.
LEMMA BuildKeeps ==
    ASSUME PaceInv, NEW t \in Clients, BuildClient(t)
    PROVE  PaceInv'
<1> DEFINE q == [call[t] EXCEPT !.pc = "use"]
           v == [age |-> 0, count |-> 0]
<1>1. /\ call[t].pc = "get" /\ client' = {t} /\ window' = [window EXCEPT ![t] = v]
      /\ CallBecomes(t, q) /\ UNCHANGED <<limit, sent, apart>> /\ TypeOK
  BY DEF BuildClient, PaceInv, ClientInv
<1>2. q \in CallState /\ q.pc = "use"
  <2>1. call[t] \in CallState
    BY <1>1 DEF TypeOK
  <2> QED
    BY <2>1 DEF CallState
<1>3. v \in WindowState /\ v.count = 0 /\ v.age = 0 /\ limit \in Nat
  BY <1>1, AgesAre, TushareConstants DEF WindowState, TypeOK
<1> HIDE DEF q, v
<1>4. call'[t] = q /\ \A e \in Clients \ {t} : call'[e] = call[e]
  BY <1>1 DEF CallBecomes, TypeOK
<1>5. ClientInv'
  <2>1. TypeOK'
    <3>1. client' \in SUBSET Clients /\ Cardinality(client') <= 1
      <4>1. Cardinality({t}) = 1
        BY FS_Singleton
      <4>2. client' = {t}
        BY <1>1
      <4> QED
        BY <4>1, <4>2
    <3> QED
      BY <1>1, <1>2, <1>3, <3>1 DEF TypeOK, CallBecomes, WindowState
  <2>2. \A b \in Clients : window'[b].count <= limit'
    BY <1>1, <1>3 DEF PaceInv, ClientInv, TypeOK
  <2>3. CallOK(call'[t], client')
    BY <1>1, <1>2, <1>4 DEF CallOK, AttemptOK, Limiter
  <2>4. \A e \in Clients \ {t} : CallOK(call'[e], client')
    BY <1>1, <1>4 DEF CallOK, PaceInv, ClientInv
  <2> QED
    BY <1>1, <2>1, <2>2, <2>3, <2>4 DEF ClientInv
<1>6. CalmInv'
  <2> SUFFICES ASSUME Calm'
               PROVE  /\ \A e, f \in InFlight' : e = f
                      /\ Covers(limit, window'[t], sent, apart, 0)
                      /\ \A e \in Clients :
                            CallCalm(call'[e], t, limit, window'[t], sent, apart)
    BY <1>1 DEF CalmInv, Calm
  <2>1. Calm
    BY <1>1 DEF Calm
  <2>2. client = {}
    BY <1>1, <2>1 DEF PaceInv, CalmInv, CallCalm
  <2>3. \A e \in Clients \ {t} : call[e].pc = "idle"
    BY <1>1, <2>1 DEF PaceInv, CalmInv, InFlight
  <2>4. \A e, f \in InFlight' : e = f
    BY <1>4, <2>3 DEF InFlight
  <2>5. \A age \in 0 .. Window - 1 : sent[age] = 0
    BY <2>2 DEF PaceInv, ClientInv
  <2>6. window'[t] = v
    BY <1>1 DEF TypeOK
  <2>7. Covers(limit, v, sent, apart, 0)
    BY <1>3, <2>5 DEF Covers
  <2>8. \A e \in Clients : CallCalm(call'[e], t, limit, window'[t], sent, apart)
    BY <1>2, <1>4, <2>3 DEF CallCalm, Limiter
  <2> QED
    BY <2>4, <2>6, <2>7, <2>8
<1> QED
  BY <1>5, <1>6 DEF PaceInv

\* The steps before the client is used.
LEMMA CannotBuildKeeps ==
    ASSUME PaceInv, NEW t \in Clients, CannotBuild(t)
    PROVE  PaceInv'
<1>1. /\ call[t].pc = "get" /\ CallBecomes(t, NoCall)
      /\ UNCHANGED <<limit, client, window, sent, apart>> /\ TypeOK
  BY DEF CannotBuild, PaceInv, ClientInv
<1>2. ClientInv'
  <2>1. CallOK(NoCall, client)
    BY NoCallState DEF CallOK, AttemptOK, Limiter
  <2>2. /\ window[t] \in WindowState /\ window[t].count <= limit
        /\ window' = [window EXCEPT ![t] = window[t]]
        /\ apart' \in Ages /\ sent' \in Tallies
    BY <1>1 DEF TypeOK, PaceInv, ClientInv, WindowState, Tallies
  <2>3. client = {} => \A age \in 0 .. Window - 1 : sent'[age] = 0
    BY <1>1 DEF PaceInv, ClientInv
  <2> QED
    BY <1>1, <2>1, <2>2, <2>3, NoCallState, ClientMoves DEF PaceInv
<1>3. \A b \in client : CallCalm(NoCall, b, limit, window[b], sent, apart)
  BY NoCallState DEF CallCalm, Limiter
<1>4. CalmInv'
  BY <1>1, <1>3, CalmMoves DEF PaceInv, CalmInv
<1> QED
  BY <1>2, <1>4 DEF PaceInv

LEMMA UseKeeps ==
    ASSUME PaceInv, NEW t \in Clients, UseClient(t)
    PROVE  PaceInv'
<1> DEFINE q == [call[t] EXCEPT !.using = client, !.attempt = 1,
                                !.pc = IF limit = 0 THEN "send" ELSE "look"]
<1>1. /\ call[t].pc = "use" /\ CallBecomes(t, q)
      /\ UNCHANGED <<limit, client, window, sent, apart>> /\ TypeOK
  BY DEF UseClient, PaceInv, ClientInv
<1>2. client # {} /\ \E b \in Clients : client = {b}
  BY <1>1 DEF PaceInv, ClientInv, CallOK
<1>3. /\ q \in CallState /\ q.using = client /\ q.attempt = 1
      /\ q.pc = IF limit = 0 THEN "send" ELSE "look"
  <2>1. call[t] \in CallState /\ client \in SUBSET Clients /\ 1 \in 0 .. MaxRetries
    BY <1>1, TushareConstants DEF TypeOK
  <2> QED
    BY <2>1 DEF CallState
<1> HIDE DEF q
<1>4. ClientInv'
  <2>1. CallOK(q, client)
    BY <1>2, <1>3 DEF CallOK, AttemptOK
  <2>2. /\ window[t] \in WindowState /\ window[t].count <= limit
        /\ window' = [window EXCEPT ![t] = window[t]]
        /\ apart' \in Ages /\ sent' \in Tallies
    BY <1>1 DEF TypeOK, PaceInv, ClientInv, WindowState, Tallies
  <2> QED
    BY <1>1, <1>2, <1>3, <2>1, <2>2, ClientMoves DEF PaceInv
<1>5. \A b \in client : Calm => CallCalm(q, b, limit, window[b], sent, apart)
  BY <1>2, <1>3 DEF CallCalm, StepOK, Calm
<1>6. CalmInv'
  BY <1>1, <1>5, CalmMoves DEF PaceInv, CalmInv
<1> QED
  BY <1>4, <1>6 DEF PaceInv

\* _wait_for_rate_limit
LEMMA LookKeeps ==
    ASSUME PaceInv, NEW t \in Clients, LookAtWindow(t)
    PROVE  PaceInv'
<1>1. PICK u \in Clients : Uses(t, u)
  BY LimiterFacts DEF LookAtWindow, Limiter
<1> DEFINE w == window[u]
           q == [call[t] EXCEPT !.pc = IF w.age >= Window THEN "roll" ELSE "test",
                                !.read = 0,
                                !.elapsed = IF w.age >= Window THEN 0 ELSE w.age]
<1>2. /\ call[t].pc = "look" /\ CallBecomes(t, q)
      /\ UNCHANGED <<limit, client, window, sent, apart>>
  BY <1>1 DEF LookAtWindow, Uses
<1>3. /\ w.age \in Ages /\ w.age \in Nat /\ w.age <= Window /\ 0 \in Ages /\ w \in WindowState
      /\ w.count <= limit /\ sent' \in Tallies /\ window' = [window EXCEPT ![u] = w]
      /\ Calm => Covers(limit, w, sent', apart, 0)
  BY <1>1, <1>2, AgesAre DEF WindowState, Uses
<1>4. /\ q \in CallState /\ q.using = {u} /\ q.attempt = call[t].attempt
      /\ q.pc = IF w.age >= Window THEN "roll" ELSE "test"
      /\ q.read = 0 /\ q.elapsed = IF w.age >= Window THEN 0 ELSE w.age
  BY <1>1, <1>3 DEF CallState, Uses
<1> HIDE DEF q, w
<1>5. StepOK(q, limit, w, sent', apart)
  BY <1>3, <1>4, AgesAre DEF StepOK
<1>6. q.pc \notin {"get", "use"} /\ call[t].pc \in Limiter /\ AttemptOK(q)
  BY <1>1, <1>2, <1>4 DEF Limiter, AttemptOK, Uses
<1> QED
  BY <1>1, <1>2, <1>3, <1>4, <1>5, <1>6, LimiterMoves

LEMMA RollKeeps ==
    ASSUME PaceInv, NEW t \in Clients, RollWindow(t)
    PROVE  PaceInv'
<1>1. PICK u \in Clients : Uses(t, u)
  BY LimiterFacts DEF RollWindow, Limiter
<1> DEFINE v == [age |-> call[t].read, count |-> 0]
           q == [call[t] EXCEPT !.pc = "test", !.read = 0]
<1>2. /\ call[t].pc = "roll" /\ CallBecomes(t, q) /\ window' = [window EXCEPT ![u] = v]
      /\ UNCHANGED <<limit, client, sent, apart>>
  BY <1>1 DEF RollWindow, SetWindow, Uses
<1>3. /\ v \in WindowState /\ v.count = 0 /\ v.age = call[t].read /\ v.age \in Nat
      /\ v.count <= limit /\ sent' \in Tallies
  BY <1>1, <1>2, AgesAre DEF WindowState, CallState, Uses
<1>4. /\ q \in CallState /\ q.using = {u} /\ q.attempt = call[t].attempt
      /\ q.pc = "test" /\ q.elapsed = call[t].elapsed
  BY <1>1, AgesAre DEF CallState, Uses
<1> HIDE DEF q, v
<1>5. Calm => Covers(limit, v, sent', apart, 0) /\ StepOK(q, limit, v, sent', apart)
  <2> SUFFICES ASSUME Calm
               PROVE  Covers(limit, v, sent, apart, 0) /\ StepOK(q, limit, v, sent, apart)
    BY <1>2
  <2>1. /\ window[u].age = Window /\ call[t].elapsed = 0
        /\ \A age \in 0 .. Window - 1 : age < v.age => sent[age] = 0
    BY <1>1, <1>2, <1>3 DEF StepOK, Uses
  <2>2. Covers(limit, v, sent, apart, 0)
    BY <1>1, <1>3, <2>1, AgesAre, CoversReset DEF Uses
  <2>3. StepOK(q, limit, v, sent, apart)
    BY <1>3, <1>4, <2>1 DEF StepOK
  <2> QED
    BY <2>2, <2>3
<1>6. q.pc \notin {"get", "use"} /\ call[t].pc \in Limiter /\ AttemptOK(q)
  BY <1>1, <1>2, <1>4 DEF Limiter, AttemptOK, Uses
<1> QED
  BY <1>1, <1>2, <1>3, <1>4, <1>5, <1>6, LimiterMoves

LEMMA TestKeeps ==
    ASSUME PaceInv, NEW t \in Clients, TestCount(t)
    PROVE  PaceInv'
<1>1. PICK u \in Clients : Uses(t, u)
  BY LimiterFacts DEF TestCount, Limiter
<1> DEFINE w    == window[u]
           full == w.count >= limit
           q    == [call[t] EXCEPT !.pc = IF full THEN "full" ELSE "read",
                                   !.wait = IF full THEN Window - call[t].elapsed ELSE 0,
                                   !.read = 0, !.elapsed = 0]
<1>2. /\ call[t].pc = "test" /\ CallBecomes(t, q)
      /\ UNCHANGED <<limit, client, window, sent, apart>>
  BY <1>1 DEF TestCount, Uses
<1>3. /\ w \in WindowState /\ w.age \in Nat /\ w.count \in Nat /\ limit \in Nat
      /\ w.count <= limit /\ sent' \in Tallies /\ window' = [window EXCEPT ![u] = w]
      /\ Calm => Covers(limit, w, sent', apart, 0) /\ call[t].elapsed <= w.age
  BY <1>1, <1>2, AgesAre DEF WindowState, Uses, StepOK
<1>4. Window - call[t].elapsed \in Nat /\ call[t].elapsed \in Nat /\ 0 \in Ages
  <2>1. call[t].elapsed \in Ages
    BY <1>1 DEF Uses, CallState
  <2> QED
    BY <2>1, TushareConstants DEF Ages
<1>5. /\ q \in CallState /\ q.using = {u} /\ q.attempt = call[t].attempt
      /\ q.pc = IF full THEN "full" ELSE "read"
      /\ q.wait = IF full THEN Window - call[t].elapsed ELSE 0
  BY <1>1, <1>4 DEF CallState, Uses
<1> HIDE DEF q, w
<1>6. Calm => StepOK(q, limit, w, sent', apart)
  BY <1>3, <1>4, <1>5, AgesAre DEF StepOK
<1>7. q.pc \notin {"get", "use"} /\ call[t].pc \in Limiter /\ AttemptOK(q)
  BY <1>1, <1>2, <1>5 DEF Limiter, AttemptOK, Uses
<1> QED
  BY <1>1, <1>2, <1>3, <1>5, <1>6, <1>7, LimiterMoves

LEMMA WakeAfterFullKeeps ==
    ASSUME PaceInv, NEW t \in Clients, WakeAfterFull(t)
    PROVE  PaceInv'
<1>1. PICK u \in Clients : Uses(t, u)
  BY LimiterFacts DEF WakeAfterFull, Limiter
<1> DEFINE v == Reopened(window[u])
           q == [call[t] EXCEPT !.pc = "read"]
<1>2. /\ call[t].pc = "full" /\ call[t].wait = 0 /\ CallBecomes(t, q)
      /\ window' = [window EXCEPT ![u] = v] /\ UNCHANGED <<limit, client, sent, apart>>
  BY <1>1 DEF WakeAfterFull, SetWindow, Uses
<1>3. /\ v \in WindowState /\ v.count = 0 /\ v.age = 0
      /\ v.count <= limit /\ sent' \in Tallies /\ limit \in Nat
  BY <1>1, <1>2, AgesAre DEF WindowState, Uses, Reopened
<1>4. q \in CallState /\ q.using = {u} /\ q.attempt = call[t].attempt /\ q.pc = "read"
  BY <1>1 DEF CallState, Uses
<1> HIDE DEF q, v
<1>5. Calm => Covers(limit, v, sent', apart, 0) /\ StepOK(q, limit, v, sent', apart)
  <2> SUFFICES ASSUME Calm
               PROVE  Covers(limit, v, sent, apart, 0) /\ StepOK(q, limit, v, sent, apart)
    BY <1>2
  <2>1. window[u].age >= Window
    BY <1>1, <1>2, AgesAre DEF StepOK, Uses, WindowState
  <2>2. Covers(limit, v, sent, apart, 0)
    BY <1>1, <1>3, <2>1, CoversReset DEF Uses
  <2>3. StepOK(q, limit, v, sent, apart)
    BY <1>3, <1>4 DEF StepOK, Calm
  <2> QED
    BY <2>2, <2>3
<1>6. q.pc \notin {"get", "use"} /\ call[t].pc \in Limiter /\ AttemptOK(q)
  BY <1>1, <1>2, <1>4 DEF Limiter, AttemptOK, Uses
<1> QED
  BY <1>1, <1>2, <1>3, <1>4, <1>5, <1>6, LimiterMoves

LEMMA ReadCountKeeps ==
    ASSUME PaceInv, NEW t \in Clients, ReadCount(t)
    PROVE  PaceInv'
<1>1. PICK u \in Clients : Uses(t, u)
  BY LimiterFacts DEF ReadCount, Limiter
<1> DEFINE w == window[u]
           q == [call[t] EXCEPT !.pc = "store", !.seen = w.count]
<1>2. /\ call[t].pc = "read" /\ CallBecomes(t, q)
      /\ UNCHANGED <<limit, client, window, sent, apart>>
  BY <1>1 DEF ReadCount, Uses
<1>3. /\ w \in WindowState /\ w.count \in Nat
      /\ w.count <= limit /\ sent' \in Tallies /\ window' = [window EXCEPT ![u] = w]
      /\ Calm => Covers(limit, w, sent', apart, 0) /\ w.count < limit
  BY <1>1, <1>2 DEF WindowState, Uses, StepOK
<1>4. /\ q \in CallState /\ q.using = {u} /\ q.attempt = call[t].attempt
      /\ q.pc = "store" /\ q.seen = w.count
  BY <1>1, <1>3 DEF CallState, Uses
<1> HIDE DEF q, w
<1>5. Calm => StepOK(q, limit, w, sent', apart)
  BY <1>3, <1>4 DEF StepOK
<1>6. q.pc \notin {"get", "use"} /\ call[t].pc \in Limiter /\ AttemptOK(q)
  BY <1>1, <1>2, <1>4 DEF Limiter, AttemptOK, Uses
<1> QED
  BY <1>1, <1>2, <1>3, <1>4, <1>5, <1>6, LimiterMoves

LEMMA StoreCountKeeps ==
    ASSUME PaceInv, NEW t \in Clients, StoreCount(t)
    PROVE  PaceInv'
<1>1. PICK u \in Clients : Uses(t, u)
  BY LimiterFacts DEF StoreCount, Limiter
<1> DEFINE n == Counted(call[t].seen)
           v == [window[u] EXCEPT !.count = n]
           q == [call[t] EXCEPT !.pc = "send", !.seen = 0]
<1>2. /\ call[t].pc = "store" /\ CallBecomes(t, q)
      /\ window' = [window EXCEPT ![u] = v] /\ UNCHANGED <<limit, client, sent, apart>>
  BY <1>1 DEF StoreCount, SetWindow, Uses
<1>3. /\ call[t].seen \in Nat /\ limit \in Nat /\ window[u] \in WindowState
      /\ sent' \in Tallies
  BY <1>1, <1>2 DEF CallState, Uses
<1>4. n \in Nat /\ n <= limit /\ (call[t].seen < limit => n = call[t].seen + 1)
  BY <1>3 DEF Counted
<1> HIDE DEF n
<1>5. v \in WindowState /\ v.count = n /\ v.age = window[u].age
  BY <1>3, <1>4 DEF WindowState
<1>6. q \in CallState /\ q.using = {u} /\ q.attempt = call[t].attempt /\ q.pc = "send"
  BY <1>1 DEF CallState, Uses
<1> HIDE DEF q, v
<1>7. Calm => Covers(limit, v, sent', apart, 0) /\ StepOK(q, limit, v, sent', apart)
  <2> SUFFICES ASSUME Calm
               PROVE  Covers(limit, v, sent, apart, 0) /\ StepOK(q, limit, v, sent, apart)
    BY <1>2
  <2>1. call[t].seen = window[u].count /\ window[u].count < limit
    BY <1>1, <1>2 DEF StepOK, Uses
  <2>2. v.count = window[u].count + 1 /\ v.count >= 1
    BY <1>3, <1>4, <1>5, <2>1
  <2>3. Covers(limit, v, sent, apart, 0) /\ Covers(limit, v, sent, apart, 1)
    BY <1>1, <1>5, <2>2, CoversCounted DEF Uses
  <2>4. StepOK(q, limit, v, sent, apart)
    BY <1>6, <2>2, <2>3 DEF StepOK
  <2> QED
    BY <2>3, <2>4
<1>8. q.pc \notin {"get", "use"} /\ call[t].pc \in Limiter /\ AttemptOK(q) /\ v.count <= limit
  BY <1>1, <1>2, <1>4, <1>5, <1>6 DEF Limiter, AttemptOK, Uses
<1> QED
  BY <1>1, <1>2, <1>3, <1>5, <1>6, <1>7, <1>8, LimiterMoves

\* _call_tushare: a call is sent, and answered or not.
LEMMA SentEffect ==
    ASSUME PaceInv, NEW t \in Clients, call[t].pc = "send", Sends, apart' = apart,
           NEW u \in Clients, Uses(t, u)
    PROVE  /\ sent' \in Tallies
           /\ Calm => Covers(limit, window[u], sent', apart, 0)
<1>1. sent \in Tallies /\ limit \in Nat /\ window[u] \in WindowState /\ apart \in Ages
  BY DEF Uses
<1>2. sent' \in Tallies
  BY <1>1 DEF Sends, Tallies
<1>3. ASSUME Calm
      PROVE  Covers(limit, window[u], sent', apart, 0)
  <2>1. Covers(limit, window[u], sent, apart, 1) /\ limit # 0
    BY <1>1, <1>3 DEF Uses, StepOK, Calm
  <2>2. \A age \in 0 .. Window - 1 : sent'[age] = sent[age] + 1
    BY <2>1 DEF Sends
  <2> QED
    BY <1>1, <1>2, <2>1, <2>2, CoversSent
<1> QED
  BY <1>2, <1>3

LEMMA AnswersKeeps ==
    ASSUME PaceInv, NEW t \in Clients, CallAnswers(t)
    PROVE  PaceInv'
<1>1. PICK u \in Clients : Uses(t, u)
  BY LimiterFacts DEF CallAnswers, Limiter
<1>2. /\ call[t].pc = "send" /\ CallBecomes(t, NoCall) /\ Sends
      /\ UNCHANGED <<limit, client, window, apart>>
  BY DEF CallAnswers
<1>3. /\ sent' \in Tallies /\ (Calm => Covers(limit, window[u], sent', apart, 0))
  BY <1>1, <1>2, SentEffect
<1>4. /\ window[u] \in WindowState /\ window[u].count <= limit
      /\ window' = [window EXCEPT ![u] = window[u]]
  BY <1>1, <1>2 DEF Uses
<1>5. /\ NoCall.pc \notin Limiter \cup {"get", "use"} /\ AttemptOK(NoCall)
      /\ call[t].pc \in Limiter
  BY <1>2, NoCallState DEF Limiter, AttemptOK
<1> QED
  BY <1>1, <1>2, <1>3, <1>4, <1>5, NoCallState, LimiterMoves

LEMMA FailsKeeps ==
    ASSUME PaceInv, NEW t \in Clients, CallFails(t)
    PROVE  PaceInv'
<1>1. PICK u \in Clients : Uses(t, u)
  BY LimiterFacts DEF CallFails, Limiter
<1>2. PICK retryable \in BOOLEAN :
          CallBecomes(t, IF Retried(call[t].attempt, retryable)
                         THEN [call[t] EXCEPT !.pc = "backoff",
                                              !.wait = Backoff(call[t].attempt)]
                         ELSE NoCall)
  BY DEF CallFails
<1> DEFINE q == [call[t] EXCEPT !.pc = "backoff", !.wait = Backoff(call[t].attempt)]
<1>3. call[t].pc = "send" /\ Sends /\ UNCHANGED <<limit, client, window, apart>>
  BY DEF CallFails
<1>4. /\ sent' \in Tallies /\ (Calm => Covers(limit, window[u], sent', apart, 0))
  BY <1>1, <1>3, SentEffect
<1>5. /\ window[u] \in WindowState /\ window[u].count <= limit
      /\ window' = [window EXCEPT ![u] = window[u]]
  BY <1>1, <1>3 DEF Uses
<1>6. CASE ~Retried(call[t].attempt, retryable)
  <2>1. /\ NoCall.pc \notin Limiter \cup {"get", "use"} /\ AttemptOK(NoCall)
        /\ call[t].pc \in Limiter
    BY <1>3, NoCallState DEF Limiter, AttemptOK
  <2> QED
    BY <1>1, <1>2, <1>3, <1>4, <1>5, <1>6, <2>1, NoCallState, LimiterMoves
<1>7. CASE Retried(call[t].attempt, retryable)
  <2>1. /\ call[t] \in CallState /\ call[t].using = {u} /\ AttemptOK(call[t])
    BY <1>1 DEF Uses
  <2>2. call[t].attempt \in 1 .. MaxRetries /\ call[t].attempt < MaxRetries
    BY <1>3, <1>7, <2>1, TushareConstants DEF CallState, AttemptOK, Limiter, Retried
  <2>3. Backoff(call[t].attempt) \in Nat
    BY <2>2, BackoffIsTime
  <2>4. /\ q \in CallState /\ q.pc = "backoff" /\ q.using = {u}
        /\ q.attempt = call[t].attempt
    BY <2>1, <2>3 DEF CallState
  <2>5. CallBecomes(t, q)
    BY <1>2, <1>7
  <2> HIDE DEF q
  <2>6. /\ AttemptOK(q) /\ StepOK(q, limit, window[u], sent', apart)
        /\ call[t].pc \in Limiter
    BY <1>3, <2>2, <2>4 DEF AttemptOK, StepOK, Limiter
  <2> QED
    BY <1>1, <1>3, <1>4, <1>5, <2>4, <2>5, <2>6, LimiterMoves
<1> QED
  BY <1>6, <1>7

LEMMA WakeAfterBackoffKeeps ==
    ASSUME PaceInv, NEW t \in Clients, WakeAfterBackoff(t)
    PROVE  PaceInv'
<1>1. PICK u \in Clients : Uses(t, u)
  BY LimiterFacts DEF WakeAfterBackoff, Limiter
<1> DEFINE q == [call[t] EXCEPT !.pc = IF limit = 0 THEN "send" ELSE "look",
                                !.attempt = NextAttempt(@)]
<1>2. /\ call[t].pc = "backoff" /\ CallBecomes(t, q)
      /\ UNCHANGED <<limit, client, window, sent, apart>>
  BY DEF WakeAfterBackoff
<1>3. /\ window[u] \in WindowState /\ window[u].count <= limit /\ sent' \in Tallies
      /\ window' = [window EXCEPT ![u] = window[u]]
      /\ Calm => Covers(limit, window[u], sent', apart, 0)
  BY <1>1, <1>2 DEF Uses
<1>4. /\ call[t] \in CallState /\ call[t].using = {u} /\ AttemptOK(call[t])
  BY <1>1 DEF Uses
<1>5. NextAttempt(call[t].attempt) \in 1 .. MaxRetries
  BY <1>2, <1>4, TushareConstants DEF CallState, AttemptOK, Limiter, NextAttempt
<1>6. /\ q \in CallState /\ q.using = {u} /\ q.attempt \in 1 .. MaxRetries
      /\ q.pc = IF limit = 0 THEN "send" ELSE "look"
  <2> DEFINE a == NextAttempt(call[t].attempt)
  <2>1. a \in 1 .. MaxRetries /\ a \in 0 .. MaxRetries
    BY <1>5, TushareConstants
  <2>2. q = [call[t] EXCEPT !.pc = IF limit = 0 THEN "send" ELSE "look", !.attempt = a]
    OBVIOUS
  <2> HIDE DEF a, q
  <2> QED
    BY <1>4, <2>1, <2>2 DEF CallState
<1> HIDE DEF q
<1>7. Calm => StepOK(q, limit, window[u], sent', apart)
  BY <1>6 DEF StepOK, Calm
<1>8. AttemptOK(q) /\ q.pc \notin {"get", "use"} /\ call[t].pc \in Limiter
  BY <1>2, <1>6 DEF AttemptOK, Limiter
<1> QED
  BY <1>1, <1>2, <1>3, <1>6, <1>7, <1>8, LimiterMoves

\* Time passes: windows, readings of the clock and calls sent grow older together.
LEMMA TickKeeps ==
    ASSUME PaceInv, Tick
    PROVE  PaceInv'
<1>1. TypeOK /\ UNCHANGED <<limit, client>>
  BY DEF Tick, PaceInv, ClientInv
<1>2. ASSUME NEW t \in Clients
      PROVE  /\ call[t] \in CallState /\ call'[t] \in CallState
             /\ call'[t].pc = call[t].pc /\ call'[t].using = call[t].using
             /\ call'[t].attempt = call[t].attempt
             /\ call'[t].elapsed = call[t].elapsed /\ call'[t].seen = call[t].seen
             /\ call'[t].wait = IF call[t].wait > 0 THEN call[t].wait - 1 ELSE 0
             /\ call[t].pc = "roll" => call'[t].read = Older(call[t].read)
  <2>1. call[t] \in CallState
    BY <1>1 DEF TypeOK
  <2>2. call[t].wait \in Nat /\ call[t].read \in Ages /\ Older(call[t].read) \in Ages
    BY <2>1, AgesAre DEF CallState
  <2>3. PICK wait : wait = IF call[t].wait > 0 THEN call[t].wait - 1 ELSE 0
    OBVIOUS
  <2>4. PICK read : read = IF call[t].pc = "roll" THEN Older(call[t].read) ELSE 0
    OBVIOUS
  <2>5. wait \in Nat /\ read \in Ages
    BY <2>2, <2>3, <2>4, AgesAre
  <2>6. call'[t] = [call[t] EXCEPT !.wait = wait, !.read = read]
    BY <2>1, <2>3, <2>4 DEF Tick, CallState
  <2> QED
    BY <2>1, <2>3, <2>4, <2>5, <2>6 DEF CallState
<1>3. ASSUME NEW b \in Clients
      PROVE  /\ window[b] \in WindowState /\ window'[b] \in WindowState
             /\ window'[b].age = Older(window[b].age)
             /\ window'[b].count = window[b].count
             /\ window'[b].count \in Nat
  <2>1. window[b] \in WindowState
    BY <1>1 DEF TypeOK, WindowState
  <2>2. Older(window[b].age) \in Ages
    BY <2>1, AgesAre DEF WindowState
  <2>3. window'[b] = [window[b] EXCEPT !.age = Older(window[b].age)]
    BY <2>1 DEF Tick, WindowState
  <2> QED
    BY <2>1, <2>2, <2>3 DEF WindowState
<1>4. /\ sent \in Tallies /\ sent' \in Tallies
      /\ \A age \in 0 .. Window - 1 : sent'[age] = IF age = 0 THEN 0 ELSE sent[age - 1]
  <2>1. sent \in Tallies
    BY <1>1 DEF TypeOK, Tallies
  <2>2. sent' = [age \in 0 .. Window - 1 |-> IF age = 0 THEN 0 ELSE sent[age - 1]]
    BY DEF Tick
  <2>3. \A age \in 0 .. Window - 1 : (IF age = 0 THEN 0 ELSE sent[age - 1]) \in Nat
    <3> TAKE age \in 0 .. Window - 1
    <3>1. CASE age = 0
      BY <3>1
    <3>2. CASE age # 0
      <4>1. age - 1 \in 0 .. Window - 1
        BY <3>2, TushareConstants
      <4> QED
        BY <2>1, <3>2, <4>1 DEF Tallies
    <3> QED
      BY <3>1, <3>2
  <2> QED
    BY <2>1, <2>2, <2>3 DEF Tallies
<1>5. /\ apart \in Ages /\ apart' \in Ages
      /\ apart' = IF apart = 0 /\ InFlight # {} THEN 0 ELSE Older(apart)
  BY <1>1, AgesAre DEF TypeOK, Tick
<1>6. ClientInv'
  <2>1. call' \in [Clients -> CallState] /\ window' \in [Clients -> WindowState]
    <3>1. call' = [t \in Clients |-> call'[t]] /\ window' = [b \in Clients |-> window'[b]]
      BY DEF Tick
    <3> QED
      BY <1>2, <1>3, <3>1
  <2>2. TypeOK'
    BY <1>1, <1>4, <1>5, <2>1 DEF TypeOK, WindowState, Tallies
  <2>3. \A t \in Clients : CallOK(call'[t], client')
    BY <1>1, <1>2 DEF PaceInv, ClientInv, CallOK, AttemptOK
  <2>4. client' = {} => \A age \in 0 .. Window - 1 : sent'[age] = 0
    <3> SUFFICES ASSUME client = {}, NEW age \in 0 .. Window - 1 PROVE sent'[age] = 0
      BY <1>1
    <3>1. \A i \in 0 .. Window - 1 : sent[i] = 0
      BY DEF PaceInv, ClientInv
    <3>2. age # 0 => age - 1 \in 0 .. Window - 1
      BY TushareConstants
    <3> QED
      BY <1>4, <3>1, <3>2
  <2>5. \A b \in Clients : window'[b].count <= limit'
    BY <1>1, <1>3 DEF PaceInv, ClientInv
  <2> QED
    BY <1>1, <2>2, <2>3, <2>4, <2>5 DEF PaceInv, ClientInv
<1>7. InFlight' = InFlight
  BY <1>2 DEF InFlight
<1>8. ASSUME apart = 0, Calm' PROVE CalmInv'
  <2>1. InFlight = {} /\ apart' <= 1
    BY <1>5, <1>8, AgesAre DEF Calm, Older
  <2>2. \A t \in Clients : call'[t].pc = "idle"
    BY <1>2, <2>1 DEF InFlight
  <2>3. client \subseteq Clients /\ limit \in Nat
    BY <1>1, TushareConstants DEF TypeOK
  <2>4. \A b \in client : Covers(limit, window'[b], sent', apart', 0)
    <3> SUFFICES ASSUME NEW b \in client, NEW age \in 0 .. Window - 1, age < apart'
                 PROVE  /\ sent'[age] + 0 <= window'[b].count
                        /\ sent'[age] + 0 <= window'[b].count + limit
      BY DEF Covers
    <3>1. age = 0
      BY <1>5, <2>1, AgesAre
    <3> QED
      BY <1>3, <1>4, <2>3, <3>1
  <2>5. \A b \in client : \A t \in Clients :
           CallCalm(call'[t], b, limit, window'[b], sent', apart')
    BY <2>2 DEF CallCalm, Limiter
  <2> QED
    BY <1>1, <1>7, <2>1, <2>4, <2>5 DEF CalmInv
<1>9. ASSUME apart # 0, Calm' PROVE CalmInv'
  <2>1. Calm /\ apart' = Older(apart) /\ limit \in Nat
    BY <1>1, <1>5, <1>9, TushareConstants, AgesAre DEF Calm, TypeOK
  <2>2. /\ \A t, u \in InFlight : t = u
        /\ \A b \in client : /\ Covers(limit, window[b], sent, apart, 0)
                             /\ \A t \in Clients :
                                   CallCalm(call[t], b, limit, window[b], sent, apart)
    BY <2>1 DEF PaceInv, CalmInv
  <2>3. client \subseteq Clients
    BY <1>1 DEF TypeOK
  <2>4. ASSUME NEW b \in client
        PROVE  Covers(limit, window'[b], sent', apart', 0)
    BY <1>3, <1>4, <1>5, <2>1, <2>2, <2>3, CoversOlder
  <2>5. ASSUME NEW b \in client, NEW t \in Clients
        PROVE  CallCalm(call'[t], b, limit, window'[b], sent', apart')
    <3>1. CallCalm(call[t], b, limit, window[b], sent, apart)
      BY <2>2
    <3>2. StepOK(call[t], limit, window[b], sent, apart) =>
             StepOK(call'[t], limit, window'[b], sent', apart')
      BY <1>2, <1>3, <1>4, <1>5, <2>1, <2>3, StepOlder
    <3> QED
      BY <1>2, <3>1, <3>2 DEF CallCalm
  <2> QED
    BY <1>1, <1>7, <2>2, <2>4, <2>5 DEF CalmInv
<1>10. CalmInv'
  BY <1>8, <1>9 DEF CalmInv
<1> QED
  BY <1>6, <1>10 DEF PaceInv

----------------------------------------------------------------------------
(* Theorems *)

LEMMA StepKeeps == ASSUME PaceInv, [Next]_vars PROVE PaceInv'
<1>1. CASE UNCHANGED vars
  BY <1>1 DEF vars, PaceInv, ClientInv, CalmInv, Calm, TypeOK, InFlight
<1>2. ASSUME NEW t \in Clients, Fetch(t) \/ CallStep(t)
      PROVE  PaceInv'
  BY <1>2, FetchKeeps, BuildKeeps, CannotBuildKeeps, UseKeeps, LookKeeps, RollKeeps,
     TestKeeps, WakeAfterFullKeeps, ReadCountKeeps, StoreCountKeeps, AnswersKeeps,
     FailsKeeps, WakeAfterBackoffKeeps DEF CallStep
<1> QED
  BY <1>1, <1>2, TickKeeps DEF Next

\* The inductive invariant: what a call knows of the client it uses, and, while
\* calls do not overlap, what a window has counted of the calls that were sent.
THEOREM PaceInvHolds == Spec => []PaceInv
BY InitKeeps, StepKeeps, PTL DEF Spec

\* TypeOK, for any threads, windows and retries: the attempts of a call never
\* exceed max_retries, and no count exceeds the limit's type.
THEOREM ClientTypes == Spec => []TypeOK
<1>1. PaceInv => TypeOK
  BY DEF PaceInv, ClientInv
<1> QED
  BY <1>1, PaceInvHolds, PTL

\* PaceRestored: whatever threads have done to each other's windows, and whichever
\* client was lost, once calls have not overlapped for a window no more than twice
\* the limit were sent in it.
THEOREM PaceIsRestored == Spec => []PaceRestored
<1>1. PaceInv => PaceRestored
  <2> SUFFICES ASSUME PaceInv, limit > 0, apart = Window
               PROVE  sent[Window - 1] <= 2 * limit
    BY DEF PaceRestored, SentInWindow
  <2>1. /\ TypeOK /\ limit \in Nat /\ Calm
        /\ Window - 1 \in 0 .. Window - 1 /\ Window - 1 < apart
        /\ sent[Window - 1] \in Nat
    <3>1. TypeOK
      BY DEF PaceInv, ClientInv
    <3>2. Window - 1 \in 0 .. Window - 1 /\ Window - 1 < apart /\ apart > 0
      BY TushareConstants
    <3> QED
      BY <3>1, <3>2, TushareConstants DEF TypeOK, Calm
  <2>2. CASE client = {}
    BY <2>1, <2>2 DEF PaceInv, ClientInv
  <2>3. CASE client # {}
    <3>1. PICK b \in Clients : b \in client
      BY <2>1, <2>3 DEF TypeOK
    <3>2. Covers(limit, window[b], sent, apart, 0) /\ window[b].count <= limit
      BY <2>1, <3>1 DEF PaceInv, CalmInv, ClientInv
    <3>3. window[b].count \in Nat
      BY <2>1, <3>1 DEF TypeOK
    <3>4. sent[Window - 1] + 0 <= window[b].count + limit
      BY <2>1, <3>2 DEF Covers
    <3> QED
      BY <2>1, <3>2, <3>3, <3>4
  <2> QED
    BY <2>2, <2>3
<1> QED
  BY <1>1, PaceInvHolds, PTL
=============================================================================
