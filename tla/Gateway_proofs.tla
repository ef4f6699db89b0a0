--------------------------- MODULE Gateway_proofs ---------------------------
(***************************************************************************)
(* Theorems about the routes, for every set of clients, any number of      *)
(* slots and any number of requests: the slots, and what the services      *)
(* promise by themselves, which they keep behind the slots.                *)
(***************************************************************************)
EXTENDS Gateway, FundData_proofs, SourceEvents_proofs

----------------------------------------------------------------------------
(* The services behind the slots *)

LEMMA KeysCalledAreKeys == KeysCalled \subseteq Keys
BY DEF KeysCalled

\* A step of the gateway is one of the fund service, or leaves it alone.
LEMMA FundStepsOnly == [GatewayNext]_gatewayVars => [FundNext]_fundVars
<1> SUFFICES ASSUME [GatewayNext]_gatewayVars PROVE [FundNext]_fundVars
  OBVIOUS
<1>1. CASE UNCHANGED gatewayVars \/ RegistryRoute
  BY <1>1 DEF gatewayVars, RegistryRoute, OnlyEvents
<1>2. ASSUME NEW c \in Clients, Arrive(c) \/ CollectMore(c) \/ HandlerStep(c) \/ Fault(c)
      PROVE  [FundNext]_fundVars
  <2>1. CASE Arrive(c) \/ CollectMore(c)
    BY <2>1 DEF Arrive, CollectMore, OnlySlots, OnlyEvents
  <2>2. CASE HandlerStep(c)
    BY <2>2 DEF HandlerStep, TurnAway, OnlySlots, CallFunds, CallEvents, CallQueries, WorkStep,
                OnlyFunds, OnlyEvents, Query, OnlyQueries, LeaveSlot, FundNext
  <2>3. CASE Fault(c)
    BY <2>3 DEF Fault, OnlyFunds, OnlyEvents, FundNext
  <2> QED
    BY <1>2, <2>1, <2>2, <2>3
<1> QED
  BY <1>1, <1>2 DEF GatewayNext

\* It is one of the source-event service, or leaves it alone.
LEMMA EventsStepsOnly == [GatewayNext]_gatewayVars => [EventsNext]_eventVars
<1> SUFFICES ASSUME [GatewayNext]_gatewayVars PROVE [EventsNext]_eventVars
  OBVIOUS
<1>1. CASE UNCHANGED gatewayVars \/ RegistryRoute
  BY <1>1 DEF gatewayVars, RegistryRoute, EventsNext
<1>2. ASSUME NEW c \in Clients, Arrive(c) \/ CollectMore(c) \/ HandlerStep(c) \/ Fault(c)
      PROVE  [EventsNext]_eventVars
  <2>1. CASE Arrive(c) \/ CollectMore(c)
    BY <2>1, KeysCalledAreKeys DEF Arrive, CollectMore, OnlySlots, EventsNext
  <2>2. CASE HandlerStep(c)
    BY <2>2, KeysCalledAreKeys
       DEF HandlerStep, TurnAway, OnlySlots, CallFunds, CallEvents, CallQueries, WorkStep,
           OnlyFunds, OnlyEvents, Query, OnlyQueries, LeaveSlot, EventsNext
  <2>3. CASE Fault(c)
    BY <2>3 DEF Fault, OnlyFunds, OnlyEvents, EventsNext
  <2> QED
    BY <1>2, <2>1, <2>2, <2>3
<1> QED
  BY <1>1, <1>2 DEF GatewayNext

\* The routes are clients of the fund service as it is specified by itself.
THEOREM GatewayImplementsFunds == GatewaySpec => FundSpec
BY FundStepsOnly, PTL DEF GatewaySpec, GatewayInit, FundSpec

\* They are clients of the source-event service as it is specified by itself.
THEOREM GatewayImplementsEvents == GatewaySpec => EventsSpec
BY EventsStepsOnly, PTL DEF GatewaySpec, GatewayInit, EventsSpec

----------------------------------------------------------------------------
(* The slots *)

\* A client has at most one kind of work under way, that of the service whose
\* routes are called.
OneKindOfWork ==
    \A c \in Clients :
        /\ queries[c] > 0 => service = "queries"
        /\ lookup[c].pc # "idle" => service = "funds"
        /\ request[c].pc # "idle" => service \in {"feeds", "sources"}

WorkersInside == \A c \in Clients : Working(c) => handler[c] = "inside"

SlotsInv ==
    /\ SlotsTypeOK
    /\ service \in Services
    /\ queries \in [Clients -> 0 .. MaxQueries]
    /\ made \in 0 .. MaxRequests
    /\ free = slots - Cardinality(Inside)
    /\ WorkersInside
    /\ OneKindOfWork

LEMMA InsideFinite == IsFiniteSet(Inside) /\ Cardinality(Inside) \in Nat
<1>1. IsFiniteSet(Clients) /\ Inside \subseteq Clients
  BY RequestConstants DEF Inside
<1>2. IsFiniteSet(Inside)
  BY <1>1, FS_Subset
<1> QED
  BY <1>2, FS_CardinalityType

\* What the steps of the slots do to them.
SlotsCount == SlotsTypeOK /\ free = slots - Cardinality(Inside)

LEMMA DispatchCounts ==
    ASSUME SlotsCount, NEW c \in Clients, NEW async, Dispatch(c, async)
    PROVE  SlotsCount'
<1>1. Inside' = Inside
  BY DEF Dispatch, Inside, SlotsCount, SlotsTypeOK
<1>2. SlotsTypeOK'
  BY DEF Dispatch, SlotsCount, SlotsTypeOK
<1> QED
  BY <1>1, <1>2 DEF Dispatch, SlotsCount

LEMMA BusyCounts ==
    ASSUME SlotsCount, NEW c \in Clients, Busy(c)
    PROVE  SlotsCount'
<1>1. Inside' = Inside
  BY DEF Busy, Inside, SlotsCount, SlotsTypeOK
<1>2. SlotsTypeOK'
  BY DEF Busy, AfterBusy, SlotsCount, SlotsTypeOK
<1> QED
  BY <1>1, <1>2 DEF Busy, AfterBusy, SlotsCount

LEMMA AcquireCounts ==
    ASSUME SlotsCount, NEW c \in Clients, Acquire(c)
    PROVE  SlotsCount'
<1>1. Inside' = Inside \cup {c} /\ c \notin Inside
  BY DEF Acquire, Inside, SlotsCount, SlotsTypeOK
<1>2. Cardinality(Inside') = Cardinality(Inside) + 1
  BY <1>1, InsideFinite, FS_AddElement
<1>3. slots \in Nat /\ free \in 0 .. slots /\ free > 0
  BY SlotConstants DEF Acquire, SlotsCount, SlotsTypeOK
<1>4. free' = slots' - Cardinality(Inside')
  BY <1>2, <1>3, InsideFinite DEF Acquire, SlotsCount
<1>5. SlotsTypeOK'
  BY <1>3 DEF Acquire, SlotsCount, SlotsTypeOK
<1> QED
  BY <1>4, <1>5 DEF SlotsCount

LEMMA LeaveCounts ==
    ASSUME SlotsCount, NEW c \in Clients, Leave(c)
    PROVE  SlotsCount'
<1>1. Inside' = Inside \ {c} /\ c \in Inside
  BY DEF Leave, Inside, SlotsCount, SlotsTypeOK
<1>2. Cardinality(Inside') = Cardinality(Inside) - 1
  BY <1>1, InsideFinite, FS_RemoveElement
<1>3. slots \in Nat /\ free \in 0 .. slots
  BY SlotConstants DEF SlotsCount, SlotsTypeOK
<1>4. IsFiniteSet(Inside') /\ Cardinality(Inside') \in Nat
  BY <1>1, InsideFinite, FS_Subset, FS_CardinalityType
<1>5. free' = slots' - Cardinality(Inside')
  BY <1>2, <1>3, InsideFinite DEF Leave, SlotsCount
<1>6. SlotsTypeOK'
  BY <1>3, <1>4, <1>5 DEF Leave, SlotsCount, SlotsTypeOK
<1> QED
  BY <1>5, <1>6 DEF SlotsCount

----------------------------------------------------------------------------
(* Each step keeps them *)

\* What a request of the fund service does to the requests: it is under way,
\* and it moves itself only.
LEMMA FundWork ==
    ASSUME lookup \in [Clients -> LookupState], NEW c \in Clients,
           FundStep(c) \/ FundFault(c)
    PROVE  lookup[c].pc # "idle" /\ \A e \in Clients \ {c} : lookup'[e] = lookup[e]
<1>1. CASE ReadFund(c) \/ NextCandidate(c) \/ GiveUp(c)
  BY <1>1 DEF ReadFund, NextCandidate, GiveUp, LookupBecomes, Providers
<1>2. CASE FundAnswers(c)
  BY <1>2 DEF FundAnswers, LookupBecomes, Providers
<1>3. CASE WriteFund(c)
  BY <1>3 DEF WriteFund, LookupBecomes
<1>4. CASE FundFault(c)
  BY <1>4 DEF FundFault, FundDeadline, FundReadError, LookupBecomes, Providers
<1> QED
  BY <1>1, <1>2, <1>3, <1>4 DEF FundStep

LEMMA EventsWork ==
    ASSUME request \in [Clients -> RequestState], NEW c \in Clients,
           EventsStep(c) \/ EventsFault(c)
    PROVE  request[c].pc # "idle" /\ \A e \in Clients \ {c} : request'[e] = request[e]
<1>1. CASE RegisterSeeds(c) \/ ReadEvents(c) \/ RecordRun(c)
  BY <1>1 DEF RegisterSeeds, ReadEvents, RecordRun, RequestBecomes
<1>2. CASE SourceAnswers(c)
  BY <1>2 DEF SourceAnswers, RequestBecomes
<1>3. CASE SourceFails(c) \/ BeginWrite(c) \/ CommitWrite(c)
  BY <1>3 DEF SourceFails, BeginWrite, CommitWrite, RequestBecomes
<1>4. CASE WriteRow(c)
  BY <1>4 DEF WriteRow, RequestBecomes
<1>5. CASE EventsFault(c)
  BY <1>5 DEF EventsFault, EventsDeadline, RollBack, EventsReadError, RequestBecomes
<1> QED
  BY <1>1, <1>2, <1>3, <1>4, <1>5 DEF EventsStep

\* A client that works inside a slot, at what the service whose routes are
\* called has to do, may go on; the others do not move.
LEMMA WorkInside ==
    ASSUME SlotsInv, NEW c \in Clients, SlotsCount',
           lookup' \in [Clients -> LookupState], request' \in [Clients -> RequestState],
           service' = service, queries' \in [Clients -> 0 .. MaxQueries],
           made' \in 0 .. MaxRequests,
           \A e \in Clients \ {c} : /\ handler'[e] = handler[e]
                                    /\ queries'[e] = queries[e]
                                    /\ lookup'[e] = lookup[e]
                                    /\ request'[e] = request[e],
           Working(c)' => handler'[c] = "inside",
           queries'[c] > 0 => service = "queries",
           lookup'[c].pc # "idle" => service = "funds",
           request'[c].pc # "idle" => service \in {"feeds", "sources"}
    PROVE  SlotsInv'
<1>1. WorkersInside'
  <2> SUFFICES ASSUME NEW e \in Clients, Working(e)' PROVE handler'[e] = "inside"
    BY DEF WorkersInside
  <2>1. CASE e = c
    BY <2>1
  <2>2. CASE e # c
    BY <2>2 DEF SlotsInv, WorkersInside, Working
  <2> QED
    BY <2>1, <2>2
<1>2. OneKindOfWork'
  <2> SUFFICES ASSUME NEW e \in Clients
               PROVE  /\ queries'[e] > 0 => service = "queries"
                      /\ lookup'[e].pc # "idle" => service = "funds"
                      /\ request'[e].pc # "idle" => service \in {"feeds", "sources"}
    BY DEF OneKindOfWork
  <2>1. CASE e = c
    BY <2>1
  <2>2. CASE e # c
    BY <2>2 DEF SlotsInv, OneKindOfWork
  <2> QED
    BY <2>1, <2>2
<1> QED
  BY <1>1, <1>2 DEF SlotsInv, SlotsCount

\* A client of which nothing is under way after the step.
LEMMA NoWorkLeft ==
    ASSUME SlotsInv, NEW c \in Clients, handler[c] # "inside"
    PROVE  queries[c] = 0 /\ lookup[c].pc = "idle" /\ request[c].pc = "idle"
<1>1. ~Working(c)
  BY DEF SlotsInv, WorkersInside
<1>2. queries[c] \in 0 .. MaxQueries /\ MaxQueries \in Nat
  BY GatewayConstants DEF SlotsInv
<1> QED
  BY <1>1, <1>2 DEF Working

SlotsBefore ==
    /\ SlotsInv
    /\ lookup \in [Clients -> LookupState] /\ lookup' \in [Clients -> LookupState]
    /\ request \in [Clients -> RequestState] /\ request' \in [Clients -> RequestState]

LEMMA SlotsFromInv == SlotsInv => SlotsCount
BY DEF SlotsInv, SlotsCount

\* Before it has a slot, a client only waits.
LEMMA WaitingKeeps ==
    ASSUME SlotsBefore, NEW c \in Clients, Arrive(c) \/ TurnAway(c)
    PROVE  SlotsInv'
<1>1. UNCHANGED <<fundVars, eventVars, service, queries>>
  BY DEF Arrive, TurnAway, OnlySlots
<1>2. SlotsCount'
  BY SlotsFromInv, DispatchCounts, BusyCounts DEF SlotsBefore, Arrive, TurnAway
<1>3. /\ handler[c] # "inside"
      /\ \A e \in Clients \ {c} : handler'[e] = handler[e]
  BY DEF SlotsBefore, SlotsInv, SlotsTypeOK, Arrive, TurnAway, Dispatch, Busy
<1>4. queries[c] = 0 /\ lookup[c].pc = "idle" /\ request[c].pc = "idle"
  BY <1>3, NoWorkLeft DEF SlotsBefore
<1>5. made' \in 0 .. MaxRequests
  BY GatewayConstants DEF SlotsBefore, SlotsInv, Arrive, TurnAway
<1>6. /\ queries' = queries /\ lookup' = lookup /\ request' = request
      /\ service' = service
  BY <1>1 DEF fundVars, eventVars
<1>7. ~Working(c)' /\ queries' \in [Clients -> 0 .. MaxQueries]
  BY <1>4, <1>6 DEF Working, SlotsBefore, SlotsInv
<1> QED
  BY <1>2, <1>3, <1>4, <1>5, <1>6, <1>7, WorkInside DEF SlotsBefore

\* A client that obtains a slot begins to work, for the service that is called.
LEMMA CallsKeep ==
    ASSUME SlotsBefore, NEW c \in Clients, CallFunds(c) \/ CallEvents(c) \/ CallQueries(c)
    PROVE  SlotsInv'
<1>1. Acquire(c) /\ service' = service /\ made' = made
  BY DEF CallFunds, CallEvents, CallQueries
<1>2. SlotsCount'
  BY <1>1, SlotsFromInv, AcquireCounts DEF SlotsBefore
<1>3. /\ handler[c] # "inside" /\ handler'[c] = "inside"
      /\ \A e \in Clients \ {c} : handler'[e] = handler[e]
  BY <1>1 DEF SlotsBefore, SlotsInv, SlotsTypeOK, Acquire
<1>4. queries[c] = 0 /\ lookup[c].pc = "idle" /\ request[c].pc = "idle"
  BY <1>3, NoWorkLeft DEF SlotsBefore
<1>5. CASE CallFunds(c)
  <2>1. service = "funds" /\ queries' = queries /\ request' = request
    BY <1>5 DEF CallFunds, eventVars
  <2>2. \A e \in Clients \ {c} : lookup'[e] = lookup[e]
    BY <1>5 DEF CallFunds, AskFund, LookupBecomes, SlotsBefore
  <2> QED
    BY <1>1, <1>2, <1>3, <1>4, <2>1, <2>2, WorkInside DEF SlotsBefore, SlotsInv
<1>6. CASE CallEvents(c)
  <2>1. queries' = queries /\ lookup' = lookup
    BY <1>6 DEF CallEvents, fundVars
  <2>2. service \in {"feeds", "sources"}
    BY <1>6 DEF CallEvents, KeysCalled
  <2>3. \A e \in Clients \ {c} : request'[e] = request[e]
    BY <1>6 DEF CallEvents, AskEvents, RequestBecomes, SlotsBefore
  <2> QED
    BY <1>1, <1>2, <1>3, <1>4, <2>1, <2>2, <2>3, WorkInside DEF SlotsBefore, SlotsInv
<1>7. CASE CallQueries(c)
  <2>1. service = "queries" /\ lookup' = lookup /\ request' = request
    BY <1>7 DEF CallQueries, fundVars, eventVars
  <2>2. PICK n \in 1 .. MaxQueries : queries' = [queries EXCEPT ![c] = n]
    BY <1>7 DEF CallQueries
  <2>3. queries' \in [Clients -> 0 .. MaxQueries]
        /\ \A e \in Clients \ {c} : queries'[e] = queries[e]
    BY <2>2, GatewayConstants DEF SlotsBefore, SlotsInv
  <2> QED
    BY <1>1, <1>2, <1>3, <1>4, <2>1, <2>3, WorkInside DEF SlotsBefore, SlotsInv
<1> QED
  BY <1>5, <1>6, <1>7

\* Work goes on inside the slot.
LEMMA WorkKeeps ==
    ASSUME SlotsBefore, NEW c \in Clients, WorkStep(c) \/ Fault(c) \/ CollectMore(c)
    PROVE  SlotsInv'
<1>1. handler' = handler /\ service' = service /\ UNCHANGED slotVars
  BY DEF WorkStep, Fault, CollectMore, Query, OnlyFunds, OnlyEvents, OnlyQueries, slotVars
<1>2. SlotsCount'
  BY <1>1, SlotsFromInv DEF SlotsBefore, SlotsCount, SlotsTypeOK, slotVars, Inside
<1>3. made' \in 0 .. MaxRequests
  BY GatewayConstants DEF SlotsBefore, SlotsInv, WorkStep, Fault, CollectMore, Query
<1>4. CASE (FundStep(c) \/ FundFault(c)) /\ OnlyFunds
  <2>1. queries' = queries /\ request' = request
    BY <1>4 DEF OnlyFunds, eventVars
  <2>2. lookup[c].pc # "idle" /\ \A e \in Clients \ {c} : lookup'[e] = lookup[e]
    BY <1>4, FundWork DEF SlotsBefore
  <2>3. handler[c] = "inside" /\ service = "funds"
    BY <2>2 DEF SlotsBefore, SlotsInv, WorkersInside, OneKindOfWork, Working
  <2>4. /\ queries'[c] > 0 => service = "queries"
        /\ request'[c].pc # "idle" => service \in {"feeds", "sources"}
    BY <2>1 DEF SlotsBefore, SlotsInv, OneKindOfWork
  <2> QED
    BY <1>1, <1>2, <1>3, <2>1, <2>2, <2>3, <2>4, WorkInside DEF SlotsBefore, SlotsInv
<1>5. CASE ((EventsStep(c) \/ EventsFault(c)) /\ OnlyEvents) \/ CollectMore(c)
  <2>1. queries' = queries /\ lookup' = lookup
    BY <1>5 DEF CollectMore, OnlyEvents, fundVars
  <2>2. request[c].pc # "idle" /\ \A e \in Clients \ {c} : request'[e] = request[e]
    BY <1>5, EventsWork DEF CollectMore, AskEvents, RequestBecomes, SlotsBefore
  <2>3. handler[c] = "inside" /\ service \in {"feeds", "sources"}
    BY <2>2 DEF SlotsBefore, SlotsInv, WorkersInside, OneKindOfWork, Working
  <2>4. /\ queries'[c] > 0 => service = "queries"
        /\ lookup'[c].pc # "idle" => service = "funds"
    BY <2>1 DEF SlotsBefore, SlotsInv, OneKindOfWork
  <2> QED
    BY <1>1, <1>2, <1>3, <2>1, <2>2, <2>3, <2>4, WorkInside DEF SlotsBefore, SlotsInv
<1>6. CASE Query(c)
  <2>1. lookup' = lookup /\ request' = request
    BY <1>6 DEF Query, OnlyQueries, fundVars, eventVars
  <2>2. queries[c] > 0 /\ \E n \in {0, queries[c] - 1} : queries' = [queries EXCEPT ![c] = n]
    BY <1>6 DEF Query
  <2>3. MaxQueries \in Nat /\ queries[c] \in 0 .. MaxQueries
    BY GatewayConstants DEF SlotsBefore, SlotsInv
  <2>4. \A n \in {0, queries[c] - 1} : n \in 0 .. MaxQueries
    BY <2>2, <2>3
  <2>5. queries' \in [Clients -> 0 .. MaxQueries]
        /\ \A e \in Clients \ {c} : queries'[e] = queries[e]
    BY <2>2, <2>4 DEF SlotsBefore, SlotsInv
  <2>6. handler[c] = "inside" /\ service = "queries"
    BY <2>2 DEF SlotsBefore, SlotsInv, WorkersInside, OneKindOfWork, Working
  <2>7. lookup'[c].pc = "idle" /\ request'[c].pc = "idle"
    BY <2>1, <2>6 DEF SlotsBefore, SlotsInv, OneKindOfWork
  <2> QED
    BY <1>1, <1>2, <1>3, <2>1, <2>5, <2>6, <2>7, WorkInside DEF SlotsBefore
<1> QED
  BY <1>4, <1>5, <1>6 DEF WorkStep, Fault

\* The slot is left when nothing is under way.
LEMMA LeaveKeeps ==
    ASSUME SlotsBefore, NEW c \in Clients, LeaveSlot(c)
    PROVE  SlotsInv'
<1>1. Leave(c) /\ service' = service /\ made' = made /\ queries' = queries
  BY DEF LeaveSlot
<1>2. SlotsCount'
  BY <1>1, SlotsFromInv, LeaveCounts DEF SlotsBefore
<1>3. \A e \in Clients \ {c} : handler'[e] = handler[e]
  BY <1>1 DEF SlotsBefore, SlotsInv, SlotsTypeOK, Leave
<1>4. queries[c] \in Nat
  BY DEF SlotsBefore, SlotsInv
<1>5. /\ queries'[c] = 0 /\ lookup'[c].pc = "idle" /\ request'[c].pc = "idle"
      /\ \A e \in Clients \ {c} : lookup'[e] = lookup[e] /\ request'[e] = request[e]
  <2>1. CASE ~Working(c)
    BY <2>1, <1>1, <1>4 DEF LeaveSlot, Working, fundVars, eventVars
  <2>2. CASE Working(c) /\ FundReturns(c) /\ UNCHANGED eventVars
    <3>1. lookup[c].pc = "done" /\ lookup' = [lookup EXCEPT ![c] = NoLookup]
      BY <2>2 DEF FundReturns, LookupBecomes
    <3>2. service = "funds"
      BY <3>1 DEF SlotsBefore, SlotsInv, OneKindOfWork
    <3>3. ~(queries[c] > 0) /\ request[c].pc = "idle"
      BY <3>2 DEF SlotsBefore, SlotsInv, OneKindOfWork
    <3>4. queries[c] = 0
      BY <3>3, <1>4
    <3>5. lookup'[c].pc = "idle" /\ \A e \in Clients \ {c} : lookup'[e] = lookup[e]
      BY <3>1 DEF SlotsBefore, NoLookup
    <3>6. request' = request
      BY <2>2 DEF eventVars
    <3> QED
      BY <1>1, <3>3, <3>4, <3>5, <3>6
  <2>3. CASE Working(c) /\ EventsReturn(c) /\ UNCHANGED fundVars
    <3>1. request[c].pc = "done" /\ request' = [request EXCEPT ![c] = NoRequest]
      BY <2>3 DEF EventsReturn, RequestBecomes
    <3>2. service \in {"feeds", "sources"}
      BY <3>1 DEF SlotsBefore, SlotsInv, OneKindOfWork
    <3>3. ~(queries[c] > 0) /\ lookup[c].pc = "idle"
      BY <3>2 DEF SlotsBefore, SlotsInv, OneKindOfWork
    <3>4. queries[c] = 0
      BY <3>3, <1>4
    <3>5. request'[c].pc = "idle" /\ \A e \in Clients \ {c} : request'[e] = request[e]
      BY <3>1 DEF SlotsBefore, NoRequest
    <3>6. lookup' = lookup
      BY <2>3 DEF fundVars
    <3> QED
      BY <1>1, <3>3, <3>4, <3>5, <3>6
  <2> QED
    BY <2>1, <2>2, <2>3 DEF LeaveSlot
<1>6. ~Working(c)'
  BY <1>5 DEF Working
<1> QED
  BY <1>1, <1>2, <1>3, <1>5, <1>6, WorkInside DEF SlotsBefore, SlotsInv

----------------------------------------------------------------------------
(* What holds behind the slots *)

LEMMA SlotsInitKeeps == GatewayInit => SlotsInv
<1> SUFFICES ASSUME GatewayInit PROVE SlotsInv
  OBVIOUS
<1>1. Inside = {} /\ Cardinality(Inside) = 0
  BY FS_EmptySet DEF GatewayInit, SlotsInit, Inside
<1>2. slots \in Nat
  BY SlotConstants DEF GatewayInit, SlotsInit
<1>3. SlotsTypeOK /\ free = slots - Cardinality(Inside)
  BY <1>1, <1>2 DEF GatewayInit, SlotsInit, SlotsTypeOK
<1>4. service \in Services /\ queries \in [Clients -> 0 .. MaxQueries] /\ made \in 0 .. MaxRequests
  BY GatewayConstants DEF GatewayInit
<1>5. WorkersInside /\ OneKindOfWork
  BY DEF GatewayInit, WorkersInside, OneKindOfWork, Working, FundInit, EventsInit,
         NoLookup, NoRequest
<1> QED
  BY <1>3, <1>4, <1>5 DEF SlotsInv

LEMMA SlotsStepKeeps == SlotsBefore /\ [GatewayNext]_gatewayVars => SlotsInv'
<1> SUFFICES ASSUME SlotsBefore, [GatewayNext]_gatewayVars PROVE SlotsInv'
  OBVIOUS
<1>1. CASE UNCHANGED gatewayVars \/ RegistryRoute
  <2>1. /\ UNCHANGED slotVars /\ service' = service /\ queries' = queries /\ made' = made
        /\ lookup' = lookup /\ request' = request
    BY <1>1 DEF gatewayVars, RegistryRoute, OnlyEvents, ListRegistry, fundVars, eventVars
  <2> QED
    BY <2>1 DEF SlotsBefore, SlotsInv, SlotsTypeOK, WorkersInside, OneKindOfWork, Working,
                Inside, slotVars
<1>2. ASSUME NEW c \in Clients, Arrive(c) \/ CollectMore(c) \/ HandlerStep(c) \/ Fault(c)
      PROVE  SlotsInv'
  BY <1>2, WaitingKeeps, CallsKeep, WorkKeeps, LeaveKeeps DEF HandlerStep
<1> QED
  BY <1>1, <1>2 DEF GatewayNext

\* Slots, work and services stay consistent.
THEOREM SlotsInvHolds == GatewaySpec => []SlotsInv
<1>1. FundInv => lookup \in [Clients -> LookupState]
  BY DEF FundInv, FundTypeOK
<1>2. EventsInv => request \in [Clients -> RequestState]
  BY DEF EventsInv, EventsTypeOK
<1>3. SlotsInv /\ FundInv /\ FundInv' /\ EventsInv /\ EventsInv' => SlotsBefore
  BY <1>1, <1>2 DEF SlotsBefore, FundInv, FundTypeOK, EventsInv, EventsTypeOK
<1>4. GatewaySpec => []FundInv
  BY GatewayImplementsFunds, FundInvHolds, PTL
<1>5. GatewaySpec => []EventsInv
  BY GatewayImplementsEvents, EventsInvHolds, PTL
<1> QED
  BY <1>3, <1>4, <1>5, SlotsInitKeeps, SlotsStepKeeps, PTL DEF GatewaySpec

\* Every variable of the routes, the slots and the services has its type.
THEOREM GatewayTypes == GatewaySpec => []GatewayTypeOK
<1>1. SlotsInv /\ FundInv /\ EventsInv => GatewayTypeOK
  BY DEF SlotsInv, FundInv, EventsInv, GatewayTypeOK
<1>2. GatewaySpec => []FundInv
  BY GatewayImplementsFunds, FundInvHolds, PTL
<1>3. GatewaySpec => []EventsInv
  BY GatewayImplementsEvents, EventsInvHolds, PTL
<1> QED
  BY <1>1, <1>2, <1>3, SlotsInvHolds, PTL

\* No more handlers work than there are slots, none works without one, and no
\* slot is lost or given back twice.
THEOREM SlotsAreBounded == GatewaySpec => []SlotsBound
<1>1. SlotsInv => SlotsBound
  <2> SUFFICES ASSUME SlotsInv PROVE SlotsBound
    OBVIOUS
  <2>1. {c \in Clients : Working(c)} \subseteq Inside
    BY DEF SlotsInv, WorkersInside, Inside
  <2>2. slots \in Nat /\ free \in 0 .. slots /\ free = slots - Cardinality(Inside)
    BY SlotConstants DEF SlotsInv, SlotsTypeOK
  <2>3. Cardinality(Inside) <= slots
    BY <2>2, InsideFinite
  <2> QED
    BY <2>1, <2>2, <2>3 DEF SlotsBound
<1> QED
  BY <1>1, SlotsInvHolds, PTL

\* Behind the slots, answers about a fund are of one answer of one provider,
\* nothing about a fund is forgotten, and stored reports stay.
THEOREM FundsBehindSlots == GatewaySpec => [](ReportIsWhole /\ FundNotForgotten) /\ HoldingsNeverBack
BY GatewayImplementsFunds, WholeReports, NothingForgotten, NeverBack, PTL

\* Behind the slots, the ledger keeps one event for each dedupe key, when it
\* was first seen, and its source, and repeats its answers whole.
THEOREM EventsBehindSlots ==
    GatewaySpec => /\ [](OneEventPerKey /\ SourcesRegistered /\ CachedAnswerIsWhole)
                   /\ FirstSeenKept
BY GatewayImplementsEvents, OneEventEach, SourcesKnown, RepetitionsAreWhole,
   FirstSeenStays, PTL
=============================================================================
