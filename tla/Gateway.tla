------------------------------ MODULE Gateway ------------------------------
(***************************************************************************)
(* The routes of main.py that fetch data: a handler waits for a fetch      *)
(* slot, works inside it, and leaves it.  The work is a request of the     *)
(* fund service, one or more requests of the source-event service, or a    *)
(* sequence of queries of a provider or of the read-through cache.         *)
(*                                                                         *)
(* The services share nothing but the slots, and neither do the feeds and  *)
(* the other sources of events: ids and dedupe keys contain the source.    *)
(* So in one behaviour all routes are those of one of them.                *)
(***************************************************************************)
EXTENDS FetchSlots, FundData, SourceEvents

CONSTANTS
    Services,     \* of "funds", "feeds", "sources", "queries"
    MaxQueries,   \* bound: the queries of a route that asks for several symbols
    MaxRequests   \* bound: how many requests are made of the services

ASSUME GatewayConstants ==
    /\ Services \subseteq {"funds", "feeds", "sources", "queries"}
    /\ MaxQueries \in Nat \ {0}
    /\ MaxRequests \in Nat

VARIABLES
    service,  \* whose routes are called
    queries,  \* how many queries each handler has still to make
    made      \* how many requests have been made

gatewayVars == <<slotVars, fundVars, eventVars, service, queries, made>>

----------------------------------------------------------------------------
(* Routes *)

\* What the slots see of a route: whether it is a coroutine, and how many
\* queries it makes one after the other.
TushareFacade   == [async |-> TRUE, queries |-> {1}]
BarRoutes       == [async |-> FALSE, queries |-> 1 .. MaxQueries]  \* and turnover
ReferenceRoutes == [async |-> FALSE, queries |-> {1}]  \* stock_basic, trade_cal
QuoteRoutes     == [async |-> FALSE, queries |-> {1}]  \* _provider_success_or_empty
MembershipRoute == [async |-> FALSE, queries |-> {1}]  \* module SectorMemberships
MarketRoutes    == [async |-> FALSE, queries |-> {1}]  \* _provider_success_or_empty
NewsBriefs      == [async |-> FALSE, queries |-> {1}]
ChipsRoute      == [async |-> FALSE, queries |-> 1 .. MaxQueries]
SmokeRoute      == [async |-> FALSE, queries |-> 1 .. MaxQueries]

QueryRoutes ==
    {TushareFacade, BarRoutes, ReferenceRoutes, QuoteRoutes, MembershipRoute,
     MarketRoutes, NewsBriefs, ChipsRoute, SmokeRoute}

\* The coroutines and the threads a handler of the service may run in.
Coroutine ==
    IF service = "queries" THEN {r.async : r \in QueryRoutes} ELSE {FALSE}

GatewayInit ==
    /\ SlotsInit /\ FundInit /\ EventsInit
    /\ service \in Services
    /\ queries = [c \in Clients |-> 0]
    /\ made = 0

\* A handler is at work.
Working(c) ==
    \/ queries[c] > 0
    \/ lookup[c].pc # "idle"
    \/ request[c].pc # "idle"

----------------------------------------------------------------------------
(* Handlers *)

GatewayTypeOK ==
    /\ SlotsTypeOK /\ FundTypeOK /\ EventsTypeOK
    /\ service \in Services
    /\ queries \in [Clients -> 0 .. MaxQueries]
    /\ made \in 0 .. MaxRequests

\* What a step of the slots, of a service or of the queries leaves alone.
OnlySlots   == UNCHANGED <<fundVars, eventVars, service, queries>>
OnlyFunds   == UNCHANGED <<slotVars, eventVars, service, queries>>
OnlyEvents  == UNCHANGED <<slotVars, fundVars, service, queries>>
OnlyQueries == UNCHANGED <<slotVars, fundVars, eventVars, service>>

Arrive(c) ==
    /\ made < MaxRequests
    /\ made' = made + 1
    /\ \E async \in Coroutine : Dispatch(c, async)
    /\ OnlySlots

TurnAway(c) == Busy(c) /\ OnlySlots /\ UNCHANGED made

\* A fund route obtains its slot and calls the service.
CallFunds(c) ==
    /\ service = "funds"
    /\ Acquire(c) /\ AskFund(c)
    /\ UNCHANGED <<eventVars, service, queries, made>>

\* The requests of the source-event routes that are called.
KeysCalled ==
    CASE service = "feeds"   -> {k \in Keys : k.route.feed}
      [] service = "sources" -> {k \in Keys : ~k.route.feed}
      [] OTHER               -> {}

\* A route of source events obtains its slot and calls the service.
CallEvents(c) ==
    /\ Acquire(c)
    /\ \E k \in KeysCalled : AskEvents(c, k)
    /\ UNCHANGED <<fundVars, service, queries, made>>

\* The narrative route asks for several kinds of events in one slot.
CollectMore(c) ==
    /\ made < MaxRequests
    /\ handler[c] = "inside" /\ request[c].pc = "done"
    /\ made' = made + 1
    /\ \E k \in KeysCalled : AskEvents(c, k)
    /\ OnlyEvents

CallQueries(c) ==
    /\ service = "queries"
    /\ Acquire(c)
    /\ \E route \in QueryRoutes, n \in 1 .. MaxQueries :
          /\ n \in route.queries /\ route.async = (c \in loop)
          /\ queries' = [queries EXCEPT ![c] = n]
    /\ UNCHANGED <<fundVars, eventVars, service, made>>

\* A query is answered; or it fails, or the deadline has passed before it, or
\* it raises, and the route is done.
Query(c) ==
    /\ queries[c] > 0
    /\ \E n \in {0, queries[c] - 1} : queries' = [queries EXCEPT ![c] = n]
    /\ OnlyQueries /\ UNCHANGED made

\* The work is done, or has raised: the slot is given back.
LeaveSlot(c) ==
    /\ Leave(c)
    /\ IF Working(c)
       THEN \/ FundReturns(c) /\ UNCHANGED <<eventVars, queries>>
            \/ EventsReturn(c) /\ UNCHANGED <<fundVars, queries>>
       ELSE UNCHANGED <<fundVars, eventVars, queries>>
    /\ UNCHANGED <<service, made>>

WorkStep(c) ==
    \/ FundStep(c) /\ OnlyFunds /\ UNCHANGED made
    \/ EventsStep(c) /\ OnlyEvents /\ UNCHANGED made
    \/ Query(c)

HandlerStep(c) ==
    \/ TurnAway(c) \/ CallFunds(c) \/ CallEvents(c) \/ CallQueries(c)
    \/ WorkStep(c) \/ LeaveSlot(c)

Fault(c) ==
    \/ FundFault(c) /\ OnlyFunds /\ UNCHANGED made
    \/ EventsFault(c) /\ OnlyEvents /\ UNCHANGED made

\* The registry is listed without a slot.
RegistryRoute ==
    /\ service = "feeds" /\ loop = {}
    /\ ListRegistry /\ OnlyEvents /\ UNCHANGED made

GatewayNext ==
    \/ RegistryRoute
    \/ \E c \in Clients : Arrive(c) \/ CollectMore(c) \/ HandlerStep(c) \/ Fault(c)

GatewaySpec == GatewayInit /\ [][GatewayNext]_gatewayVars

\* Threads are scheduled, the wait for a slot has a timeout, and so has every
\* call of a provider that the services make.
GatewayFairness == \A c \in Clients : WF_gatewayVars(HandlerStep(c))

FairGatewaySpec == GatewaySpec /\ GatewayFairness

----------------------------------------------------------------------------
(* Properties *)

\* However requests overlap, wait, are turned away, fail or raise: no more of
\* them work than there are slots, none works without a slot, and no slot is
\* lost or given back twice.
SlotsBound ==
    /\ {c \in Clients : Working(c)} \subseteq Inside
    /\ Cardinality(Inside) <= slots
    /\ free = slots - Cardinality(Inside)

\* Every request is answered, turned away or fails, and the event loop is not
\* held for ever: also when the coroutine waits for a slot while all of them
\* are taken.
RequestsEnd == \A c \in Clients : handler[c] # "out" ~> handler[c] = "out"
=============================================================================
