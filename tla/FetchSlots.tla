----------------------------- MODULE FetchSlots -----------------------------
(***************************************************************************)
(* The fetch slots of main.py: a bounded semaphore that every route which  *)
(* fetches data takes for as long as it works, and waits for with a        *)
(* timeout.                                                                *)
(*                                                                         *)
(* Routes run in threads of their own, but for POST /tushare, a coroutine  *)
(* that neither awaits the slot nor the query: while it waits or works, it *)
(* holds the thread of the event loop, and no request is dispatched.       *)
(***************************************************************************)
EXTENDS Requests

CONSTANT SlotCounts  \* what GATEWAY_FETCH_CONCURRENCY may be set to

ASSUME SlotConstants == SlotCounts \subseteq Nat \ {0}

VARIABLES
    slots,    \* how many there are
    free,     \* the value of _FETCH_SEMAPHORE
    handler,  \* where each client's route handler is
    loop      \* the client whose coroutine holds the event loop, if any

slotVars == <<slots, free, handler, loop>>

SlotsTypeOK ==
    /\ slots \in SlotCounts
    /\ free \in 0 .. slots
    /\ handler \in [Clients -> {"out", "waiting", "inside"}]
    /\ loop \subseteq Clients

SlotsInit ==
    /\ slots \in SlotCounts
    /\ free = slots
    /\ handler = [c \in Clients |-> "out"]
    /\ loop = {}

Inside == {c \in Clients : handler[c] = "inside"}

\* A request is dispatched, and asks for a slot.
Dispatch(c, async) ==
    /\ handler[c] = "out" /\ loop = {}
    /\ handler' = [handler EXCEPT ![c] = "waiting"]
    /\ loop' = IF async THEN {c} ELSE {}
    /\ UNCHANGED <<slots, free>>

Acquire(c) ==
    /\ handler[c] = "waiting" /\ free > 0
    /\ handler' = [handler EXCEPT ![c] = "inside"]
    /\ free' = free - 1
    /\ UNCHANGED <<slots, loop>>

\* Mutant of AfterBusy: the slot is given back although it was not obtained.
AfterBusyReleased == IF free < slots THEN free + 1 ELSE free

AfterBusy == free

\* The wait times out; the semaphore looks at its value once more before it
\* gives up.
Busy(c) ==
    /\ handler[c] = "waiting" /\ free = 0
    /\ handler' = [handler EXCEPT ![c] = "out"]
    /\ free' = AfterBusy
    /\ loop' = loop \ {c}
    /\ UNCHANGED slots

\* The `with` block ends, by an answer or by an exception.
Leave(c) ==
    /\ handler[c] = "inside"
    /\ handler' = [handler EXCEPT ![c] = "out"]
    /\ free' = free + 1
    /\ loop' = loop \ {c}
    /\ UNCHANGED slots
=============================================================================
