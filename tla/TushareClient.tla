---------------------------- MODULE TushareClient ----------------------------
(***************************************************************************)
(* TushareProvider.client and TushareMarketDataClient._call_tushare: the   *)
(* client is built by the first call, each call waits for its turn in a    *)
(* window of 60 seconds that allows rate_limit_per_minute calls, and is    *)
(* retried, after a sleep that doubles, when its error may pass.           *)
(*                                                                         *)
(* Nothing is locked: two threads may build two clients, the later one     *)
(* stays, and threads of one client read and write its window as they come.*)
(* Time passes, and others act, between the test of a window's age, its    *)
(* renewal, the test of its count, and the read and the write of the       *)
(* increment.  Finer interruptions are left out: a thread reads the clock  *)
(* and the window's start in one step, and renews both fields in one.      *)
(***************************************************************************)
EXTENDS Requests

CONSTANTS
    Window,       \* ticks of the clock in 60 seconds
    Limits,       \* values of rate_limit_per_minute; 0: no limit
    MaxRetries,   \* max_retries
    RetrySleep    \* retry_sleep_seconds, in ticks

ASSUME TushareConstants ==
    /\ Window \in Nat \ {0}
    /\ Limits \subseteq Nat
    /\ MaxRetries \in Nat \ {0}
    /\ RetrySleep \in Nat

\* The sleep after a failed attempt, a number of ticks.
Backoff(attempt) == RetrySleep * 2 ^ (attempt - 1)

ASSUME BackoffIsTime == \A attempt \in 1 .. MaxRetries : Backoff(attempt) \in Nat

VARIABLES
    limit,    \* rate_limit_per_minute
    client,   \* {} until TushareProvider._client is set; then who built it
    window,   \* of the client each thread has built: age of
              \* _rate_limit_window_started_at, and _rate_limit_call_count
    call,     \* the state of each thread
    sent,     \* for the properties: calls sent since so many ticks ago
    apart     \* for the properties: for how long calls have not overlapped

vars == <<limit, client, window, call, sent, apart>>

----------------------------------------------------------------------------
(* Clocks count from the present, up to one window. *)

Ages == 0 .. Window

Older(age) == IF age < Window THEN age + 1 ELSE age

\* elapsed, and seen, are what the thread has read: how old the window is, and
\* its count; read, the age of the clock value it has read.
CallState ==
    [pc      : {"idle", "get", "use", "look", "roll", "test", "full", "read", "store",
                "send", "backoff"},
     using   : SUBSET Clients,   \* self, once obtained, by who built it
     attempt : 0 .. MaxRetries,
     read    : Ages,
     elapsed : Ages,
     seen    : Nat,
     wait    : Nat]

NoCall ==
    [pc |-> "idle", using |-> {}, attempt |-> 0, read |-> 0, elapsed |-> 0, seen |-> 0,
     wait |-> 0]

TypeOK ==
    /\ limit \in Limits
    /\ client \in SUBSET Clients /\ Cardinality(client) <= 1
    /\ window \in [Clients -> [age : Ages, count : Nat]]
    /\ call \in [Clients -> CallState]
    /\ sent \in [0 .. Window - 1 -> Nat]
    /\ apart \in Ages

Init ==
    /\ limit \in Limits
    /\ client = {}
    /\ window = [t \in Clients |-> [age |-> Window, count |-> 0]]
    /\ call = [t \in Clients |-> NoCall]
    /\ sent = [age \in 0 .. Window - 1 |-> 0]
    /\ apart = Window

InFlight == {t \in Clients : call[t].pc # "idle"}

CallBecomes(t, q) == call' = [call EXCEPT ![t] = q]

----------------------------------------------------------------------------
(* TushareProvider.client *)

\* TushareProvider.fetch
Fetch(t) ==
    /\ call[t].pc = "idle"
    /\ CallBecomes(t, [NoCall EXCEPT !.pc = IF client = {} THEN "get" ELSE "use"])
    /\ apart' = IF InFlight = {} THEN apart ELSE 0
    /\ UNCHANGED <<limit, client, window, sent>>

\* There was no client: one is built and set, whoever has set one since.
BuildClient(t) ==
    /\ call[t].pc = "get"
    /\ client' = {t}
    /\ window' = [window EXCEPT ![t] = [age |-> 0, count |-> 0]]
    /\ CallBecomes(t, [call[t] EXCEPT !.pc = "use"])
    /\ UNCHANGED <<limit, sent, apart>>

\* Without a token no client can be built: the call raises.
CannotBuild(t) ==
    /\ "provider" \in Faults
    /\ call[t].pc = "get"
    /\ CallBecomes(t, NoCall)
    /\ UNCHANGED <<limit, client, window, sent, apart>>

\* The client that is set is used for the call.
UseClient(t) ==
    /\ call[t].pc = "use"
    /\ CallBecomes(t, [call[t] EXCEPT !.using = client, !.attempt = 1,
                                      !.pc = IF limit = 0 THEN "send" ELSE "look"])
    /\ UNCHANGED <<limit, client, window, sent, apart>>

----------------------------------------------------------------------------
(* _wait_for_rate_limit *)

Used(t) == CHOOSE b \in call[t].using : TRUE

SetWindow(t, w) == window' = [window EXCEPT ![Used(t)] = w]

LookAtWindow(t) ==
    LET age == window[Used(t)].age IN
    /\ call[t].pc = "look"
    /\ CallBecomes(t, [call[t] EXCEPT !.pc = IF age >= Window THEN "roll" ELSE "test",
                                      !.read = 0,
                                      !.elapsed = IF age >= Window THEN 0 ELSE age])
    /\ UNCHANGED <<limit, client, window, sent, apart>>

\* A new window begins, at the time that was read.
RollWindow(t) ==
    /\ call[t].pc = "roll"
    /\ SetWindow(t, [age |-> call[t].read, count |-> 0])
    /\ CallBecomes(t, [call[t] EXCEPT !.pc = "test", !.read = 0])
    /\ UNCHANGED <<limit, client, sent, apart>>

TestCount(t) ==
    LET full == window[Used(t)].count >= limit IN
    /\ call[t].pc = "test"
    /\ CallBecomes(t, [call[t] EXCEPT
            !.pc = IF full THEN "full" ELSE "read",
            !.wait = IF full THEN Window - call[t].elapsed ELSE 0,
            !.read = 0, !.elapsed = 0])
    /\ UNCHANGED <<limit, client, window, sent, apart>>

\* Mutant of Reopened: the count is reset, the start of the window is not.
ReopenedAsOld(w) == [w EXCEPT !.count = 0]

Reopened(w) == [age |-> 0, count |-> 0]

\* It has slept until the window it saw is over, and begins a new one, whatever
\* has become of the window in the meantime.
WakeAfterFull(t) ==
    /\ call[t].pc = "full" /\ call[t].wait = 0
    /\ SetWindow(t, Reopened(window[Used(t)]))
    /\ CallBecomes(t, [call[t] EXCEPT !.pc = "read"])
    /\ UNCHANGED <<limit, client, sent, apart>>

\* A count is kept up to the limit, which is all it is compared with.
Counted(count) == IF count < limit THEN count + 1 ELSE limit

\* _rate_limit_call_count += 1 reads, then writes.
ReadCount(t) ==
    /\ call[t].pc = "read"
    /\ CallBecomes(t, [call[t] EXCEPT !.pc = "store", !.seen = window[Used(t)].count])
    /\ UNCHANGED <<limit, client, window, sent, apart>>

StoreCount(t) ==
    /\ call[t].pc = "store"
    /\ SetWindow(t, [window[Used(t)] EXCEPT !.count = Counted(call[t].seen)])
    /\ CallBecomes(t, [call[t] EXCEPT !.pc = "send", !.seen = 0])
    /\ UNCHANGED <<limit, client, sent, apart>>

----------------------------------------------------------------------------
(* _call_tushare *)

\* Calls are counted if there is a limit.
Sends == sent' = IF limit = 0 THEN sent ELSE [age \in 0 .. Window - 1 |-> sent[age] + 1]

CallAnswers(t) ==
    /\ call[t].pc = "send"
    /\ Sends
    /\ CallBecomes(t, NoCall)
    /\ UNCHANGED <<limit, client, window, apart>>

\* Mutant of Retried: one retry too many.
RetriedOnceMore(attempt, retryable) == retryable /\ attempt <= MaxRetries

Retried(attempt, retryable) == retryable /\ attempt < MaxRetries

\* A network error and a rate limit may be retried, a refused permission not.
CallFails(t) ==
    /\ "provider" \in Faults
    /\ call[t].pc = "send"
    /\ Sends
    /\ \E retryable \in BOOLEAN :
          CallBecomes(t, IF Retried(call[t].attempt, retryable)
                         THEN [call[t] EXCEPT
                                  !.pc = "backoff",
                                  !.wait = Backoff(call[t].attempt)]
                         ELSE NoCall)
    /\ UNCHANGED <<limit, client, window, apart>>

\* Mutant of NextAttempt: attempts are not counted.
SameAttempt(attempt) == attempt

NextAttempt(attempt) == attempt + 1

WakeAfterBackoff(t) ==
    /\ call[t].pc = "backoff" /\ call[t].wait = 0
    /\ CallBecomes(t, [call[t] EXCEPT !.pc = IF limit = 0 THEN "send" ELSE "look",
                                      !.attempt = NextAttempt(@)])
    /\ UNCHANGED <<limit, client, window, sent, apart>>

\* Time passes, by one tick.
Tick ==
    /\ window' = [b \in Clients |-> [window[b] EXCEPT !.age = Older(@)]]
    /\ call' = [t \in Clients |-> [call[t] EXCEPT
                   !.wait = IF @ > 0 THEN @ - 1 ELSE 0,
                   !.read = IF call[t].pc = "roll" THEN Older(@) ELSE 0]]
    /\ sent' = [age \in 0 .. Window - 1 |-> IF age = 0 THEN 0 ELSE sent[age - 1]]
    /\ apart' = IF apart = 0 /\ InFlight # {} THEN 0 ELSE Older(apart)
    /\ UNCHANGED <<limit, client>>

CallStep(t) ==
    \/ BuildClient(t) \/ CannotBuild(t) \/ UseClient(t)
    \/ LookAtWindow(t) \/ RollWindow(t) \/ TestCount(t) \/ WakeAfterFull(t)
    \/ ReadCount(t) \/ StoreCount(t)
    \/ CallAnswers(t) \/ CallFails(t) \/ WakeAfterBackoff(t)

Next == Tick \/ \E t \in Clients : Fetch(t) \/ CallStep(t)

Spec == Init /\ [][Next]_vars

\* Threads run, and time passes.
Fairness == WF_vars(Tick) /\ \A t \in Clients : WF_vars(CallStep(t))

FairSpec == Spec /\ Fairness

----------------------------------------------------------------------------
(* Properties *)

\* Calls in the last window: from any moment to the moment one window later.
SentInWindow == sent[Window - 1]

\* However calls have raced on a window, and whatever count, start or lost client
\* they left behind: when calls have not overlapped for a whole window, there
\* were no more of them than the fixed windows allow, twice the limit.  The time
\* without overlap begins with a tick at which no call is under way.
PaceRestored == limit > 0 /\ apart = Window => SentInWindow <= 2 * limit

\* Every call returns or raises: also when each attempt fails, and when other
\* threads reset, fill and wait for the same window for ever.
CallsEnd == \A t \in Clients : call[t].pc # "idle" ~> call[t].pc = "idle"
=============================================================================
