------------------------------ MODULE FundData ------------------------------
(***************************************************************************)
(* FundDataService of funds.py, for one fund: profiles, and holdings by    *)
(* report date and provider.                                               *)
(*                                                                         *)
(* A request reads the tables and answers from them unless it is forced.   *)
(* Otherwise it asks Tushare, under one or two codes, then EastMoney; what *)
(* it gets is written and answered; if it gets nothing, the rows it read   *)
(* at the beginning are answered as stale.  Tables are read and written in *)
(* transactions under the lock of the service; nothing is held in between. *)
(***************************************************************************)
EXTENDS Requests

CONSTANTS
    LastDate,    \* report dates are numbered up to it
    Stocks,
    Reports,     \* what a provider may answer: a report date and its stocks
    Candidates,  \* how many codes the fund may have at Tushare: 1, 2
    RowLimits    \* the values of the limit of holdings; the route accepts 0

Dates == 1 .. LastDate

ASSUME FundConstants ==
    /\ LastDate \in Nat
    /\ Reports \subseteq [date : Dates, stocks : (SUBSET Stocks) \ {{}}]
    /\ Candidates \subseteq Nat \ {0}
    /\ RowLimits \subseteq Nat

VARIABLES
    profiles,  \* fund_profile_rows: the fetch that wrote each provider's row; 0: none
    holdings,  \* fund_holding_rows: the fetch that wrote each row; 0: none
    lookup,    \* the state of each client's request
    fetches    \* how many times a provider has answered with rows

fundVars == <<profiles, holdings, lookup, fetches>>

----------------------------------------------------------------------------
(* Rows and requests *)

Providers == {"tushare", "eastmoney"}

NoReport == [date |-> 0, stocks |-> {}]

\* rows, cached: the fetches that wrote the rows of the answer, and those of
\* the rows read first; floor, for the properties: whether anything was stored
\* at the call.
LookupState ==
    [pc     : {"idle", "read", "tushare", "eastmoney", "write", "done"},
     kind   : {"none", "profile", "holdings"},
     limit  : Nat,                     \* of the rows of holdings
     force  : BOOLEAN,
     tries  : Nat,                     \* Tushare codes not yet asked for
     from   : Providers \cup {"none"},
     report : Reports \cup {NoReport},
     fetch  : Nat,
     cached : SUBSET Nat,
     rows   : SUBSET Nat,
     status : {"none", "ok", "degraded"},
     floor  : BOOLEAN]

NoLookup ==
    [pc |-> "idle", kind |-> "none", limit |-> 0, force |-> FALSE, tries |-> 0,
     from |-> "none", report |-> NoReport, fetch |-> 0, cached |-> {}, rows |-> {},
     status |-> "none", floor |-> FALSE]

FundTypeOK ==
    /\ profiles \in [Providers -> Nat]
    /\ holdings \in [Dates -> [Providers -> [Stocks -> Nat]]]
    /\ lookup \in [Clients -> LookupState]
    /\ fetches \in Nat

FundInit ==
    /\ profiles = [p \in Providers |-> 0]
    /\ holdings = [d \in Dates |-> [p \in Providers |-> [s \in Stocks |-> 0]]]
    /\ lookup = [c \in Clients |-> NoLookup]
    /\ fetches = 0

LookupBecomes(c, q) == lookup' = [lookup EXCEPT ![c] = q]

\* The stocks, and the fetches, of a stored report.
StocksAt(d, p)  == {s \in Stocks : holdings[d][p][s] # 0}
FetchesAt(d, p) == {holdings[d][p][s] : s \in StocksAt(d, p)}

Held(d) == \E p \in Providers : StocksAt(d, p) # {}

\* The report _read_holdings selects: the latest, Tushare's if there is one.
LatestHoldings ==
    LET held == {d \in Dates : Held(d)} IN
    IF held = {} THEN {}
    ELSE LET d == CHOOSE e \in held : \A i \in held : i <= e
         IN  IF StocksAt(d, "tushare") # {} THEN FetchesAt(d, "tushare")
                                            ELSE FetchesAt(d, "eastmoney")

StoredProfile ==
    IF profiles["tushare"] # 0 THEN {profiles["tushare"]}
                               ELSE {profiles["eastmoney"]} \ {0}

Stored(kind) == IF kind = "profile" THEN StoredProfile ELSE LatestHoldings

WantsRows(q) == q.kind = "profile" \/ q.limit > 0

\* The rows of an answer: with a limit of 0 there are none; any other limit
\* leaves some rows of each report.
Selected(q, rows) == IF WantsRows(q) THEN rows ELSE {}

----------------------------------------------------------------------------
(* profile and holdings *)

LookupAnswered(q, rows, status) ==
    [NoLookup EXCEPT !.pc = "done", !.kind = q.kind, !.limit = q.limit,
                     !.rows = Selected(q, rows), !.status = status,
                     !.floor = q.floor]

\* A profile is not asked for with a limit.
LimitsOf(kind) == IF kind = "holdings" THEN RowLimits ELSE {0}

AskFund(c) ==
    /\ lookup[c].pc = "idle"
    /\ \E kind \in {"profile", "holdings"}, force \in BOOLEAN, tries \in Candidates :
       \E limit \in LimitsOf(kind) :
          LookupBecomes(c, [NoLookup EXCEPT !.pc = "read", !.kind = kind,
                                            !.limit = limit, !.force = force,
                                            !.tries = tries,
                                            !.floor = Stored(kind) # {}])
    /\ UNCHANGED <<profiles, holdings, fetches>>

ReadFund(c) ==
    LET q    == lookup[c]
        rows == Selected(q, Stored(q.kind))
    IN  /\ q.pc = "read"
        /\ LookupBecomes(c, IF rows # {} /\ ~q.force
                            THEN LookupAnswered(q, rows, "ok")
                            ELSE [q EXCEPT !.pc = "tushare", !.force = FALSE, !.cached = rows])
        /\ UNCHANGED <<profiles, holdings, fetches>>

\* Mutant of Unavailable: nothing is kept for the case that the providers fail.
UnavailableEmpty(q) == LookupAnswered(q, {}, "degraded")

\* No provider has rows: what was read before is answered, or nothing.
Unavailable(q) == LookupAnswered(q, q.cached, "degraded")

\* What the rows of an answer are made into: a profile has no report date, and
\* of the holdings those of the latest date are kept.
AnswerReports(kind) == IF kind = "holdings" THEN Reports ELSE {NoReport}

\* The first rows a provider answers with are taken.
FundAnswers(c) ==
    LET q == lookup[c] IN
    /\ q.pc \in Providers
    /\ fetches' = fetches + 1
    /\ \E report \in AnswerReports(q.kind) :
          LookupBecomes(c, [q EXCEPT !.pc = "write", !.from = q.pc, !.report = report,
                                     !.fetch = fetches + 1, !.tries = 0, !.cached = {}])
    /\ UNCHANGED <<profiles, holdings>>

\* Tushare has no rows for a code, and there is another.
NextCandidate(c) ==
    LET q == lookup[c] IN
    /\ "provider" \in Faults
    /\ q.pc = "tushare" /\ q.tries > 1
    /\ LookupBecomes(c, [q EXCEPT !.tries = @ - 1])
    /\ UNCHANGED <<profiles, holdings, fetches>>

\* A call fails or times out, or the last one has no rows: the provider is given
\* up.
GiveUp(c) ==
    LET q == lookup[c] IN
    /\ "provider" \in Faults
    /\ q.pc \in Providers
    /\ LookupBecomes(c, IF q.pc = "tushare" THEN [q EXCEPT !.pc = "eastmoney", !.tries = 0]
                                            ELSE Unavailable(q))
    /\ UNCHANGED <<profiles, holdings, fetches>>

\* deadline_at has passed: both providers are given up at once.
FundDeadline(c) ==
    /\ "deadline" \in Faults
    /\ lookup[c].pc \in Providers
    /\ LookupBecomes(c, Unavailable(lookup[c]))
    /\ UNCHANGED <<profiles, holdings, fetches>>

----------------------------------------------------------------------------
(* Writing *)

\* Mutant of Replaced: rows are inserted over those of an older answer.
Merged(q) ==
    [holdings EXCEPT ![q.report.date][q.from] =
        [s \in Stocks |-> IF s \in q.report.stocks THEN q.fetch ELSE @[s]]]

\* Mutant of Replaced: the rows of the fund are deleted, not of the report.
ReplacedAll(q) ==
    [d \in Dates |-> [p \in Providers |-> [s \in Stocks |->
        IF d = q.report.date /\ p = q.from /\ s \in q.report.stocks THEN q.fetch ELSE 0]]]

\* Rows of the same report are deleted, then the new ones inserted.
Replaced(q) ==
    [holdings EXCEPT ![q.report.date][q.from] =
        [s \in Stocks |-> IF s \in q.report.stocks THEN q.fetch ELSE 0]]

\* A row without a column that is needed fails the request like the store does.
WriteFund(c) ==
    LET q == lookup[c] IN
    /\ q.pc = "write"
    /\ \E commits \in Commits :
          IF ~commits
          THEN LookupBecomes(c, NoLookup) /\ UNCHANGED <<profiles, holdings>>
          ELSE /\ LookupBecomes(c, LookupAnswered(q, {q.fetch}, "ok"))
               /\ IF q.kind = "profile"
                  THEN profiles' = [profiles EXCEPT ![q.from] = q.fetch] /\ UNCHANGED holdings
                  ELSE holdings' = Replaced(q) /\ UNCHANGED profiles
    /\ UNCHANGED fetches

FundReadError(c) ==
    /\ "store" \in Faults
    /\ lookup[c].pc = "read"
    /\ LookupBecomes(c, NoLookup)
    /\ UNCHANGED <<profiles, holdings, fetches>>

\* The handler has the answer and is done with it.
FundReturns(c) ==
    /\ lookup[c].pc = "done"
    /\ LookupBecomes(c, NoLookup)
    /\ UNCHANGED <<profiles, holdings, fetches>>

FundStep(c) ==
    \/ ReadFund(c) \/ FundAnswers(c) \/ NextCandidate(c) \/ GiveUp(c)
    \/ WriteFund(c)

FundFault(c) == FundDeadline(c) \/ FundReadError(c)

FundNext == 
    \E c \in Clients : AskFund(c) \/ FundStep(c) \/ FundReturns(c) \/ FundFault(c)

FundSpec == FundInit /\ [][FundNext]_fundVars

----------------------------------------------------------------------------
(* Properties *)

\* A report that is stored stays stored until it is replaced, so that the date
\* of what _read_holdings answers never goes back, whatever older reports the
\* providers answer with and in whichever order concurrent requests write.
HoldingsNeverBack == [][\A d \in Dates : Held(d) => Held(d)']_holdings

\* Rows that are stored together, or answered together, are those of one
\* answer of one provider, complete: answers of concurrent requests, and
\* corrected reports with other stocks, are never mixed.
ReportIsWhole ==
    /\ \A d \in Dates, p \in Providers : StocksAt(d, p) # {} =>
          /\ Cardinality(FetchesAt(d, p)) = 1
          /\ \E r \in Reports : r.date = d /\ r.stocks = StocksAt(d, p)
    /\ \A c \in Clients : Cardinality(lookup[c].rows) <= 1

\* A request never answers that there is nothing about a fund that was known
\* when it was made: whichever calls fail or come too late, and although the
\* rows may have been replaced since.  Unless no rows are wanted: an answer to
\* limit = 0 is always empty.
FundNotForgotten ==
    \A c \in Clients :
        lookup[c].pc = "done" /\ lookup[c].floor /\ WantsRows(lookup[c]) =>
            lookup[c].rows # {}
=============================================================================
