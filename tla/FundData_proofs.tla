--------------------------- MODULE FundData_proofs ---------------------------
(***************************************************************************)
(* Theorems about the fund service, for every set of clients, stocks and   *)
(* reports, every number of dates and any number of requests.              *)
(***************************************************************************)
EXTENDS FundData, FiniteSetTheorems, WellFoundedInduction, TLAPS

----------------------------------------------------------------------------
(* The inductive invariant *)

AtMostOne(S) == \A x, y \in S : x = y

\* What holds of a request by itself.
LookupOK(q) ==
    /\ q \in LookupState
    /\ AtMostOne(q.cached) /\ AtMostOne(q.rows)
    /\ q.pc = "write" => /\ q.from \in Providers /\ q.fetch # 0
                         /\ q.kind = "holdings" => q.report \in Reports
    /\ q.pc # "idle" => q.kind \in {"profile", "holdings"}
    /\ WantsRows(q) /\ q.floor /\ q.pc \in Providers => q.cached # {}
    /\ WantsRows(q) /\ q.floor /\ q.pc = "done" => q.rows # {}

\* There is something to read about the fund.
Something(kind) ==
    IF kind = "profile" THEN \E p \in Providers : profiles[p] # 0
                        ELSE \E d \in Dates : Held(d)

\* A stored report is one that a provider has answered with, from one answer.
StoredWhole ==
    \A d \in Dates, p \in Providers : StocksAt(d, p) # {} =>
        /\ AtMostOne(FetchesAt(d, p))
        /\ \E r \in Reports : r.date = d /\ r.stocks = StocksAt(d, p)

\* What was known when a request was made is still there to be read.
StillThere ==
    \A c \in Clients :
        lookup[c].pc = "read" /\ lookup[c].floor => Something(lookup[c].kind)

FundInv ==
    /\ FundTypeOK
    /\ \A c \in Clients : LookupOK(lookup[c])
    /\ StoredWhole
    /\ StillThere

----------------------------------------------------------------------------
(* What is read *)

LEMMA LeastOf ==
    ASSUME NEW T, T \subseteq Nat, T # {}
    PROVE  \E x \in T : \A y \in T : x <= y
<1> DEFINE R == {ss \in Nat \X Nat : ss[1] < ss[2]}
<1>1. IsWellFoundedOn(R, Nat)
  BY NatLessThanWellFounded DEF OpToRel
<1>2. \A x, y \in Nat : <<y, x>> \in R <=> y < x
  OBVIOUS
<1> HIDE DEF R
<1>3. PICK x \in T : \A y \in T : ~ (<<y, x>> \in R)
  BY <1>1, WFMin
<1>4. \A y \in T : ~ (y < x)
  BY <1>2, <1>3
<1> QED
  BY <1>4

\* Some date is the latest of those that are held.
LEMMA LatestDate ==
    ASSUME NEW H, H \subseteq Dates, H # {}
    PROVE  \E d \in H : \A i \in H : i <= d
<1> DEFINE T == {n \in Nat : \A i \in H : i <= n}
<1>1. H \subseteq Nat \ {0} /\ LastDate \in T
  BY FundConstants DEF Dates
<1>2. PICK n \in T : \A y \in T : n <= y
  <2>1. T \subseteq Nat /\ T # {}
    BY <1>1
  <2> QED
    BY <2>1, LeastOf
<1>3. n \in H
  <2> SUFFICES ASSUME n \notin H PROVE FALSE
    OBVIOUS
  <2>1. \A i \in H : i <= n - 1 /\ n > 0
    BY <1>1, <1>2
  <2>2. n - 1 \in T
    BY <2>1, <1>2
  <2> QED
    BY <2>2, <1>2
<1> QED
  BY <1>2, <1>3

\* A request finds rows exactly if there are any.
LEMMA RowsAreFound ==
    ASSUME FundTypeOK, NEW kind
    PROVE  Stored(kind) # {} <=> Something(kind)
<1>1. CASE kind = "profile"
  BY <1>1 DEF Stored, StoredProfile, Something, Providers, FundTypeOK
<1>2. CASE kind # "profile"
  <2> DEFINE H == {d \in Dates : Held(d)}
             d == CHOOSE e \in H : \A i \in H : i <= e
  <2>1. CASE H = {}
    BY <2>1, <1>2 DEF Stored, LatestHoldings, Something
  <2>2. CASE H # {}
    <3>1. d \in H
      BY <2>2, LatestDate
    <3>2. StocksAt(d, "tushare") # {} \/ StocksAt(d, "eastmoney") # {}
      BY <3>1 DEF Held, Providers
    <3>3. Stored(kind) = IF StocksAt(d, "tushare") # {} THEN FetchesAt(d, "tushare")
                                                            ELSE FetchesAt(d, "eastmoney")
      BY <1>2, <2>2 DEF Stored, LatestHoldings
    <3>4. Stored(kind) # {}
      BY <3>2, <3>3 DEF FetchesAt
    <3> QED
      BY <3>4, <1>2, <2>2 DEF Something
  <2> QED
    BY <2>1, <2>2
<1> QED
  BY <1>1, <1>2

LEMMA ReportIsOne ==
    ASSUME FundTypeOK, StoredWhole, NEW d \in Dates, NEW p \in Providers
    PROVE  AtMostOne(FetchesAt(d, p)) /\ FetchesAt(d, p) \subseteq Nat
<1>1. FetchesAt(d, p) \subseteq Nat
  BY DEF FetchesAt, StocksAt, FundTypeOK
<1>2. CASE StocksAt(d, p) = {}
  BY <1>1, <1>2 DEF FetchesAt, AtMostOne
<1>3. CASE StocksAt(d, p) # {}
  BY <1>1, <1>3 DEF StoredWhole
<1> QED
  BY <1>2, <1>3

\* What it finds was written by one fetch.
LEMMA RowsAreOne ==
    ASSUME FundTypeOK, StoredWhole, NEW kind
    PROVE  AtMostOne(Stored(kind)) /\ Stored(kind) \subseteq Nat
<1>1. CASE kind = "profile"
  BY <1>1 DEF Stored, StoredProfile, AtMostOne, FundTypeOK, Providers
<1>2. CASE kind # "profile"
  <2> DEFINE H == {d \in Dates : Held(d)}
             d == CHOOSE e \in H : \A i \in H : i <= e
  <2>1. CASE H = {}
    BY <2>1, <1>2 DEF Stored, LatestHoldings, AtMostOne
  <2>2. CASE H # {}
    <3>1. d \in Dates
      BY <2>2, LatestDate
    <3>2. Stored(kind) = IF StocksAt(d, "tushare") # {} THEN FetchesAt(d, "tushare")
                                                            ELSE FetchesAt(d, "eastmoney")
      BY <1>2, <2>2 DEF Stored, LatestHoldings
    <3> HIDE DEF d
    <3>3. \A p \in Providers : /\ AtMostOne(FetchesAt(d, p))
                               /\ FetchesAt(d, p) \subseteq Nat
      BY <3>1, ReportIsOne
    <3> QED
      BY <3>2, <3>3 DEF Providers
  <2> QED
    BY <2>1, <2>2
<1> QED
  BY <1>1, <1>2

----------------------------------------------------------------------------
(* The states of a request *)

LEMMA NoLookupOK == LookupOK(NoLookup)
BY DEF LookupOK, NoLookup, LookupState, NoReport, Providers, AtMostOne

LEMMA AnsweredOK ==
    ASSUME NEW q, LookupOK(q), q.pc # "idle",
           NEW rows, rows \subseteq Nat, AtMostOne(rows),
           NEW status \in {"ok", "degraded"},
           WantsRows(q) /\ q.floor => rows # {}
    PROVE  LookupOK(LookupAnswered(q, rows, status))
<1> DEFINE r == LookupAnswered(q, rows, status)
<1>1. q \in LookupState /\ q.kind \in {"profile", "holdings"}
  BY DEF LookupOK
<1>2. /\ Selected(q, rows) \subseteq Nat /\ AtMostOne(Selected(q, rows))
      /\ WantsRows(q) => Selected(q, rows) = rows
  BY DEF Selected, AtMostOne
<1>3. r \in LookupState
  BY <1>1, <1>2 DEF LookupAnswered, NoLookup, LookupState, NoReport, Providers
<1>4. /\ r.pc = "done" /\ r.rows = Selected(q, rows) /\ r.cached = {}
      /\ r.floor = q.floor /\ r.kind = q.kind /\ r.limit = q.limit
  BY DEF LookupAnswered, NoLookup
<1>5. WantsRows(r) <=> WantsRows(q)
  BY <1>4 DEF WantsRows
<1> HIDE DEF r
<1>6. LookupOK(r)
  BY <1>1, <1>2, <1>3, <1>4, <1>5 DEF LookupOK, AtMostOne, Providers
<1> QED
  BY <1>6 DEF r

LEMMA UnavailableOK ==
    ASSUME NEW q, LookupOK(q), q.pc \in Providers
    PROVE  LookupOK(Unavailable(q))
<1>1. /\ q.cached \subseteq Nat /\ AtMostOne(q.cached)
      /\ (WantsRows(q) /\ q.floor => q.cached # {})
      /\ q.pc # "idle"
  BY DEF LookupOK, LookupState, Providers
<1> QED
  BY <1>1, AnsweredOK DEF Unavailable

\* One request changes, the tables stay.
LEMMA LookupMoves ==
    ASSUME FundInv, NEW c \in Clients, NEW q, LookupOK(q), LookupBecomes(c, q),
           q.pc = "read" /\ q.floor => Something(q.kind),
           UNCHANGED <<profiles, holdings>>, fetches' \in Nat
    PROVE  FundInv'
<1>1. /\ lookup \in [Clients -> LookupState]
      /\ lookup' = [lookup EXCEPT ![c] = q]
      /\ q \in LookupState
  BY DEF FundInv, FundTypeOK, LookupBecomes, LookupOK
<1>2. lookup' \in [Clients -> LookupState] /\ lookup'[c] = q
  BY <1>1
<1>3. \A e \in Clients \ {c} : lookup'[e] = lookup[e]
  BY <1>1
<1>4. FundTypeOK'
  BY <1>2 DEF FundInv, FundTypeOK
<1>5. \A e \in Clients : LookupOK(lookup[e])'
  BY <1>2, <1>3 DEF FundInv, LookupOK
<1>6. StoredWhole'
  BY DEF FundInv, StoredWhole, StocksAt, FetchesAt
<1>7. StillThere'
  BY <1>2, <1>3 DEF FundInv, StillThere, Something, Held, StocksAt
<1> QED
  BY <1>4, <1>5, <1>6, <1>7 DEF FundInv

----------------------------------------------------------------------------
(* Each action keeps the invariant *)

LEMMA InitKeeps == FundInit => FundInv
<1> SUFFICES ASSUME FundInit PROVE FundInv
  OBVIOUS
<1>1. NoLookup \in LookupState
  BY NoLookupOK DEF LookupOK
<1>2. FundTypeOK
  BY <1>1 DEF FundInit, FundTypeOK
<1>3. \A c \in Clients : LookupOK(lookup[c])
  BY NoLookupOK DEF FundInit
<1>4. StoredWhole
  BY DEF FundInit, StoredWhole, StocksAt
<1>5. StillThere
  BY DEF FundInit, StillThere, NoLookup
<1> QED
  BY <1>2, <1>3, <1>4, <1>5 DEF FundInv

LEMMA AskKeeps ==
    ASSUME FundInv, NEW c \in Clients, AskFund(c)
    PROVE  FundInv'
<1>1. PICK kind \in {"profile", "holdings"}, force \in BOOLEAN, tries \in Candidates :
      \E limit \in LimitsOf(kind) :
         LookupBecomes(c, [NoLookup EXCEPT !.pc = "read", !.kind = kind,
                                           !.limit = limit, !.force = force,
                                           !.tries = tries,
                                           !.floor = Stored(kind) # {}])
  BY DEF AskFund
<1>2. PICK limit \in LimitsOf(kind) :
         LookupBecomes(c, [NoLookup EXCEPT !.pc = "read", !.kind = kind,
                                           !.limit = limit, !.force = force,
                                           !.tries = tries,
                                           !.floor = Stored(kind) # {}])
  BY <1>1
<1> DEFINE q == [NoLookup EXCEPT !.pc = "read", !.kind = kind, !.limit = limit,
                                 !.force = force, !.tries = tries,
                                 !.floor = Stored(kind) # {}]
<1>3. tries \in Nat /\ limit \in Nat
  BY FundConstants DEF LimitsOf
<1>4. q \in LookupState /\ q.pc = "read" /\ q.kind = kind /\ q.cached = {} /\ q.rows = {}
  BY <1>3 DEF NoLookup, LookupState, NoReport, Providers
<1>5. q.floor => Something(kind)
  BY RowsAreFound DEF FundInv, NoLookup
<1>6. LookupBecomes(c, q)
  BY <1>2
<1> HIDE DEF q
<1>7. LookupOK(q)
  BY <1>4 DEF LookupOK, AtMostOne, Providers
<1>8. UNCHANGED <<profiles, holdings, fetches>> /\ fetches \in Nat
  BY DEF AskFund, FundInv, FundTypeOK
<1> QED
  BY <1>4, <1>5, <1>6, <1>7, <1>8, LookupMoves

LEMMA ReadKeeps ==
    ASSUME FundInv, NEW c \in Clients, ReadFund(c)
    PROVE  FundInv'
<1> DEFINE q    == lookup[c]
           rows == Selected(q, Stored(q.kind))
           r    == [q EXCEPT !.pc = "tushare", !.force = FALSE, !.cached = rows]
<1>1. q.pc = "read" /\ LookupOK(q) /\ q \in LookupState
  BY DEF ReadFund, FundInv, LookupOK
<1>2. /\ rows \subseteq Nat /\ AtMostOne(rows)
      /\ WantsRows(q) /\ q.floor => rows # {}
  <2>1. /\ Stored(q.kind) \subseteq Nat /\ AtMostOne(Stored(q.kind))
        /\ q.floor => Stored(q.kind) # {}
    BY <1>1, RowsAreOne, RowsAreFound DEF FundInv, StillThere
  <2> QED
    BY <2>1 DEF Selected, AtMostOne
<1>3. LookupOK(LookupAnswered(q, rows, "ok")) /\ LookupAnswered(q, rows, "ok").pc = "done"
  BY <1>1, <1>2, AnsweredOK DEF LookupAnswered, NoLookup
<1>4. r \in LookupState /\ r.pc = "tushare" /\ r.cached = rows
      /\ r.rows = q.rows /\ r.floor = q.floor /\ (WantsRows(r) <=> WantsRows(q))
  BY <1>1, <1>2 DEF LookupState, WantsRows
<1>5. LookupBecomes(c, IF rows # {} /\ ~q.force THEN LookupAnswered(q, rows, "ok") ELSE r)
  BY DEF ReadFund
<1>6. UNCHANGED <<profiles, holdings, fetches>> /\ fetches \in Nat
  BY DEF ReadFund, FundInv, FundTypeOK
<1>7. AtMostOne(q.rows) /\ r.kind \in {"profile", "holdings"}
  BY <1>1 DEF LookupOK, LookupState
<1> HIDE DEF q, rows, r
<1>8. LookupOK(r)
  BY <1>2, <1>4, <1>7 DEF LookupOK, Providers
<1>9. CASE rows # {} /\ ~q.force
  BY <1>3, <1>5, <1>6, <1>9, LookupMoves
<1>10. CASE ~(rows # {} /\ ~q.force)
  BY <1>4, <1>5, <1>6, <1>8, <1>10, LookupMoves
<1> QED
  BY <1>9, <1>10

LEMMA AnswerKeeps ==
    ASSUME FundInv, NEW c \in Clients, FundAnswers(c)
    PROVE  FundInv'
<1> DEFINE q == lookup[c]
<1>1. q.pc \in Providers /\ LookupOK(q) /\ q \in LookupState
  BY DEF FundAnswers, AnswerReports, FundInv, LookupOK
<1>2. fetches \in Nat /\ fetches' = fetches + 1 /\ UNCHANGED <<profiles, holdings>>
  BY DEF FundAnswers, AnswerReports, FundInv, FundTypeOK
<1>3. PICK report \in IF q.kind = "holdings" THEN Reports ELSE {NoReport} :
         LookupBecomes(c, [q EXCEPT !.pc = "write", !.from = q.pc, !.report = report,
                                    !.fetch = fetches + 1, !.tries = 0, !.cached = {}])
  BY DEF FundAnswers, AnswerReports
<1> DEFINE r == [q EXCEPT !.pc = "write", !.from = q.pc, !.report = report,
                          !.fetch = fetches + 1, !.tries = 0, !.cached = {}]
<1>4. report \in Reports \cup {NoReport} /\ (q.kind = "holdings" => report \in Reports)
  BY <1>3
<1>5. fetches + 1 \in Nat
  BY <1>2
<1>6. /\ r \in LookupState /\ r.pc = "write" /\ r.from = q.pc /\ r.report = report
      /\ r.fetch = fetches + 1 /\ r.cached = {} /\ r.rows = q.rows /\ r.kind = q.kind
  BY <1>1, <1>4, <1>5 DEF LookupState, Providers
<1>7. AtMostOne(q.rows) /\ LookupBecomes(c, r)
  BY <1>1, <1>3 DEF LookupOK
<1>8. q.kind \in {"profile", "holdings"}
  BY <1>1 DEF LookupOK, Providers
<1> HIDE DEF q, r
<1>9. LookupOK(r)
  BY <1>1, <1>2, <1>4, <1>6, <1>7, <1>8 DEF LookupOK, AtMostOne, Providers
<1> QED
  BY <1>2, <1>6, <1>7, <1>9, LookupMoves

LEMMA NextCandidateKeeps ==
    ASSUME FundInv, NEW c \in Clients, NextCandidate(c)
    PROVE  FundInv'
<1> DEFINE q == lookup[c]
           r == [q EXCEPT !.tries = @ - 1]
<1>1. q.pc = "tushare" /\ q.tries > 1 /\ LookupOK(q) /\ q \in LookupState
  BY DEF NextCandidate, FundInv, LookupOK
<1>2. q.tries - 1 \in Nat
  BY <1>1 DEF LookupState
<1>3. r \in LookupState /\ r = [q EXCEPT !.tries = q.tries - 1]
  BY <1>1, <1>2 DEF LookupState
<1>4. /\ r.pc = "tushare" /\ r.cached = q.cached /\ r.rows = q.rows
      /\ r.floor = q.floor /\ r.kind = q.kind /\ (WantsRows(r) <=> WantsRows(q))
  BY <1>1 DEF LookupState, WantsRows
<1>5. LookupBecomes(c, r) /\ UNCHANGED <<profiles, holdings, fetches>> /\ fetches \in Nat
  BY DEF NextCandidate, FundInv, FundTypeOK
<1> HIDE DEF q, r
<1>6. LookupOK(r)
  BY <1>1, <1>3, <1>4 DEF LookupOK, Providers
<1> QED
  BY <1>4, <1>5, <1>6, LookupMoves

LEMMA GiveUpKeeps ==
    ASSUME FundInv, NEW c \in Clients, GiveUp(c)
    PROVE  FundInv'
<1> DEFINE q == lookup[c]
           r == [q EXCEPT !.pc = "eastmoney", !.tries = 0]
<1>1. q.pc \in Providers /\ LookupOK(q) /\ q \in LookupState
  BY DEF GiveUp, FundInv, LookupOK
<1>2. /\ r \in LookupState /\ r.pc = "eastmoney" /\ r.cached = q.cached /\ r.rows = q.rows
      /\ r.floor = q.floor /\ r.kind = q.kind /\ (WantsRows(r) <=> WantsRows(q))
  BY <1>1 DEF LookupState, WantsRows
<1>3. LookupBecomes(c, IF q.pc = "tushare" THEN r ELSE Unavailable(q))
  BY DEF GiveUp
<1>4. UNCHANGED <<profiles, holdings, fetches>> /\ fetches \in Nat
  BY DEF GiveUp, FundInv, FundTypeOK
<1>5. LookupOK(Unavailable(q)) /\ Unavailable(q).pc = "done"
  BY <1>1, UnavailableOK DEF Unavailable, LookupAnswered, NoLookup
<1> HIDE DEF q, r
<1>6. LookupOK(r)
  BY <1>1, <1>2 DEF LookupOK, Providers
<1>7. CASE q.pc = "tushare"
  BY <1>2, <1>3, <1>4, <1>6, <1>7, LookupMoves
<1>8. CASE q.pc # "tushare"
  BY <1>3, <1>4, <1>5, <1>8, LookupMoves
<1> QED
  BY <1>7, <1>8

LEMMA DeadlineKeeps ==
    ASSUME FundInv, NEW c \in Clients, FundDeadline(c)
    PROVE  FundInv'
<1>1. lookup[c].pc \in Providers /\ LookupOK(lookup[c])
  BY DEF FundDeadline, FundInv
<1>2. LookupOK(Unavailable(lookup[c])) /\ Unavailable(lookup[c]).pc = "done"
  BY <1>1, UnavailableOK DEF Unavailable, LookupAnswered, NoLookup
<1>3. /\ LookupBecomes(c, Unavailable(lookup[c]))
      /\ UNCHANGED <<profiles, holdings, fetches>> /\ fetches \in Nat
  BY DEF FundDeadline, FundInv, FundTypeOK
<1> QED
  BY <1>2, <1>3, LookupMoves

LEMMA ForgottenKeeps ==
    ASSUME FundInv, NEW c \in Clients, FundReadError(c) \/ FundReturns(c)
    PROVE  FundInv'
<1>1. /\ LookupBecomes(c, NoLookup)
      /\ UNCHANGED <<profiles, holdings, fetches>> /\ fetches \in Nat
  BY DEF FundReadError, FundReturns, FundInv, FundTypeOK
<1>2. NoLookup.pc = "idle"
  BY DEF NoLookup
<1> QED
  BY <1>1, <1>2, NoLookupOK, LookupMoves

\* What writing a report makes of the table.
LEMMA ReportStored ==
    ASSUME FundInv, NEW q, LookupOK(q), q.pc = "write", q.kind = "holdings",
           holdings' = Replaced(q)
    PROVE  /\ holdings' \in [Dates -> [Providers -> [Stocks -> Nat]]]
           /\ StoredWhole'
           /\ \A d \in Dates : Held(d) => Held(d)'
<1> DEFINE date   == q.report.date
           stocks == q.report.stocks
           row    == [s \in Stocks |-> IF s \in stocks THEN q.fetch ELSE 0]
<1>1. /\ q.report \in Reports /\ q.from \in Providers
      /\ q.fetch \in Nat /\ q.fetch # 0
  BY DEF LookupOK, LookupState
<1>2. date \in Dates /\ stocks \subseteq Stocks /\ stocks # {}
  BY <1>1, FundConstants
<1>3. holdings \in [Dates -> [Providers -> [Stocks -> Nat]]]
  BY DEF FundInv, FundTypeOK
<1>4. holdings' = [holdings EXCEPT ![date] = [holdings[date] EXCEPT ![q.from] = row]]
  BY <1>1, <1>2, <1>3 DEF Replaced
<1> HIDE DEF date, stocks
<1>5. row \in [Stocks -> Nat]
  BY <1>1
<1>6. row = [s \in Stocks |-> IF s \in stocks THEN q.fetch ELSE 0]
  OBVIOUS
<1> HIDE DEF row
<1>7. holdings' \in [Dates -> [Providers -> [Stocks -> Nat]]]
  BY <1>1, <1>2, <1>3, <1>4, <1>5
<1>8. holdings'[date][q.from] = row
  BY <1>1, <1>2, <1>3, <1>4
<1>9. \A d \in Dates, p \in Providers :
         ~ (d = date /\ p = q.from) => holdings'[d][p] = holdings[d][p]
  BY <1>1, <1>2, <1>3, <1>4
<1>10. StocksAt(date, q.from)' = stocks
  BY <1>1, <1>2, <1>6, <1>8 DEF StocksAt
<1>11. FetchesAt(date, q.from)' = {q.fetch}
  <2>1. \A s \in stocks : holdings'[date][q.from][s] = q.fetch
    BY <1>2, <1>6, <1>8
  <2>2. FetchesAt(date, q.from)' = {holdings'[date][q.from][s] : s \in stocks}
    BY <1>10 DEF FetchesAt
  <2> QED
    BY <1>2, <2>1, <2>2
<1>12. \A d \in Dates, p \in Providers : ~ (d = date /\ p = q.from) =>
          /\ StocksAt(d, p)' = StocksAt(d, p)
          /\ FetchesAt(d, p)' = FetchesAt(d, p)
  BY <1>9 DEF StocksAt, FetchesAt
<1>13. StoredWhole'
  <2> SUFFICES ASSUME NEW d \in Dates, NEW p \in Providers, StocksAt(d, p)' # {}
               PROVE  /\ AtMostOne(FetchesAt(d, p)')
                      /\ \E r \in Reports : r.date = d /\ r.stocks = StocksAt(d, p)'
    BY DEF StoredWhole, AtMostOne
  <2>1. CASE d = date /\ p = q.from
    BY <1>1, <1>10, <1>11, <2>1 DEF AtMostOne, date, stocks
  <2>2. CASE ~ (d = date /\ p = q.from)
    BY <1>12, <2>2 DEF FundInv, StoredWhole
  <2> QED
    BY <2>1, <2>2
<1>14. ASSUME NEW d \in Dates, Held(d) PROVE Held(d)'
  <2>1. CASE d = date
    BY <1>1, <1>2, <1>10, <2>1 DEF Held
  <2>2. CASE d # date
    BY <1>12, <1>14, <2>2 DEF Held
  <2> QED
    BY <2>1, <2>2
<1> QED
  BY <1>7, <1>13, <1>14

\* A request is done and has written: what is held is still held.
LEMMA TablesMove ==
    ASSUME FundInv, NEW c \in Clients, NEW q, LookupOK(q), LookupBecomes(c, q),
           q.pc = "done",
           profiles' \in [Providers -> Nat],
           holdings' \in [Dates -> [Providers -> [Stocks -> Nat]]],
           fetches' = fetches,
           StoredWhole',
           \A p \in Providers : profiles[p] # 0 => profiles'[p] # 0,
           \A d \in Dates : Held(d) => Held(d)'
    PROVE  FundInv'
<1>1. /\ lookup \in [Clients -> LookupState]
      /\ lookup' = [lookup EXCEPT ![c] = q]
      /\ q \in LookupState
  BY DEF FundInv, FundTypeOK, LookupBecomes, LookupOK
<1>2. lookup' \in [Clients -> LookupState] /\ lookup'[c] = q
  BY <1>1
<1>3. \A e \in Clients \ {c} : lookup'[e] = lookup[e]
  BY <1>1
<1>4. FundTypeOK'
  BY <1>2 DEF FundInv, FundTypeOK
<1>5. \A e \in Clients : LookupOK(lookup[e])'
  BY <1>2, <1>3 DEF FundInv, LookupOK
<1>6. \A kind : Something(kind) => Something(kind)'
  BY DEF Something
<1>7. StillThere'
  BY <1>2, <1>3, <1>6 DEF FundInv, StillThere
<1> QED
  BY <1>4, <1>5, <1>7 DEF FundInv

LEMMA WriteKeeps ==
    ASSUME FundInv, NEW c \in Clients, WriteFund(c)
    PROVE  FundInv' /\ \A d \in Dates : Held(d) => Held(d)'
<1> DEFINE q == lookup[c]
           r == LookupAnswered(q, {q.fetch}, "ok")
<1>1. q.pc = "write" /\ LookupOK(q) /\ fetches' = fetches /\ fetches \in Nat
  BY DEF WriteFund, FundInv, FundTypeOK
<1>2. q.fetch \in Nat /\ q.fetch # 0 /\ q.from \in Providers
  BY <1>1 DEF LookupOK, LookupState
<1>3. LookupOK(r) /\ r.pc = "done"
  BY <1>1, <1>2, AnsweredOK DEF AtMostOne, LookupAnswered, NoLookup
<1>4. profiles \in [Providers -> Nat] /\ holdings \in [Dates -> [Providers -> [Stocks -> Nat]]]
  BY DEF FundInv, FundTypeOK
<1> HIDE DEF q, r
<1>5. CASE LookupBecomes(c, NoLookup) /\ UNCHANGED <<profiles, holdings>>
  <2>1. NoLookup.pc = "idle"
    BY DEF NoLookup
  <2>2. FundInv'
    BY <1>1, <1>5, <2>1, NoLookupOK, LookupMoves
  <2>3. \A d \in Dates : Held(d) => Held(d)'
    BY <1>5 DEF Held, StocksAt
  <2> QED
    BY <2>2, <2>3
<1>6. CASE /\ LookupBecomes(c, r) /\ q.kind = "profile"
           /\ profiles' = [profiles EXCEPT ![q.from] = q.fetch] /\ UNCHANGED holdings
  <2>1. /\ profiles' \in [Providers -> Nat]
        /\ \A p \in Providers : profiles[p] # 0 => profiles'[p] # 0
    BY <1>2, <1>4, <1>6
  <2>2. StoredWhole'
    BY <1>6 DEF FundInv, StoredWhole, StocksAt, FetchesAt
  <2>3. \A d \in Dates : Held(d) => Held(d)'
    BY <1>6 DEF Held, StocksAt
  <2>4. holdings' \in [Dates -> [Providers -> [Stocks -> Nat]]]
    BY <1>4, <1>6
  <2> QED
    BY <1>1, <1>3, <1>6, <2>1, <2>2, <2>3, <2>4, TablesMove
<1>7. CASE /\ LookupBecomes(c, r) /\ q.kind # "profile"
           /\ holdings' = Replaced(q) /\ UNCHANGED profiles
  <2>1. q.kind = "holdings"
    BY <1>1, <1>7 DEF LookupOK
  <2>2. /\ holdings' \in [Dates -> [Providers -> [Stocks -> Nat]]]
        /\ StoredWhole'
        /\ \A d \in Dates : Held(d) => Held(d)'
    BY <1>1, <1>7, <2>1, ReportStored
  <2> QED
    BY <1>1, <1>3, <1>4, <1>7, <2>2, TablesMove
<1> QED
  BY <1>5, <1>6, <1>7 DEF WriteFund, q, r

\* Only a write changes the holdings.
LEMMA StepKeeps ==
    ASSUME FundInv, [FundNext]_fundVars
    PROVE  FundInv' /\ \A d \in Dates : Held(d) => Held(d)'
<1>1. ASSUME UNCHANGED holdings PROVE \A d \in Dates : Held(d) => Held(d)'
  BY <1>1 DEF Held, StocksAt
<1>2. CASE UNCHANGED fundVars
  <2>1. FundTypeOK'
    BY <1>2 DEF FundInv, FundTypeOK, fundVars
  <2>2. StoredWhole'
    BY <1>2 DEF FundInv, StoredWhole, StocksAt, FetchesAt, fundVars
  <2>3. StillThere'
    BY <1>2 DEF FundInv, StillThere, Something, Held, StocksAt, fundVars
  <2>4. \A c \in Clients : LookupOK(lookup[c])'
    BY <1>2 DEF FundInv, LookupOK, fundVars
  <2> QED
    BY <1>1, <1>2, <2>1, <2>2, <2>3, <2>4 DEF FundInv, fundVars
<1>3. CASE FundNext
  <2> SUFFICES ASSUME NEW c \in Clients,
                      AskFund(c) \/ FundStep(c) \/ FundReturns(c) \/ FundFault(c)
               PROVE  FundInv' /\ \A d \in Dates : Held(d) => Held(d)'
    BY <1>3 DEF FundNext
  <2>1. CASE AskFund(c)
    BY <1>1, <2>1, AskKeeps DEF AskFund
  <2>2. CASE ReadFund(c)
    BY <1>1, <2>2, ReadKeeps DEF ReadFund
  <2>3. CASE FundAnswers(c)
    BY <1>1, <2>3, AnswerKeeps DEF FundAnswers
  <2>4. CASE NextCandidate(c)
    BY <1>1, <2>4, NextCandidateKeeps DEF NextCandidate
  <2>5. CASE GiveUp(c)
    BY <1>1, <2>5, GiveUpKeeps DEF GiveUp
  <2>6. CASE WriteFund(c)
    BY <2>6, WriteKeeps
  <2>7. CASE FundDeadline(c)
    BY <1>1, <2>7, DeadlineKeeps DEF FundDeadline
  <2>8. CASE FundReadError(c) \/ FundReturns(c)
    BY <1>1, <2>8, ForgottenKeeps DEF FundReadError, FundReturns
  <2> QED
    BY <2>1, <2>2, <2>3, <2>4, <2>5, <2>6, <2>7, <2>8 DEF FundStep, FundFault
<1> QED
  BY <1>2, <1>3

----------------------------------------------------------------------------
(* Theorems *)

\* The inductive invariant: tables and requests are well formed, what is stored
\* is whole, and a request that has still to read will find what it counts on.
THEOREM FundInvHolds == FundSpec => []FundInv
<1>1. FundInv /\ [FundNext]_fundVars => FundInv'
  BY StepKeeps
<1> QED
  BY InitKeeps, <1>1, PTL DEF FundSpec

LEMMA WholeFromInv == FundInv => ReportIsWhole
<1> SUFFICES ASSUME FundInv PROVE ReportIsWhole
  OBVIOUS
<1>1. ASSUME NEW S, AtMostOne(S) PROVE IsFiniteSet(S) /\ Cardinality(S) <= 1
  <2>1. CASE S = {}
    <3>1. IsFiniteSet(S) /\ Cardinality(S) = 0
      BY <2>1, FS_EmptySet
    <3> QED
      BY <3>1
  <2>2. CASE S # {}
    <3>1. PICK x : x \in S
      BY <2>2
    <3>2. S = {x}
      BY <1>1, <3>1 DEF AtMostOne
    <3>3. IsFiniteSet(S) /\ Cardinality(S) = 1
      BY <3>2, FS_Singleton
    <3> QED
      BY <3>3
  <2> QED
    BY <2>1, <2>2
<1>2. ASSUME NEW d \in Dates, NEW p \in Providers, StocksAt(d, p) # {}
      PROVE  /\ Cardinality(FetchesAt(d, p)) = 1
             /\ \E r \in Reports : r.date = d /\ r.stocks = StocksAt(d, p)
  <2>1. PICK s \in StocksAt(d, p) : TRUE
    BY <1>2
  <2>2. AtMostOne(FetchesAt(d, p)) /\ holdings[d][p][s] \in FetchesAt(d, p)
    BY <1>2, <2>1 DEF FundInv, StoredWhole, FetchesAt
  <2>3. FetchesAt(d, p) = {holdings[d][p][s]}
    BY <2>2 DEF AtMostOne
  <2>4. Cardinality(FetchesAt(d, p)) = 1
    BY <2>3, FS_Singleton
  <2> QED
    BY <1>2, <2>4 DEF FundInv, StoredWhole
<1>3. \A c \in Clients : Cardinality(lookup[c].rows) <= 1
  BY <1>1 DEF FundInv, LookupOK
<1> QED
  BY <1>2, <1>3 DEF ReportIsWhole

\* Rows that are stored or answered together are those of one complete answer.
THEOREM WholeReports == FundSpec => []ReportIsWhole
BY FundInvHolds, WholeFromInv, PTL

\* A fund that was known at the call is never answered to have nothing, if any
\* rows are wanted.
THEOREM NothingForgotten == FundSpec => []FundNotForgotten
<1>1. FundInv => FundNotForgotten
  BY DEF FundInv, LookupOK, FundNotForgotten
<1> QED
  BY FundInvHolds, <1>1, PTL

\* A stored report is only ever replaced.
THEOREM NeverBack == FundSpec => HoldingsNeverBack
<1>1. FundInv /\ [FundNext]_fundVars => [\A d \in Dates : Held(d) => Held(d)']_holdings
  BY StepKeeps
<1> QED
  BY FundInvHolds, <1>1, PTL DEF FundSpec, HoldingsNeverBack
=============================================================================
