---------------------- MODULE SectorMemberships_proofs ----------------------
(***************************************************************************)
(* Theorems about the sector memberships, for every set of clients,        *)
(* symbols and boards, whatever is in them, and any number of requests.    *)
(***************************************************************************)
EXTENDS SectorMemberships, WellFoundedInduction, TLAPS

----------------------------------------------------------------------------
(* The inductive invariant *)

\* What holds of a request when the table of rows is rs, with every fault.  Rows
\* are never deleted, so what was stored at the call is still stored when the
\* table is read, and so are the rows the request has written itself: a request
\* that wants any rows finds them.
RequestOK(q, rs) ==
    /\ q \in RequestState
    /\ q.pc # "done" => q.absent = {} /\ q.source = "none"
    /\ q.pc = "markers" => q.found = {}
    /\ q.pc = "rows" => q.found = {}
    /\ q.floor \subseteq q.want \cap SymbolsOf(rs)
    /\ q.pc \in {"markers", "missing"} /\ q.limit > 0 => q.floor \subseteq q.seen
    /\ q.pc \in {"mark", "again", "missing"} => q.found \subseteq rs
    /\ q.pc = "missing" /\ q.limit > 0 => Covered(q) \subseteq q.seen
    /\ q.pc = "done" /\ q.limit > 0 =>
                        /\ q.absent \cap q.floor = {}
                        /\ q.absent \cap Covered(q) = {}
                        /\ q.source = "upstream" /\ q.status = "ok" => q.absent = {}

\* The boards that every request scans.
Always == IF Wide = {TRUE} THEN Boards ELSE Seeds

\* The scan of a request has found what it was asked for in these boards.
SeenAlways(q) == \A b \in Always : q.want \cap Members[b] \subseteq Covered(q)

\* What a request knows of the boards as long as provider calls fail only by
\* timeouts: a scan without an issue has seen all of every board it visited, and
\* is over when it has found all it wants or has visited all that it must.
ScanOK(q) ==
    /\ q.pc \in {"rows", "markers", "seeds", "universe", "boards"} => q.wide \in Wide
    /\ q.issues \subseteq {"timeout"}
    /\ q.issues = {} => \A b \in q.visited : Members[b] \subseteq SymbolsOf(q.found)
    /\ q.pc = "seeds" => Seeds \subseteq q.visited \cup q.todo
    /\ q.pc = "universe" => Seeds \subseteq q.visited
    /\ q.pc = "boards" => Boards \subseteq q.visited \cup q.todo
    /\ q.pc \in {"write", "mark"} /\ q.issues = {} => SeenAlways(q)
    /\ q.pc = "mark" => q.issues = {}
    /\ q.source = "cache" => \A b \in Always : q.absent \cap Members[b] = {}

\* No symbol of these boards is marked as missing.
MarksAreReal == \A b \in Always : marked \cap Members[b] = {}

SectorInv ==
    /\ TypeOK
    /\ \A c \in Clients : RequestOK(request[c], rows)
    /\ broken = {} => MarksAreReal /\ \A c \in Clients : ScanOK(request[c])

----------------------------------------------------------------------------
(* Sets of rows, and the next board *)

LEMMA SymbolsGrow ==
    ASSUME NEW A, NEW B, A \subseteq B
    PROVE  SymbolsOf(A) \subseteq SymbolsOf(B)
BY DEF SymbolsOf

LEMMA SymbolsAdded ==
    ASSUME NEW A, NEW T, NEW b
    PROVE  T \cup SymbolsOf(A) \subseteq SymbolsOf(A \cup (T \X {b}))
<1>1. \A s \in T : <<s, b>> \in T \X {b} /\ <<s, b>>[1] = s
  OBVIOUS
<1> QED
  BY <1>1 DEF SymbolsOf

LEMMA LeastOf ==
    ASSUME NEW T, T \subseteq Nat, T # {}
    PROVE  \E x \in T : \A y \in T : x <= y
<1> DEFINE R == {ss \in Nat \X Nat : ss[1] < ss[2]}
<1>1. IsWellFoundedOn(R, Nat)
  BY NatLessThanWellFounded DEF OpToRel
<1>2. \A x, y \in Nat : <<y, x>> \in R <=> y < x
  OBVIOUS
<1> HIDE DEF R
<1>3. PICK x \in T : \A y \in T : ~ (<<y, x>> \in R)
  BY <1>1, WFMin
<1>4. \A y \in T : ~ (y < x)
  BY <1>2, <1>3
<1> QED
  BY <1>4

LEMMA BoardIsNext ==
    ASSUME NEW q, q.todo \subseteq Boards, q.todo # {}
    PROVE  Board(q) \in q.todo
<1>1. q.todo \subseteq Nat
  BY SectorConstants
<1> QED
  BY <1>1, LeastOf DEF Board

LEMMA AlwaysAreBoards == Always \subseteq Boards /\ Seeds \subseteq Boards
BY SectorConstants DEF Always

----------------------------------------------------------------------------
(* The states of a request *)

LEMMA IdleOK == \A rs : RequestOK(Idle, rs)
BY DEF RequestOK, Idle, RequestState, Steps, SymbolsOf

LEMMA IdleScanOK == ScanOK(Idle)
BY DEF ScanOK, Idle

LEMMA RequestStays ==
    ASSUME NEW q, NEW r, NEW s, RequestOK(q, r), r \subseteq s
    PROVE  RequestOK(q, s)
<1>1. SymbolsOf(r) \subseteq SymbolsOf(s)
  BY SymbolsGrow
<1> QED
  BY <1>1 DEF RequestOK

\* One request changes, rows are added, and the markers are as they have to be.
LEMMA RequestMoves ==
    ASSUME SectorInv, NEW c \in Clients, NEW q, Becomes(c, q),
           RequestOK(q, rows'), rows \subseteq rows', rows' \subseteq Symbols \X Boards,
           made' \in 0 .. MaxRequests, marked' \subseteq Symbols,
           broken \subseteq broken', broken' \subseteq {"upstream_failed", "empty"},
           broken' = {} => ScanOK(q) /\ MarksAreReal'
    PROVE  SectorInv'
<1>1. /\ request \in [Clients -> RequestState]
      /\ request' = [request EXCEPT ![c] = q]
      /\ q \in RequestState
  BY DEF SectorInv, TypeOK, Becomes, RequestOK
<1>2. request' \in [Clients -> RequestState] /\ request'[c] = q
  BY <1>1
<1>3. \A e \in Clients \ {c} : request'[e] = request[e]
  BY <1>1
<1>4. TypeOK'
  BY <1>2 DEF TypeOK
<1>5. \A e \in Clients : RequestOK(request'[e], rows')
  <2> SUFFICES ASSUME NEW e \in Clients PROVE RequestOK(request'[e], rows')
    OBVIOUS
  <2>1. CASE e = c
    BY <1>2, <2>1
  <2>2. CASE e # c
    <3>1. RequestOK(request[e], rows)
      BY DEF SectorInv
    <3> QED
      BY <1>3, <2>2, <3>1, RequestStays
  <2> QED
    BY <2>1, <2>2
<1>6. ASSUME broken' = {} PROVE MarksAreReal' /\ \A e \in Clients : ScanOK(request'[e])
  <2>1. broken = {}
    BY <1>6
  <2>2. \A e \in Clients \ {c} : ScanOK(request'[e])
    BY <1>3, <2>1 DEF SectorInv
  <2> QED
    BY <1>2, <1>6, <2>2
<1> QED
  BY <1>4, <1>5, <1>6 DEF SectorInv

\* The same, when only the request changes.
LEMMA OnlyRequestMoves ==
    ASSUME SectorInv, NEW c \in Clients, NEW q, Becomes(c, q), RequestOK(q, rows),
           broken = {} => ScanOK(q),
           UNCHANGED <<rows, marked, made, broken>>
    PROVE  SectorInv'
<1>1. /\ rows \subseteq Symbols \X Boards /\ marked \subseteq Symbols
      /\ made \in 0 .. MaxRequests /\ broken \subseteq {"upstream_failed", "empty"}
      /\ broken = {} => MarksAreReal
  BY DEF SectorInv, TypeOK
<1>2. MarksAreReal' <=> MarksAreReal
  BY DEF MarksAreReal
<1> QED
  BY <1>1, <1>2, RequestMoves

\* An answer is made of what was read last.
LEMMA AnsweredOK ==
    ASSUME NEW q, NEW rs, q \in RequestState, q.floor \subseteq q.want \cap SymbolsOf(rs),
           q.limit > 0 => q.floor \subseteq q.seen /\ Covered(q) \subseteq q.seen,
           NEW source \in {"cache", "upstream"}, NEW status \in {"ok", "degraded"},
           q.limit > 0 /\ source = "upstream" /\ status = "ok" => q.want \subseteq q.seen
    PROVE  RequestOK(Answered(q, source, status), rs)
<1> DEFINE r == Answered(q, source, status)
           f == {p \in q.found : p[1] \in q.want}
<1>1. f \subseteq q.found /\ SymbolsOf(f) \subseteq SymbolsOf(q.found)
  BY SymbolsGrow
<1>2. /\ r \in RequestState /\ r.pc = "done" /\ r.absent = q.want \ q.seen
      /\ r.want = q.want /\ r.floor = q.floor /\ r.found = f /\ r.source = source
      /\ r.status = status /\ r.limit = q.limit
  <2>1. f \in SUBSET (Symbols \X Boards)
    BY <1>1 DEF RequestState
  <2> HIDE DEF f
  <2>2. r = [Idle EXCEPT !.pc = "done", !.want = q.want, !.limit = q.limit,
                 !.floor = q.floor, !.source = source, !.status = status,
                 !.absent = q.want \ q.seen, !.found = f]
    BY DEF Answered, Absent, f
  <2>3. q.want \subseteq Symbols /\ q.floor \subseteq Symbols /\ q.limit \in Nat
    BY DEF RequestState
  <2> HIDE DEF r
  <2> QED
    BY <2>1, <2>2, <2>3 DEF Idle, RequestState, Steps
<1>3. q.limit > 0 => Covered(r) \subseteq q.seen
  BY <1>1, <1>2 DEF Covered
<1> HIDE DEF r, f
<1>4. RequestOK(r, rs)
  BY <1>2, <1>3 DEF RequestOK
<1> QED
  BY <1>4 DEF r

----------------------------------------------------------------------------
(* The scan *)

LEMMA ScannedOK ==
    ASSUME NEW q, NEW rs, RequestOK(q, rs), q.pc \in {"seeds", "boards"},
           NEW stopped \in BOOLEAN
    PROVE  RequestOK(Scanned(q, stopped), rs)
<1> DEFINE u == [q EXCEPT !.pc = "universe"]
           w == ToWrite(q)
<1>1. q \in RequestState /\ q.absent = {} /\ q.source = "none"
  BY DEF RequestOK
<1>2. /\ u \in RequestState /\ u.pc = "universe" /\ u.absent = {} /\ u.source = "none"
      /\ u.floor = q.floor /\ u.want = q.want
  BY <1>1 DEF RequestState, Steps
<1>3. /\ w \in RequestState /\ w.pc = "write" /\ w.absent = {} /\ w.source = "none"
      /\ w.floor = q.floor /\ w.want = q.want
  BY <1>1 DEF ToWrite, RequestState, Steps
<1>4. Scanned(q, stopped) \in {q, u, w}
  BY DEF Scanned
<1> HIDE DEF u, w
<1>5. RequestOK(u, rs) /\ RequestOK(w, rs)
  BY <1>2, <1>3 DEF RequestOK
<1> QED
  BY <1>4, <1>5

LEMMA ScannedScanOK ==
    ASSUME NEW q, q \in RequestState, ScanOK(q), q.pc \in {"seeds", "boards"},
           q.source = "none", NEW stopped \in BOOLEAN,
           stopped /\ q.issues = {} => q.want \subseteq Covered(q)
    PROVE  ScanOK(Scanned(q, stopped))
<1> DEFINE u == [q EXCEPT !.pc = "universe"]
           w == ToWrite(q)
<1>1. /\ u.pc = "universe" /\ u.wide = q.wide /\ u.issues = q.issues /\ u.source = "none"
      /\ u.visited = q.visited /\ u.found = q.found
  BY DEF RequestState
<1>2. /\ w.pc = "write" /\ w.issues = q.issues /\ w.source = "none" /\ w.visited = {}
      /\ w.want = q.want /\ w.found = q.found
  BY DEF ToWrite, RequestState
<1>3. CASE q.todo # {} /\ ~stopped
  BY <1>3 DEF Scanned
<1>4. CASE ~(q.todo # {} /\ ~stopped) /\ q.pc = "seeds" /\ q.wide /\ ~stopped
  <2>1. Scanned(q, stopped) = u
    BY <1>4 DEF Scanned
  <2>2. Seeds \subseteq u.visited
    BY <1>1, <1>4 DEF ScanOK
  <2> HIDE DEF u
  <2>3. ScanOK(u)
    BY <1>1, <2>2 DEF ScanOK
  <2> QED
    BY <2>1, <2>3
<1>5. CASE ~(q.todo # {} /\ ~stopped) /\ ~(q.pc = "seeds" /\ q.wide /\ ~stopped)
  <2>1. Scanned(q, stopped) = w
    BY <1>5 DEF Scanned
  <2>2. ASSUME w.issues = {} PROVE SeenAlways(w)
    <3>1. CASE stopped
      BY <1>2, <2>2, <3>1 DEF SeenAlways, Covered
    <3>2. CASE ~stopped
      <4>1. q.todo = {} /\ (q.pc = "seeds" => ~q.wide) /\ q.wide \in Wide
        BY <1>5, <3>2 DEF ScanOK
      <4>2. Always \subseteq q.visited
        <5>1. CASE q.pc = "seeds"
          <6>1. Seeds \subseteq q.visited
            BY <4>1, <5>1 DEF ScanOK
          <6>2. Wide # {TRUE}
            <7>1. q.wide \in BOOLEAN
              BY DEF RequestState
            <7>2. q.wide = FALSE
              BY <4>1, <5>1, <7>1, Zenon
            <7> QED
              BY <4>1, <7>2
          <6> QED
            BY <6>1, <6>2 DEF Always
        <5>2. CASE q.pc = "boards"
          <6>1. Boards \subseteq q.visited
            BY <4>1, <5>2 DEF ScanOK
          <6> QED
            BY <6>1, AlwaysAreBoards
        <5> QED
          BY <5>1, <5>2
      <4>3. \A b \in Always : Members[b] \subseteq SymbolsOf(q.found)
        BY <1>2, <2>2, <4>2 DEF ScanOK
      <4> QED
        BY <1>2, <4>3 DEF SeenAlways, Covered
    <3> QED
      BY <3>1, <3>2
  <2> HIDE DEF w
  <2>3. q.issues \subseteq {"timeout"}
    BY DEF ScanOK
  <2>4. ScanOK(w)
    BY <1>2, <2>2, <2>3 DEF ScanOK
  <2> QED
    BY <2>1, <2>4
<1> QED
  BY <1>3, <1>4, <1>5

----------------------------------------------------------------------------
(* Each action keeps the invariant *)

LEMMA InitKeeps == Init => SectorInv
<1> SUFFICES ASSUME Init PROVE SectorInv
  OBVIOUS
<1>1. Idle \in RequestState
  BY IdleOK DEF RequestOK
<1>2. TypeOK
  BY <1>1, SectorConstants DEF Init, TypeOK
<1>3. \A c \in Clients : RequestOK(request[c], rows) /\ ScanOK(request[c])
  BY IdleOK, IdleScanOK DEF Init
<1>4. MarksAreReal
  BY DEF Init, MarksAreReal
<1> QED
  BY <1>2, <1>3, <1>4 DEF SectorInv

\* What is known of a request before it moves.
LEMMA Before ==
    ASSUME SectorInv, NEW c \in Clients
    PROVE  /\ request[c] \in RequestState /\ RequestOK(request[c], rows)
           /\ broken = {} => ScanOK(request[c])
           /\ request[c].issues \subseteq Issues /\ request[c].todo \subseteq Boards
           /\ request[c].found \subseteq Symbols \X Boards
<1>1. RequestOK(request[c], rows) /\ (broken = {} => ScanOK(request[c]))
  BY DEF SectorInv
<1>2. request[c] \in RequestState
  BY <1>1 DEF RequestOK
<1> QED
  BY <1>1, <1>2 DEF RequestState

LEMMA AskKeeps ==
    ASSUME SectorInv, NEW c \in Clients, Ask(c)
    PROVE  SectorInv'
<1>1. PICK want \in (SUBSET Symbols) \ {{}}, force \in BOOLEAN, wide \in Wide,
           limit \in Limits :
         Becomes(c, [Idle EXCEPT !.pc = "rows", !.want = want, !.force = force,
                                 !.wide = wide, !.limit = limit,
                                 !.floor = want \cap SymbolsOf(rows)])
  BY DEF Ask
<1> DEFINE q == [Idle EXCEPT !.pc = "rows", !.want = want, !.force = force,
                             !.wide = wide, !.limit = limit,
                             !.floor = want \cap SymbolsOf(rows)]
<1>2. wide \in BOOLEAN /\ limit \in Nat
  BY SectorConstants
<1>3. /\ q \in RequestState /\ q.pc = "rows" /\ q.absent = {} /\ q.source = "none"
      /\ q.found = {} /\ q.floor = q.want \cap SymbolsOf(rows)
  BY <1>2 DEF Idle, RequestState, Steps
<1>4. q.issues = {} /\ q.visited = {} /\ q.wide \in Wide
  BY DEF Idle
<1>5. Becomes(c, q)
  BY <1>1
<1> HIDE DEF q
<1>6. RequestOK(q, rows) /\ ScanOK(q)
  BY <1>3, <1>4 DEF RequestOK, ScanOK
<1>7. /\ rows' = rows /\ marked' = marked /\ broken' = broken
      /\ made' \in 0 .. MaxRequests /\ rows \subseteq Symbols \X Boards
      /\ marked \subseteq Symbols /\ broken \subseteq {"upstream_failed", "empty"}
  BY SectorConstants DEF Ask, SectorInv, TypeOK
<1>8. broken' = {} => MarksAreReal'
  BY <1>7 DEF SectorInv, MarksAreReal
<1> QED
  BY <1>5, <1>6, <1>7, <1>8, RequestMoves

LEMMA ReadRowsKeeps ==
    ASSUME SectorInv, NEW c \in Clients, ReadRows(c)
    PROVE  SectorInv'
<1> DEFINE q == request[c]
           r == [q EXCEPT !.pc = IF @ = "rows" THEN "markers" ELSE "missing",
                          !.seen = IF q.limit = 0 THEN {} ELSE q.want \cap SymbolsOf(rows)]
<1>1. /\ q \in RequestState /\ RequestOK(q, rows) /\ (broken = {} => ScanOK(q))
      /\ q.pc \in {"rows", "again"}
  BY Before DEF ReadRows
<1>2. /\ r \in RequestState /\ r.pc = (IF q.pc = "rows" THEN "markers" ELSE "missing")
      /\ r.limit > 0 => r.seen = q.want \cap SymbolsOf(rows)
      /\ r.want = q.want /\ r.floor = q.floor
      /\ r.found = q.found /\ r.absent = q.absent /\ r.source = q.source
      /\ r.limit = q.limit
  <2> DEFINE seen == IF q.limit = 0 THEN {} ELSE q.want \cap SymbolsOf(rows)
  <2>1. seen \in SUBSET Symbols /\ q.limit \in Nat
    BY <1>1 DEF RequestState
  <2>2. q.limit > 0 => seen = q.want \cap SymbolsOf(rows)
    OBVIOUS
  <2> HIDE DEF seen
  <2>3. r = [q EXCEPT !.pc = IF q.pc = "rows" THEN "markers" ELSE "missing", !.seen = seen]
    BY DEF seen
  <2>4. r \in RequestState /\ r.seen = seen /\ r.limit = q.limit
    BY <1>1, <2>1, <2>3 DEF RequestState, Steps
  <2>5. /\ r.pc = (IF q.pc = "rows" THEN "markers" ELSE "missing")
        /\ r.want = q.want /\ r.floor = q.floor
        /\ r.found = q.found /\ r.absent = q.absent /\ r.source = q.source
    BY <1>1, <2>3 DEF RequestState
  <2> QED
    BY <2>2, <2>4, <2>5
<1>3. r.wide = q.wide /\ r.issues = q.issues /\ r.visited = q.visited
  BY <1>1 DEF RequestState
<1>4. Becomes(c, r) /\ UNCHANGED <<rows, marked, made, broken>>
  BY DEF ReadRows
<1> HIDE DEF q, r
<1>5. q.pc = "again" /\ r.limit > 0 => Covered(r) \subseteq r.seen
  BY <1>1, <1>2, SymbolsGrow DEF RequestOK, Covered
<1>6. RequestOK(r, rows)
  BY <1>1, <1>2, <1>5 DEF RequestOK
<1>7. broken = {} => ScanOK(r)
  BY <1>1, <1>2, <1>3 DEF ScanOK, RequestOK
<1> QED
  BY <1>4, <1>6, <1>7, OnlyRequestMoves

LEMMA ReadMarkersKeeps ==
    ASSUME SectorInv, NEW c \in Clients, ReadMarkers(c)
    PROVE  SectorInv'
<1> DEFINE p == request[c]
           q == [p EXCEPT !.known = p.want \cap marked]
           a == Answered(q, "cache", "ok")
           r == [q EXCEPT !.pc = "seeds", !.todo = Seeds, !.force = FALSE,
                          !.seen = {}, !.known = {}]
<1>1. /\ p \in RequestState /\ RequestOK(p, rows) /\ (broken = {} => ScanOK(p))
  BY Before
<1>2. /\ q \in RequestState /\ q.pc = "markers" /\ q.want = p.want /\ q.floor = p.floor
      /\ q.seen = p.seen /\ q.found = p.found /\ q.known = p.want \cap marked
      /\ q.limit = p.limit
  BY <1>1 DEF ReadMarkers, RequestState
<1>3. p.pc = "markers"
  BY <1>1, <1>2 DEF ReadMarkers, RequestState
<1>4. /\ r \in RequestState /\ r.pc = "seeds" /\ r.want = p.want /\ r.floor = p.floor
      /\ r.absent = p.absent /\ r.source = p.source
  BY <1>1, <1>2, AlwaysAreBoards DEF RequestState, Steps
<1>5. /\ r.todo = Seeds /\ r.visited = p.visited /\ r.issues = p.issues
      /\ r.found = p.found /\ r.wide = p.wide
  BY <1>1 DEF RequestState
<1>6. a.absent = q.want \ q.seen /\ a.pc = "done" /\ a.issues = {} /\ a.visited = {}
      /\ a.source = "cache"
  BY DEF Answered, Absent, Idle
<1>7. /\ Becomes(c, IF ~q.force /\ q.want \subseteq q.seen \cup q.known THEN a ELSE r)
      /\ UNCHANGED <<rows, marked, made, broken>>
  BY DEF ReadMarkers
<1> HIDE DEF p, q, r
<1>8. /\ q.floor \subseteq q.want \cap SymbolsOf(rows) /\ q.found = {}
      /\ q.limit > 0 => q.floor \subseteq q.seen /\ Covered(q) \subseteq q.seen
  BY <1>1, <1>2, <1>3 DEF RequestOK, Covered, SymbolsOf
<1>9. RequestOK(a, rows)
  BY <1>2, <1>8, AnsweredOK
<1> HIDE DEF a
<1>10. RequestOK(r, rows)
  BY <1>1, <1>3, <1>4 DEF RequestOK
<1>11. ASSUME broken = {} PROVE ScanOK(r)
  BY <1>1, <1>3, <1>4, <1>5, <1>11 DEF ScanOK, RequestOK
<1>12. ASSUME broken = {}, q.want \subseteq q.seen \cup q.known PROVE ScanOK(a)
  <2>1. \A b \in Always : a.absent \cap Members[b] = {}
    BY <1>2, <1>6, <1>12 DEF SectorInv, MarksAreReal
  <2> QED
    BY <1>6, <2>1 DEF ScanOK
<1>13. CASE ~q.force /\ q.want \subseteq q.seen \cup q.known
  BY <1>7, <1>9, <1>12, <1>13, OnlyRequestMoves
<1>14. CASE ~(~q.force /\ q.want \subseteq q.seen \cup q.known)
  BY <1>7, <1>10, <1>11, <1>14, OnlyRequestMoves
<1> QED
  BY <1>13, <1>14

LEMMA ReadAgainKeeps ==
    ASSUME SectorInv, NEW c \in Clients, ReadAgain(c)
    PROVE  SectorInv'
<1> DEFINE p == request[c]
           q == [p EXCEPT !.known = p.want \cap marked]
           a == Answered(q, "upstream", Status(q))
<1>1. /\ p \in RequestState /\ RequestOK(p, rows) /\ p.pc = "missing"
  <2>1. q.pc = "missing" /\ p \in RequestState /\ RequestOK(p, rows)
    BY Before DEF ReadAgain
  <2> QED
    BY <2>1 DEF RequestState
<1>2. /\ q \in RequestState /\ q.want = p.want /\ q.floor = p.floor
      /\ q.seen = p.seen /\ q.found = p.found /\ q.limit = p.limit
  BY <1>1 DEF RequestState
<1>3. Becomes(c, a) /\ UNCHANGED <<rows, marked, made, broken>>
  BY DEF ReadAgain
<1>4. a.issues = {} /\ a.visited = {} /\ a.source = "upstream" /\ a.pc = "done"
  BY DEF Answered, Idle
<1> HIDE DEF p, q
<1>5. /\ q.floor \subseteq q.want \cap SymbolsOf(rows)
      /\ q.limit > 0 => q.floor \subseteq q.seen /\ Covered(q) \subseteq q.seen
  BY <1>1, <1>2 DEF RequestOK, Covered
<1>6. /\ Status(q) \in {"ok", "degraded"}
      /\ q.limit > 0 /\ Status(q) = "ok" => q.want \subseteq q.seen
  BY <1>5 DEF Status
<1>7. RequestOK(a, rows)
  BY <1>2, <1>5, <1>6, AnsweredOK
<1> HIDE DEF a
<1>8. ScanOK(a)
  BY <1>4 DEF ScanOK
<1> QED
  BY <1>3, <1>7, <1>8, OnlyRequestMoves

\* The next board is taken from those to be scanned.
LEMMA VisitedIs ==
    ASSUME NEW q, q \in RequestState, q.todo # {}
    PROVE  /\ Visited(q) \in RequestState
           /\ Visited(q).visited = q.visited \cup {Board(q)}
           /\ Visited(q).todo = q.todo \ {Board(q)}
           /\ Board(q) \in Boards /\ Board(q) \in q.todo
           /\ Visited(q).pc = q.pc /\ Visited(q).want = q.want
           /\ Visited(q).floor = q.floor /\ Visited(q).found = q.found
           /\ Visited(q).absent = q.absent /\ Visited(q).source = q.source
           /\ Visited(q).issues = q.issues /\ Visited(q).wide = q.wide
<1>1. q.todo \subseteq Boards /\ q.visited \subseteq Boards
  BY DEF RequestState
<1>2. Board(q) \in q.todo
  BY <1>1, BoardIsNext
<1> QED
  BY <1>1, <1>2 DEF Visited, RequestState

\* A step of a scan, which leaves the tables alone.
LEMMA ScanMoves ==
    ASSUME SectorInv, NEW c \in Clients, NEW q, Becomes(c, q), RequestOK(q, rows),
           broken' = {} => broken = {} /\ ScanOK(q),
           broken \subseteq broken', broken' \subseteq {"upstream_failed", "empty"},
           UNCHANGED <<rows, marked, made>>
    PROVE  SectorInv'
<1>1. /\ rows \subseteq Symbols \X Boards /\ marked \subseteq Symbols
      /\ made \in 0 .. MaxRequests
  BY DEF SectorInv, TypeOK
<1>2. broken' = {} => MarksAreReal'
  BY DEF SectorInv, MarksAreReal
<1> QED
  BY <1>1, <1>2, RequestMoves

LEMMA ScanBoardKeeps ==
    ASSUME SectorInv, NEW c \in Clients, ScanBoard(c)
    PROVE  SectorInv'
<1> DEFINE q == request[c]
           b == Board(q)
           S(empty) == IF empty THEN {} ELSE Members[b]
           scan(empty) == [Visited(q) EXCEPT !.found = @ \cup RowsOf(q, S(empty))]
           to(empty) == Scanned(scan(empty), q.want \subseteq Covered(scan(empty)))
<1>1. PICK empty \in BOOLEAN :
         /\ Becomes(c, to(empty))
         /\ broken' = broken \cup (IF empty THEN {"empty"} ELSE {})
  BY DEF ScanBoard
<1>2. /\ q \in RequestState /\ RequestOK(q, rows) /\ (broken = {} => ScanOK(q))
      /\ q.pc \in {"seeds", "boards"} /\ q.todo # {}
  BY Before DEF ScanBoard
<1>3. UNCHANGED <<rows, marked, made>> /\ broken \subseteq {"upstream_failed", "empty"}
  BY DEF ScanBoard, SectorInv, TypeOK
<1> DEFINE r == scan(empty)
           new == S(empty) \X {b}
<1>4. b \in Boards /\ S(empty) \subseteq Symbols
  BY <1>2, VisitedIs, SectorConstants
<1>5. /\ r \in RequestState /\ r.pc = q.pc /\ r.want = q.want /\ r.floor = q.floor
      /\ r.absent = q.absent /\ r.source = q.source /\ r.issues = q.issues
      /\ r.wide = q.wide /\ r.visited = q.visited \cup {b} /\ r.todo = q.todo \ {b}
      /\ r.found = q.found \cup new
  <2>1. /\ Visited(q) \in RequestState /\ Visited(q).found = q.found
        /\ Visited(q).found \cup new \subseteq Symbols \X Boards
    <3>1. Visited(q) \in RequestState /\ Visited(q).found = q.found
      BY <1>2, VisitedIs
    <3>2. Visited(q).found \subseteq Symbols \X Boards
      BY <3>1 DEF RequestState
    <3> HIDE DEF S
    <3>3. new \subseteq Symbols \X Boards
      BY <1>4
    <3> QED
      BY <3>1, <3>2, <3>3
  <2> HIDE DEF new
  <2>2. r = [Visited(q) EXCEPT !.found = Visited(q).found \cup new]
    BY DEF RowsOf, new
  <2> HIDE DEF r
  <2>3. /\ r \in RequestState /\ r.found = Visited(q).found \cup new
        /\ r.pc = Visited(q).pc /\ r.want = Visited(q).want /\ r.floor = Visited(q).floor
        /\ r.absent = Visited(q).absent /\ r.source = Visited(q).source
        /\ r.issues = Visited(q).issues /\ r.wide = Visited(q).wide
        /\ r.visited = Visited(q).visited /\ r.todo = Visited(q).todo
    BY <2>1, <2>2 DEF RequestState
  <2> QED
    BY <1>2, <2>1, <2>3, VisitedIs
<1>6. S(empty) \cup SymbolsOf(q.found) \subseteq SymbolsOf(r.found)
  <2>1. r.found = q.found \cup new
    BY <1>5
  <2> HIDE DEF r, q, b, S
  <2>2. S(empty) \cup SymbolsOf(q.found) \subseteq SymbolsOf(q.found \cup new)
    BY SymbolsAdded
  <2> QED
    BY <2>1, <2>2
<1>7. Becomes(c, Scanned(r, q.want \subseteq Covered(r)))
  BY <1>1
<1>8. broken' = {} => broken = {} /\ S(empty) = Members[b]
  BY <1>1
<1>9. broken \subseteq broken' /\ broken' \subseteq {"upstream_failed", "empty"}
  BY <1>1, <1>3
<1> HIDE DEF r, q, b, S, new
<1>10. RequestOK(r, rows)
  BY <1>2, <1>5 DEF RequestOK
<1>11. RequestOK(Scanned(r, q.want \subseteq Covered(r)), rows)
  BY <1>2, <1>5, <1>10, ScannedOK
<1>12. ASSUME broken' = {} PROVE ScanOK(Scanned(r, q.want \subseteq Covered(r)))
  <2>1. ScanOK(q) /\ q.source = "none"
    BY <1>2, <1>8, <1>12 DEF RequestOK
  <2>2. \A i \in r.visited : r.issues = {} => Members[i] \subseteq SymbolsOf(r.found)
    <3> SUFFICES ASSUME NEW i \in r.visited, r.issues = {}
                 PROVE  Members[i] \subseteq SymbolsOf(r.found)
      OBVIOUS
    <3>1. (i \in q.visited \/ i = b) /\ q.issues = {}
      BY <1>5
    <3>2. S(empty) = Members[b]
      BY <1>8, <1>12
    <3>3. i \in q.visited => Members[i] \subseteq SymbolsOf(q.found)
      BY <2>1, <3>1 DEF ScanOK
    <3> QED
      BY <1>6, <3>1, <3>2, <3>3
  <2>3. ScanOK(r)
    BY <1>2, <1>5, <2>1, <2>2 DEF ScanOK
  <2> QED
    BY <1>2, <1>5, <2>1, <2>3, ScannedScanOK
<1> QED
  BY <1>3, <1>7, <1>8, <1>9, <1>11, <1>12, ScanMoves

LEMMA MissBoardKeeps ==
    ASSUME SectorInv, NEW c \in Clients, MissBoard(c)
    PROVE  SectorInv'
<1> DEFINE q == request[c]
<1>1. PICK issue \in Issues :
         /\ Becomes(c, Scanned([Visited(q) EXCEPT !.issues = @ \cup {issue}], FALSE))
         /\ broken' = broken \cup ({issue} \ {"timeout"})
  BY DEF MissBoard
<1> DEFINE r == [Visited(q) EXCEPT !.issues = @ \cup {issue}]
<1>2. /\ q \in RequestState /\ RequestOK(q, rows) /\ (broken = {} => ScanOK(q))
      /\ q.pc \in {"seeds", "boards"} /\ q.todo # {}
  BY Before DEF MissBoard
<1>3. UNCHANGED <<rows, marked, made>> /\ broken \subseteq {"upstream_failed", "empty"}
  BY DEF MissBoard, SectorInv, TypeOK
<1>4. /\ r \in RequestState /\ r.pc = q.pc /\ r.want = q.want /\ r.floor = q.floor
      /\ r.absent = q.absent /\ r.source = q.source /\ r.issues = q.issues \cup {issue}
      /\ r.wide = q.wide /\ r.visited = q.visited \cup {Board(q)}
      /\ r.todo = q.todo \ {Board(q)}
  <2>1. Visited(q) \in RequestState /\ Visited(q).issues \cup {issue} \subseteq Issues
    BY <1>2, VisitedIs DEF RequestState
  <2>2. /\ r \in RequestState /\ r.issues = Visited(q).issues \cup {issue}
        /\ r.pc = Visited(q).pc /\ r.want = Visited(q).want /\ r.floor = Visited(q).floor
        /\ r.absent = Visited(q).absent /\ r.source = Visited(q).source
        /\ r.wide = Visited(q).wide /\ r.visited = Visited(q).visited
        /\ r.todo = Visited(q).todo
    BY <2>1 DEF RequestState
  <2> HIDE DEF r
  <2> QED
    BY <1>2, <2>2, VisitedIs
<1>5. Becomes(c, Scanned(r, FALSE))
  BY <1>1
<1>6. broken \subseteq broken' /\ broken' \subseteq {"upstream_failed", "empty"}
  BY <1>1, <1>3 DEF Issues
<1>7. broken' = {} => broken = {} /\ issue = "timeout"
  BY <1>1
<1> HIDE DEF q, r
<1>8. RequestOK(r, rows)
  BY <1>2, <1>4 DEF RequestOK
<1>9. RequestOK(Scanned(r, FALSE), rows)
  BY <1>2, <1>4, <1>8, ScannedOK
<1>10. ASSUME broken' = {} PROVE ScanOK(Scanned(r, FALSE))
  <2>1. ScanOK(q) /\ q.source = "none" /\ issue = "timeout"
    BY <1>2, <1>7, <1>10 DEF RequestOK
  <2>2. ScanOK(r)
    BY <1>2, <1>4, <2>1 DEF ScanOK
  <2> QED
    BY <1>2, <1>4, <2>1, <2>2, ScannedScanOK
<1> QED
  BY <1>3, <1>5, <1>6, <1>7, <1>9, <1>10, ScanMoves

LEMMA ExpireKeeps ==
    ASSUME SectorInv, NEW c \in Clients, Expire(c)
    PROVE  SectorInv'
<1> DEFINE q == request[c]
           r == [q EXCEPT !.issues = @ \cup {"timeout"}]
<1>1. /\ q \in RequestState /\ RequestOK(q, rows) /\ (broken = {} => ScanOK(q))
      /\ q.pc \in {"seeds", "boards"} /\ q.issues \subseteq Issues
  BY Before DEF Expire
<1>2. Becomes(c, Scanned(r, TRUE)) /\ UNCHANGED <<rows, marked, made, broken>>
  BY DEF Expire
<1>3. /\ r \in RequestState /\ r.pc = q.pc /\ r.want = q.want /\ r.floor = q.floor
      /\ r.absent = q.absent /\ r.source = q.source /\ r.issues = q.issues \cup {"timeout"}
      /\ r.wide = q.wide /\ r.visited = q.visited /\ r.todo = q.todo
  BY <1>1 DEF RequestState, Issues
<1> HIDE DEF q, r
<1>4. RequestOK(r, rows)
  BY <1>1, <1>3 DEF RequestOK
<1>5. RequestOK(Scanned(r, TRUE), rows)
  BY <1>1, <1>3, <1>4, ScannedOK
<1>6. ASSUME broken = {} PROVE ScanOK(Scanned(r, TRUE))
  <2>1. ScanOK(q) /\ q.source = "none"
    BY <1>1, <1>6 DEF RequestOK
  <2>2. ScanOK(r)
    BY <1>1, <1>3, <2>1 DEF ScanOK
  <2> QED
    BY <1>1, <1>3, <2>1, <2>2, ScannedScanOK
<1> QED
  BY <1>2, <1>5, <1>6, OnlyRequestMoves

LEMMA AskUniverseKeeps ==
    ASSUME SectorInv, NEW c \in Clients, AskUniverse(c)
    PROVE  SectorInv'
<1> DEFINE q == request[c]
           r == [q EXCEPT !.pc = "boards", !.todo = Boards \ q.visited]
<1>1. /\ q \in RequestState /\ RequestOK(q, rows) /\ (broken = {} => ScanOK(q))
      /\ q.pc = "universe" /\ q.issues \subseteq Issues
  BY Before DEF AskUniverse
<1>2. UNCHANGED <<rows, marked, made>> /\ broken \subseteq {"upstream_failed", "empty"}
  BY DEF AskUniverse, SectorInv, TypeOK
<1>3. CASE Becomes(c, Scanned(r, FALSE)) /\ UNCHANGED broken
  <2>1. /\ r \in RequestState /\ r.pc = "boards" /\ r.want = q.want /\ r.floor = q.floor
        /\ r.absent = q.absent /\ r.source = q.source /\ r.issues = q.issues
        /\ r.wide = q.wide /\ r.visited = q.visited /\ r.todo = Boards \ q.visited
        /\ r.found = q.found
    BY <1>1 DEF RequestState, Steps
  <2> HIDE DEF q, r
  <2>2. RequestOK(r, rows)
    BY <1>1, <2>1 DEF RequestOK
  <2>3. RequestOK(Scanned(r, FALSE), rows)
    BY <2>1, <2>2, ScannedOK
  <2>4. ASSUME broken = {} PROVE ScanOK(Scanned(r, FALSE))
    <3>1. ScanOK(q) /\ q.source = "none"
      BY <1>1, <2>4 DEF RequestOK
    <3>2. ScanOK(r)
      BY <1>1, <2>1, <3>1 DEF ScanOK
    <3> QED
      BY <2>1, <3>1, <3>2, ScannedScanOK
  <2> QED
    BY <1>2, <1>3, <2>3, <2>4, OnlyRequestMoves
<1>4. ASSUME NEW issue \in Issues,
             Becomes(c, ToWrite([q EXCEPT !.issues = @ \cup {issue}])),
             broken' = broken \cup ({issue} \ {"timeout"})
      PROVE  SectorInv'
  <2> DEFINE w == ToWrite([q EXCEPT !.issues = @ \cup {issue}])
  <2>1. /\ w \in RequestState /\ w.pc = "write" /\ w.want = q.want /\ w.floor = q.floor
        /\ w.absent = q.absent /\ w.source = q.source /\ w.visited = {}
        /\ w.issues = q.issues \cup {issue}
    BY <1>1 DEF ToWrite, RequestState, Steps
  <2>2. Becomes(c, w)
    BY <1>4
  <2> HIDE DEF q, w
  <2>3. RequestOK(w, rows)
    BY <1>1, <2>1 DEF RequestOK
  <2>4. broken \subseteq broken' /\ broken' \subseteq {"upstream_failed", "empty"}
    BY <1>2, <1>4 DEF Issues
  <2>5. ASSUME broken' = {} PROVE broken = {} /\ ScanOK(w)
    <3>1. broken = {} /\ issue = "timeout" /\ ScanOK(q) /\ q.source = "none"
      BY <1>1, <1>4, <2>5 DEF RequestOK
    <3> QED
      BY <2>1, <3>1 DEF ScanOK
  <2> QED
    BY <1>2, <2>2, <2>3, <2>4, <2>5, ScanMoves
<1> QED
  BY <1>3, <1>4 DEF AskUniverse

----------------------------------------------------------------------------
(* Writing *)

LEMMA AfterRowsOK ==
    ASSUME NEW q, NEW rs, RequestOK(q, rs), q.pc = "write", q.found \subseteq rs
    PROVE  RequestOK(AfterRows(q), rs)
<1> DEFINE r == AfterRows(q)
<1>1. q \in RequestState
  BY DEF RequestOK
<1>2. /\ r \in RequestState /\ r.pc \in {"mark", "again"} /\ r.want = q.want
      /\ r.floor = q.floor /\ r.found = q.found /\ r.absent = q.absent
      /\ r.source = q.source
  BY <1>1 DEF AfterRows, RequestState, Steps
<1> HIDE DEF r
<1>3. RequestOK(r, rs)
  BY <1>2 DEF RequestOK
<1> QED
  BY <1>3 DEF r

\* After a timeout nothing is marked; otherwise the scan has seen the boards.
LEMMA AfterRowsScanOK ==
    ASSUME NEW q, q \in RequestState, ScanOK(q), q.pc = "write", q.source = "none"
    PROVE  ScanOK(AfterRows(q))
<1> DEFINE r == AfterRows(q)
<1>1. /\ r.pc = (IF MarksMissing(q) THEN "mark" ELSE "again") /\ r.want = q.want
      /\ r.issues = q.issues /\ r.visited = q.visited /\ r.found = q.found
      /\ r.source = "none"
  BY DEF AfterRows, RequestState
<1>2. MarksMissing(q) => q.issues = {}
  <2>1. "timeout" \in q.issues => MissingReason(q) = "reverse_index_timeout"
    BY DEF MissingReason
  <2>2. "timeout" \in q.issues => ~MarksMissing(q)
    BY <2>1 DEF MarksMissing
  <2> QED
    BY <2>2 DEF ScanOK
<1> HIDE DEF r
<1>3. q.issues = {} => SeenAlways(r)
  BY <1>1 DEF ScanOK, SeenAlways, Covered
<1>4. ScanOK(r)
  BY <1>1, <1>2, <1>3 DEF ScanOK
<1> QED
  BY <1>4 DEF r

LEMMA WriteRowsKeeps ==
    ASSUME SectorInv, NEW c \in Clients, WriteRows(c)
    PROVE  SectorInv'
<1> DEFINE q == request[c]
<1>1. /\ q \in RequestState /\ RequestOK(q, rows) /\ (broken = {} => ScanOK(q))
      /\ q.pc = "write" /\ q.found \subseteq Symbols \X Boards
  BY Before DEF WriteRows
<1>2. /\ rows \subseteq Symbols \X Boards /\ marked \subseteq Symbols
      /\ made' \in 0 .. MaxRequests /\ broken' = broken
      /\ broken \subseteq {"upstream_failed", "empty"} /\ (broken = {} => MarksAreReal)
  BY DEF WriteRows, SectorInv, TypeOK
<1>3. broken = {} => ScanOK(AfterRows(q))
  BY <1>1, AfterRowsScanOK DEF RequestOK
<1>4. CASE Becomes(c, AfterRows(q)) /\ q.found = {} /\ UNCHANGED <<rows, marked, made>>
  <2>1. RequestOK(AfterRows(q), rows)
    BY <1>1, <1>4, AfterRowsOK
  <2> QED
    BY <1>2, <1>3, <1>4, <2>1, OnlyRequestMoves
<1>5. CASE Becomes(c, AfterRows(q)) /\ rows' = rows \cup q.found
           /\ marked' = marked \ SymbolsOf(q.found)
  <2>1. RequestOK(AfterRows(q), rows')
    BY <1>1, <1>5, AfterRowsOK, RequestStays
  <2>2. broken' = {} => MarksAreReal'
    BY <1>2, <1>5 DEF MarksAreReal
  <2>3. rows \subseteq rows' /\ rows' \subseteq Symbols \X Boards /\ marked' \subseteq Symbols
    BY <1>1, <1>2, <1>5
  <2> QED
    BY <1>2, <1>3, <1>5, <2>1, <2>2, <2>3, RequestMoves
<1>6. CASE Becomes(c, Idle) /\ UNCHANGED <<rows, marked, made>>
  BY <1>2, <1>6, IdleOK, IdleScanOK, OnlyRequestMoves
<1> QED
  BY <1>4, <1>5, <1>6 DEF WriteRows

LEMMA WriteMarkersKeeps ==
    ASSUME SectorInv, NEW c \in Clients, WriteMarkers(c)
    PROVE  SectorInv'
<1> DEFINE q == request[c]
           r == [q EXCEPT !.pc = "again"]
<1>1. /\ q \in RequestState /\ RequestOK(q, rows) /\ (broken = {} => ScanOK(q))
      /\ q.pc = "mark" /\ q.want \subseteq Symbols
  <2>1. /\ q \in RequestState /\ RequestOK(q, rows) /\ (broken = {} => ScanOK(q))
        /\ q.pc = "mark"
    BY Before DEF WriteMarkers
  <2> QED
    BY <2>1 DEF RequestState
<1>2. /\ rows \subseteq Symbols \X Boards /\ marked \subseteq Symbols
      /\ made' \in 0 .. MaxRequests /\ broken' = broken /\ rows' = rows
      /\ broken \subseteq {"upstream_failed", "empty"} /\ (broken = {} => MarksAreReal)
  BY DEF WriteMarkers, SectorInv, TypeOK
<1>3. /\ r \in RequestState /\ r.pc = "again" /\ r.want = q.want /\ r.floor = q.floor
      /\ r.found = q.found /\ r.absent = q.absent /\ r.source = q.source
      /\ r.issues = q.issues /\ r.visited = q.visited
  BY <1>1 DEF RequestState, Steps
<1>4. CASE Becomes(c, r) /\ marked' = marked \cup (q.want \ Covered(q))
  <2> HIDE DEF q, r
  <2>1. RequestOK(r, rows)
    BY <1>1, <1>3 DEF RequestOK
  <2>2. ASSUME broken = {} PROVE ScanOK(r) /\ MarksAreReal'
    <3>1. ScanOK(q) /\ q.source = "none" /\ MarksAreReal
      BY <1>1, <1>2, <2>2 DEF RequestOK
    <3>2. SeenAlways(q)
      BY <1>1, <3>1 DEF ScanOK
    <3>3. MarksAreReal'
      BY <1>4, <3>1, <3>2 DEF MarksAreReal, SeenAlways
    <3>4. ScanOK(r)
      BY <1>1, <1>3, <3>1 DEF ScanOK
    <3> QED
      BY <3>3, <3>4
  <2>3. marked' \subseteq Symbols
    BY <1>1, <1>2, <1>4
  <2> QED
    BY <1>2, <1>4, <2>1, <2>2, <2>3, RequestMoves
<1>5. CASE Becomes(c, Idle) /\ marked' = marked
  <2>1. MarksAreReal' <=> MarksAreReal
    BY <1>5 DEF MarksAreReal
  <2> QED
    BY <1>2, <1>5, <2>1, IdleOK, IdleScanOK, RequestMoves
<1> QED
  BY <1>4, <1>5 DEF WriteMarkers

----------------------------------------------------------------------------
(* The theorems *)

LEMMA NextKeeps == SectorInv /\ [Next]_vars => SectorInv'
<1> SUFFICES ASSUME SectorInv, [Next]_vars PROVE SectorInv'
  OBVIOUS
<1>1. CASE UNCHANGED vars
  <2>1. /\ rows' = rows /\ marked' = marked /\ request' = request /\ made' = made
        /\ broken' = broken
    BY <1>1 DEF vars
  <2> QED
    BY <2>1 DEF SectorInv, TypeOK, MarksAreReal
<1>2. ASSUME NEW c \in Clients, Ask(c) \/ RequestStep(c) \/ ReadError(c)
      PROVE  SectorInv'
  <2>1. CASE Ask(c)
    BY <2>1, AskKeeps
  <2>2. CASE ReadRows(c) \/ ReadMarkers(c) \/ ReadAgain(c)
    BY <2>2, ReadRowsKeeps, ReadMarkersKeeps, ReadAgainKeeps
  <2>3. CASE ScanBoard(c) \/ MissBoard(c) \/ Expire(c) \/ AskUniverse(c)
    BY <2>3, ScanBoardKeeps, MissBoardKeeps, ExpireKeeps, AskUniverseKeeps
  <2>4. CASE WriteRows(c) \/ WriteMarkers(c)
    BY <2>4, WriteRowsKeeps, WriteMarkersKeeps
  <2>5. CASE ReadError(c)
    <3>1. Becomes(c, Idle) /\ UNCHANGED <<rows, marked, made, broken>>
      BY <2>5 DEF ReadError
    <3> QED
      BY <3>1, IdleOK, IdleScanOK, OnlyRequestMoves
  <2> QED
    BY <1>2, <2>1, <2>2, <2>3, <2>4, <2>5 DEF RequestStep
<1> QED
  BY <1>1, <1>2 DEF Next

\* The invariant holds in every state, with every fault: requests of
\* SectorMembershipIndex race on its two tables as they do in the code.
THEOREM SectorInvHolds == Spec => []SectorInv
BY InitKeeps, NextKeeps, PTL DEF Spec

\* The tables, the markers and the locals of every request have their types.
THEOREM SectorTypes == Spec => []TypeOK
<1>1. SectorInv => TypeOK
  BY DEF SectorInv
<1> QED
  BY <1>1, SectorInvHolds, PTL

\* What was stored when a request for at least one row of each symbol began is
\* not reported as missing, whatever markers other requests write before the
\* answer is made.
THEOREM NothingIsHidden == Spec => []NothingHidden
<1>1. SectorInv => NothingHidden
  <2> SUFFICES ASSUME SectorInv, NEW c \in Clients,
                      request[c].limit > 0
               PROVE  request[c].absent \cap request[c].floor = {}
    BY DEF NothingHidden
  <2> QED
    BY DEF SectorInv, RequestOK
<1> QED
  BY <1>1, SectorInvHolds, PTL

\* If at least one row of each symbol is wanted, a request's answer has what its
\* scan found, and an ok answer of a scan is complete.
THEOREM ScansAreAnswered == Spec => []ScanIsAnswered
<1>1. SectorInv => ScanIsAnswered
  BY DEF SectorInv, RequestOK, ScanIsAnswered
<1> QED
  BY <1>1, SectorInvHolds, PTL

\* As long as provider calls fail only by timeouts, no marker claims more than a
\* scan has seen, and so no answer from the tables does.
THEOREM TimeoutsMarkNothing == Spec => []TimeoutsLeaveNoMark
<1>1. SectorInv => TimeoutsLeaveNoMark
  BY DEF SectorInv, ScanOK, TimeoutsLeaveNoMark, MissIsReal, Always
<1> QED
  BY <1>1, SectorInvHolds, PTL
=============================================================================
