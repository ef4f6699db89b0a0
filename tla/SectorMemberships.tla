------------------------- MODULE SectorMemberships -------------------------
(***************************************************************************)
(* The reverse index of sector_memberships.py, SectorMembershipIndex, for  *)
(* one trade date and the one supported sector type.                       *)
(*                                                                         *)
(* A request asks in which boards (sectors) some symbols are.  What the    *)
(* tables do not know, as a membership row or as a coverage marker that    *)
(* says "missing", is found out by scanning boards: the seed boards, then  *)
(* those of the provider's universe, until every symbol has been seen.     *)
(* Rows and markers are written in two transactions, and requests run at   *)
(* the same time; each method of the index is one action.                  *)
(*                                                                         *)
(* A provider call that times out is abandoned: its thread runs on, and    *)
(* its result goes into a queue that nobody reads.                         *)
(***************************************************************************)
EXTENDS Naturals, FiniteSets

CONSTANTS
    Clients,      \* threads that serve requests
    Symbols,      \* symbol keys
    Boards,       \* boards, a set of numbers; they are scanned in this order
    Seeds,        \* _SEED_CONCEPT_SECTORS
    Members,      \* the symbols in each board
    Wide,         \* whether requests may have a positive sector_universe_limit
    Limits,       \* the values of limit_per_symbol; the route accepts 0
    MaxRequests,  \* bound: how many requests are made
    Faults        \* of "timeout", "upstream_failed" (a provider call fails so),
                  \* "empty" (a board answers without rows), "store" (a
                  \* transaction raises)

ASSUME SectorConstants ==
    /\ Boards \subseteq Nat
    /\ Seeds \in (SUBSET Boards) \ {{}}
    /\ Members \in [Boards -> SUBSET Symbols]
    /\ Wide \subseteq BOOLEAN
    /\ Limits \subseteq Nat
    /\ MaxRequests \in Nat
    /\ Faults \subseteq {"timeout", "upstream_failed", "empty", "store"}

VARIABLES
    rows,     \* table stock_sector_membership_rows
    marked,   \* table stock_sector_membership_coverage
    request,  \* the state of each client's request
    made,     \* how many requests have been made
    broken    \* for the properties: which of "upstream_failed" and "empty"
              \* have happened to any request

vars == <<rows, marked, request, made, broken>>

----------------------------------------------------------------------------
(* Requests *)

Issues == {"timeout", "upstream_failed"}

\* rows, markers: reading the tables; seeds, universe, boards: in
\* _materialize_reverse_index; write, mark: writing the tables; again,
\* missing: reading them again; done: answered.
Steps == {"idle", "rows", "markers", "seeds", "universe", "boards", "write",
          "mark", "again", "missing", "done"}

\* floor, for the properties, has the requested symbols with rows at the time of the
\* call.  A field is reset when it is no longer used.
RequestState ==
    [pc       : Steps,
     want     : SUBSET Symbols,             \* requested
     force    : BOOLEAN,                    \* force_refresh
     wide     : BOOLEAN,                    \* sector_universe_limit > 0
     limit    : Nat,                        \* limit_per_symbol
     todo     : SUBSET Boards,              \* boards still to be scanned
     visited  : SUBSET Boards,              \* visited_sector_names
     found    : SUBSET (Symbols \X Boards), \* rows_to_write
     issues   : SUBSET Issues,              \* issue_reasons
     seen     : SUBSET Symbols,             \* symbols of the rows read
     known    : SUBSET Symbols,             \* symbols of the markers read
     source   : {"none", "cache", "upstream"},
     status   : {"none", "ok", "degraded"},
     absent   : SUBSET Symbols,             \* missing_symbols of the answer
     floor    : SUBSET Symbols]

Idle ==
    [pc |-> "idle", want |-> {}, force |-> FALSE, wide |-> FALSE, limit |-> 0,
     todo |-> {}, visited |-> {}, found |-> {}, issues |-> {},
     seen |-> {}, known |-> {}, source |-> "none", status |-> "none",
     absent |-> {}, floor |-> {}]

TypeOK ==
    /\ rows \subseteq Symbols \X Boards
    /\ marked \subseteq Symbols
    /\ request \in [Clients -> RequestState]
    /\ made \in 0 .. MaxRequests
    /\ broken \subseteq {"upstream_failed", "empty"}

Init ==
    /\ rows = {}
    /\ marked = {}
    /\ request = [c \in Clients |-> Idle]
    /\ made = 0
    /\ broken = {}

Becomes(c, q) == request' = [request EXCEPT ![c] = q]

SymbolsOf(pairs) == {p[1] : p \in pairs}

Covered(q) == q.want \cap SymbolsOf(q.found)

Board(q) == CHOOSE b \in q.todo : \A i \in q.todo : b <= i

Commits == IF "store" \in Faults THEN BOOLEAN ELSE {TRUE}

\* Mutant of Absent: a marker counts for more than a row.
AbsentByMarker(q) == q.want \ (q.seen \ q.known)

\* missing_symbols of _coverage_payload: rows count, markers only explain.
Absent(q) == q.want \ q.seen

Answered(q, source, status) ==
    [Idle EXCEPT !.pc = "done", !.want = q.want, !.limit = q.limit,
                 !.floor = q.floor, !.source = source,
                 !.status = status, !.absent = Absent(q),
                 !.found = {p \in q.found : p[1] \in q.want}]

----------------------------------------------------------------------------
(* memberships *)

Ask(c) ==
    /\ request[c].pc \in {"idle", "done"}
    /\ made < MaxRequests
    /\ made' = made + 1
    /\ \E want \in (SUBSET Symbols) \ {{}}, force \in BOOLEAN, wide \in Wide,
          limit \in Limits :
          Becomes(c, [Idle EXCEPT !.pc = "rows", !.want = want, !.force = force,
                                  !.wide = wide, !.limit = limit,
                                  !.floor = want \cap SymbolsOf(rows)])
    /\ UNCHANGED <<rows, marked, broken>>

\* _read_rows takes so many rows of each symbol: with 0 it finds no symbol.
ReadRows(c) ==
    LET q == request[c] IN
    /\ q.pc \in {"rows", "again"}
    /\ Becomes(c, [q EXCEPT !.pc = IF @ = "rows" THEN "markers" ELSE "missing",
                            !.seen = IF q.limit = 0 THEN {}
                                     ELSE q.want \cap SymbolsOf(rows)])
    /\ UNCHANGED <<rows, marked, made, broken>>

\* _read_coverage_markers and _cache_covers_request.
ReadMarkers(c) ==
    LET q == [request[c] EXCEPT !.known = request[c].want \cap marked] IN
    /\ q.pc = "markers"
    /\ Becomes(c, IF ~q.force /\ q.want \subseteq q.seen \cup q.known
                  THEN Answered(q, "cache", "ok")
                  ELSE [q EXCEPT !.pc = "seeds", !.todo = Seeds, !.force = FALSE,
                                 !.seen = {}, !.known = {}])
    /\ UNCHANGED <<rows, marked, made, broken>>

\* Mutant of Status: an answer is degraded if a provider call failed.
StatusByIssues(q) == IF q.issues = {} THEN "ok" ELSE "degraded"

\* Whatever warning there is, an answer is degraded only if the scan left a
\* symbol uncovered.
Status(q) == IF q.want \subseteq Covered(q) THEN "ok" ELSE "degraded"

\* The markers are read once more, and the answer is made.
ReadAgain(c) ==
    LET q == [request[c] EXCEPT !.known = request[c].want \cap marked] IN
    /\ q.pc = "missing"
    /\ Becomes(c, Answered(q, "upstream", Status(q)))
    /\ UNCHANGED <<rows, marked, made, broken>>

----------------------------------------------------------------------------
(* _materialize_reverse_index *)

\* The boards are done with: _write_rows is next.
ToWrite(q) == [q EXCEPT !.pc = "write", !.wide = FALSE, !.todo = {}, !.visited = {}]

\* The end of a scan: stopped, or out of boards.  The universe is asked for
\* after the seeds, unless the scan of these was stopped.
Scanned(q, stopped) ==
    IF q.todo # {} /\ ~stopped THEN q
    ELSE IF q.pc = "seeds" /\ q.wide /\ ~stopped THEN [q EXCEPT !.pc = "universe"]
    ELSE ToWrite(q)

Visited(q) ==
    [q EXCEPT !.visited = @ \cup {Board(q)}, !.todo = @ \ {Board(q)}]

RowsOf(q, symbols) == symbols \X {Board(q)}

\* A board answers; a board without rows does so when "empty" is a fault.
ScanBoard(c) ==
    LET q == request[c] IN
    /\ q.pc \in {"seeds", "boards"} /\ q.todo # {}
    /\ \E empty \in {FALSE} \cup (IF "empty" \in Faults THEN {TRUE} ELSE {}) :
          LET symbols == IF empty THEN {} ELSE Members[Board(q)]
              scan    == [Visited(q) EXCEPT
                             !.found = @ \cup RowsOf(q, symbols)]
          IN  /\ Becomes(c, Scanned(scan, q.want \subseteq Covered(scan)))
              /\ broken' = broken \cup (IF empty THEN {"empty"} ELSE {})
    /\ UNCHANGED <<rows, marked, made>>

\* The call fails: on to the next board.
MissBoard(c) ==
    LET q == request[c] IN
    /\ q.pc \in {"seeds", "boards"} /\ q.todo # {}
    /\ \E issue \in Issues \cap Faults :
          /\ Becomes(c, Scanned([Visited(q) EXCEPT !.issues = @ \cup {issue}], FALSE))
          /\ broken' = broken \cup ({issue} \ {"timeout"})
    /\ UNCHANGED <<rows, marked, made>>

\* The request's deadline has passed at the head of the loop.
Expire(c) ==
    LET q == request[c] IN
    /\ q.pc \in {"seeds", "boards"} /\ q.todo # {}
    /\ "timeout" \in Faults
    /\ Becomes(c, Scanned([q EXCEPT !.issues = @ \cup {"timeout"}], TRUE))
    /\ UNCHANGED <<rows, marked, made, broken>>

\* What has been visited is not scanned again.
AskUniverse(c) ==
    LET q == request[c] IN
    /\ q.pc = "universe"
    /\ \/ /\ Becomes(c, Scanned([q EXCEPT !.pc = "boards", !.todo = Boards \ q.visited],
                                FALSE))
          /\ UNCHANGED broken
       \/ \E issue \in Issues \cap Faults :
             /\ Becomes(c, ToWrite([q EXCEPT !.issues = @ \cup {issue}]))
             /\ broken' = broken \cup ({issue} \ {"timeout"})
    /\ UNCHANGED <<rows, marked, made>>

\* _missing_reason_for_materialization; "symbol_uncovered" also stands for
\* "empty_board" and "no_membership_rows", which are treated like it.
MissingReason(q) ==
    CASE "timeout" \in q.issues                            -> "reverse_index_timeout"
      [] "timeout" \notin q.issues
         /\ "upstream_failed" \in q.issues /\ q.found = {} -> "upstream_failed"
      [] OTHER                                             -> "symbol_uncovered"

\* Mutant of MarksMissing: also after a scan that failed.
MarksMissingAlways(q) == ~(q.want \subseteq Covered(q))

\* Whether the symbols the scan did not see are marked.
MarksMissing(q) ==
    /\ ~(q.found = {} /\ q.issues # {})
    /\ ~(q.want \subseteq Covered(q))
    /\ MissingReason(q) \notin {"reverse_index_timeout", "upstream_failed"}

\* Mutant of AfterRows: what could not be marked is looked for once more.
AfterRowsRetry(q) == [q EXCEPT !.pc = IF MarksMissing(q) THEN "mark"
                                      ELSE IF q.want \subseteq Covered(q) THEN "again"
                                      ELSE "rows"]

AfterRows(q) == [q EXCEPT !.pc = IF MarksMissing(q) THEN "mark" ELSE "again"]

\* _write_rows: rows are inserted and the markers of their symbols deleted.
WriteRows(c) ==
    LET q == request[c] IN
    /\ q.pc = "write"
    /\ IF q.found = {}
       THEN Becomes(c, AfterRows(q)) /\ UNCHANGED <<rows, marked>>
       ELSE \E commits \in Commits :
               /\ rows'   = IF commits THEN rows \cup q.found ELSE rows
               /\ marked' = IF commits THEN marked \ SymbolsOf(q.found) ELSE marked
               /\ Becomes(c, IF commits THEN AfterRows(q) ELSE Idle)
    /\ UNCHANGED <<made, broken>>

\* _write_coverage_markers
WriteMarkers(c) ==
    LET q == request[c] IN
    /\ q.pc = "mark"
    /\ \E commits \in Commits :
          /\ marked' = IF commits THEN marked \cup (q.want \ Covered(q)) ELSE marked
          /\ Becomes(c, IF commits THEN [q EXCEPT !.pc = "again"] ELSE Idle)
    /\ UNCHANGED <<rows, made, broken>>

\* The tables cannot be read: the request fails.
ReadError(c) ==
    /\ "store" \in Faults
    /\ request[c].pc \in {"rows", "markers", "again", "missing"}
    /\ Becomes(c, Idle)
    /\ UNCHANGED <<rows, marked, made, broken>>

RequestStep(c) ==
    \/ ReadRows(c) \/ ReadMarkers(c) \/ ReadAgain(c)
    \/ ScanBoard(c) \/ MissBoard(c) \/ Expire(c) \/ AskUniverse(c)
    \/ WriteRows(c) \/ WriteMarkers(c)

Next == \E c \in Clients : Ask(c) \/ RequestStep(c) \/ ReadError(c)

\* Threads are scheduled, and every provider call is cut off by its timeout.
Fairness == \A c \in Clients : WF_vars(RequestStep(c))

Spec == Init /\ [][Next]_vars
FairSpec == Spec /\ Fairness

----------------------------------------------------------------------------
(* Properties *)

\* A symbol whose membership was stored when the request began is not reported
\* as missing, although another request, whose scan did not see the symbol,
\* may have marked it since.  Unless no rows are wanted: an answer to
\* limit_per_symbol = 0 calls every symbol missing.
NothingHidden ==
    \A c \in Clients : request[c].limit > 0 =>
        request[c].absent \cap request[c].floor = {}

\* What a request's own scan has found is in its answer, whatever was written
\* in between; and an answer made upstream is called ok only if it is complete.
\* Again unless no rows are wanted: then a complete scan is answered as ok with
\* every symbol missing.
ScanIsAnswered ==
    \A c \in Clients : request[c].pc = "done" /\ request[c].limit > 0 =>
        /\ request[c].absent \cap Covered(request[c]) = {}
        /\ request[c].source = "upstream" /\ request[c].status = "ok" =>
              request[c].absent = {}

\* An ok answer from the tables calls a symbol missing only if it is in no board
\* that every request scans: a scan that failed does not turn into a lasting
\* empty success.
MissIsReal ==
    \A c \in Clients : request[c].source = "cache" =>
        \A b \in (IF Wide = {TRUE} THEN Boards ELSE Seeds) :
            request[c].absent \cap Members[b] = {}

\* The same as long as provider calls fail only by timeouts: wherever the calls
\* of a request are cut off, and whichever other requests write in between, no
\* symbol is left marked that a scan would have found.
TimeoutsLeaveNoMark == broken = {} => MissIsReal

\* Every request is answered or fails.
RequestsEnd ==
    \A c \in Clients :
        request[c].pc \notin {"idle", "done"} ~> request[c].pc \in {"idle", "done"}
============================================================================
