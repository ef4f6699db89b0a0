----------------------------- MODULE MCGateway -----------------------------
(* Instances of Gateway for TLC. *)
EXTENDS Gateway

CONSTANTS a, b

\* Two reports of the first date, with other stocks, and one of the second.
SomeReports ==
    {[date |-> 1, stocks |-> {a}], [date |-> 1, stocks |-> {b}],
     [date |-> 2, stocks |-> {a, b}]}

\* Feeds 1 and 2 publish item 1 and item 2; source 3 is asked with two queries,
\* and publishes items 3 and 4 with one URL; source 4 has nothing.  One request
\* of each kind wants no rows.
ItemIds    == [i \in Items |-> i]
Urls       == [i \in Items |-> IF i = 4 THEN 3 ELSE i]
Publishers == [i \in Items |-> IF i = 4 THEN 3 ELSE i]

SomeKeys ==
    {[route |-> OfficialSources, query |-> 0, limit |-> 1, sources |-> {1}],
     [route |-> IndustryMedia, query |-> 0, limit |-> 2, sources |-> {1, 2}],
     [route |-> OpenNewsIndex, query |-> 1, limit |-> 2, sources |-> {3}],
     [route |-> OpenNewsIndex, query |-> 2, limit |-> 1, sources |-> {3}],
     [route |-> SocialHeat, query |-> 1, limit |-> 1, sources |-> {4}],
     [route |-> OfficialSources, query |-> 0, limit |-> 0, sources |-> {1, 2}],
     [route |-> OpenNewsIndex, query |-> 1, limit |-> 0, sources |-> {3}]}
=============================================================================
