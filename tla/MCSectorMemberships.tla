------------------------ MODULE MCSectorMemberships ------------------------
(* Instances of SectorMemberships for TLC. *)
EXTENDS SectorMemberships

CONSTANTS a, b

\* One symbol in board 1, a seed, and one in board 2.
TwoBoards == [n \in Boards |-> IF n = 1 THEN {a} ELSE {b}]
============================================================================
