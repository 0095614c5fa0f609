-------------------------- MODULE MCCallAccounting --------------------------
(***************************************************************************)
(* The lead and one child, two requests each.  The requests are            *)
(* interchangeable.                                                        *)
(***************************************************************************)
EXTENDS CallAccounting, TLC

CONSTANTS lead, child, p, q

MCTaskOf == [r \in Resv |-> r]
MCTaskLimit == [x \in Task |-> NoLimit]

Requests == Permutations(Key)
=============================================================================
