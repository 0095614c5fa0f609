----------------------------- MODULE MCChangeSets -----------------------------
(***************************************************************************)
(* Two writing tasks over two files, one of which both may write.          *)
(***************************************************************************)
EXTENDS ChangeSets, TLC

CONSTANTS x, y, a, b

\* A task whose change set has two files, and one that competes for the second.
Scopes == (x :> {1, 2}) @@ (y :> {2})

\* One file there, one to be added.
Base == {(1 :> a) @@ (2 :> Absent)}
=============================================================================
