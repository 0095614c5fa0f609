---------------------------- MODULE MCDelegation ----------------------------
(***************************************************************************)
(* Three calls, the last of which asks for what the first asked for, over  *)
(* a catalog of five models.                                               *)
(***************************************************************************)
EXTENDS Delegation, TLC

Call(decodes, fp, pin, fixed, limit) ==
  [decodes |-> decodes, fp |-> fp, pin |-> pin, fixed |-> fixed, limit |-> limit]

\* A call that is routed, one whose profile is pinned to the strongest model, and the
\* first again.
Calls == (1 :> Call(TRUE, "a", Unknown, FALSE, Unknown))
      @@ (2 :> Call(TRUE, "b", 2, TRUE, 20))
      @@ (3 :> Call(TRUE, "a", Unknown, FALSE, Unknown))

Model(key, fit, cost, context) ==
  [key |-> key, configured |-> TRUE, healthy |-> TRUE, enabled |-> TRUE, auto |-> TRUE,
   tools |-> "yes", context |-> context, fit |-> fit, reliability |-> 50, latency |-> 10,
   cost |-> cost]

\* A cheap model, a dear one that is stronger, one of equal strength, one that
\* automatic routing leaves alone and one without a price.
Catalog == {Model(1, 70, 2, 100), Model(2, 90, 5, 100), Model(3, 70, 3, 100),
            [Model(4, 95, 1, 100) EXCEPT !.auto = FALSE], Model(5, 95, Unknown, 100)}
=============================================================================
