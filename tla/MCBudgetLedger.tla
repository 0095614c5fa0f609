--------------------------- MODULE MCBudgetLedger ---------------------------
(***************************************************************************)
(* One run of two tasks: the first may have two attempts, the second is    *)
(* limited to less than the run, and one batch can retain an allowance.    *)
(***************************************************************************)
EXTENDS BudgetLedger

CONSTANTS lead, try, retry, other, t, u

MCTaskOf == [r \in Resv |-> CASE r = lead -> NoTask [] r = other -> u [] OTHER -> t]
MCTaskLimit == [x \in Task |-> IF x = t THEN 3 ELSE NoLimit]
=============================================================================
