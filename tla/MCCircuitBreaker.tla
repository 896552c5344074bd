--------------------------- MODULE MCCircuitBreaker ---------------------------
(* Instances of CircuitBreaker for TLC.                                    *)
EXTENDS CircuitBreaker

Budget(tokens, enforcement) ==
  [max |-> [f \in BudgetField |-> IF f = "tokens" THEN tokens ELSE 3],
   enforcement |-> enforcement]

(* No allowance, allowances below and above the length limit, no budget.   *)
MCPolicies ==
  {Budget(tokens, "hard") : tokens \in 0 .. 8}
    \cup {Budget(tokens, mode) : tokens \in {0, 2, 5}, mode \in {"soft", "warn"}}
=============================================================================
