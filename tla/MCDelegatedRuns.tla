--------------------------- MODULE MCDelegatedRuns ---------------------------
(* Instances of DelegatedRuns for TLC.                                     *)
EXTENDS DelegatedRuns

Policy(tokens, steps, toolCalls, enforcement) ==
  [max |-> [f \in BudgetField |-> CASE f = "tokens"    -> tokens
                                    [] f = "steps"     -> steps
                                    [] f = "toolCalls" -> toolCalls
                                    [] OTHER           -> 1],
   enforcement |-> enforcement]

(* A chat run with two calls takes 14 steps; two plans of two calls of a   *)
(* coder run take 27, and 4 tool calls.  Each length stops a run at        *)
(* another statement.                                                      *)
MCPolicies ==
  {Policy(12, steps, 5, "hard") : steps \in 1 .. 28}
    \cup {Policy(tokens, 30, toolCalls, "hard") : tokens \in {4, 6, 8}, toolCalls \in 0 .. 5}
    \cup {Policy(2, 2, 1, enforcement) : enforcement \in {"soft", "warn"}}
=============================================================================
