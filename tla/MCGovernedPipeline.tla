-------------------------- MODULE MCGovernedPipeline --------------------------
(* Instances of GovernedPipeline for TLC.                                  *)
EXTENDS GovernedPipeline

Max(tokens, steps, toolCalls) ==
  [f \in BudgetField |-> CASE f = "tokens"    -> tokens
                           [] f = "steps"     -> steps
                           [] f = "toolCalls" -> toolCalls
                           [] OTHER           -> 1]

Hard(tokens, steps, toolCalls) ==
  [max |-> Max(tokens, steps, toolCalls), enforcement |-> "hard"]

(* Two calls take 13 steps: each length stops the run at another statement.*)
MCPolicies ==
  {Hard(9, steps, 3) : steps \in 1 .. 14}
    \cup {Hard(tokens, 20, 3) : tokens \in {3, 6}}
    \cup {Hard(9, 20, toolCalls) : toolCalls \in 0 .. 2}
    \cup {[max |-> Max(2, 2, 1), enforcement |-> "soft"],
          [max |-> Max(2, 2, 1), enforcement |-> "warn"]}

(* Enough for every run to finish, and one policy with a tight tool budget.*)
MCFewPolicies == {Hard(9, 20, 3), Hard(9, 20, 1), Hard(9, 7, 3)}

(* A step budget that runs out somewhere on the way to the first tool.     *)
MCStepLimits == {Hard(9, steps, 3) : steps \in 1 .. 7}
=============================================================================
