----------------------------- MODULE PolicyOracle -----------------------------
(***************************************************************************)
(* What a run may rely on when it asks a policy engine elsewhere: every    *)
(* question is answered at most once, with a decision of rules that were   *)
(* in force between the question and the answer, or, when those cannot be  *)
(* had in time, with a substitute that does not depend on them.  A question*)
(* that was abandoned gets nothing but the substitute.                     *)
(***************************************************************************)
EXTENDS Integers

CONSTANTS Questions,    \* what may be asked
          Decides,      \* of each version of the rules and question, the decision
          Decisions     \* what counts as one

VARIABLES version,      \* of the rules in force
          since,        \* of each question, the version it was asked under, 0 if not asked
          answer,       \* of each question, or "none"
          abandoned,    \* the questions whose substitute is being waited for
          substitute    \* of each question, the answer without the rules

ovars == <<version, since, answer, abandoned, substitute>>

OInit ==
  /\ version = 1
  /\ since = [q \in Questions |-> 0]
  /\ answer = [q \in Questions |-> "none"]
  /\ abandoned = {}

Replace == version' = version + 1 /\ UNCHANGED <<since, answer, abandoned, substitute>>

Question(asked) ==
  /\ \A q \in asked : since[q] = 0
  /\ since' = [q \in Questions |-> IF q \in asked THEN version ELSE since[q]]
  /\ UNCHANGED <<version, answer, abandoned, substitute>>

ByTheRules(q, a) ==
  a \in Decisions /\ \E v \in since[q] .. version : a = Decides[v][q]

(* The rules are not waited for any longer, but the substitute is.         *)
GiveUp(q) ==
  /\ since[q] # 0 /\ answer[q] = "none"
  /\ abandoned' = abandoned \cup {q}
  /\ UNCHANGED <<version, since, answer, substitute>>

Reply(q) ==
  /\ since[q] # 0 /\ answer[q] = "none"
  /\ \E a \in Decisions \cup {substitute[q]} :
       /\ (q \notin abandoned /\ ByTheRules(q, a)) \/ a = substitute[q]
       /\ answer' = [answer EXCEPT ![q] = a]
  /\ abandoned' = abandoned \ {q}
  /\ UNCHANGED <<version, since, substitute>>

ONext ==
  \/ Replace
  \/ \E asked \in SUBSET Questions : Question(asked)
  \/ \E q \in Questions : GiveUp(q) \/ Reply(q)

OSpec == OInit /\ [][ONext]_ovars
=============================================================================
