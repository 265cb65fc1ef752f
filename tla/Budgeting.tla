----------------------------- MODULE Budgeting -----------------------------
\* What users, operators and failures do to the components that share this
\* module is counted, so that TLC has an end: a behaviour is given one of the
\* budgets, and what that budget does not name never happens in it.
EXTENDS Naturals

CONSTANT Budgets  \* bounds: how often each thing from outside may happen
VARIABLE left     \* what this behaviour has not spent yet

ASSUME BudgetingAssumption ==
  \A b \in Budgets : \A use \in DOMAIN b : b[use] \in Nat

\* One more of these things happens, as long as the budget has it.
Spend(use) ==
  /\ use \in DOMAIN left /\ left[use] > 0
  /\ left' = [left EXCEPT ![use] = @ - 1]
=============================================================================
