--------------------------- MODULE MCIntermission ---------------------------
EXTENDS Intermission, TLC

\* Two starts, one of them finished by hand, and either a death or a
\* job that takes too long: with both, a start job may turn an intermission
\* on that no job will end.
SmallBudget == [start |-> 2, finish |-> 1, fault |-> 1]
=============================================================================
