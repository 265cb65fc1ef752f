--------------------------- MODULE MCLivePresence ---------------------------
EXTENDS LivePresence, TLC

CONSTANTS u1, a1

\* Viewers are alike, and so are the slots.
Alike == Permutations(Sockets \ Admins) \cup Permutations(Workers)

\* Somebody enters and leaves, or both enter, and a process may die.
SmallBudget == [message |-> 2, crash |-> 1]
=============================================================================
