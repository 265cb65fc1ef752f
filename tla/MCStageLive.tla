----------------------------- MODULE MCStageLive -----------------------------
EXTENDS StageLive, TLC
CONSTANTS r1, r2, s1, s2, e1, e10

MCFor == (r1 :> s1) @@ (r2 :> s1)
MCEventOf == (s1 :> e1) @@ (s2 :> e10)
\* The pattern of event 1 matches event 10 as well.
MCNamesakes == (e1 :> {e1, e10}) @@ (e10 :> {e10})

\* What a budget does not name happens never.
Only(stages, bounds) ==
  [u \in Uses \cup {"fault", "stages"} |->
    IF u = "stages" THEN stages ELSE IF u \in DOMAIN bounds THEN bounds[u] ELSE 0]
MCBudgets == {
  Only({s1}, [setup |-> 2, preview |-> 1, teardown |-> 1, fault |-> 1]),
  Only({s1}, [start |-> 2, finish |-> 2, death |-> 1]),
  Only({s1}, [setup |-> 1, preview |-> 1, destroy |-> 1, slow |-> 1, death |-> 1]),
  Only({s1}, [setup |-> 1, update |-> 1, preview |-> 1]),
  Only({s1, s2}, [update |-> 2]) }
=============================================================================
