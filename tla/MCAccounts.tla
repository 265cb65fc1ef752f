----------------------------- MODULE MCAccounts -----------------------------
EXTENDS Accounts
CONSTANTS u1, u2, junk, e1, e2

File(e, lines) == [event |-> e, lines |-> lines]
MCFiles == {File(e1, <<{u1, u2}>>), File(e1, <<{u1}, {junk}, {u2, junk}>>),
            File(e2, <<{u1}>>)}
None == [u \in Uses |-> 0]
MCBudgets == {
  [None EXCEPT !["upload"] = 2],
  [None EXCEPT !["upload"] = 1, !["slow"] = 1, !["death"] = 1],
  [None EXCEPT !["upload"] = 1, !["fault"] = 1, !["link"] = 1, !["redeem"] = 1],
  [None EXCEPT !["upload"] = 1, !["create"] = 2, !["update"] = 1] }
=============================================================================
