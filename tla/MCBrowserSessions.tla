------------------------- MODULE MCBrowserSessions -------------------------
\* BrowserSessions for TLC: tabs, requests and sign-ins are interchangeable.
EXTENDS BrowserSessions, TLC

Symmetry == Permutations(Tabs) \cup Permutations(Calls) \cup Permutations(Families)

\* Bound: the third token, or the second upset, but not both in one behaviour.
FewTokensOrUpsets == Len(row) + upsets <= 4
=============================================================================
