----------------------------- MODULE MCSessions -----------------------------
(* Two tabs, two accounts, two names; sessions last one day and cookies two, *)
(* so that each of them ends while the other matters and while it does not.  *)
EXTENDS Sessions, TLC

CONSTANTS t1, t2, ann, bob, old, new, s1, s2

\* Accounts are symmetric, and so are tabs.
Alike == Permutations(Tabs) \cup Permutations(Users) \cup Permutations(SessionIds)
=============================================================================
