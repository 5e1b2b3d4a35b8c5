------------------------------ MODULE MCAdminPage ------------------------------
(* TLC instances of AdminPage. *)
EXTENDS AdminPage, TLC

\* What somebody else saves: a proxy disabled, with a date between two minutes.
SomeEntries == {[enabled |-> FALSE, expires |-> 1]}
\* What is typed: a date, in whole minutes, and none.
SomeDates == {2, Never}

Symmetric == Permutations(Calls) \cup Permutations(Proxies)
================================================================================
