----------------------------- MODULE MCSpending -----------------------------
(***************************************************************************)
(* Instances of Spending for TLC.                                          *)
(***************************************************************************)
EXTENDS Spending, TLC

\* Sessions deleted and databases lost or made again.
Deleting == [events |-> 3, calls |-> 0, entries |-> 2, resets |-> 1, crashes |-> 2]
\* Calls outside sessions, so that the journal has an entry behind one that a database made
\* again does not have; and one call with a power failure.
Skipping == [events |-> 1, calls |-> 2, entries |-> 2, resets |-> 1, crashes |-> 0]
Losing == [Skipping EXCEPT !.calls = 1, !.crashes = 1]
Scenes == {Deleting, Skipping, Losing}

Asking == Permutations(Queries)
=============================================================================
