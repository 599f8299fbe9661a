------------------------------ MODULE MCOutbox ------------------------------
(***************************************************************************)
(* Instances of Outbox for TLC.                                            *)
(***************************************************************************)
EXTENDS Outbox

CONSTANTS hello, more, bye

Words == {hello, more, bye}

Sentence(pieces, like, skip) == [pieces |-> pieces, like |-> like, skip |-> skip]

Short == Sentence(<<hello>>, {}, FALSE)
Long == Sentence(<<more, hello>>, {}, FALSE)
Skipping == Sentence(<<bye>>, {}, TRUE)

\* A sentence in two pieces and one that repeats its end, a reply skipped and one
\* after it.
Talk == {<<Long, Short>>, <<Skipping, Short>>}
Again == {<<Short, Short>>}
=============================================================================
