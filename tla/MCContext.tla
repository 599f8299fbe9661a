----------------------------- MODULE MCContext -----------------------------
(***************************************************************************)
(* Small instances of Context: scenes around a summary prepared in the     *)
(* background, each with its bounds.                                       *)
(***************************************************************************)
EXTENDS Context

Quiet ==
  [messages |-> 2, commands |-> 2, calls |-> 0, pressed |-> 2, faults |-> 0, crashes |-> 0]

\* Turns undone, brought back, cleared, compacted by hand and interrupted.
Undoing == [Quiet EXCEPT !.messages = 3]
\* The same with a tool: messages come and requests see less than they come after.
Working == [Quiet EXCEPT !.calls = 1]
\* Requests and summaries that fail, contexts too long, pauses.
Failing == [Quiet EXCEPT !.commands = 1, !.pressed = 3, !.faults = 2]
\* Compactions that come back too soon and pause, requests that would not fit then, with
\* and without a request that fails: of requests that cross a line there are more than
\* these behaviours can use up.
Pressing == [Quiet EXCEPT !.commands = 0, !.calls = 2, !.pressed = 12]
Pausing == [Pressing EXCEPT !.calls = 1, !.faults = 1]
\* The process ends in between.
Ending == [Quiet EXCEPT !.crashes = 1]

Scenes == {Undoing, Working, Failing, Pressing, Pausing, Ending}
=============================================================================
