----------------------------- MODULE MCSession -----------------------------
(***************************************************************************)
(* Small instances of Session: the scenes the configurations choose from.  *)
(***************************************************************************)
EXTENDS Session

Say == [op |-> "send", urgent |-> FALSE]
Shout == [op |-> "send", urgent |-> TRUE]
Stop(queued) == [op |-> "interrupt", queued |-> queued]
Allow == [op |-> "approve", allow |-> TRUE]
Deny == [op |-> "approve", allow |-> FALSE]
AnswerIt == [op |-> "answer"]
ReadOnly(on) == [op |-> "permission", change |-> [readOnly |-> on]]
Level(level) == [op |-> "permission", change |-> [level |-> level]]

Workspace == [level |-> "workspace", readOnly |-> FALSE]
Reading == [level |-> "workspace", readOnly |-> TRUE]

\* Requests: said something, called tools, broke off after some text or before
\* anything, said nothing at all, failed for good.
Ended(sent, text, calls, error) ==
  [sent |-> sent, text |-> text, calls |-> calls, error |-> error]
Text == Ended(TRUE, TRUE, << >>, "none")
Tools(calls) == Ended(TRUE, FALSE, calls, "none")
CutOff == Ended(TRUE, TRUE, <<"read">>, "retry")
Unsent == Ended(FALSE, FALSE, << >>, "none")
Broken == Ended(FALSE, FALSE, << >>, "fatal")

Policy(steps, attended) == [stepLimit |-> steps, resumes |-> 1, attended |-> attended]

Plain ==
  [ script |-> [m1 |-> Say, m2 |-> Say], policy |-> Policy(2, TRUE),
    endings |-> {Text}, halves |-> {Unsent}, verdicts |-> {"allow"},
    injects |-> {FALSE}, asks |-> FALSE, early |-> FALSE,
    maxSends |-> 1, maxCrashes |-> 0, maxRestarts |-> 0 ]

\* Approvals and urgent messages around a step with a read and a write.
Approving ==
  [Plain EXCEPT !.script = [m1 |-> Say, m2 |-> Shout, ok |-> Allow],
                !.endings = {Text, Tools(<<"read", "write">>)},
                !.verdicts = {"allow", "ask"}, !.early = TRUE]

\* Questions of a running tool, answered, voided by a message or interrupted.
Questioning ==
  [Plain EXCEPT !.script = [m1 |-> Say, m2 |-> Say, re |-> AnswerIt, stop |-> Stop("send")],
                !.endings = {Text, Tools(<<"execute">>)}, !.asks = TRUE]

\* Permissions changed under waiting and approved calls.
Permitting ==
  [Plain EXCEPT !.script = [m1 |-> Say, lock |-> ReadOnly(TRUE),
                            free |-> ReadOnly(FALSE), ok |-> Allow, no |-> Deny],
                !.endings = {Text, Tools(<<"execute", "write">>)},
                !.verdicts = {"allow", "askWrite"}, !.early = TRUE]

\* Interruptions of every kind, with messages queued.
Interrupting ==
  [Plain EXCEPT !.script = [m1 |-> Say, m2 |-> Say, send |-> Stop("send"),
                            keep |-> Stop("keep"), return |-> Stop("return")],
                !.endings = {Text, Tools(<<"write">>)},
                !.halves = {Unsent, Tools(<<"write">>)}]

\* Requests that break off, are tried again, give up, call unknown tools.
Retrying ==
  [Plain EXCEPT !.endings = {Text, CutOff, Broken, Tools(<<"bad", "read">>)},
                !.injects = {TRUE, FALSE}]

\* Commands sent again around crashes.
Crashing ==
  [Plain EXCEPT !.script = [m1 |-> Say, m2 |-> Shout, ok |-> Allow],
                !.policy = Policy(1, TRUE),
                !.endings = {Text, Tools(<<"write">>)}, !.verdicts = {"ask"},
                !.early = TRUE, !.maxSends = 2, !.maxCrashes = 2]

\* Planned restarts, crashes among them.
Restarting ==
  [Plain EXCEPT !.script = [m1 |-> Say, m2 |-> Say, stop |-> Stop("send")],
                !.policy = Policy(1, TRUE),
                !.endings = {Text, Tools(<<"write">>)}, !.halves = {Tools(<<"write">>)},
                !.maxCrashes = 1, !.maxRestarts = 2]

\* Each command sent again, one more of them than the session remembers: an id is pushed
\* out by the three others, and its command takes effect again.
Forgetting ==
  [Plain EXCEPT !.script = [m1 |-> Say, m2 |-> Say, stop |-> Stop("send"),
                            lock |-> ReadOnly(TRUE)],
                !.policy = Policy(1, TRUE), !.maxSends = 2]

\* Everything that keeps a turn going, with nobody there to answer.
Alone ==
  [Plain EXCEPT !.policy = Policy(2, FALSE),
                !.endings = {Text, Unsent, Tools(<<"write">>)},
                !.verdicts = {"allow", "ask", "deny"}, !.asks = TRUE]

Stops ==
  [interrupting |-> Interrupting, retrying |-> Retrying, alone |-> Alone,
   approving |-> Approving, questioning |-> Questioning, permitting |-> Permitting]
Failures == [crashing |-> Crashing, restarting |-> Restarting, forgetting |-> Forgetting]
=============================================================================
