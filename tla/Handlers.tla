------------------------------ MODULE Handlers ------------------------------
(***************************************************************************)
(* The kernel's handlers: what it does with the end of a request, with     *)
(* what tools send back, with the commands of a person, with a planned     *)
(* restart, and how it loads a session from its log.                       *)
(*                                                                         *)
(* Source: crates/miyu-kernel/src/session/call.rs, retry.rs, tools.rs,     *)
(* approval.rs, question.rs, send.rs, permission.rs, interrupt.rs,         *)
(* restart.rs and load.rs.                                                 *)
(***************************************************************************)
EXTENDS Kernel

----------------------------------------------------------------------------
(***************************************************************************)
(* The model.  How a request ends: sent (it left), text (something besides *)
(* calls was received), calls (the access of each complete call), error    *)
(* ("none", "retry" or "fatal").  An interruption cuts it off instead.     *)
(***************************************************************************)
NumberedCalls(reply, calls) ==
  [i \in DOMAIN calls |->
     [id |-> <<reply, i>>, access |-> calls[i], state |-> "waiting", at |-> 0,
      asksWrite |-> FALSE]]

\* Session::settle: the reply if there is one, then always a model.called.  A
\* failed reply keeps no calls; an empty one is an error of its own.
Settle(s, seen, cause, ending, cut) ==
  LET failed == ending.error # "none"
      kept == IF ending.sent /\ (cut \/ ~failed) THEN ending.calls ELSE << >>
      replied == ending.sent /\ (ending.text \/ kept # << >>)
      error == IF ~cut /\ ~failed /\ ~replied THEN "retry" ELSE ending.error
      calls == NumberedCalls(s.book.next, kept)
      put == IF replied
               THEN Put(s, cause, [k |-> "message.assistant", seen |-> seen,
                                   calls |-> [i \in DOMAIN calls |-> calls[i].id]])
               ELSE s
  IN  [ s |-> Put(put, cause, [k |-> "model.called", seen |-> seen, aside |-> FALSE,
                               result |-> IF cut THEN "interrupted"
                                          ELSE IF error = "none" THEN "ok" ELSE "error"]),
        reply |-> IF replied THEN s.book.next ELSE 0,
        calls |-> calls,
        error |-> error ]

\* Session::wait_to_retry: the request is made again later; what a reply that broke
\* off has said stays, with a note that it was cut.
WaitToRetry(s, seen, cause, cut) ==
  LET put == IF cut THEN Put(s, cause, [k |-> "context.injected", fact |-> "cut"])
                    ELSE s
  IN  Do([put EXCEPT !.turn.retries = @ + 1, !.turn.retrying = TRUE,
                     !.turn.stage = "waiting", !.turn.mark = seen],
         {[a |-> "Wake", seen |-> seen]})

ModelEnded(s, seen, ending) ==
  IF s.turn.stage # "asking" \/ s.turn.mark # seen THEN s
    ELSE LET cause == s.turn.cause
             taken == [s EXCEPT !.turn.stage = "settling", !.turn.mark = 0]
             settled == Settle(taken, seen, cause, ending, FALSE)
             calm == [settled.s EXCEPT !.turn.retries = 0]
         IN  IF settled.error = "retry" /\ s.turn.retries < RetryLimit
               THEN WaitToRetry(settled.s, seen, cause, settled.reply # 0)
             ELSE IF settled.error # "none"
               THEN FinishTurn(settled.s, cause, "error")
             ELSE IF settled.calls # << >>
               THEN StartTools(calm, settled.reply, settled.calls, cause)
             ELSE FinishTurn(calm, cause, "completed")

----------------------------------------------------------------------------
(***************************************************************************)
(* Interrupting.                                                           *)
(***************************************************************************)
\* Wrong: the messages to keep open the next turn.
CloseAndSend(s, cause, queued) ==
  FinishTurn(IF queued = "return" THEN WithdrawQueued(s, cause) ELSE s,
             cause, "interrupted")

\* Wrong: the messages to send are kept.
CloseAndKeep(s, cause, queued) ==
  FinishTurn(IF queued = "return" THEN WithdrawQueued(s, cause)
             ELSE [s EXCEPT !.turn.queued = << >>], cause, "interrupted")

CloseInterrupted(s, cause, queued) ==
  LET left == CASE queued = "return" -> WithdrawQueued(s, cause)
                [] queued = "keep"   -> [s EXCEPT !.turn.queued = << >>]
                [] queued = "send"   -> s
  IN  FinishTurn(left, cause, "interrupted")

\* Wrong: a running call is said not to have run.
CutReasonBefore(c) == IF c.state = "questioning" THEN "interrupted" ELSE "before"

CutReason(c) ==
  CASE c.state = "questioning" -> "interrupted"
    [] c.state \in {"running", "answered"} -> "running"
    [] OTHER -> "before"

\* Running writes are asked to stop and stay without a result; everything else
\* gets its result now.
CancelStep(s, cause) ==
  LET calls == s.turn.calls
      stopping(c) == c.state = "stopping" \/ (c.state = "running" /\ c.access = "write")
      left == {i \in DOMAIN calls : calls[i].state # "done" /\ ~stopping(calls[i])}
      marked == [s EXCEPT !.turn.calls =
                   [i \in DOMAIN calls |->
                      [calls[i] EXCEPT !.state = IF stopping(calls[i]) THEN "stopping"
                                                 ELSE "done"]]]
  IN  Do(PutEach(marked, cause,
           Picked([i \in DOMAIN calls |-> Result(calls[i].id, CutReason(calls[i]))], left)),
         {[a |-> "StopTool", call |-> calls[i].id] :
            i \in {j \in DOMAIN calls : calls[j].state = "running"
                                         /\ stopping(calls[j])}}
           \union {[a |-> "CancelTool", call |-> calls[i].id] :
            i \in {j \in DOMAIN calls : Executing(calls[j])
                                         /\ ~stopping(calls[j])}})

\* Wrong: looks for calls that still run.
StillRunning(s) ==
  Picked(s.turn.calls, {i \in DOMAIN s.turn.calls : s.turn.calls[i].state = "running"})

StillStopping(s) ==
  Picked(s.turn.calls, {i \in DOMAIN s.turn.calls : s.turn.calls[i].state = "stopping"})

\* Not waiting any longer for the stopping calls; the state before is returned
\* unchanged when nothing is stopping.
ForceStop(s, cause, queued) ==
  LET left == StillStopping(s)
      settled == PutEach([s EXCEPT !.turn.intr = NotInterrupting,
                                   !.turn.stage = "settling", !.turn.calls = << >>],
                   cause, [i \in DOMAIN left |-> Result(left[i].id, "running")])
  IN  IF s.turn.intr.wake = 0 THEN s
        ELSE Do(CloseInterrupted(settled, cause, queued),
                {[a |-> "CancelTool", call |-> left[i].id] : i \in DOMAIN left})

\* Wrong: an interruption that still waits is forgotten.
ForceNothing(s) == [s EXCEPT !.turn.intr = NotInterrupting]

ForceStopAsBefore(s) == ForceStop(s, s.turn.intr.cause, s.turn.intr.queued)

\* Wrong: asks to be woken under another name.
WaitUnderOtherName(s0, s, id, queued) ==
  LET waiting == [s EXCEPT !.turn.intr =
                    [cause |-> id, queued |-> queued, wake |-> s.turn.mark]]
      events == Since(s0, s)
  IN  Do(IF events = << >> THEN AcceptEmpty(waiting, id)
                           ELSE Accept(waiting, id, events),
         {[a |-> "Wake", seen |-> s.stored]})

\* Stopping calls are left: remember who interrupted and wait a while for them.
\* s0 is the state before the command.
WaitForStopping(s0, s, id, queued) ==
  LET waiting == [s EXCEPT !.turn.intr =
                    [cause |-> id, queued |-> queued, wake |-> s.turn.mark]]
      events == Since(s0, s)
  IN  Do(IF events = << >> THEN AcceptEmpty(waiting, id)
                           ELSE Accept(waiting, id, events),
         {[a |-> "Wake", seen |-> s.turn.mark]})

\* Command::Interrupt; received is what a request on its way had brought so far.
Interrupt(s, id, queued, received) ==
  LET accepted(t) == Accept(t, id, Since(s, t))
      taken == [s EXCEPT !.turn.stage = "settling", !.turn.calls = << >>]
      cut == Settle(taken, s.turn.mark, s.turn.cause, received, TRUE)
      cancelled == PutEach(cut.s, id,
                     [i \in DOMAIN cut.calls |-> Result(cut.calls[i].id, "before")])
      step == CancelStep(s, id)
      stopping == \E i \in DOMAIN step.turn.calls :
                    step.turn.calls[i].state = "stopping"
  IN  IF Idle(s) THEN Reject(s, id)
      ELSE IF s.turn.intr.wake # 0 THEN accepted(ForceStop(s, id, queued))
      ELSE IF s.turn.stage = "asking"
        THEN Do(accepted(CloseInterrupted(cancelled, id, queued)),
                {[a |-> "CancelModel", seen |-> s.turn.mark]})
      ELSE IF s.turn.stage = "tools"
        THEN IF stopping THEN WaitForStopping(s, step, id, queued)
             ELSE accepted(CloseInterrupted(step, id, queued))
      ELSE accepted(CloseInterrupted(taken, id, queued))

----------------------------------------------------------------------------
(***************************************************************************)
(* Time.                                                                   *)
(***************************************************************************)
\* Input::Woke: an interruption has waited long enough, or a retry is due.
Woke(s, seen) ==
  IF s.turn.intr.wake # 0 /\ s.turn.intr.wake = seen THEN ForceStopAsBefore(s)
  ELSE IF s.turn.stage = "waiting" /\ s.turn.mark = seen
    THEN Advance(RefreshFacts([s EXCEPT !.turn.stage = "ready", !.turn.mark = 0]))
  ELSE s

----------------------------------------------------------------------------
(***************************************************************************)
(* What tools send back.                                                   *)
(***************************************************************************)
\* A stopping call has come back; the last one closes the turn.
StoppedDone(s, call, stopped) ==
  LET intr == s.turn.intr
      at == At(s, call, {"stopping"})
      i == CHOOSE i \in at : TRUE
      done == SetState(s, i, "done")
      put == IF stopped THEN Put(done, intr.cause, Result(call, "running"))
                        ELSE Put(done, s.turn.cause, Result(call, "done"))
      left == \E j \in DOMAIN done.turn.calls : done.turn.calls[j].state = "stopping"
  IN  IF at = {} THEN s
      ELSE IF left THEN put
      ELSE CloseInterrupted([put EXCEPT !.turn.intr = NotInterrupting,
                                        !.turn.stage = "settling",
                                        !.turn.calls = << >>],
                            intr.cause, intr.queued)

\* Input::ToolDone; stopped: it stopped before changing anything.
ToolDone(s, call, stopped) ==
  LET at == At(s, call, {"running", "questioning", "answered", "stopping"})
      i == CHOOSE i \in at : TRUE
      put == Put(SetState(s, i, "done"), s.turn.cause,
                 Result(call, IF stopped THEN "running" ELSE "done"))
  IN  IF s.turn.intr.wake # 0 THEN StoppedDone(s, call, stopped)
      ELSE IF at = {} THEN s
      ELSE Dispatch(IF Finished(put.turn.calls) THEN FinishStep(put, s.turn.cause)
                    ELSE put)

\* Wrong: asks although nobody is there.
RefusesOutright(s, verdict) ==
  verdict = "deny" \/ (verdict = "askWrite" /\ ReadOnlyNow(s))

\* What the chain wants to ask is refused when nobody can be asked, and a write
\* when nothing may be written.
Refuses(s, verdict) ==
  \/ verdict = "deny"
  \/ verdict \in {"ask", "askWrite"} /\ ~s.policy.attended
  \/ verdict = "askWrite" /\ ReadOnlyNow(s)

\* Input::ToolGuarded; the verdict is "allow", "deny", "ask" or "askWrite".
ToolGuarded(s, call, verdict) ==
  LET at == At(s, call, {"guarding"})
      i == CHOOSE i \in at : TRUE
      denied == Put(SetState(s, i, "done"), s.turn.cause, Result(call, "denied"))
      asking == Put([SetState(s, i, "asking") EXCEPT
                       !.turn.calls[i].asksWrite = (verdict = "askWrite")],
                    s.turn.cause, [k |-> "approval.requested", call |-> call])
  IN  IF at = {} THEN s
      ELSE IF verdict = "allow"
        THEN Do(SetState(s, i, "running"), {RunTool(s, s.turn.calls[i])})
      ELSE IF Refuses(s, verdict)
        THEN Dispatch(IF Finished(denied.turn.calls)
                        THEN FinishStep(denied, s.turn.cause) ELSE denied)
      ELSE Dispatch(asking)

\* Input::ToolAsks: a running tool asks a person something.
ToolAsks(s, call) ==
  LET at == At(s, call, {"running"})
      i == CHOOSE i \in at : TRUE
      skipped == Put(SetState(s, i, "done"), s.turn.cause, Result(call, "unanswered"))
      done == IF Finished(skipped.turn.calls) THEN FinishStep(skipped, s.turn.cause)
                                              ELSE skipped
  IN  IF at = {} THEN s
      ELSE IF s.policy.attended
        THEN Put(SetState(s, i, "questioning"), s.turn.cause,
                 [k |-> "question.asked", call |-> call])
      ELSE Dispatch(Do(done, {[a |-> "CancelTool", call |-> call]}))

----------------------------------------------------------------------------
(***************************************************************************)
(* The commands of a person.                                               *)
(***************************************************************************)
\* Whoever is waiting for a person is voided by a message.
VoidWaiting(s, cause) ==
  LET calls == s.turn.calls
      questioning == {i \in DOMAIN calls : calls[i].state = "questioning"}
      why == [i \in DOMAIN calls |-> IF i \in questioning THEN "voided" ELSE "skipped"]
  IN  Do(SettleCalls(s, {i \in DOMAIN calls : AwaitingPerson(calls[i])}, cause, why),
         {[a |-> "CancelTool", call |-> calls[i].id] :
            i \in {j \in questioning : s.turn.stage = "tools"}})

\* Urgent: calls that have not run are skipped, now and until the next request.
Interject(s, cause) ==
  IF Idle(s) THEN s
    ELSE LET calls == s.turn.calls
         IN  SettleCalls([s EXCEPT !.turn.interjected = cause],
                         {i \in DOMAIN calls : NotRun(calls[i])}, cause,
                         [i \in DOMAIN calls |-> "skipped"])

Send(s, id, urgent) ==
  LET seq == s.book.next
      put == Accept(Put(s, id, [k |-> "message.user", ambient |-> FALSE]), id, <<seq>>)
      queued == [put EXCEPT !.turn.queued = Append(@, [seq |-> seq, cause |-> id])]
      voided == VoidWaiting(queued, id)
  IN  IF Idle(s) THEN OpenTurn(put, seq, id)
      ELSE IF urgent THEN Interject(voided, id) ELSE voided

DenyWaitingWrites(s) ==
  LET calls == s.turn.calls
      waiting == {i \in DOMAIN calls : NotRun(calls[i]) /\ Writes(calls[i])}
  IN  IF ~ReadOnlyNow(s) THEN s
        ELSE SettleCalls(s, waiting, s.turn.cause, [i \in DOMAIN calls |-> "denied"])

TakeEffect(s, new) ==
  IF Rank(new) < Rank(s.eff) THEN DenyWaitingWrites([s EXCEPT !.eff = new]) ELSE s

\* Tighter takes effect at once, wider with the next request.
SetPermission(s, id, change) ==
  LET new == [f \in DOMAIN s.perm |-> IF f \in DOMAIN change THEN change[f] ELSE s.perm[f]]
      put == Accept(Put(s, id, [k |-> "policy.changed", perm |-> new]), id,
                    <<s.book.next>>)
      changed == [put EXCEPT !.perm = new, !.turn.refresh = ~Idle(s)]
      tighter == TakeEffect(changed, new)
  IN  IF new = s.perm THEN AcceptEmpty(s, id)
      ELSE IF tighter.turn.stage = "ready" THEN RefreshFacts(tighter) ELSE tighter

\* Command::Answer to an approval.
AnswerApproval(s, id, call, allow) ==
  LET at == At(s, call, {"asking"})
      i == CHOOSE i \in at : TRUE
      seq == s.book.next
      decided == Put(s, id, [k |-> "approval.decided", call |-> call])
      approved == [SetState(decided, i, "approved") EXCEPT !.turn.calls[i].at = seq]
      denied == Put(SetState(decided, i, "done"), id, Result(call, "denied"))
      after == IF allow THEN approved
               ELSE IF Finished(denied.turn.calls) THEN FinishStep(denied, s.turn.cause)
               ELSE denied
  IN  IF at = {} THEN Reject(s, id)
        ELSE Dispatch(Accept(after, id, Since(s, after)))

\* Command::Answer to a set of questions.
AnswerQuestion(s, id, call) ==
  LET at == At(s, call, {"questioning"})
      i == CHOOSE i \in at : TRUE
      seq == s.book.next
      put == Put(s, id, [k |-> "question.answered", call |-> call])
  IN  IF at = {} THEN Reject(s, id)
        ELSE Accept([SetState(put, i, "answered") EXCEPT !.turn.calls[i].at = seq],
                    id, <<seq>>)

\* Session::receive: an id accepted before is answered as before and does nothing.
Receive(s, id, op, call, received) ==
  LET known == {i \in DOMAIN s.recent : s.recent[i].id = id}
  IN  IF known # {}
        THEN ReplyWhenStored(s, id, s.recent[CHOOSE i \in known : TRUE].events)
      ELSE CASE op.op = "send"       -> Send(s, id, op.urgent)
             [] op.op = "interrupt"  -> Interrupt(s, id, op.queued, received)
             [] op.op = "permission" -> SetPermission(s, id, op.change)
             [] op.op = "approve"    -> AnswerApproval(s, id, call, op.allow)
             [] op.op = "answer"     -> AnswerQuestion(s, id, call)

----------------------------------------------------------------------------
(***************************************************************************)
(* Stopping on purpose, and loading.                                       *)
(***************************************************************************)
\* Input::Restarting: an interruption still waiting is closed as it stands, then
\* the running turn is wound up; what is queued does not open the next turn.
Restart(s, received) ==
  LET stopped == ForceStopAsBefore([s EXCEPT !.restarting = TRUE])
      turn == stopped.turn
      taken == [stopped EXCEPT !.turn.stage = "settling", !.turn.calls = << >>]
      undone == {i \in DOMAIN turn.calls : turn.calls[i].state # "done"}
      cut == Settle(taken, turn.mark, turn.cause, received, TRUE)
      asking == turn.stage = "asking"
      base == IF asking THEN cut.s ELSE taken
      unfinished == IF asking THEN cut.calls ELSE Picked(turn.calls, undone)
      settled == PutEach(base, turn.cause,
                   [i \in DOMAIN unfinished |-> Result(unfinished[i].id, "restarted")])
      stops == IF asking THEN {[a |-> "CancelModel", seen |-> turn.mark]}
               ELSE {[a |-> "CancelTool", call |-> turn.calls[i].id] :
                       i \in {j \in DOMAIN turn.calls : Executing(turn.calls[j])}}
  IN  IF Idle(stopped) THEN stopped
        ELSE Do(EndTurn(settled, turn.cause, "restarted"), stops)

\* Replay::note: the book, the turn that ended last, and how many turns in a row
\* a planned restart has ended.  A turn that resumes is triggered by the last
\* message queued when the one before ended, or by its end.
NotEnded == [seq |-> 0, reason |-> None, cause |-> None, trigger |-> 0]

ReplayEvent(r, e) ==
  [ book  |-> Record(r.book, e),
    ok    |-> r.ok /\ Legal(r.book, e),
    ended |-> IF e.k # "turn.ended" THEN r.ended
              ELSE [seq |-> e.seq, reason |-> e.reason, cause |-> e.cause,
                    trigger |-> IF r.book.queued = {} THEN e.seq
                                                      ELSE Max(r.book.queued)],
    restarts |->
      CASE e.k = "turn.started" ->
             IF r.ended.reason = "restarted" /\ r.ended.trigger = e.trigger
               THEN r.restarts ELSE 0
        [] e.k = "turn.ended" -> IF e.reason = "restarted" THEN r.restarts + 1 ELSE 0
        [] OTHER -> r.restarts ]

Replay(log) ==
  FoldLeft(ReplayEvent,
           [book |-> EmptyBook, ok |-> TRUE, ended |-> NotEnded, restarts |-> 0], log)

\* What the log says a command did: its events up to the first turn it opened.
EventsOf(log, id) ==
  LET own == Picked([i \in DOMAIN log |-> i], {i \in DOMAIN log : log[i].cause = id})
      opens == {n \in DOMAIN own : log[own[n]].k = "turn.started"}
  IN  IF opens = {} THEN own
        ELSE SubSeq(own, 1, IF Min(opens) = 1 THEN 1 ELSE Min(opens) - 1)

\* Wrong: nothing is remembered.
RecentForgotten(log) == << >>

\* The recent ids again, in the order they first appear.
RecentOf(log) ==
  LET first == {i \in DOMAIN log : /\ log[i].cause # None
                                   /\ \A j \in 1..(i - 1) : log[j].cause # log[i].cause}
  IN  FoldLeft(LAMBDA recent, id : Remember(recent, id, EventsOf(log, id)), << >>,
               Picked([i \in DOMAIN log |-> log[i].cause], first))

\* The permission of session.created, overridden by the last change.
PermissionOf(log) ==
  log[Max({i \in DOMAIN log : log[i].k \in {"session.created", "policy.changed"}})].perm

\* Wrong: calls without a result stay without one.
NothingUnresolved(s) == << >>

\* Calls without a result, in their order (Ledger::pending_calls); they are all of the
\* latest reply.
Unresolved(s) ==
  LET calls == IF s.book.pending = {} THEN << >> ELSE s.log[s.book.lastReply].calls
  IN  Picked(calls, {i \in DOMAIN calls : calls[i] \in s.book.pending})

\* Wrong: every restart takes the turn up again.
MayResumeAlways(s, replay) == replay.ended.reason = "restarted"

MayResume(s, replay) ==
  replay.ended.reason = "restarted" /\ replay.restarts <= s.policy.resumes

\* Session::recover: an unfinished turn is closed as aborted and nothing follows;
\* a turn that a planned restart ended is resumed, unless too many in a row were.
Recover(s, replay) ==
  LET start == s.book.open
      pending == Unresolved(s)
      cause == s.log[start].cause
      resumed == [s EXCEPT !.turn = NewTurn(start, cause, "settling", 0)]
      trigger == replay.ended.trigger
  IN  IF start # 0
        THEN EndTurn(PutEach(resumed, cause,
                       [i \in DOMAIN pending |-> Result(pending[i], "restarted")]),
                     cause, "aborted")
      ELSE IF MayResume(s, replay)
        THEN OpenTurn(s, trigger, IF trigger = replay.ended.seq
                                    THEN replay.ended.cause ELSE s.log[trigger].cause)
      ELSE s

\* Session::load.  A log the ledger refuses cannot be loaded.
Load(log, policy) ==
  LET replay == Replay(log)
      s == [ log |-> log, book |-> replay.book, stored |-> Len(log), turn |-> NoTurn,
             waiting |-> << >>, recent |-> RecentOf(log),
             policy |-> policy, perm |-> PermissionOf(log), eff |-> PermissionOf(log), closing |-> << >>,
             restarting |-> FALSE, refused |-> ~replay.ok,
             out |-> {}, replies |-> << >> ]
  IN  Recover(s, replay)
=============================================================================
