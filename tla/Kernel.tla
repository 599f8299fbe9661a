------------------------------- MODULE Kernel -------------------------------
(***************************************************************************)
(* The session kernel: a state machine without I/O.  An input goes in, the *)
(* state changes, and actions come out for the executor to carry out.      *)
(* Here the state is a record s, every handler is an operator from s to    *)
(* the next s, the actions are collected in s.out and the answers to       *)
(* commands in s.replies.                                                  *)
(*                                                                         *)
(* Source: crates/miyu-kernel/src/session.rs and session/*.rs.  Left out:  *)
(* background jobs and their reports, other sessions, overheard messages,  *)
(* undo and redo, compaction, pictures, titles and recaps.                 *)
(***************************************************************************)
EXTENDS LedgerRules, FiniteSets

CONSTANTS
  RetryLimit,   \* RETRY_LIMIT: retries in one step
  Capacity      \* recent::CAPACITY: command ids remembered

ASSUME KernelLimits == RetryLimit \in Nat /\ Capacity \in Nat \ {0}

\* What the configuration says: requests in one turn, turns resumed in a row after
\* restarts, and whether somebody is there to approve and answer.
Policies == [stepLimit : Nat \ {0}, resumes : Nat, attended : BOOLEAN]

None == "none"    \* no command id

\* How wide a permission is; the read-only switch wins over the level.
Rank(p) == IF p.readOnly THEN 0 ELSE IF p.level = "workspace" THEN 1 ELSE 2

NotInterrupting == [cause |-> None, queued |-> "send", wake |-> 0]

\* A turn that has just been opened; stage and mark say how far it has come:
\*   opening(last event of its first batch), hooking, ready, asking(seen),
\*   waiting(request that failed), settling, tools(the reply).
NewTurn(id, cause, stage, mark) ==
  [ id |-> id, cause |-> cause, stage |-> stage, mark |-> mark,
    requests |-> 0, retries |-> 0, retrying |-> FALSE,
    interjected |-> None, queued |-> << >>, refresh |-> FALSE,
    calls |-> << >>, intr |-> NotInterrupting ]

NoTurn == NewTurn(0, None, "idle", 0)

Idle(s) == s.turn.id = 0

----------------------------------------------------------------------------
(***************************************************************************)
(* Recording events and answering commands.                                *)
(***************************************************************************)
\* Of a sequence, the elements at some positions.
Picked(seq, at) ==
  LET picked[n \in 0..Len(seq)] ==
        IF n = 0 THEN << >>
        ELSE IF n \in at THEN Append(picked[n - 1], seq[n]) ELSE picked[n - 1]
  IN  picked[Len(seq)]

\* A body with what every event carries.
Event(seq, turn, cause, body) ==
  [f \in {"seq", "turn", "cause"} \union DOMAIN body |->
     IF f = "seq" THEN seq ELSE IF f = "turn" THEN turn
     ELSE IF f = "cause" THEN cause ELSE body[f]]

\* An event the ledger refuses would panic the program: refused remembers it.
Commit(s, turn, cause, body) ==
  LET e == Event(s.book.next, turn, cause, body)
  IN  IF Legal(s.book, e)
        THEN [s EXCEPT !.log = Append(@, e), !.book = Record(@, e)]
        ELSE [s EXCEPT !.refused = TRUE]

Put(s, cause, body) ==
  Commit(s, IF body.k = "turn.started" THEN s.book.next ELSE s.turn.id,
         cause, body)

PutEach(s, cause, bodies) ==
  FoldLeft(LAMBDA t, body : Put(t, cause, body), s, bodies)

Do(s, actions) == [s EXCEPT !.out = @ \union actions]

\* The numbers of the events recorded between two states.
Since(s, t) == [i \in 1..(Len(t.log) - Len(s.log)) |-> Len(s.log) + i]

\* Wrong: one place fewer than there is.
RememberOneFewer(recent, id, events) ==
  IF \E i \in DOMAIN recent : recent[i].id = id THEN recent
    ELSE LET longer == Append(recent, [id |-> id, events |-> events])
         IN  IF Len(longer) >= Capacity THEN Tail(longer) ELSE longer

Remember(recent, id, events) ==
  IF \E i \in DOMAIN recent : recent[i].id = id
    THEN [i \in DOMAIN recent |-> IF recent[i].id = id
                                    THEN [id |-> id, events |-> events]
                                    ELSE recent[i]]
    ELSE LET longer == Append(recent, [id |-> id, events |-> events])
         IN  IF Len(longer) > Capacity THEN Tail(longer) ELSE longer

Reply(s, id, events) ==
  [s EXCEPT !.replies = Append(@, [id |-> id, ok |-> TRUE, events |-> events])]

Reject(s, id) ==
  [s EXCEPT !.replies = Append(@, [id |-> id, ok |-> FALSE, events |-> << >>])]

Accept(s, id, events) ==
  [s EXCEPT !.recent = Remember(@, id, events),
            !.waiting = Append(@, [id |-> id, events |-> events])]

\* Accepted with nothing to wait for: answered at once.
AcceptEmpty(s, id) ==
  Reply([s EXCEPT !.recent = Remember(@, id, << >>)], id, << >>)

\* Wrong: one too many.
IsStoredTooEarly(s, events) ==
  events = << >> \/ (events # << >> /\ Last(events) <= s.stored + 1)

IsStored(s, events) == events = << >> \/ (events # << >> /\ Last(events) <= s.stored)

\* Wrong: what is not on disk yet is not answered at all.
ReplyOnlyWhenStored(s, id, events) ==
  IF IsStored(s, events) THEN Reply(s, id, events) ELSE s

\* The same id again: answered now when its events are on disk, later otherwise.
ReplyWhenStored(s, id, events) ==
  IF IsStored(s, events)
    THEN Reply(s, id, events)
    ELSE [s EXCEPT !.waiting = Append(@, [id |-> id, events |-> events])]

----------------------------------------------------------------------------
(***************************************************************************)
(* The permission facts injected into the context.                         *)
(***************************************************************************)
\* The permission the model was last told; the whole log counts, no undo here.
Told(s) ==
  LET facts == {i \in DOMAIN s.log : s.log[i].k = "context.injected"
                                       /\ s.log[i].fact = "permission"}
  IN  IF facts = {} THEN [level |-> None] ELSE s.log[Max(facts)].perm

Boundary(s) ==
  IF Told(s) = s.perm THEN << >>
    ELSE << [k |-> "context.injected", fact |-> "permission", perm |-> s.perm] >>

RefreshFacts(s) ==
  IF ~s.turn.refresh THEN s
    ELSE LET fresh == [s EXCEPT !.turn.refresh = FALSE, !.eff = s.perm]
         IN  PutEach(fresh, s.turn.cause, Boundary(fresh))

ReadOnlyNow(s) == Rank(s.eff) = 0

----------------------------------------------------------------------------
(***************************************************************************)
(* Opening and ending turns, and the queue of messages.                    *)
(***************************************************************************)
OpenTurn(s, trigger, cause) ==
  LET started == Put(s, cause, [k |-> "turn.started", trigger |-> trigger,
                                triggers |-> << >>])
      opened == [started EXCEPT
                   !.turn = NewTurn(s.book.next, cause, "opening", s.book.next),
                   !.eff = s.perm]
      told == PutEach(opened, cause, Boundary(opened))
  IN  [told EXCEPT !.turn.mark = Len(told.log)]

EndTurn(s, cause, reason) ==
  [Put(s, cause, [k |-> "turn.ended", reason |-> reason]) EXCEPT
     !.turn = NoTurn,
     !.closing = Append(@, [turn |-> s.turn.id, ended |-> s.book.next])]

\* Wrong: messages still queued are left behind.
FinishTurnOnly(s, cause, reason) == EndTurn(s, cause, reason)

\* Messages still queued open the next turn in the same batch.
FinishTurn(s, cause, reason) ==
  LET ended == EndTurn(s, cause, reason)
  IN  IF s.turn.queued = << >> THEN ended
        ELSE OpenTurn(ended, Last(s.turn.queued).seq, Last(s.turn.queued).cause)

WithdrawQueued(s, cause) ==
  IF s.turn.queued = << >> THEN s
    ELSE Put([s EXCEPT !.turn.queued = << >>], cause,
             [k |-> "message.withdrawn",
              msgs |-> [i \in DOMAIN s.turn.queued |-> s.turn.queued[i].seq]])

----------------------------------------------------------------------------
(***************************************************************************)
(* The calls of a step.  A call is [id, access, state, at, asksWrite]; at  *)
(* is the decision or the answer that must be on disk before it goes on.   *)
(***************************************************************************)
\* Wrong: an approved call is taken for one that runs, a running one for one that
\* does not.
NotRunNorApproved(c) == c.state \in {"waiting", "guarding", "asking"}
NotDoneYet(c) == c.state \in {"waiting", "guarding", "asking", "approved", "running"}

NotRun(c) == c.state \in {"waiting", "guarding", "asking", "approved"}
Executing(c) == c.state \in {"running", "questioning", "answered", "stopping"}
AwaitingPerson(c) == c.state \in {"asking", "questioning"}
Writes(c) == c.access = "write" \/ c.asksWrite
Finished(calls) == \A i \in DOMAIN calls : calls[i].state = "done"

\* Wrong: forgets that calls get done; lets anything start behind a read.
ReadyForgetsDone(calls) ==
  {i \in DOMAIN calls :
     /\ calls[i].state = "waiting"
     /\ \A j \in 1..(i - 1) : calls[i].access = "read" /\ calls[j].access = "read"}

ReadyBehindReads(calls) ==
  {i \in DOMAIN calls :
     /\ calls[i].state = "waiting"
     /\ \A j \in 1..(i - 1) : calls[j].state = "done" \/ calls[j].access = "read"}

\* Whose turn it is: adjacent reads together, anything else alone and in order.
Ready(calls) ==
  {i \in DOMAIN calls :
     /\ calls[i].state = "waiting"
     /\ \A j \in 1..(i - 1) :
          calls[j].state = "done" \/ (calls[i].access = "read" /\ calls[j].access = "read")}

\* Wrong: does not look at the state.
AtInAnyState(s, call, states) ==
  {i \in DOMAIN s.turn.calls : s.turn.stage = "tools" /\ s.turn.calls[i].id = call}

\* Where the call is, if it is in one of the given states (Step::find).
At(s, call, states) ==
  {i \in DOMAIN s.turn.calls : /\ s.turn.stage = "tools"
                               /\ s.turn.calls[i].id = call
                               /\ s.turn.calls[i].state \in states}

SetState(s, i, state) == [s EXCEPT !.turn.calls[i].state = state]

Result(call, why) == [k |-> "tool.result", call |-> call, why |-> why]

RunTool(s, c) == [a |-> "RunTool", call |-> c.id, write |-> Writes(c),
                  readOnly |-> ReadOnlyNow(s)]

\* Wrong: the calls of the finished step stay.
FinishStepKeepsCalls(s, cause) ==
  IF s.turn.requests >= s.policy.stepLimit
    THEN FinishTurn(s, cause, "step_limit")
    ELSE RefreshFacts([s EXCEPT !.turn.stage = "ready", !.turn.mark = 0])

FinishStep(s, cause) ==
  IF s.turn.requests >= s.policy.stepLimit
    THEN FinishTurn(s, cause, "step_limit")
    ELSE RefreshFacts([s EXCEPT !.turn.stage = "ready", !.turn.mark = 0,
                                !.turn.calls = << >>])

\* The calls at these positions get the result that why says for each; a step that
\* is complete because of it goes on.
SettleCalls(s, at, cause, why) ==
  IF s.turn.stage # "tools" THEN s
    ELSE LET calls == s.turn.calls
             done == [s EXCEPT !.turn.calls =
                        [i \in DOMAIN @ |-> IF i \in at
                           THEN [@[i] EXCEPT !.state = "done"] ELSE @[i]]]
             put == PutEach(done, cause,
                      Picked([i \in DOMAIN calls |-> Result(calls[i].id, why[i])], at))
         IN  IF at # {} /\ Finished(done.turn.calls)
               THEN FinishStep(put, s.turn.cause) ELSE put

\* Wrong: does not wait for the disk; waits for one event more.
LandedAnyway(s, c) == TRUE
LandedAfter(s, c) == c.at < s.stored

\* The decision or the answer the call waits for is on disk.
Landed(s, c) == c.at <= s.stored

\* What the executor is handed now: decided and answered calls whose event is on
\* disk, then the calls whose turn it is.
Dispatch(s) ==
  IF s.turn.stage # "tools" \/ s.stored < s.turn.mark THEN s
    ELSE LET calls == s.turn.calls
             due(state) == {i \in DOMAIN calls : calls[i].state = state
                                                  /\ Landed(s, calls[i])}
             approved == due("approved")
             answered == due("answered")
             going == [i \in DOMAIN calls |->
                         IF i \in approved \union answered
                           THEN [calls[i] EXCEPT !.state = "running"]
                           ELSE calls[i]]
             next == Ready(going)
         IN  Do([s EXCEPT !.turn.calls =
                   [i \in DOMAIN going |-> IF i \in next
                      THEN [going[i] EXCEPT !.state = "guarding"] ELSE going[i]]],
                {RunTool(s, calls[i]) : i \in approved}
                  \union {[a |-> "AnswerTool", call |-> calls[i].id] : i \in answered}
                  \union {[a |-> "GuardTool", call |-> calls[i].id] : i \in next})

\* The calls of a reply: skipped after an urgent message, refused when unknown or
\* badly formed, denied when they write and nothing may; the others wait.
StartTools(s, reply, calls, cause) ==
  LET skipping == s.turn.interjected # None
      why(c) == IF skipping THEN "skipped"
                ELSE IF c.access = "bad" THEN "unknown" ELSE "denied"
      blocked == {i \in DOMAIN calls :
                    skipping \/ calls[i].access = "bad"
                      \/ (calls[i].access = "write" /\ ReadOnlyNow(s))}
      pending == Picked(calls, DOMAIN calls \ blocked)
      put == PutEach(s, IF skipping THEN s.turn.interjected ELSE cause,
               Picked([i \in DOMAIN calls |-> Result(calls[i].id, why(calls[i]))], blocked))
      step == [put EXCEPT !.turn.stage = "tools", !.turn.mark = reply,
                          !.turn.calls = pending]
  IN  IF pending = << >> THEN FinishStep(step, cause) ELSE step

----------------------------------------------------------------------------
(***************************************************************************)
(* The turn goes on.                                                       *)
(***************************************************************************)
Ask(s) ==
  Do([s EXCEPT !.turn.requests = IF s.turn.retrying THEN @ ELSE @ + 1,
               !.turn.retrying = FALSE,
               !.turn.interjected = None,
               !.turn.queued = << >>,
               !.turn.stage = "asking",
               !.turn.mark = s.stored],
     {[a |-> "CallModel", seen |-> s.stored]})

Advance(s) ==
  LET dispatched == Dispatch(s)
  IN  IF dispatched.out # s.out THEN dispatched
      ELSE IF s.turn.stage = "opening" /\ s.stored >= s.turn.mark
        THEN Do([s EXCEPT !.turn.stage = "hooking"],
                {[a |-> "RunTurnStartHooks", turn |-> s.turn.id]})
      ELSE IF s.turn.stage = "ready" /\ s.stored = Len(s.log) THEN Ask(s)
      ELSE s

\* Input::Stored: everything up to upto is on disk.
Stored(s, upto) ==
  IF upto <= s.stored THEN s
    ELSE LET landed == [s EXCEPT !.stored = upto]
             ready == {i \in DOMAIN s.waiting : IsStored(landed, s.waiting[i].events)}
             answers == [i \in DOMAIN s.waiting |->
                           [id |-> s.waiting[i].id, ok |-> TRUE,
                            events |-> s.waiting[i].events]]
             closed == {i \in DOMAIN s.closing : s.closing[i].ended <= upto}
             said == [landed EXCEPT
                        !.waiting = Picked(@, DOMAIN @ \ ready),
                        !.replies = @ \o Picked(answers, ready),
                        !.closing = Picked(@, DOMAIN @ \ closed)]
         IN  Advance(Do(said, {[a |-> "Push", from |-> s.stored + 1, upto |-> upto]}
               \union {[a |-> "RunTurnEndHooks", turn |-> s.closing[i].turn] : i \in closed}))

\* Input::TurnStartHooksDone: a module may have injected a fact.
TurnStartHooked(s, turn, injected) ==
  IF s.turn.id # turn \/ s.turn.stage # "hooking" THEN s
    ELSE LET ready == [s EXCEPT !.turn.stage = "ready", !.turn.mark = 0]
             put == IF injected
                      THEN Put(ready, s.turn.cause,
                               [k |-> "context.injected", fact |-> "hook"])
                      ELSE ready
         IN  Advance(RefreshFacts(put))
=============================================================================
