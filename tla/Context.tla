------------------------------ MODULE Context ------------------------------
(***************************************************************************)
(* What a session still sends to the model.  The log only grows; the       *)
(* history in memory is the last checkpoint (a summary) and the events     *)
(* after it, without the turns that were undone.  A compaction writes a    *)
(* checkpoint: at the line, asked for by a person, after the provider said *)
(* the context is too long, or with a summary prepared in the background   *)
(* while turns went on, were undone or brought back.  A breaker pauses     *)
(* compactions that keep failing or keep coming back.                      *)
(*                                                                         *)
(* Source: crates/miyu-kernel/src history.rs, history/undo.rs and          *)
(* session/ prepare.rs, compaction.rs, compaction/cut.rs, breaker.rs,      *)
(* manual.rs, clear.rs, overflow.rs, summary.rs, and the parts of turn.rs, *)
(* call.rs, queue.rs, interrupt.rs, revert.rs, load.rs they hang on.       *)
(*                                                                         *)
(* How large a request is is left to chance; so is how many of the newest  *)
(* groups fit the tail.  Batches are on disk at once and a reply has at    *)
(* most one call (Session has the rest).  Left out: tools that are asked   *)
(* to stop, half replies, summaries made from a shortened or isolated      *)
(* request, redoing, reports, restoring files, a change of the model.      *)
(***************************************************************************)
EXTENDS LedgerRules

CONSTANTS
  PauseFailures, PauseRefills, PauseTurns,   \* policy: Pause
  RetryLimit,
  Tails,     \* how many groups the tail may hold
  Bounds     \* bounds, of which a behaviour has one: messages, other commands,
             \* tool calls, requests past the line of preparation, requests that
             \* fail, crashes

ASSUME ContextLimits ==
  /\ {PauseFailures, PauseRefills, PauseTurns} \subseteq Nat \ {0}
  /\ RetryLimit \in Nat /\ Tails \subseteq Nat
  /\ Bounds \subseteq [messages : Nat, commands : Nat, calls : Nat, pressed : Nat,
                       faults : Nat, crashes : Nat]

VARIABLES
  log,       \* the events
  book,      \* what the rule book remembers of them; broken: it refused one
  hist,      \* the history: the checkpoint (0: none), the events that count, the
             \* undone ones, whether everything is kept
  turn,      \* the running turn
  prepare,   \* the summary prepared in the background
  left       \* what is left of the bounds

vars == <<log, book, hist, turn, prepare, left>>

----------------------------------------------------------------------------
(***************************************************************************)
(* The history (struct History): events are named by their numbers.        *)
(***************************************************************************)
Whole == [check |-> 0, events |-> {}, undone |-> << >>, whole |-> TRUE]

Said(l, es) == {e \in es : l[e].k = "message.user"}
Replies(l, es) == {e \in es : l[e].k = "message.assistant"}
Results(l, es) == {e \in es : l[e].k = "tool.result"}
Talk(l, es) == Said(l, es) \union Replies(l, es) \union Results(l, es)
Latest(es) == IF es = {} THEN 0 ELSE Max(es)

\* Messages of a turn none of its requests saw (left_queued).
LeftQueued(l, es, t) ==
  LET its == {e \in es : l[e].turn = t}
      heard == {l[e].seen : e \in {x \in its : \/ l[x].k = "message.assistant"
                                               \/ l[x].k = "model.called"
                                                  /\ l[x].error # "paused"}}
  IN  {e \in Said(l, its) : e > Latest(heard)}

\* The messages that go with turns when these are undone: what opened each, and what
\* the turn before had left in the queue.
TakenOver(l, es, turns) ==
  UNION { LET trigger == l[t].trigger
              previous == IF l[trigger].turn # 0 THEN l[trigger].turn
                          ELSE IF t - 1 \in es /\ l[t - 1].k = "turn.ended"
                                 THEN l[t - 1].turn ELSE 0
          IN  {trigger} \union (IF previous \in turns \union {0} THEN {}
                                ELSE LeftQueued(l, es, previous))
        : t \in {t \in turns \intersect es : l[t].trigger \in Said(l, es)} }

Undone(l, h, turns) ==
  LET gone == {e \in h.events : l[e].turn \in turns} \union TakenOver(l, h.events, turns)
  IN  [h EXCEPT !.events = @ \ gone, !.undone = Append(@, gone)]

\* History::settle: the last compaction among the events becomes the checkpoint.
Settle(l, h) ==
  LET made == {e \in h.events : l[e].k = "context.compacted"}
      last == Latest(made)
  IN  IF made = {} THEN [h EXCEPT !.whole = FALSE]
      ELSE [h EXCEPT !.whole = FALSE, !.check = last,
                     !.events = {e \in @ \ made : e > l[last].upto}]

BroughtBack(l, h) ==
  LET back == [h EXCEPT !.events = @ \union Last(h.undone), !.undone = Front(@)]
  IN  IF h.whole THEN back ELSE Settle(l, back)

\* History::append of the event numbered e.
Put(l, h, e) ==
  CASE l[e].k = "context.compacted" /\ h.whole ->
         [h EXCEPT !.events = @ \union {e}, !.undone = << >>]
    [] l[e].k = "context.compacted" /\ ~h.whole ->
         [h EXCEPT !.check = e, !.events = {x \in @ : x > l[e].upto}, !.undone = << >>]
    [] l[e].k = "turn.reverted" -> Undone(l, h, Range(l[e].turns))
    [] l[e].k = "turn.unreverted" -> IF h.undone = << >> THEN h ELSE BroughtBack(l, h)
    [] l[e].k = "message.withdrawn" -> [h EXCEPT !.events = @ \ Range(l[e].msgs)]
    [] l[e].k = "turn.started" -> [h EXCEPT !.events = @ \union {e}, !.undone = << >>]
    [] OTHER -> [h EXCEPT !.events = @ \union {e}]

PutFrom(l, h, from) ==
  FoldLeft(LAMBDA x, i : Put(l, x, from + i - 1), h,
           [i \in 1..(Len(l) - from + 1) |-> i])

\* A history made again from a part of the log.
Rebuilt(l, from) == Settle(l, PutFrom(l, Whole, from))

----------------------------------------------------------------------------
(***************************************************************************)
(* Where a history can be cut.  A request shows a reply right after what   *)
(* it had seen, then its results, then what came meanwhile.                *)
(***************************************************************************)
\* The place of each event in the order a request shows them (History::ordered).
Places(l, es) ==
  LET segment == [e \in es |-> Cardinality({r \in Replies(l, es) : l[r].seen < e})]
      ofItsReply(e) == l[e].k = "tool.result" /\ l[e].call[1] \in es
                         /\ segment[l[e].call[1]] = segment[e]
      rank(e) == IF l[e].k = "message.assistant" THEN 0
                 ELSE IF ofItsReply(e) THEN 1 ELSE 2
  IN  [e \in es |-> (3 * segment[e] + rank(e)) * Len(l) + e]

\* Cutting behind u leaves no result without its reply, and cuts off a beginning of
\* what is shown.
Cuttable(l, place, u) ==
  LET before == {e \in DOMAIN place : e <= u}
      after == DOMAIN place \ before
  IN  /\ \A r \in Results(l, after) : l[r].call[1] > u
      /\ \A a \in after, b \in before : place[b] < place[a]

\* settle in cut.rs: the last place up to u where it can be cut; 0 for none.
Settled(l, place, u) == Max({v \in 0..u : Cuttable(l, place, v)})

\* Where the tail begins when it holds so many of the newest groups; Len(l) when it
\* holds none.  A passive compaction keeps one at least.
TailUpto(l, place, size, keepLast) ==
  LET es == DOMAIN place
      starts == Said(l, es) \union Replies(l, es)
      newer(s) == Cardinality({t \in starts : place[t] > place[s]})
      from(s) == {e \in es : place[e] >= place[s]}
      cut(s) == LET rest == from(s)
                IN  IF \A b \in es \ rest : b < Min(rest) THEN Min(rest) - 1 ELSE 0
      cuts(n) == {cut(s) : s \in {x \in starts : newer(x) \in n}} \ {0}
      kept == cuts(0..size - 1)
      next == cuts({size})
  IN  IF kept # {} THEN Min(kept)
      ELSE IF keepLast /\ next # {} THEN Min(next) ELSE Len(l)

\* Session::upto_before: what may be replaced before a turn; what has not been answered
\* stays.  0 when there is nothing to replace.
UptoBefore(started, trigger, size, keepLast) ==
  LET es == hist.events
      asked == Latest({e \in es : e < started /\ log[e].k = "model.called" /\ ~log[e].aside})
      answered == Latest(Replies(log, es))
      floor == Latest({log[e].seen : e \in {asked, answered} \ {0}})
      waiting == {e \in Said(log, es) : e > floor} \union ({trigger} \ {0})
      most == IF waiting = {} THEN Len(log) ELSE Min(waiting) - 1
      place == Places(log, es)
      tail == TailUpto(log, place, size, keepLast)
      upto == Settled(log, place, IF tail < most THEN tail ELSE most)
  IN  IF \E e \in Talk(log, es) : e <= upto THEN upto ELSE 0

CompactionUpto(size, keepLast) ==
  LET replied == \E e \in Replies(log, hist.events) : log[e].turn = turn.id
      trigger == IF turn.id \in hist.events /\ ~replied THEN log[turn.id].trigger ELSE 0
  IN  UptoBefore(turn.id, trigger, size, keepLast)

----------------------------------------------------------------------------
(***************************************************************************)
(* Writing.                                                                *)
(***************************************************************************)
Ev(k, n, t) == [k |-> k, seq |-> n, turn |-> t]
Message(n, t) == Ev("message.user", n, t) @@ [ambient |-> FALSE]
Started(n, trigger) ==
  Ev("turn.started", n, n) @@ [trigger |-> trigger, triggers |-> << >>]
Ended(n, t, reason) == Ev("turn.ended", n, t) @@ [reason |-> reason]
Called(n, t, seen, for, error) ==
  Ev("model.called", n, t)
    @@ [seen |-> seen, aside |-> t = 0, for |-> for, error |-> error]
Reply(n, t, seen, calls) ==
  Ev("message.assistant", n, t) @@ [seen |-> seen, calls |-> calls]
ResultOf(n, t, call) == Ev("tool.result", n, t) @@ [call |-> call]
Compaction(n, t, due, tells) ==
  Ev("context.compacted", n, t)
    @@ [upto |-> due.upto, trigger |-> due.trigger, refills |-> due.refills,
        tells |-> tells]
Pause(n, t) == Ev("compaction.paused", n, t)

Broken == [EmptyBook EXCEPT !.next = 0]

\* Session::record, of several: the book looks at each, and a refused one is the end.
Write(es) ==
  /\ log' = log \o es
  /\ book' = FoldLeft(LAMBDA b, e : IF Legal(b, e) THEN Record(b, e) ELSE Broken, book, es)

Append1(es) == Write(es) /\ hist' = PutFrom(log', hist, Len(log) + 1)

Next1 == Len(log) + 1

NoDue == [upto |-> 0, refills |-> 0, trigger |-> "none", plain |-> TRUE]
NoTurn ==
  [ id |-> 0, stage |-> "idle",
    queued     |-> << >>,     \* messages no request has seen
    seen       |-> 0,         \* the request on its way: what it saw
    compacted  |-> FALSE,     \* compacted in this step
    overflowed |-> FALSE,     \* compacted in this step because it was too long
    passive    |-> "none",    \* compact first: "due", or "again" as before
    retries    |-> 0,
    manual     |-> FALSE,     \* a turn that only compacts
    due        |-> NoDue,     \* the compaction under way
    tells      |-> {} ]       \* what its summary is made from
NewTurn(n) == [NoTurn EXCEPT !.id = n, !.stage = "ready"]

\* Session::finish_turn behind the events es: the last queued message opens the next.
Finish(es, reason, queued) ==
  LET n == Len(log) + Len(es) + 1
      end == <<Ended(n, turn.id, reason)>>
  IN  IF queued = << >>
        THEN Append1(es \o end) /\ turn' = NoTurn
        ELSE /\ Append1(es \o end \o <<Started(n + 1, Last(queued))>>)
             /\ turn' = NewTurn(n + 1)

Spend(what) == left[what] > 0 /\ left' = [left EXCEPT ![what] = @ - 1]
Running == book.next # 0 /\ turn.id # 0
Idle == book.next # 0 /\ turn.id = 0
At(stage) == Running /\ turn.stage = stage

----------------------------------------------------------------------------
(***************************************************************************)
(* The breaker (breaker.rs): all of it is read off the history.            *)
(***************************************************************************)
SinceCompaction == {e \in hist.events : e > hist.check}
Paused == \E e \in SinceCompaction : log[e].k = "compaction.paused"
Automatic == {"auto", "overflow"}

\* Session::failures: turns that ended because an automatic compaction failed.
Failures ==
  LET called(e) == Latest({x \in SinceCompaction : x < e /\ log[x].k = "model.called"})
      passive == hist.check # 0 /\ log[hist.check].trigger = "overflow"
      failed(e) == LET c == called(e)
                   IN  /\ c # 0
                       /\ \/ log[c].for \in Automatic /\ log[c].error = "failed"
                          \/ /\ passive /\ log[e].turn = log[hist.check].turn
                             /\ log[c].for = "main" /\ log[c].error = "too long"
  IN  Cardinality({e \in SinceCompaction :
                     log[e].k = "turn.ended" /\ log[e].reason = "error" /\ failed(e)})

\* Session::after_failure: a pause when this was one too many.
AfterFailure(n, automatic) ==
  IF automatic /\ Failures + 1 >= PauseFailures THEN <<Pause(n, turn.id)>> ELSE << >>

\* Wrong: it always counts from the last compaction.
RefillsSinceLast ==
  IF hist.check = 0 THEN 0
    ELSE LET since == log[hist.check].turn
             later == {e \in hist.events : /\ log[e].k = "turn.started"
                                           /\ e > since /\ e <= turn.id}
         IN  IF Cardinality(later) < PauseTurns THEN 1 ELSE 0

\* How many times in a row the line was met again soon after a compaction; 0: it was not.
Refills ==
  IF hist.check = 0 THEN 0
    ELSE LET since == log[hist.check].turn
             later == {e \in hist.events : /\ log[e].k = "turn.started"
                                           /\ e > since /\ e <= turn.id}
         IN  IF Cardinality(later) < PauseTurns THEN log[hist.check].refills + 1 ELSE 0

----------------------------------------------------------------------------
(***************************************************************************)
(* A summary prepared in the background (prepare.rs).                      *)
(***************************************************************************)
NoPrepare == [state |-> "none", upto |-> 0, key |-> << >>, tells |-> {}]

\* Wrong: only the checkpoint.
KeyOfCheckpoint(u) == <<hist.check, {}>>

\* Session::prefix_key: what the history was up to there.
PrefixKey(u) == <<hist.check, {e \in hist.events : e <= u}>>

Usable(roomy) ==
  /\ roomy /\ prepare.state # "none"
  /\ PrefixKey(prepare.upto) = prepare.key
  /\ Cuttable(log, Places(log, hist.events), prepare.upto)

\* What a summary up to u is made from: the checkpoint's and what was said since.
Tells(u) ==
  (IF hist.check = 0 THEN {} ELSE log[hist.check].tells)
    \union {e \in Talk(log, hist.events) : e <= u}

\* Session::prepare_up: what becomes of it when a request is sent; upto is what could be
\* replaced, usable whether the one at hand is of use.
PrepareUp(level, upto, usable) ==
  IF \/ Paused \/ level = "low" \/ prepare.state = "asking"
     \/ prepare.state = "ready" /\ usable THEN prepare
  ELSE IF upto = 0 THEN NoPrepare
  ELSE [state |-> "asking", upto |-> upto, key |-> PrefixKey(upto), tells |-> Tells(upto)]

\* Session::defer_compaction: past the line the request still goes out.
Deferred(level, usable) ==
  /\ level # "full"
  /\ prepare.state = "ready" => ~usable
  /\ prepare.state = "asking" => usable

Swap(due) ==
  /\ turn' = [turn EXCEPT !.stage = "swapping", !.due = [due EXCEPT !.upto = prepare.upto],
                          !.tells = prepare.tells]
  /\ prepare' = NoPrepare

\* Session::start_compaction.
StartCompaction(due) ==
  turn' = [turn EXCEPT !.stage = "summing", !.due = due, !.tells = Tells(due.upto),
                       !.passive = "none"]

\* Session::begin_compaction: put the prepared one in place, wait for the one under way,
\* or ask for a summary now.
Begin(due, usable) ==
  LET wanted == due.plain /\ usable
  IN  IF wanted /\ prepare.state = "ready" THEN Swap(due)
      ELSE IF wanted
        THEN /\ turn' = [turn EXCEPT !.stage = "awaiting", !.due = due]
             /\ UNCHANGED prepare
      ELSE /\ StartCompaction(due)
           /\ prepare' = IF prepare.state = "ready" THEN NoPrepare ELSE prepare

----------------------------------------------------------------------------
(***************************************************************************)
(* The step that sends the request (ask in turn.rs).  level: how large it  *)
(* is against the lines and the window; upto: what could be replaced;      *)
(* usable: the prepared summary can be put in place.                       *)
(***************************************************************************)
Levels == {"low", "soon", "line", "full"}

\* Session::compaction_due: once in a step.
AtLine(level, upto) == ~turn.compacted /\ level \in {"line", "full"} /\ upto # 0

TooOften == Refills >= PauseRefills

Send(level, upto, usable) ==
  /\ IF Paused THEN level # "full"
       ELSE AtLine(level, upto) => ~TooOften /\ Deferred(level, usable)
  /\ turn' = [turn EXCEPT !.stage = "asking", !.seen = Len(log), !.queued = << >>,
                          !.compacted = FALSE]
  /\ prepare' = PrepareUp(level, upto, usable)
  /\ UNCHANGED <<log, book, hist>>

\* It would not fit and compactions are paused: the turn ends.
Refuse(level) ==
  /\ Paused /\ level = "full"
  /\ Finish(<<Called(Next1, turn.id, Len(log), "main", "paused")>>, "error", turn.queued)
  /\ UNCHANGED prepare

PauseNow(level, upto) ==
  /\ ~Paused /\ AtLine(level, upto) /\ TooOften
  /\ Append1(<<Pause(Next1, turn.id)>>)
  /\ UNCHANGED <<turn, prepare>>

CompactAtLine(level, upto, usable) ==
  /\ ~Paused /\ AtLine(level, upto) /\ ~TooOften /\ ~Deferred(level, usable)
  /\ Begin([upto |-> upto, refills |-> Refills, trigger |-> "auto", plain |-> TRUE],
           usable)
  /\ UNCHANGED <<log, book, hist>>

Ask ==
  /\ At("ready") /\ turn.passive = "none" /\ ~turn.manual
  /\ \/ Send("low", 0, FALSE) /\ UNCHANGED left
     \/ /\ Spend("pressed")
        /\ \E upto \in {CompactionUpto(size, FALSE) : size \in Tails},
              usable \in {Usable(roomy) : roomy \in BOOLEAN},
              level \in Levels \ {"low"} :
             \/ Send(level, upto, usable)
             \/ Refuse(level)
             \/ PauseNow(level, upto)
             \/ CompactAtLine(level, upto, usable)

AskManual ==
  /\ At("ready") /\ turn.passive = "none" /\ turn.manual
  /\ \E roomy \in BOOLEAN : Begin(turn.due, Usable(roomy))
  /\ UNCHANGED <<log, book, hist, left>>

\* Session::passive_compaction, and the same compaction once more.
AskPassive ==
  /\ At("ready") /\ turn.passive = "due"
  /\ \E size \in Tails :
       LET upto == CompactionUpto(size, TRUE)
       IN  IF upto = 0 THEN Finish(<< >>, "error", turn.queued)
           ELSE IF TooOften
             THEN Finish(<<Pause(Next1, turn.id)>>, "error", turn.queued)
           ELSE /\ StartCompaction([upto |-> upto, refills |-> Refills,
                                    trigger |-> "overflow", plain |-> TRUE])
                /\ UNCHANGED <<log, book, hist>>
  /\ UNCHANGED <<prepare, left>>

AskAgain ==
  /\ At("ready") /\ turn.passive = "again"
  /\ StartCompaction(turn.due)
  /\ UNCHANGED <<log, book, hist, prepare, left>>

----------------------------------------------------------------------------
(***************************************************************************)
(* How requests end (model_ended in call.rs).                              *)
(***************************************************************************)
Asked(error) == Called(Next1, turn.id, turn.seen, "main", error)
Summarized(error) == Called(Next1, turn.id, turn.due.upto, turn.due.trigger, error)

Replied ==
  /\ At("asking")
  /\ LET called == Called(Next1 + 1, turn.id, turn.seen, "main", "none")
     IN  \/ /\ Finish(<<Reply(Next1, turn.id, turn.seen, << >>), called>>, "completed",
                      turn.queued)
            /\ UNCHANGED left
         \/ /\ Spend("calls")
            /\ Append1(<<Reply(Next1, turn.id, turn.seen, << <<Next1, 1>> >>), called>>)
            /\ turn' = [turn EXCEPT !.stage = "tools", !.seen = 0, !.retries = 0,
                                    !.overflowed = FALSE]
  /\ UNCHANGED prepare

\* Session::overflow.
TooLong ==
  /\ At("asking") /\ Spend("faults")
  /\ IF turn.overflowed
       THEN Finish(<<Asked("too long")>> \o AfterFailure(Next1 + 1, TRUE), "error",
                   turn.queued)
     ELSE IF Paused
       THEN Finish(<<Asked("too long")>>, "error", turn.queued)
     ELSE /\ Append1(<<Asked("too long")>>)
          /\ turn' = [turn EXCEPT !.stage = "ready", !.seen = 0, !.passive = "due",
                                  !.overflowed = TRUE]
  /\ UNCHANGED prepare

\* An error that can be tried again, as long as that may be; the wait is left out.
Failed ==
  /\ At("asking") /\ Spend("faults")
  /\ \/ /\ turn.retries < RetryLimit
        /\ Append1(<<Asked("failed")>>)
        /\ turn' = [turn EXCEPT !.stage = "ready", !.seen = 0, !.retries = @ + 1]
     \/ Finish(<<Asked("failed")>>, "error", turn.queued)
  /\ UNCHANGED prepare

\* Session::compacted behind the events es.
Compacted1(es) ==
  LET made == es \o <<Compaction(Next1 + Len(es), turn.id, turn.due, turn.tells)>>
  IN  IF turn.manual THEN Finish(made, "completed", turn.queued)
      ELSE /\ Append1(made)
           /\ turn' = [turn EXCEPT !.stage = "ready", !.compacted = TRUE, !.due = NoDue,
                                   !.tells = {}]

Summed ==
  /\ At("summing")
  /\ Compacted1(<<Summarized("none")>>)
  /\ UNCHANGED <<prepare, left>>

SummingFailed ==
  /\ At("summing") /\ Spend("faults")
  /\ \/ /\ turn.retries < RetryLimit
        /\ Append1(<<Summarized("failed")>>)
        /\ turn' = [turn EXCEPT
             !.stage = "ready", !.retries = @ + 1, !.tells = {},
             !.passive = IF turn.due.trigger = "overflow" THEN "again" ELSE "none",
             !.due = IF turn.due.trigger = "auto" THEN NoDue ELSE @]
     \/ Finish(<<Summarized("failed")>>
                 \o AfterFailure(Next1 + 1, turn.due.trigger \in Automatic),
               "error", turn.queued)
  /\ UNCHANGED prepare

\* The files are read again and the prepared summary is written (swapped).
Swapped == At("swapping") /\ Compacted1(<< >>) /\ UNCHANGED <<prepare, left>>

ToolReturns ==
  /\ At("tools")
  /\ Append1(<<ResultOf(Next1, turn.id, CHOOSE c \in book.pending : TRUE)>>)
  /\ turn' = [turn EXCEPT !.stage = "ready"]
  /\ UNCHANGED <<prepare, left>>

\* Wrong: the turn that waits for it goes on waiting when it is of no use.
LeftWaiting == turn

\* A turn that waited for what came to nothing compacts by itself.
StopsWaiting ==
  [turn EXCEPT !.stage = "ready", !.due = IF turn.manual THEN @ ELSE NoDue]

\* Session::prepare_ended.
PrepareEnded ==
  /\ book.next # 0 /\ prepare.state = "asking"
  /\ \E ok, roomy \in BOOLEAN :
       /\ Append1(<<Called(Next1, 0, prepare.upto, "prepare",
                           IF ok THEN "none" ELSE "failed")>>)
       /\ IF ok THEN UNCHANGED left ELSE Spend("faults")
       /\ IF turn.stage # "awaiting"
            THEN /\ prepare' = IF ok THEN [prepare EXCEPT !.state = "ready"] ELSE NoPrepare
                 /\ UNCHANGED turn
          ELSE IF ok /\ Usable(roomy) THEN Swap(turn.due)
          ELSE turn' = StopsWaiting /\ prepare' = NoPrepare

----------------------------------------------------------------------------
(***************************************************************************)
(* What a person does, and the end of the process.                         *)
(***************************************************************************)
Say ==
  /\ book.next # 0
  /\ Spend("messages")
  /\ IF turn.id = 0
       THEN /\ Append1(<<Message(Next1, 0), Started(Next1 + 1, Next1)>>)
            /\ turn' = NewTurn(Next1 + 1)
       ELSE /\ Append1(<<Message(Next1, turn.id)>>)
            /\ turn' = [turn EXCEPT !.queued = Append(@, Next1)]
  /\ UNCHANGED prepare

\* session.compact: what it replaces is settled at once.
Compact ==
  /\ Idle /\ Spend("commands")
  /\ \E size \in Tails, plain \in BOOLEAN :
       LET upto == UptoBefore(Next1, 0, size, FALSE)
       IN  /\ upto # 0
           /\ Append1(<<Started(Next1, 0)>>)
           /\ turn' = [NewTurn(Next1) EXCEPT
                         !.manual = TRUE,
                         !.due = [upto |-> upto, refills |-> 0, trigger |-> "manual",
                                  plain |-> plain]]
  /\ UNCHANGED prepare

ContextIsEmpty ==
  /\ hist.check # 0 => log[hist.check].trigger = "clear"
  /\ Talk(log, hist.events) = {}

\* session.clear: an empty checkpoint, in a turn of its own.
Clear ==
  /\ Idle /\ ~ContextIsEmpty /\ Spend("commands")
  /\ Append1(<< Started(Next1, 0),
                Compaction(Next1 + 1, Next1,
                           [NoDue EXCEPT !.upto = Len(log), !.trigger = "clear"],
                           Tells(Len(log))),
                Ended(Next1 + 2, Next1, "completed") >>)
  /\ UNCHANGED <<turn, prepare>>

\* Wrong: the history is not made again when a compaction goes.
UndoneInPlace(t) == PutFrom(log', hist, Len(log) + 1)

\* The history once the last event undid turns from t on: made again from the log when
\* a compaction goes with them (read_back in revert.rs).
AfterUndo(t) ==
  LET from == ReadBackFrom(book, t)
  IN  IF from = 0 THEN PutFrom(log', hist, Len(log) + 1) ELSE Rebuilt(log', from)

Revert ==
  /\ Idle /\ Spend("commands")
  /\ \E t \in Range(book.turns) :
       /\ Write(<<Ev("turn.reverted", Next1, 0) @@ [turns |-> TurnsFrom(book, t)]>>)
       /\ hist' = AfterUndo(t)
  /\ UNCHANGED <<turn, prepare>>

Unrevert ==
  /\ Idle /\ book.undone # << >> /\ Spend("commands")
  /\ Append1(<<Ev("turn.unreverted", Next1, 0) @@ [turns |-> LastReverted(book)]>>)
  /\ UNCHANGED <<turn, prepare>>

\* Session::interrupt; queued messages are sent, kept or returned.
Interrupt ==
  /\ Running /\ Spend("commands")
  /\ \E queued \in {"send", "keep", "return"} :
       LET cut == CASE turn.stage = "asking" -> <<Asked("interrupted")>>
                    [] turn.stage = "summing" -> <<Summarized("interrupted")>>
                    [] turn.stage = "tools" ->
                         <<ResultOf(Next1, turn.id, CHOOSE c \in book.pending : TRUE)>>
                    [] OTHER -> << >>
           returned == IF queued = "return" /\ turn.queued # << >>
                         THEN <<Ev("message.withdrawn", Next1 + Len(cut), turn.id)
                                  @@ [msgs |-> turn.queued]>>
                         ELSE << >>
       IN  Finish(cut \o returned, "interrupted",
                  IF queued = "send" THEN turn.queued ELSE << >>)
  /\ UNCHANGED prepare

\* The process ends and the session is loaded from its log (load.rs).
Restart ==
  /\ book.next # 0 /\ Spend("crashes")
  /\ LET pending == SetToSeq(book.pending)
         results == [i \in DOMAIN pending |-> ResultOf(Len(log) + i, turn.id, pending[i])]
     IN  Write(IF turn.id = 0 THEN << >>
                 ELSE results \o <<Ended(Next1 + Len(results), turn.id, "aborted")>>)
  /\ hist' = PutFrom(log', Rebuilt(log, Compacted(book) + 1), Len(log) + 1)
  /\ turn' = NoTurn /\ prepare' = NoPrepare

----------------------------------------------------------------------------
Init ==
  /\ log = <<Ev("session.created", 1, 0)>>
  /\ book = Record(EmptyBook, log[1])
  /\ hist = Settle(log, Put(log, Whole, 1))
  /\ turn = NoTurn /\ prepare = NoPrepare
  /\ left \in Bounds

Answers ==
  Replied \/ TooLong \/ Failed \/ Summed \/ SummingFailed \/ Swapped \/ ToolReturns
Work == Ask \/ AskManual \/ AskPassive \/ AskAgain \/ Answers \/ PrepareEnded
Person == Say \/ Compact \/ Clear \/ Revert \/ Unrevert \/ Interrupt
Next == Work \/ Person \/ Restart

Spec == Init /\ [][Next]_vars
\* Weak fairness of Work, with what enables it and what tells its steps apart written
\* out: requests end (drivers give up on their own), tools return, and the kernel goes on
\* once a batch is on disk; nobody has to say anything, interrupt or restart.
CanWork ==
  book.next # 0 /\ (prepare.state = "asking" \/ turn.stage \notin {"idle", "awaiting"})
Worked ==
  \A what \in {"messages", "commands", "crashes"} : left'[what] = left[what]
FairSpec == Spec /\ ([]<>~CanWork \/ []<><<Worked>>_vars)

----------------------------------------------------------------------------
(***************************************************************************)
(* Properties.                                                             *)
(***************************************************************************)
\* The model is told everything that still counts, once: what the checkpoint's summary
\* was made from and what follows it are together, and without overlap, what the whole
\* log still holds to have been said.  A summary prepared before an undo, a clearing or
\* another compaction must not be put in place (prepare.rs, compaction/cut.rs).
ToldOnceAndAll ==
  LET told == IF hist.check = 0 THEN {} ELSE log[hist.check].tells
      said == Talk(log, hist.events)
  IN  /\ told \union said = Talk(log, PutFrom(log, Whole, 1).events)
      /\ told \intersect said = {}

\* Loading the session now would give the same history, what can be brought back
\* included (load.rs, read_back in revert.rs, History::settle).
ReloadAgrees == book.next # 0 => hist = Rebuilt(log, Compacted(book) + 1)

\* Compactions that are of no use cease (docs/blueprint/compaction.md, breaker.rs): of
\* PauseRefills compactions in a row one was asked for by a person or came PauseTurns
\* turns or more after the one before it, as the whole log has them, whatever was undone,
\* prepared in the background or loaded again in between.
CompactionsCease ==
  LET live == PutFrom(log, Whole, 1).events
      made == {e \in live : log[e].k = "context.compacted"}
      before(c) == Latest({e \in made : e < c})
      turns(c) == {e \in live : /\ log[e].k = "turn.started"
                                /\ log[before(c)].turn < e /\ e <= log[c].turn}
      soon(c) == /\ before(c) # 0 /\ log[c].trigger \in Automatic
                 /\ Cardinality(turns(c)) < PauseTurns
  IN  \A c \in made : \E d \in made :
        /\ d <= c /\ ~soon(d)
        /\ Cardinality({e \in made : d <= e /\ e <= c}) <= PauseRefills

\* Left to itself a session always comes to rest, whatever fails, without the rule book
\* refusing anything: nothing is waited for that does not come, be it a tool, a request or
\* the summary prepared in the background, and a step whose request crosses the line again
\* and again goes out, pauses or ends (overflow.rs, breaker.rs, prepare.rs).
Rests == []<>Idle
=============================================================================
