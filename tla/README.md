# Miyu's session core in TLA+

Miyu is an assistant that runs on one's own machine.  Its core keeps *sessions*.
A session is an append-only log of events; everything else (the history sent to
the model, the permission in force, what a command was answered, what was spent) is
a projection of that log.  The part of the program that decides what is appended and
when is `miyu-kernel`, a state machine without I/O: an input goes in, actions come
out.  `miyu-session` carries the actions out and feeds the results back in,
`miyu-store` keeps the log and what is derived from it on disk, `miyu-endpoint`
shows the events to the heads.  One of these, the OneBot bridge, says in chat groups
what she said in their sessions.

The modules follow that order outwards: the rule book of one log, the kernel's
handlers with an executor around them, the history and its compactions, sessions that
send out subagents, the way of the events to a head, the way of her words into a group,
and the usage totals derived from all logs.  Theorems are proved about all of them but
the history and the subagents.

Paths below are relative to `src/`; kernel files are under
`crates/miyu-kernel/src/`.

## Inventory

| Component | State | Operations | Interacts with | Hard behaviour | What makes it correct | Modelled in |
|---|---|---|---|---|---|---|
| Ledger (`ledger.rs`, `ledger/`) | open turn, unresolved calls, queue, live turns, compactions, undos, triggers, jobs, peers | check and record one event | kernel (every event), load (every event again) | long sequences of legal events | every call one result; turns do not overlap; undo and redo in step with compactions; nothing heard is withdrawn | `LedgerRules`, `Ledger`; jobs in `Agents` |
| Session kernel (`session.rs`, `session/`) | running turn with its stage and calls, waiting answers, recent ids, permission, unstored events | one handler per input | ledger, history, policy, executor | late and repeated reports, timers, people answering while things move, urgent messages | no illegal event; nothing forgotten; results do not lie; permission holds; each command answered once and effective once | `Kernel`, `Handlers`, `Session` |
| Restart and load (`session/restart.rs`, `load.rs`) | what replay collects | wind up a turn; replay; recover; resume | ledger, log | crash at any point, torn batch, restart of a resumed turn, restart during an interruption | whatever is left can be loaded; no endless resuming; an interrupted turn stays interrupted | `Handlers`, `Session`; duties in `Agents` |
| History, undo, redo (`history.rs`, `history/undo.rs`, `session/revert.rs`, `redo.rs`) | effective events, undone turns, checkpoint | append, undo, redo, read the log back | ledger, compaction | undoing over a compaction | the effective history is what a fresh load computes | `Context`; rules in `Ledger` |
| Compaction (`session/compaction.rs`, `prepare.rs`, `breaker.rs`, `overflow.rs`, `manual.rs`, `clear.rs`) | request under way, prepared summary, failures counted | start, prepare in the background, put in place, pause | history, model | a summary that is stale when it arrives; endless compaction | the model is told all that counts, once; the session comes to rest | `Context` |
| Jobs, children, reports (`session/jobs.rs`, `report.rs`, `ledger/jobs.rs`; `miyu-session/src/{agents,messages,report}.rs`) | what is owed, what was told last, reports on their way | dispatch, message, report, wake, stop | parent and child sessions | a report lost, sent twice or told again after a crash | recorded once; who waits hears in the end | `Agents` |
| Session actor (`crates/miyu-session/src/actor.rs`, `actor/`) | inbox, kernel, open answers, subscribers | receive, carry out, reply, push, stop | everything | order of inputs; stop in the middle | first-in first-out per session; stored before told | `Session`, `Delivery` |
| Log (`crates/miyu-store/src/log.rs`, `log/open.rs`) | segments, next number | append and sync a batch, open, cut a half line | actor | torn write | order kept, nothing reported stored is lost | `Journal`, `Session`, `Spending` |
| Derived stores (`crates/miyu-store/src/usage*`, `index.rs`, `recall.rs`, `trash.rs`) | databases with a mark into each log; deleted sessions | advance, catch up, sum, discard, purge | log, heads | the database behind, ahead, lost; a session deleted while it is read | counted once; counted in full | usage: `Spending`; the rest not |
| Endpoint (`crates/miyu-endpoint`) | connections, subscriptions, forwarders | subscribe, push, reply, resync | heads, actors | subscribing while events flow, slow heads | no gap, no overlap; events before the reply that tells of them | subscriptions: `Delivery` |
| Tools (`crates/miyu-session/src/guard.rs`, `tools.rs`) | what runs, stop flags | judge, run, stop, ask | kernel, disk | stopping half-way | | an executor that may answer anything at any time |
| OneBot bridge, outgoing (`crates/miyu-onebot/src/core/route.rs`, `route/`) | projection of the group's log, what waits to be sent, turns she skips, what was replayed | hear an event, split and put on record, queue, hand over, mute, follow, resend | endpoint, chat platform | restarts, lost subscriptions, mutes, closed connections, deadlines | each piece said once, in order, or given up; nothing swallowed | `Outbox` |
| Group chat kernel, other heads (`crates/miyu-chat`, `miyu-cli`, `miyu-web`, ...) | rates, cool-downs, candidates, what was shown | inbound gate, judge, supersede, outbound | endpoint | who supersedes whom | limits hold, no message answered twice | heads as readers and senders only |
| Assembly, drivers, HTTP, configuration, policy, sandbox, transport, memory, MCP, ... | | | | encoding, I/O, presentation | | no |

`PROJECT.json` lists all of them with their status, and the hazards of the code
line by line with the properties that guard against them.

## Modules

| Module | What it is | Code |
|---|---|---|
| `LedgerRules` | the book, `Legal(book, event)` and `Record(book, event)`, pure operators | `ledger.rs`, `ledger/undo.rs`, `ledger/triggers.rs` |
| `Ledger` | a log under the rule book: any event may be offered, one action per kind; properties compare the book with the log | `Ledger::append` |
| `RuleProofs` | lemmas about `Legal` and `Record` | |
| `LedgerProofs` | theorems about `Ledger` | |
| `Kernel` | the kernel's state, recording and answering, permission facts, opening and ending turns, the calls of a step, `Dispatch`, `Advance`, `Stored` | `session.rs`, `session/{record,replies,recent,turn,queue,step,tools,permission}.rs` |
| `Handlers` | every other handler of a turn: end of a request, tools, approvals, questions, messages, permission, interruption, timer, restart, load | `session/{call,retry,tools,approval,question,send,permission,interrupt,restart,load}.rs` |
| `Session` | heads, executor, disk, crash, planned restart around the kernel; all properties of the running session | `crates/miyu-session/src/actor*`, `crates/miyu-store/src/log*` |
| `KernelProofs`, `TurnProofs` | lemmas about the handlers: what each does to log, answers, turn, queue and calls | |
| `SessionProofs` | theorems about `Session` | |
| `Journal` | the abstract specification: an append-only, in-order durable log of legal events | `docs/designs/07-存储.md` section 4 |
| `Context` | what is still sent to the model: history, checkpoint, compactions of every origin, undo and redo, the breaker | `history.rs`, `history/undo.rs`, `session/{prepare,compaction,compaction/cut,breaker,manual,clear,overflow,summary}.rs` and what they hang on |
| `Agents` | a chain of sessions: subagents, messages to them, reports upward and how they are owed, told, told again and recognised | `session/{report,jobs,load}.rs`, `ledger/jobs.rs`, `crates/miyu-session/src/{report,agents,messages}.rs`, `jobs/stop.rs`, `actor/life.rs` |
| `Delivery` | one connection and the subscriptions to a session: replay, pushes, replies, resync | `crates/miyu-session/src/{actor/mail,handle/subscription}.rs`, `crates/miyu-endpoint/src/{subscriptions,connection/streams}.rs` |
| `Outbox` | what she says in a group: the bridge's projection, queue and replay against the log | `crates/miyu-onebot/src/core/route.rs`, `core/route/{revive,speak,backlog,sending,queue,muted,quiet,projection,session}.rs`, `crates/miyu-chat/src/outbound/dedupe.rs` |
| `Spending` | the usage database against logs, journal, deletions, resets and power failures | `crates/miyu-store/src/{usage,usage/,log,journal,trash}*`, `crates/miyu-session/src/store.rs`, `crates/miyu-endpoint/src/usage.rs` |
| `SpendingProofs` | theorems about `Spending` | |
| `OutboxProofs` | theorems about `Outbox` | |
| `DeliveryProofs` | theorems about `Delivery` | |
| `MCLedger`, `MCSession`, `MCContext`, `MCAgents`, `MCDelivery`, `MCOutbox`, `MCSpending` | the small instances the configurations choose from | |

`Ledger`, `Kernel`, `Journal` and `Context` build on `LedgerRules`; `Handlers` extends
`Kernel`, `Session` extends `Handlers` and shows that it implements `Journal`.
`Session` and `Context` divide the kernel: `Session` has every order of inputs and
disk inside a turn and a history that only grows, `Context` has what becomes of the
history over many turns and takes a turn's inside in large steps.  `Agents` looks
at several sessions and reduces each to its turns and reports.

**The ledger.**  `book` is `struct Ledger`; `Legal` follows `Ledger::check`
and the `check_*` functions in their order, `Record` follows `Ledger::record`
with one operator per kind of event.  Sequence numbers start at 1, so 0 stands for
`None`; a call id is the pair (reply, position).

**The kernel.**  The kernel's state is one record `s`, a handler is an operator
from `s` to the next `s`.  `s.log` with `s.stored` stand for the events and
for the fields `stored` and `unstored`; `s.turn` is `Option<Turn>` with
`id = 0` for `None`; `stage` with `mark` are `enum Stage`, and the calls of
`Stage::Tools` are `turn.calls`.  The actions a handler returns are gathered in
`s.out`, the answers to commands in `s.replies`; the executor empties both.
`s.refused` becomes true where the program would panic (`record.rs:58`).  A
handler includes everything it calls: opening the next turn, refreshing facts,
dispatching the next calls.  Of a request only its end matters: whether anything was
sent, whether it said something besides calls, which calls are complete, and how
it failed; so `ModelDelta` and `RequestSent` are not inputs but part of what
`ModelEnded` and an interruption find.  Access of a tool is `read`, `write`,
`execute` (neither reads alone nor writes) or `bad` (unknown, or with
arguments that cannot be repaired).

**The executor.**  `Perform` is what `Actor::drain` does with the actions of
one input: the appended events are one batch, and answers reach whoever waits.
`issued` remembers what the executor was asked to do since the last load, and it
may report on any of it at any time, again and late: the kernel has to recognise
what is stale.  `Early` says whether an input may come in before an earlier batch
is on disk.  The actor reports `Stored` in the same drain that appended, so it
keeps them together as a rule; but it works through the actions of one input before
the inputs these produced, and the kernel's own contract (`session.rs`, and its
tests) allows both orders.  Scenes about orders use `TRUE`, scenes about long
executions use `FALSE`.  `Crash` keeps what was reported stored and any number of whole
events of the rest, because a torn write is cut at a line and not at a batch.
`PrepareRestart` is the last input before `StartAgain`: from then on only
`BatchStored` comes in, as in `actor/stop.rs`.  The variables `given` and `ran` are
history: they record what heads were told and what tools did across reloads and nothing
reads them except properties.

**The history.**  In `Context` an event is named by its number; `hist` is
`struct History` (checkpoint, events that count, undone ones, whether the whole log is
kept) and `Put` is `History::append`.  `told` of a checkpoint is ghost data: the
messages, replies and results its summary was made from, so that `ToldOnceAndAll`
can compare what the model is told with what the whole log says counts.  `prepare` is the
summary in the background with the state of the history it was begun at.  How large a
request is, is left to chance, as is how many of the newest groups fit the tail: any
request may cross the preparation line, the compaction line or the provider's limit.
Swapping a summary in always goes through a reading back of the log, the wait before
a retry is over at once, preparing is switched on.  `Rests` is that nothing waits for what does not
come, the summary in the background above all; that a session does not compact for ever is
`CompactionsCease`, a safety property about the whole log: compactions that come back within
`PauseTurns` turns are never more than `PauseRefills` in a row, across undone turns, summaries
prepared before and loading.

**Subagents.**  Session `s + 1` is the subagent of session `s`.  `owed`, `lapsed` and
`last` are `Duty`; `Replay` is what `load.rs` works out from the log.  A report
travels as a command with an id made from its turn, is answered, and its reporter
outlives the child's actor; the parent remembers `Capacity` ids of commands and its
own jobs.  `Halt` ends a child on its parent's behalf, `Retire` drops an idle actor.

**Subscriptions.**  A forwarder is a member of `subs` with its stage: it replays the
past it was given, relays what is pushed, drains when its session stopped, is
missed when it lagged (`Ring` overwritten pushes), writes a resync and flushes the
replies that go through it.  The connection works on one request at a time and its
write queue is bounded.  A head is `Careful` if it says after which event it wants
to be subscribed.  A forwarder whose subscription was dropped by `unsubscribe`
still flushes what it holds while the next one has begun; a head that unsubscribed
asked for nothing more, and `Handover` says nothing about those.

**What she says in a group.**  `log` has only the events the bridge looks at: what
she said, what was put on record, ends of turns, mutes.  The bridge is one task
(`Route::run`): while it waits for an answer of the core nothing else is handled, pushes
are held, and `task` says what it goes on with: `catching` up after a mute was put on
record, `following` a session again, `gathering` what was replayed.  `todo` are the pieces of
the sentence in hand: between two of them it may crash, as `Crash` may between the append and
its answer.  The clock is read where something depends on it: `Clock` chooses up to where the
log is past its deadline and whether the mute ran out, once and for all.
What the queue lets out is `ready` and handed over one piece after the other.
`cut` is the first event a lost subscription no longer pushed; it and what comes after it are
only heard after following again.  What the platform did with a piece is left open (delivered, refused, timed
out); `handed` and `ended` are history.  Of the outbound chain only the comparison with texts of
the same turn is modelled: a sentence carries the set of texts it resembles.

**Spending.**  A sum is the set of the requests in it.  Sessions write batches and
rows in two steps; queries read the journal and each directory without the lock
and write with it; a session moves from `live` to `trash`, is summed into the journal
and removed file by file; the database may be made again from nothing; a power
failure takes back its last updates and any part of a batch that is being synced.
Whichever query finds the database broken makes it again, and the others go on with what
they had read of the old one.  Three things are ghost data: `promised`, what was on disk when a
query began; `undercut`, that a query's database was made again after it had caught up;
and `skipped`, the entries of the journal a mark was moved past without taking them.

## What the runs show

| Run | Question | Properties |
|---|---|---|
| `ledger` | Whatever is offered in any order, does the log stay in order? | `TypeOK`, `OneResultPerCall`, `RedoMatchesUndo`, `CountsWhatIsLive`, `WithdrawnUnheard`, `TriggersUsedOnce` |
| `stops` | Approvals, questions, urgent messages and permission changes around the calls of a step, batches on disk early or late; interruptions of every kind with messages queued, requests that break off and are retried, nobody there | `StoppedStaysStopped`, `SentWhenAsked`, `HeardAtRest`, `NothingForgotten`, `OthersWait`, `HonestResults`, `NoWriteWhenReadOnly`, `InterruptionsEnd`, `TurnsEndUnattended` |
| `failures` | Two crashes with commands sent twice; two planned restarts and a crash, also while an interruption waits; one command more than the session remembers | `NeverRefused`, `EveryCommandAnswered`, `AnsweredSurvives`, `EffectOnce`, `RunsAreOnRecord`, `InterruptedNotResumed`, `ResumesBounded`, `KeepsJournal` |
| `context` | Compactions of every origin while turns are sent, interrupted, undone, brought back and cleared, requests fail, the process ends; compactions that do not help | `ToldOnceAndAll`, `ReloadAgrees`, `CompactionsCease`, `Rests` |
| `reports` | A session, its subagent and the reports on their way, under crashes, planned restarts, retirement, interruptions and stops | `ToldOnce`, `ReadBackAgrees`, `WaitingEnds` |
| `readback` (violated) | Does the log say what a live session knows it owes? | `ReadBackExact` |
| `delivery` | One head, slow or fast, subscribing and unsubscribing while events land and the session stops | `NoGapNoOverlap`, `ResultsBeforeReply`, `Handover`, `CatchesUp` |
| `careless` (violated) | Is a head that was told it is subscribed pushed to? | `SubscribedIsPushed` |
| `outbox` | A sentence in two pieces and one that repeats its end, a reply skipped and one after it; two turns; any two of crash, lost subscription, closing connection, mute | `SaidOnce`, `SkippedStaysUnsaid`, `NothingSwallowed`, `EveryPieceEnds` |
| `repeats` (violated) | Is a text on record in this turn recognised after a lost subscription? | `NothingRepeated` |
| `spending` | Two queries while a session writes, is deleted and purged, the database is set back or made again, also under the other query, the process or the power fails | `CountedOnce`, `CountedInFull` |
| `segments` (violated) | Does what a deleted session spent stay in the statistics? | `UsageKept` |

Every property of a passing run has at least one mutant of a mapped definition in
`PROJECT.json` that breaks it: a plausible slip in that code (a dropped guard, an
off-by-one, a missing reset) the property catches.  The mutated forms stand next
to the definitions they replace, marked `Wrong`; nothing uses them.

**Scenes.**  A behaviour of `Session`, `Context`, `Spending` and `MCLedger` begins with
the choice of a scene: a script and its bounds, chosen so that the features that
interact are together and their orders are explored completely.  `MCSession` has
`Approving`, `Questioning`, `Permitting`, `Interrupting`, `Retrying`, `Alone` (run
`stops`), `Crashing`, `Restarting` and `Forgetting` (`failures`).  The
commands of a scene may be sent in any order and at any moment; how few there are is
the main bound.

**Bounds.**  `ledger`: logs of 7 events about calls, 9 about undo and compaction, 6
about the queue, two calls to a reply: enough for a second undo over a compaction, its
redo, and a third turn.  `RETRY_LIMIT` is 5 in the code and 1 here, the step limit, the
number of resumes and the breaker's counts are policy; what matters is reaching the limit
and going one beyond.  `Capacity` of the ids remembered is 3 in `failures`, just enough for
the commands sent twice around crashes in `Crashing` and `Restarting`; `Forgetting` has a
fourth, so that three newer commands push an id out and its command takes effect again, which
`EffectOnce` allows then and not one command sooner.  It is never reached in
`stops`.  `Context`: three
messages, two other commands, two to four requests that cross a line, two faults or one
end of the process, each scene with its share.  In two more scenes, `Pressing` and
`Pausing`, every request may cross a line: the bound on those that do is never used up, so what
stops the compactions there is the breaker, or the end of what there is to do, and never the
bound.  The breaker pauses at two refills within two turns.  `Agents`: a parent and a child, one
message of a person, two calls, one interruption or stop, one fault, so that a report
meets at most one of each; with `Capacity = 2` newer commands can push a report's id out.
`Delivery`: three events and a command, a ring of two and two lines to write, so that
both overflow; three subscriptions, one stop.  `Outbox`: two sentences, two turns and two
troubles, enough for a loss during the recovery from another.
`Spending`: one session, two queries
(interchangeable, so symmetric); three events, two crashes and a reset (`Deleting`); two calls outside sessions and a reset
(`Skipping`), so that a mark can be moved past an entry the new database does not have; one such
call with a crash and a reset (`Losing`).  That the total of a deleted session is skipped
takes a session, a call and a crash together, which is only in the theorem.
One segment per log in `spending`, two in `segments`.

`CHECK_DEADLOCK FALSE` stands in the configurations because a system whose commands and
faults are used up really stops; that it never stops *while something is to be done* is
what `NothingForgotten`, `TurnsEndUnattended`, `Rests`, `WaitingEnds`, `CatchesUp` and
`EveryPieceEnds` say.

**Refinement.**  `KeepsJournal` is `Journal!Spec` with `log` and `stored` mapped to
the kernel's fields.  A step of the session extends the log by legal events, or moves
the stored mark, or is a crash that keeps at least what is stored.

## Findings

- `ReadBackExact`: a subagent whose turn a planned restart ended and nobody took up
  reports it as aborted, but neither that nor the report is in its log.  Read back, it
  owes the report again, and the report of a later turn that only a person asked
  for goes to the parent.  `ReadBackAgrees` is the same without such turns and holds.
- `SubscribedIsPushed`: a forwarder writes its resync before it says that it does not
  push any more (`subscriptions.rs:379`).  A head that reads the resync and subscribes
  again at once, without `after`, is told it is subscribed and never hears anything.
  The OneBot bridge subscribes to private chats so (`route.rs:448`).
- `NothingRepeated`: after a lost subscription the bridge hears the log again from where
  it was, and compares what she says with the texts put on record in that part alone
  (`revive.rs:136`), not with all of the turn, as `docs/blueprint/onebot.md:405` has it.  A
  sentence she says twice in a turn with the loss in between goes out twice.
- `UsageKept`: `remove_dir_all` takes a log of several segments away file by file; cut
  off in between, the next purge sums what is left and that smaller total counts.

## Fairness

`Session`.  `Punctual`: a written batch is synced and a timer fires, both the work of the
operating system and of the actor's own loop.  `Responsive` adds that hooks return,
requests end (the HTTP client has timeouts), the chain before a tool answers, tools
come back and a stopped process is started again.  No person has to do anything,
and no crash or restart has to happen or not to happen.  `InterruptionsEnd`
needs only `Punctual`: it must hold when tools hang.
`TurnsEndUnattended` has `Responsive` as its antecedent: with nobody to ask, a turn may
not wait.  `Responsive` supposes that a tool returns in the end, which the code does
not force for tools that are not told to stop; with a tool that hangs for ever, the
interruption is the way out and `InterruptionsEnd` covers it.

`Context`.  One weak fairness of everything the program and the provider do (`Work`):
requests end, tools return, the kernel goes on once a batch is on disk.

These two modules write out the states in which the actions change something instead of
using `WF`, because evaluating `ENABLED` on the handlers takes TLC very long.  Each
conjunct has the form `[]<>~can \/ []<><<A>>_vars`; `can` is true only where `A` has a
step that changes the state.

`Agents`: `WF_vars(Progress)`, that something is done as long as there is something to
do by the machine itself; no fairness of people, models or faults.  That a turn of a
subagent ends is part of `Progress`, which is what `TurnsEndUnattended` shows of one session.
`Delivery`: `WF_vars(Work)`, the actors, forwarders and the connection run and the head
reads what is written; and a head told to resync subscribes again.  Nothing is assumed
of how fast it reads.
`Outbox`: each thing the bridge's task has ready is done, what is handed over is answered
or times out, the clock goes on (`Wake` waits for a deadline or the end of a mute), and the core
starts the bridge again.  The connection need not open, a mute need not be lifted.

## What is proved

### The ledger

`LedgerProofs` proves, for logs of any length, replies with any number of calls and
any set of kinds:

| Theorem | Property |
|---|---|
| `TypeCorrect` | `TypeOK` |
| `TurnsDoNotOverlap` | `OneTurnAtATime` |
| `CallsGetOneResult` | `OneResultPerCall` |
| `DecisionsAreAsked` | `DecisionsAnswerRequests` |
| `HeardStays` | `WithdrawnUnheard` |
| `TriggersAreUsedOnce` | `TriggersUsedOnce` |
| `RedosMatchUndos` | `RedoMatchesUndo` |
| `LiveIsListed` | `CountsWhatIsLive` |

These are all properties of the module; the run `ledger` checks those that relate the log to
more than one field of the book, `OneTurnAtATime` and `DecisionsAnswerRequests` are proved
only.  The only assumption about constants is `LedgerBounds`.  What `Record` does to the book's fields
is in `RuleProofs`, which the proofs about the kernel use too.  The argument:

1. *An event is fit.*  Every action offers an event with the fields its kind needs
   (`NextOffers`), so each invariant is preserved once and for all for the step
   "a fit, legal event is appended and recorded" (`OfferEffect`), with a case for each
   kind that can disturb it.
2. *The book's shape* (`TypeInv`).  `TypeOK` is not inductive by itself: an undo cuts
   the lists where the first undone turn stands, so the lists must be known to be
   sequences of numbers of the log and of compactions, those of earlier undos
   included; the lemmas about `KeptBefore` and about appended sequences are used here.
3. *Each field has its own lemma* (`RecordNumbers`, `RecordPending`, ...): what
   `Record` does to it for every kind, so that later proofs never expand `Record`.
4. *Strengthenings.*  `TurnInv`: the open turn is the last one started and has not
   ended, every other one has.  `CallInv`: `pending` is exactly the set of calls of
   the open turn's replies without a result.  `AskInv`: `asking` holds those with a
   request newer than any decision.  `QueueInv`: a queued message is in the open turn,
   newer than what any request has seen and not withdrawn.  `TriggerInv`:
   `answered` covers every trigger of the log.
   Each one says that the book and the log agree, the property follows from it.
5. *The stack of undos.*  `UndoInv`: every entry of `undone` has its undo in the log; nothing
   was started or compacted since, and of the undos since as many are not redone as there are
   entries above it.  `LiveInv`: the turns that count and those of each entry are
   disjoint ascending lists of turns of the log, what was undone later before what was undone
   earlier (`Stacked`), each with exactly the compactions made in its turns, in their order
   (`Listed`); and a turn was undone as often as redone if it counts, once more if not
   (`Balanced`).  An undo cuts the list of compactions where it cuts the turns
   (`ListsCut`), a redo joins them again (`ListsJoined`), because the events of a turn lie before
   those of the next (`TurnsFollow`, from `TurnInv`).  That
   the property counts places instead of filtering the log is a bijection (`ListsPlaces`).

### A session

`SessionProofs` proves, for any scenes (any number of commands sent any number of times in any
order, any policy, any replies, any number of crashes and planned restarts, inputs before
or after earlier batches are on disk):

| Theorem | Property |
|---|---|
| `LogIsAJournal` | `KeepsJournal`, the refinement of `Journal` |
| `AnsweredSurvivesAlways` | `AnsweredSurvives` |
| `EveryCommandAnsweredAlways` | `EveryCommandAnswered` |
| `NeverRefusedAlways` | `NeverRefused` |
| `OthersWaitAlways` | `OthersWait` |
| `NoWriteWhenReadOnlyAlways` | `NoWriteWhenReadOnly` |
| `RunsAreOnRecordAlways` | `RunsAreOnRecord` |
| `HonestResultsAlways` | `HonestResults` |
| `HeardAtRestAlways` | `HeardAtRest` |
| `StoppedStaysStoppedAlways` | `StoppedStaysStopped` |
| `ResumesBoundedAlways` | `ResumesBounded` |

The assumptions are `KernelLimits` and `ScenesAreWellFormed`, which gives the fields of a scene
their types and says that no command has the id `None`.  A handler is an operator from state to
state that calls others, so the argument is one of lemmas about operators: a lemma
`<Handler>Onward`, `<Handler>Goes` or `<Handler>Linked` for each, used by those that call it.
`IInv` has the following parts.

1. *The log* (`Sound`, `KernelProofs`).  The log is a sequence numbered from 1, the
   book is the book of the log, what is stored is in it.  A handler takes the kernel
   `Onward`: the log is `Longer` by events legal in the book of all before them, and nothing is
   taken back.  `BookOf` and `Load` are folds; that a fold over a longer log goes on from
   the fold over the shorter one (`BookOfMore`, `BookOfBeginning`) comes from lemmas about
   their recursive functions (`Upwards` stands in for induction).
2. *Answers* (`Talking`).  What is answered or remembered of a command is a sequence of
   numbers, in order and at most the last, and an accepted answer's numbers are all stored when it
   is given (`Goes`).  `OnDisk` says that what a head was given is in the log
   below `stored`, as it was given; with `Longer` it stays there.  `Pending` says that the
   batches being written end inside the log, so what a crash keeps is a beginning of it.
3. *The refinement.*  The step of every action is a longer log, a moved mark or a crash that
   keeps a beginning and loads it (`Steps`), which are the three actions of `Journal`.  `Journal`
   has its rule book through `INSTANCE`: `SameLegal`, `SameRecord` and `SameBook` say that it is
   the same.
4. *The turn and the book agree* (`Linked`, `TurnProofs`).  `NeverRefused` needs the conditions of
   `Legal` in every state in which a handler makes an event.  `Rooted`: the running turn is
   the book's open one, what it has queued is what the book has.  `Matched`: the calls
   kept with the turn that are not done are those the book has open, and those asked about are
   those with an open request.  `Staged`: what calls there are in which stage.  `Calm` is the same
   between steps, where there are no calls.  In the middle of a handler they need not agree; its
   lemma then says what is left to settle (`SettleSettles`, `CutSettles`,
   `CancelStepCancels`).
5. *What a crash leaves.*  `Clean` says of a log that every event was legal and that no reply
   comes while calls are open; every beginning of it is clean (`CleanBeginning`).  `Tidy` is what the
   book of such a log looks like, and from it `Load`, which closes what is open with
   results and an end of the turn, is shown to make only legal events and a linked kernel
   (`RecoverLinked`, `LoadLinked`).
6. *Calls in order.*  `Orderly` is `OthersWait`; `Ready` starts only what may start, and no other
   change of state makes a call active that was not.
7. *Permission.*  The effective permission is never wider than the one in force, and
   whatever starts a call that writes looked at it (`OutFits`, `Permits`): a permission that gets
   tighter settles the calls it concerns in the same handler.

`EveryCommandAnswered` has an invariant of its own on top of `IInv`, `AllWaiting`: each command
waits in as many places as it is owed answers, each for a last event that is not on disk
yet, and no remembered answer has a number the log has not reached.  The last part is what a
command sent again needs: it is answered with what is remembered, and would wait for ever for
a number that never comes.  `Hears` says of every handler of a command that it tells once,
at once or by waiting for an event it has recorded; for an interruption this rests on the closed
turn recording its end (`ClosedHears`).  That a batch on disk splits those who wait into those told
and those who go on waiting, none twice and none lost, is a fact about sequences (`CountSplit`).

`RunsAreOnRecord` and `HonestResults` have one more, `Faithful`, which relates the calls a tool was
ever started for (`ran`, and what the input at hand starts: `Begun`) to the log and to the calls
of the turn.  Neither is inductive: what the turn says of a call decides whether it is started and
what its result says, and what is on disk decides what a crash leaves of it.

- `OnRecord` is about the log.  The reply of a call that was started, and all that was asked and
  decided about it, is among the events *on disk* (`Documented`), so every beginning of the log a
  crash may leave still has it (`OnRecordLeft`); every result is `Honest`.
- `Steady` is about a call of the turn.  Its state says whether it was started; one that waits has
  no notes yet and its reply will be on disk when the wait is over, one that is guarded or asked
  about has its reply on disk, one that is approved has all its notes up to the decision it waits for.
- `Accounts` is about the book: an open call has no result, and as many decisions as requests, or one
  fewer while a person is asked.  So a call can be started only when the two are equal
  (`PendingDocumented`).

A handler that starts nothing and decides nothing is `Tame`, and tame steps are
taken together; `<Handler>Faithful` is the lemma of each handler.  What `Load` gives a result to
was started or not, nobody knows: such a result says `restarted`, which claims neither.

`HeardAtRest`, `StoppedStaysStopped` and `ResumesBounded` share one invariant, `HeedInv`: the kernel
is `Attentive`, and it rests once it was told to stop.  `Attentive` has two halves.

- `Founded` is about the log.  Every turn was opened for one of two reasons: by a message
  (`FromMessage`), said after the last turn ended or in the turn that ended just before, and
  whoever interrupted that one asked for what is queued to be sent; or by a planned restart
  (`FromRestart`), as a replay of the log up to there has it.  A reason depends on nothing that comes
  later, so a beginning of the log keeps it (`FoundedBefore`), which is what a crash needs.
  From the first reason and what a replay recalls of the last turn (`Recalls`), no turn
  opens from before an interruption that was the last word (`StaysStopped`); and along the replay
  the turns taken up in a row are never more than the restarts counted (`Counted`, `TakenUpSoOften`).
- `Heeding` is about the turn.  Whoever is still unheard is queued, or in view of the request under
  way, or the turn has not asked yet.  A crash may leave a message without the turn
  that hears it ("Behaviours seen"), so this half is kept only while none happened; a
  planned restart finds nobody unheard, since a session told to stop rests and rests until it
  stops (`StoredRests`).

`<Handler>Heeds` is the lemma of each handler.  The circumstances a handler is not told of, such as
which commands interrupt to send, are a parameter of all of them, and `Deaf` is the same
with nobody to be heard, for the middle of a handler, where messages are already out of the queue
and not yet asked about.

### Spending

`SpendingProofs` proves, for any number of sessions and queries, logs and journals of
any length and any bounds:

| Theorem | Property |
|---|---|
| `SpendingTypes` | `TypeOK` |
| `NeverTwice` | `CountedOnce` |
| `NothingUncounted` | `CountedInFull` |
| `ToldUntilMadeAgain` | `ToldInFull` and `JournalIsRead`, until a database is made again |
| `OneSegmentIsKept` | `UsageKept` |

The assumption is `SpendingLimits`.  The last three have a hypothesis of their own: logs
are of one segment (`OneSegment`), because of a log of several a removal cut off
in between leaves a smaller total, which is the finding `UsageKept`.  It holds in the run
`spending`.  Nothing is assumed of when the database is made again: `CountedInFull`
says itself what may be missing then, a query that was `undercut` and the entries
`skipped`, and `NothingUncounted` that nothing else is.  `CountedOnce` alone is not inductive: a query has
read rows it will write later, the database may fall back to an older one, and a
purge sums a log before it removes it.  `IInv` says in addition

- `LogsAreSpent`, `TotalsAreSpent`: logs and journal entries only have requests the
  session sent; a live session's log still has all of them; an entry is of a session that
  is not live any more;
- `DeletedAreRemoved`: what is due to be purged or being removed is not live;
- `HeldIsSpent`, `ReadIsThere`: what a query holds between reading and writing was sent, and
  the entries it read are in the journal;
- `Sound(db)` and `Sound(saved)`: in the database *and in the one a power failure leaves*,
  rows and totals were sent; a session counts by its rows until its mark says it was
  deleted, by its total from then on;
- `SavedIsSynced`: a row a power failure leaves is of an event it leaves too.

`SoundFor(d, sent, where)` takes the database as a parameter, so that its preservation is
proved once and used for both (`StaysSound`, `ReplacedSound`, `AdvanceSound`).

`CountedInFull` needs the other direction, that nothing is missing.  Its invariant has two layers.
`DInv` is about the disk: a log can be read whole or not at all (`LogsAreWhole`), an entry of the
journal has all its session sent (`EntriesAreWhole`), and what cannot be read any more is in
the journal (`GoneIsEntered`).  `FInv` is about the databases and the queries: a database, and the one
a power failure leaves, counts everything up to its marks (`CountsUpTo`), no mark
is ahead of what is there to stay (`MarksFit`), and every query keeps its word (`KeepsWord`): each
request it promised is counted, or in what it holds, or can still be read where it is
going to look, at each of its stages.  While another query, a deletion or a loss comes in
between, a request only moves from one of these places to another.  The journal's entries up to
the mark are in the database or among those skipped, and a database made again takes
everything away from a query that had caught up the old one, which is then undercut, and nothing
from one that has not looked yet.

`ToldUntilMadeAgain` is `CountedInFull` without its exceptions, for as long as nobody has made the
database again: `UInv` adds that nothing is skipped, that nobody is undercut, and that a query that
has read the journal from a mark on finds all before it in the database.  A power failure
takes back the mark together with the entries, so it does not break this.

### What she says in a group

`OutboxProofs` proves, for any texts and speeches, any number of turns and any number of crashes,
lost subscriptions, closed links and mutes:

| Theorem | Property |
|---|---|
| `OutboxTypes` | `TypeOK` (of `OutboxProofs`) |
| `NeverSaidTwice` | `SaidOnce` |
| `NeverSaidAgainstHer` | `SkippedStaysUnsaid` |
| `NeverSwallowed` | `NothingSwallowed` |

The assumptions are `OutboxLimits` and `SpeechesAreSentences`.  None of the three is inductive:
what the bridge will do next depends on what it read of the log before the crash or the loss, and
on what the log has that it has not heard again.  `IInv` relates the two:

- *Shape* (`RecordsAreOfSpeech`, `InHandIsHeard`, `InTheLog`, `TaskFits`): a record is of a
  piece of an earlier sentence; what is in hand or kept for later was heard; sentences are kept only
  while the task gathers what is replayed.
- *Said once.*  `RecordsAhead`: a record of a sentence not heard yet is among what will be
  replayed before anything new, so no sentence is taken up live that has a record.
  `KeptIsKnown`: the records of a sentence kept for later are all replayed, and known once
  heard; so when it is taken up again, what is left of it is not on record (`LeftIsNew`) and every
  piece gets there once (`RecordedOnce`).  `InLine`: what was handed over is before all that waits.
- *Skipped.*  `TurnsInOrder`: nothing is said in a turn after its end.  `QuietIsKnown`: a turn
  with a skip heard is remembered until its end is heard.  Together a sentence that is not hushed
  has no skip before it (`UnhushedIsUnskipped`), so neither has what is in hand or kept.
- *Nothing swallowed.*  `KnownIsRecorded`: what the bridge takes for said is on record or in hand.
  `HeardIsAccounted`: every sentence heard is kept for later, in hand, on record or too late.

Each has a lemma that says every step keeps it; the steps that change nothing of it are
taken together (`StillSteps`, `ToldSteps`, `LookedSteps`), and what a step does to the
log is proved once (`LogGrows`, `SpeechKept`, `RecordsKept`, `Recorded`).

### Events on their way to a head

`DeliveryProofs` proves, for rings and queues of any size, heads of both kinds and any number
of events, commands, stops and subscriptions:

| Theorem | Property |
|---|---|
| `DeliveryTypes` | `TypeOK` (of `DeliveryProofs`) |
| `PastAndPushesJoin` | `NoGapNoOverlap` |
| `EventsBeforeReply` | `ResultsBeforeReply` |
| `OneAfterTheOther` | `Handover` |

The assumption is `DeliveryLimits`.  The properties speak of the lines that wait to be read; that a
forwarder writes the right one next depends on where it stands, which they do not mention.  `IInv`
adds

- `PastJoins`: a subscription's past ends where its pushes begin, and a forwarder leaves
  the past only when it has written all of it;
- `EventsChained`: the events written and not read are exactly the numbers between the last one
  read and the forwarder's position, in order.  `Chain` says it of any sequence of lines, so
  that what writing and reading a line do to it are four lemmas about sequences (`ChainGrows`,
  `ChainApart`, `ChainRead`, `ChainSpared`); `NoGapNoOverlap`, which counts lines, follows by
  a bijection between the lines and the numbers (`ChainCounted`);
- `RepliesAreAnswers`, `EndedIsTold`: a reply is to a command whose event had landed when it was
  answered, and a forwarder that does not push any more has told so or gets no replies.  With
  them a forwarder that has delivered everything pushed, or told the head, may write a reply
  (`ReplyIsCovered`);
- `OneAtATime`, `Registered`: all but the last subscription have written everything or were given
  up, and between two subscriptions there is none.  `OneAtATime` alone is not inductive: a new one
  begins after the wait for the one registered before it;
- `OfSubscriptions`, `BeingRead`, `ClosedIsOut`, `UnreadAhead`: what is pointed at is there.

`ForwarderSteps` lists what a forwarder's step may do; the ten steps that leave
positions alone are taken together (`AsideSteps`).

### How the modules are written for it

`Picked` and `Event` in `Kernel` are functions where `SelectSeq` and `@@` would do: the provers know
neither of the two.  No module a theorem is about has a `RECURSIVE` operator.

### Only model-checked

- Of `Session`: `EffectOnce`, which counts the commands that come in between,
  `SentWhenAsked`, which looks at what was queued when a person interrupted to send,
  `NothingForgotten`, which needs everything the executor was ever asked to do, and
  `InterruptedNotResumed`, which holds for the commands of the scenes, not for any.
- The properties of `Context` and `Agents`.
- All liveness, which this prover does not reach.

## Behaviours seen and left as they are

No document says otherwise, or the model has a bound that excludes them:

- After a crash that keeps a `message.user` and loses the `turn.started` of the same
  batch, nobody answers the message until the next one comes.  `HeardAtRest` and
  `SentWhenAsked` are stated for executions without a crash.
- Messages sent while an interruption with `keep` or `return` waits for a stopping tool
  are kept or withdrawn with the others.
- An urgent message sent while calls are pending is answered with its `message.user`;
  after a reload the answer to the same command is rebuilt from the log and also carries the
  results the message skipped (`session/load.rs:322`).  `docs/blueprint/kernel/session.md:194`
  says the two are the same, `session.md:535` that they may differ.
- The bridge compares a whole sentence with the texts on record before it looks for pieces
  not on record.  If it died after the first piece of a sentence and that piece has most of the
  sentence's pairs of letters, the sentence counts as a repetition and the rest of it is not
  said (`revive.rs:145`, `outbound/dedupe.rs:36`).  `NothingSwallowed` is stated for sentences
  that resemble nothing.
- What she says while the bridge gathers a replay is said before older sentences that are
  said again.  `SaidOnce` is about pieces in the order of their records.
- `catch_up_journal` writes its mark without looking whether the database was made
  again since it read (`usage/catch_up.rs:184`).  A query overlapping another's reset then
  skips entries of the journal until the database happens to be made again; what is missing is a call
  outside sessions or the total of a deleted session, since logs are compared before their mark
  moves.  Likewise a query adds up what little there is when another one made the database again
  after it had caught up (`crates/miyu-endpoint/src/usage.rs:106`), and gets no error to try again on.
  `docs/designs/07-存储.md:192` (read back from the journal) and `docs/blueprint/models.md:426` (first
  caught up, then asked) make no exception.  The model does both: `CountedInFull` names these
  two exceptions and no other.  `tlc -config MCSpending_resets.cfg MCSpending` finds a behaviour
  that violates `JournalIsRead`, `MCSpending_undercut.cfg` one that violates `ToldInFull`; up to the
  first such reset both hold (`ToldUntilMadeAgain`).
- A query that overlaps the discarding or purging of a session may miss that session once:
  its directory is not where the query looks.  `Disturbed` withdraws the promise made
  to such a query; the next one is in full.

## Not modelled, and why

- In the kernel: pictures, background commands and watchers, messages between
  unrelated sessions, overheard messages in `Session` (their rules are in `Ledger`), restoring
  files, redoing with a changed message, model fail-over, titles, recaps and
  other side requests.  They do not take part in what the modules ask, or are I/O.
- In `Context`: tools asked to stop, half replies, torn batches (all in `Session`),
  summaries made from a shortened or isolated request, and what a summary says.
- In `Agents`: agents in the foreground (their call simply waits), undone turns,
  one-shot sessions, what a report says.
- In `Delivery`: views, transient events, other streams, unreadable logs, lost connections:
  a lost connection ends everything that belongs to it.
- In `Outbox`: private chats, notices, receipts and their recall, quoting and mentioning,
  reactions, returning what failed to her, several groups, a session that cannot be followed
  any more, a bot not known yet; and the other half of the bridge: which messages are
  recorded, judged, superseded and answered.
- In `Spending`: broken logs and a database that cannot be used at all; a failing database
  is made again.  `Checkpoint` does not happen while a batch is being synced.  The
  session index and the recall index follow the same pattern and are not repeated.
- The texts of results and facts: a result carries only the reason, a fact only which
  permission it told.  The length of waits: a wait is over at any time.  Bytes of the
  log: a line is whole or it is cut.
- Drivers, HTTP, configuration, sandbox, transport, memory, MCP, packages, heads: decoding,
  encoding, presentation and operating-system calls, which is most of the code by lines.
  What the core needs of them are inputs of the models.

## Plan

1. *Chat*: the incoming half of the bridge, who supersedes whom, what is judged once across
   restarts of either side.
2. *Several connections and the table of sessions*: loading, retiring and deleting a
   session while heads hold it.
3. *Peers*: flood control and idle notices.
4. *Proofs*: of `Session`, `NothingForgotten` (the calls of the turn against what the executor
   was asked to do); `ToldOnce` for any number of faults.
