------------------------------ MODULE Session ------------------------------
(***************************************************************************)
(* One session running: heads send commands, the executor carries out the  *)
(* kernel's actions and reports back, the log reaches the disk batch by    *)
(* batch, the process crashes or restarts on purpose and loads the session *)
(* from what is on disk.                                                   *)
(*                                                                         *)
(* Source: crates/miyu-kernel/src/session.rs for what an input does,       *)
(* crates/miyu-session/src/actor.rs for who sends it and when,             *)
(* crates/miyu-store/src/log.rs and log/open.rs for what a crash keeps.    *)
(***************************************************************************)
EXTENDS Handlers

\* A scene is one set of circumstances the session runs in; a configuration may
\* have several, and each behaviour stays in the scene it starts with:
\*   script      what each command asks for, by command id
\*   policy      the policy the session is loaded with
\*   endings     how a request may end
\*   halves      what a request cut off may have brought so far
\*   verdicts    what the chain before a tool may say
\*   injects     whether a hook may inject a fact: a set of booleans
\*   asks        may a tool ask a person (once in a call)
\*   early       may an input come before an earlier batch is on disk
\*   maxSends, maxCrashes, maxRestarts
\*               bounds: times a command is sent, crashes, planned restarts
CONSTANTS
  Permission,    \* the permission the session is created with
  Scenes         \* the scenes, by name

ASSUME ScenesAreWellFormed ==
  \A name \in DOMAIN Scenes :
    LET c == Scenes[name] IN
    /\ None \notin DOMAIN c.script
    /\ c.policy.stepLimit \in Nat \ {0} /\ c.policy.resumes \in Nat
    /\ c.policy.attended \in BOOLEAN
    /\ c.maxSends \in Nat /\ c.maxCrashes \in Nat /\ c.maxRestarts \in Nat
    /\ c.asks \in BOOLEAN /\ c.early \in BOOLEAN /\ c.injects \subseteq BOOLEAN
    /\ \A end \in c.endings \union c.halves :
         end.calls \in Seq({"read", "execute", "write", "bad"})
    /\ \A id \in DOMAIN c.script :
         /\ c.script[id].op \in {"send", "interrupt", "permission", "approve", "answer"}
         /\ c.script[id].op = "interrupt" => c.script[id].queued \in {"return", "keep", "send"}

VARIABLES
  scene,       \* the name of the scene
  kernel,      \* struct Session
  ends,        \* last numbers of the batches written but not reported stored
  issued,      \* what the executor was asked to do since the last load
  sends,       \* how often each command was sent
  aim,         \* the call an answer is about, the turn an interruption is about
  owed,        \* how many times each command waits for an answer
  crashes,
  restarts,
  given,       \* history: the events of each command's first accepted answer
  ran          \* history: every call a tool was started for, over all loads

bounds == <<sends, aim, crashes, restarts>>
history == <<given, ran>>
vars == <<scene, kernel, ends, issued, owed, bounds, history>>

Scene == Scenes[scene]
Script == Scene.script
Ids == DOMAIN Script

Unanswered == [ok |-> FALSE, events |-> << >>]

Init ==
  LET created == [k |-> "session.created", perm |-> Permission,
                  seq |-> 1, turn |-> 0, cause |-> None]
  IN  /\ scene \in DOMAIN Scenes
      /\ kernel = Load(<<created>>, Scene.policy)
      /\ ends = << >> /\ issued = {} /\ crashes = 0 /\ restarts = 0
      /\ sends = [id \in Ids |-> 0]
      /\ aim = [id \in Ids |-> << >>]
      /\ owed = [id \in Ids |-> 0]
      /\ given = [id \in Ids |-> Unanswered]
      /\ ran = {}

----------------------------------------------------------------------------
(***************************************************************************)
(* Carrying out the actions of one input.                                  *)
(***************************************************************************)
RepliesTo(s, id) == {i \in DOMAIN s.replies : s.replies[i].id = id}

FirstGiven(s, id) ==
  LET accepted == {i \in RepliesTo(s, id) : s.replies[i].ok}
      events == s.replies[Min(accepted)].events
  IN  IF given[id].ok \/ accepted = {} THEN given[id]
      ELSE [ok |-> TRUE, events |-> [i \in DOMAIN events |-> s.log[events[i]]]]

\* Names that are used once: a request, the hooks of a turn, a wait, a call.
Named == {"CallModel", "Wake", "RunTurnStartHooks", "RunTurnEndHooks",
          "GuardTool", "RunTool"}

Runs(actions) == {a \in actions : a.a = "RunTool"}

\* Actor::act for every action the input gave: what was appended is one batch,
\* answers go to the heads that wait, the rest is started.  received is the
\* command that came with the input, None when there was none; left are the
\* batches that stay unsynced.
Perform(s, received, left) ==
  /\ UNCHANGED scene
  /\ kernel' = [s EXCEPT !.out = {}, !.replies = << >>]
  /\ ends' = IF Len(s.log) > Len(kernel.log) THEN Append(left, Len(s.log)) ELSE left
  /\ issued' = issued \union {a \in s.out : a.a \in Named \union {"StopTool"}}
  /\ ran' = ran \union Runs(s.out)
  /\ owed' = [id \in Ids |-> owed[id] + (IF id = received THEN 1 ELSE 0)
                              - Cardinality(RepliesTo(s, id))]
  /\ given' = [id \in Ids |-> FirstGiven(s, id)]

\* Unless early, a batch is on disk before the next input comes in.  Once the
\* session is told to restart, nothing comes in any more but what is stored.
Quiet == (Scene.early \/ ends = << >>) /\ ~kernel.restarting

Reported(s) == Quiet /\ Perform(s, None, ends) /\ UNCHANGED bounds

----------------------------------------------------------------------------
(***************************************************************************)
(* Inputs.                                                                 *)
(***************************************************************************)
\* A head sends a command, for the first time or again.
Command(id) ==
  LET op == Script[id]
      calls == {kernel.turn.calls[i].id : i \in DOMAIN kernel.turn.calls}
      known == \E i \in DOMAIN kernel.recent : kernel.recent[i].id = id
      aims == CASE op.op = "interrupt" /\ ~known -> {<<kernel.turn.id>>}
                [] op.op \in {"approve", "answer"} /\ sends[id] = 0 -> calls
                [] OTHER -> {aim[id]}
  IN  /\ Quiet
      /\ sends[id] < Scene.maxSends
      /\ \E call \in aims, half \in Scene.halves :
           /\ Perform(Receive(kernel, id, op, call, half), id, ends)
           /\ aim' = [aim EXCEPT ![id] = call]
      /\ sends' = [sends EXCEPT ![id] = @ + 1]
      /\ UNCHANGED <<crashes, restarts>>

\* The oldest batch has been synced.
BatchStored ==
  /\ ends # << >>
  /\ Perform(Stored(kernel, Head(ends)), None, Tail(ends))
  /\ UNCHANGED bounds

\* The executor reports on anything it was ever asked to do since the last load:
\* late and repeated reports are for the kernel to recognise.
Asked(kind) == {a \in issued : a.a = kind}

Hooked ==
  \E a \in Asked("RunTurnStartHooks"), injected \in Scene.injects :
    Reported(TurnStartHooked(kernel, a.turn, injected))

RequestEnded ==
  \E a \in Asked("CallModel"), ending \in Scene.endings :
    Reported(ModelEnded(kernel, a.seen, ending))

TimeUp == \E a \in Asked("Wake") : Reported(Woke(kernel, a.seen))

Guarded ==
  \E a \in Asked("GuardTool"), verdict \in Scene.verdicts :
    Reported(ToolGuarded(kernel, a.call, verdict))

\* A tool comes back; only one that was told to stop may have stopped short.
Returned ==
  \E a \in Asked("RunTool"), stopped \in BOOLEAN :
    /\ stopped => [a |-> "StopTool", call |-> a.call] \in issued
    /\ Reported(ToolDone(kernel, a.call, stopped))

ToolAsked ==
  \E a \in Asked("RunTool") :
    /\ Scene.asks
    /\ ~\E i \in DOMAIN kernel.log : /\ kernel.log[i].k = "question.asked"
                                     /\ kernel.log[i].call = a.call
    /\ Reported(ToolAsks(kernel, a.call))

----------------------------------------------------------------------------
(***************************************************************************)
(* Crashes and restarts.                                                   *)
(***************************************************************************)
\* The process is gone with what it was doing; the session is loaded from a log.
Reload(log) ==
  LET s == Load(log, Scene.policy) IN
  /\ kernel' = [s EXCEPT !.out = {}]
  /\ ends' = IF Len(s.log) > Len(log) THEN <<Len(s.log)>> ELSE << >>
  /\ issued' = {}
  /\ owed' = [id \in Ids |-> 0]
  /\ UNCHANGED <<scene, sends, aim, history>>

\* Wrong: the last event reported stored was not synced yet.
CrashLosesSynced ==
  /\ crashes < Scene.maxCrashes
  /\ \E keep \in Max({1, kernel.stored - 1})..Len(kernel.log) :
       Reload(SubSeq(kernel.log, 1, keep))
  /\ crashes' = crashes + 1
  /\ UNCHANGED restarts

\* A crash keeps what is on disk and any number of whole events of the rest.
Crash ==
  /\ crashes < Scene.maxCrashes
  /\ \E keep \in kernel.stored..Len(kernel.log) : Reload(SubSeq(kernel.log, 1, keep))
  /\ crashes' = crashes + 1
  /\ UNCHANGED restarts

\* Input::Restarting, the last input before the process stops.
PrepareRestart ==
  /\ restarts < Scene.maxRestarts
  /\ Quiet
  /\ \E half \in Scene.halves : Perform(Restart(kernel, half), None, ends)
  /\ restarts' = restarts + 1
  /\ UNCHANGED <<sends, aim, crashes>>

\* Everything is on disk, the process stops and starts again.
StartAgain ==
  /\ kernel.restarting /\ ends = << >>
  /\ Reload(kernel.log)
  /\ UNCHANGED <<crashes, restarts>>

Next ==
  \/ \E id \in Ids : Command(id)
  \/ BatchStored \/ Hooked \/ RequestEnded \/ TimeUp \/ Guarded \/ Returned
  \/ ToolAsked \/ Crash \/ PrepareRestart \/ StartAgain

Spec == Init /\ [][Next]_vars

(***************************************************************************)
(* Fairness: what the executor owes it does in the end.  Each conjunct is  *)
(* the weak fairness of one action, with the states in which that action   *)
(* changes something written out: TLC works out ENABLED of these actions   *)
(* far too slowly.                                                         *)
(***************************************************************************)
InState(states) ==
  \E i \in DOMAIN kernel.turn.calls : kernel.turn.calls[i].state \in states

MayWake ==
  Quiet /\ \E a \in Asked("Wake") :
             \/ kernel.turn.stage = "waiting" /\ a.seen = kernel.turn.mark
             \/ kernel.turn.intr.wake = a.seen

\* Batches are synced, and the session is woken when it asked to be.
Punctual ==
  /\ []<>(ends = << >>) \/ []<><<BatchStored>>_vars
  /\ []<>~MayWake \/ []<><<TimeUp>>_vars

\* Hooks return, requests end, chains give a verdict, tools come back, and a session
\* stopped on purpose is started again.  Nobody has to send anything.
Responsive ==
  /\ []<>~(Quiet /\ kernel.turn.stage = "hooking") \/ []<><<Hooked>>_vars
  /\ []<>~(Quiet /\ kernel.turn.stage = "asking") \/ []<><<RequestEnded>>_vars
  /\ []<>~(Quiet /\ InState({"guarding"})) \/ []<><<Guarded>>_vars
  /\ []<>~(Quiet /\ InState({"running", "stopping"})) \/ []<><<Returned>>_vars
  /\ []<>~(kernel.restarting /\ ends = << >>) \/ []<><<StartAgain>>_vars

PunctualSpec == Spec /\ Punctual

----------------------------------------------------------------------------
(***************************************************************************)
(* Safety.                                                                 *)
(***************************************************************************)
Log == kernel.log
Turn == kernel.turn
Events(kind) == {i \in DOMAIN Log : Log[i].k = kind}

\* The kernel never makes an event its own ledger refuses (it would panic), and
\* whatever a crash leaves of the log can be loaded.
NeverRefused == ~kernel.refused

\* Kernel invariant 7: a command is answered exactly as often as it was received.
\* Whatever is not answered yet waits for its events to reach the disk.
EveryCommandAnswered ==
  \A id \in Ids :
    /\ owed[id] = Cardinality({i \in DOMAIN kernel.waiting : kernel.waiting[i].id = id})
    /\ \A i \in DOMAIN kernel.waiting :
         Last(kernel.waiting[i].events) \in (kernel.stored + 1)..Len(Log)

\* docs/designs/07- section 4: what a head was told was accepted is in the log for
\* ever, as it was, through crashes and torn batches.
AnsweredSurvives ==
  \A id \in Ids : \A e \in Range(given[id].events) :
    e.seq \in DOMAIN Log /\ Log[e.seq] = e

\* Kernel invariant 9: a command takes effect at most once however often it is
\* sent, before and after crashes and restarts; it may take effect again only when
\* Capacity other commands have come in meanwhile and pushed it out of the memory.
Effect(id) ==
  {i \in DOMAIN Log :
     /\ Log[i].cause = id
     /\ \/ Log[i].k \in {"message.user", "policy.changed", "approval.decided",
                         "question.answered"}
        \/ Log[i].k = "turn.ended" /\ Log[i].reason = "interrupted"}

EffectOnce ==
  \A id \in Ids :
    Cardinality(Effect(id)) > 1 =>
      Cardinality({other \in Ids \ {id} : sends[other] > 0}) >= Capacity

\* A tool is started only for a call whose reply is on disk, and if a person had
\* to allow it, the permission is on disk too: no crash makes a tool's work
\* unaccounted for.
Decisions(call, kind) == {i \in Events(kind) : Log[i].call = call}

RunsAreOnRecord ==
  \A r \in ran :
    /\ r.call[1] \in Events("message.assistant")
    /\ r.call \in Range(Log[r.call[1]].calls)
    /\ Cardinality(Decisions(r.call, "approval.decided"))
         = Cardinality(Decisions(r.call, "approval.requested"))

\* The result of a call does not lie about whether a tool ran.
HonestResults ==
  \A i \in Events("tool.result") :
    LET started == \E r \in ran : r.call = Log[i].call IN
    /\ Log[i].why \in {"before", "skipped", "denied", "unknown"} => ~started
    /\ Log[i].why \in {"done", "running", "voided", "interrupted", "unanswered"} => started

\* Calls that do anything but read run alone and in the order of the reply.
Active(c) == c.state \notin {"waiting", "done"}

OthersWait ==
  \A i, j \in DOMAIN Turn.calls :
    i < j /\ ~(Turn.calls[i].access = "read" /\ Turn.calls[j].access = "read")
      => Turn.calls[i].state = "done" \/ Turn.calls[j].state \in {"waiting", "done"}

\* Unless the process crashes, a message is heard before the session rests, or the
\* turn that would have heard it was interrupted.
HeardAtRest ==
  crashes = 0 /\ Idle(kernel) =>
    \A m \in Events("message.user") :
      \/ \E i \in Events("model.called") : Log[i].seen >= m
      \/ \E i \in Events("turn.ended") :
           i > m /\ Log[i].reason \in {"interrupted", "aborted", "restarted"}

\* Nothing is forgotten: a turn that does not rest waits for a batch that is being
\* written, for a person, or for something the executor was really asked to do
\* since the last load, under the name the kernel will recognise.
Due(kind, field, name) == \E a \in Asked(kind) : a[field] = name

NothingForgotten ==
  LET call(i) == Turn.calls[i].id
      in(i, states) == Turn.calls[i].state \in states IN
  \/ Idle(kernel)
  \/ ends # << >>
  \/ Turn.stage = "hooking" /\ Due("RunTurnStartHooks", "turn", Turn.id)
  \/ Turn.stage = "asking" /\ Due("CallModel", "seen", Turn.mark)
  \/ Turn.stage = "waiting" /\ Due("Wake", "seen", Turn.mark)
  \/ \E i \in DOMAIN Turn.calls :
       \/ in(i, {"asking", "questioning"})
       \/ in(i, {"guarding"}) /\ Due("GuardTool", "call", call(i))
       \/ in(i, {"running"}) /\ Due("RunTool", "call", call(i))
       \/ in(i, {"stopping"}) /\ Due("StopTool", "call", call(i))
                               /\ Due("Wake", "seen", Turn.intr.wake)

\* After a planned restart the turn is taken up again by itself, but at most
\* policy.resumes times in a row; a turn that crashed is never taken up.
Resumed ==
  {t \in Events("turn.started") : Log[Log[t].trigger].k = "turn.ended"}

ResumesBounded ==
  /\ \A t \in Resumed : Log[Log[t].trigger].reason = "restarted"
  /\ \A t \in Resumed :
       Cardinality({r \in Resumed : r <= t /\ \A u \in Events("turn.started") :
                       r < u /\ u <= t => u \in Resumed}) <= Scene.policy.resumes

\* An interruption that keeps or withdraws the queue is the last word on it: no
\* turn is opened by anything said before the turn ended so.
StoppedStaysStopped ==
  \A i \in Events("turn.ended") : \A t \in Events("turn.started") :
    /\ i < t
    /\ Log[i].reason = "interrupted"
    /\ Script[Log[i].cause].queued \in {"keep", "return"}
    => Log[t].trigger >= i

\* Unless the process crashes, an interruption that sends the queue does so at once, also
\* when it waits for a tool first (interrupt.rs): what was said while the turn ran, and no
\* request has seen, opens the next turn before anything else happens.
Unseen(i) ==
  {m \in Events("message.user") :
     /\ Log[i].turn < m /\ m < i
     /\ \A c \in Events("model.called") : c < i => Log[c].seen < m}

SentWhenAsked ==
  crashes = 0 => \A i \in Events("turn.ended") :
    /\ Log[i].reason = "interrupted"
    /\ Script[Log[i].cause].queued = "send" /\ Unseen(i) # {}
    => /\ i + 1 \in Events("turn.started")
       /\ Log[i + 1].trigger = Max(Unseen(i))

\* A turn that a person interrupted is not taken up again after a restart, even if
\* the restart came while the interruption was waiting for a tool.
InterruptedNotResumed ==
  \A id \in Ids : Script[id].op = "interrupt" /\ given[id].ok =>
    \A i \in Events("turn.ended") :
      Log[i].turn = aim[id][1] => Log[i].reason # "restarted"

----------------------------------------------------------------------------
(***************************************************************************)
(* What a step may not do.                                                 *)
(***************************************************************************)
\* While the session is read-only no call that writes is started.
NoWriteWhenReadOnly ==
  [][\A r \in ran' \ ran : r.write => Rank(kernel'.perm) # 0]_vars

----------------------------------------------------------------------------
(***************************************************************************)
(* What must happen in the end, and the log seen from outside.             *)
(***************************************************************************)
\* Where nobody attends and the executor answers, every turn ends: no call waits for
\* a person, no request is retried, no step taken and no turn reopened for ever.
TurnsEndUnattended ==
  Responsive => ((~Idle(kernel) /\ ~Scene.policy.attended) ~> Idle(kernel))

\* An interruption is over after a while even if the tool it waits for never
\* comes back.
InterruptionsEnd == Turn.intr.wake # 0 ~> Turn.intr.wake = 0

\* The log of a session is a journal.
Outside == INSTANCE Journal WITH log <- kernel.log, stored <- kernel.stored
KeepsJournal == Outside!Spec
=============================================================================
