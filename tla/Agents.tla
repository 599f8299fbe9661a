------------------------------- MODULE Agents -------------------------------
(***************************************************************************)
(* Sessions that send out subagents and owe reports.  Session 1 is the     *)
(* main session, session s + 1 the subagent that session s sends out.  A   *)
(* child owes its parent a report for what the parent said to it; it tells *)
(* when it is done, the report travels as a command to the parent, and     *)
(* what was told last is told again whenever the child is loaded.          *)
(*                                                                         *)
(* Source: crates/miyu-kernel/src/session/report.rs, session/jobs.rs,      *)
(* session/load.rs, ledger/jobs.rs, and of crates/miyu-session/src         *)
(* report.rs, agents.rs, messages.rs, jobs/stop.rs, actor/life.rs.         *)
(* Left out: background commands, agents in the foreground, what is said   *)
(* in a report, undone turns, restoring, one-shot sessions.                *)
(***************************************************************************)
EXTENDS Naturals, Sequences, SequencesExt, FiniteSetsExt

CONSTANTS
  Depth,       \* sessions in the chain
  Resumes,     \* values of policy.resumes: turns resumed in a row after restarts
  Capacity,    \* recent::CAPACITY: command ids the parent remembers
  MaxSaid,     \* bound: messages of people
  MaxCalls,    \* bound: calls that send out a subagent or a message
  MaxStops,    \* bound: interruptions by people and stopped subagents
  MaxFaults    \* bound: crashes, restarts and idle sessions retired

ASSUME AgentLimits ==
  /\ Depth \in Nat \ {0} /\ Resumes \subseteq Nat /\ Capacity \in Nat \ {0}
  /\ MaxSaid \in Nat /\ MaxCalls \in Nat /\ MaxStops \in Nat /\ MaxFaults \in Nat

VARIABLES
  log,       \* the log of each session; empty before it is created
  synced,    \* how much of it is on disk
  loaded,    \* which sessions have an actor
  owed,      \* Duty::owed of each loaded session
  lapsed,    \* Duty::not_resumed: a restarted turn will not be taken up
  last,      \* Duty::last: the report told last, by its turn; 0 for none
  call,      \* the tool call under way
  queue,     \* reports on their way up, with the reporter they are with
  halts,     \* sessions somebody is stopping, and whether a report is due
  opens,     \* sessions their parent wakes after it was loaded
  used,      \* how much of each bound is used up
  resumes    \* policy.resumes

vars == <<log, synced, loaded, owed, lapsed, last, call, queue, halts, opens, used, resumes>>

Sessions == 1..Depth
Children == 2..Depth
NoCall == [what |-> "none", at |-> 0, mark |-> 0]

----------------------------------------------------------------------------
(***************************************************************************)
(* What a log says.                                                        *)
(***************************************************************************)
Numbered(l, k) == {i \in DOMAIN l : l[i].k = k}
Latest(set) == Max(set \union {0})

Open(l) == Latest(Numbered(l, "started")) > Latest(Numbered(l, "ended"))
Ended(l) == IF Numbered(l, "ended") = {} THEN "never" ELSE l[Latest(Numbered(l, "ended"))].why
LastTurn(l) == Latest(Numbered(l, "started"))

\* Jobs: the subagent this session sent out, and the messages it sent it.
Dispatched(l) == \E i \in Numbered(l, "result") : l[i].effect = "spawn"
Stopped(l) == \E i \in Numbered(l, "reported") : l[i].why = "stopped"

\* Wrong: a report that came before the message was recorded does not count.
MessagedUntilLater(l) ==
  \E r \in Numbered(l, "result") :
    l[r].effect = "message" /\ \A i \in Numbered(l, "reported") : i < r

\* A message is unanswered when no report came after the call that sent it.
Messaged(l) ==
  \E r \in Numbered(l, "result") :
    l[r].effect = "message" /\ \A i \in Numbered(l, "reported") : i < l[r].at

\* Ledger::waiting_children.
Waiting(l) == Dispatched(l) /\ (Numbered(l, "reported") = {} \/ Messaged(l))

\* Duty::due but for what is owed, where ended is the reason the last turn counts as
\* ended for.
Settled(l, ended) ==
  ~Open(l) /\ ~Waiting(l) /\ ended \notin {"never", "interrupted", "restarted"}

Owing(l) == {i \in Numbered(l, "said") : l[i].by = "parent"}

\* Wrong: what is told is worked out at the start of a turn, too.
TellableAnywhere(l) ==
  {i \in 1..(Len(l) + 1) : Settled(SubSeq(l, 1, i - 1), Ended(SubSeq(l, 1, i - 1)))}

\* Reading the log back, what is owed was told before its i-th event, unless that event
\* opens a turn: then both were in one batch.
Tellable(l) ==
  {i \in 1..(Len(l) + 1) :
     /\ i > Len(l) \/ l[i].k # "started"
     /\ Settled(SubSeq(l, 1, i - 1), Ended(SubSeq(l, 1, i - 1)))}

\* What is owed since the j-th event is told at the first chance.
Replay(l) ==
  LET chances == Tellable(l)
      told == {i \in chances : \E j \in Owing(l) : j < i /\ \A k \in chances : k <= j \/ k >= i}
  IN  [owed |-> \E j \in Owing(l) : \A k \in chances : k <= j,
       last |-> IF told = {} THEN 0 ELSE LastTurn(SubSeq(l, 1, Max(told) - 1))]

\* How many turns in a row a planned restart has ended.
RestartsInRow(l) ==
  Cardinality({i \in Numbered(l, "ended") :
    \A j \in i..Len(l) : /\ l[j].k = "ended" => l[j].why = "restarted"
                        /\ l[j].k = "started" => l[j].resumes})

Started == [k |-> "started", resumes |-> FALSE]
EndedFor(why) == [k |-> "ended", why |-> why]

\* The call under way gets a result without effect when its turn is closed.
Cut(s) == IF call[s] = NoCall THEN << >> ELSE <<[k |-> "result", effect |-> "none", at |-> 0]>>

----------------------------------------------------------------------------
(***************************************************************************)
(* One batch: an input is handled only when the batch before is on disk.   *)
(***************************************************************************)
Init ==
  /\ log = [s \in Sessions |-> IF s = 1 THEN <<[k |-> "created"]>> ELSE << >>]
  /\ synced = [s \in Sessions |-> Len(log[s])]
  /\ loaded = [s \in Sessions |-> s = 1]
  /\ owed = [s \in Sessions |-> FALSE] /\ lapsed = [s \in Sessions |-> FALSE]
  /\ last = [s \in Sessions |-> 0] /\ call = [s \in Sessions |-> NoCall]
  /\ queue = [s \in Sessions |-> << >>]
  /\ halts = {} /\ opens = {}
  /\ used = [said |-> 0, calls |-> 0, stops |-> 0, faults |-> 0]
  /\ resumes \in Resumes

Ready(s) == loaded[s] /\ synced[s] = Len(log[s])

Grow(s, events) ==
  /\ log' = [log EXCEPT ![s] = @ \o events]
  /\ owed' = [owed EXCEPT ![s] = @ \/ Owing(events) # {}]
  /\ lapsed' = [lapsed EXCEPT ![s] = @ /\ \A i \in DOMAIN events : events[i].k # "ended"]

Spend(bound, limit) ==
  /\ used[bound] < limit
  /\ used' = [used EXCEPT ![bound] = @ + 1]

\* A report on its way, with the reporter of this actor, of an earlier one, or with
\* whoever stopped the subagent.
Upward(turn, why, with) == [turn |-> turn, why |-> why, with |-> with]

\* How the report of the last turn reads.
Reason(l, gaveUp) == IF gaveUp \/ Ended(l) = "aborted" THEN "aborted" ELSE "done"

\* Why the turn a report is of ended.
ReasonFor(l, turn) == l[Min({j \in Numbered(l, "ended") : j > turn})].why

\* Input::Stored; Session::report_up once everything is on disk.
Sync(s) ==
  LET due == owed[s] /\ Settled(log[s], IF lapsed[s] THEN "aborted" ELSE Ended(log[s])) IN
  /\ loaded[s] /\ synced[s] < Len(log[s])
  /\ synced' = [synced EXCEPT ![s] = Len(log[s])]
  /\ IF due
       THEN /\ owed' = [owed EXCEPT ![s] = FALSE]
            /\ last' = [last EXCEPT ![s] = LastTurn(log[s])]
            /\ queue' = [queue EXCEPT ![s] = Append(@,
                 Upward(LastTurn(log[s]), Reason(log[s], lapsed[s]), "reporter"))]
       ELSE UNCHANGED <<owed, last, queue>>
  /\ UNCHANGED <<log, loaded, lapsed, call, halts, opens, used>>

----------------------------------------------------------------------------
(***************************************************************************)
(* Turns.                                                                  *)
(***************************************************************************)
\* A person says something; Session::send.
Say(s) ==
  /\ Ready(s)
  /\ Spend("said", MaxSaid)
  /\ Grow(s, <<[k |-> "said", by |-> "person"]>>
               \o (IF Open(log[s]) THEN << >> ELSE <<Started>>))
  /\ UNCHANGED <<synced, loaded, last, call, queue, halts, opens>>

\* The model calls a tool that sends out the subagent or a message to it.
Issue(s) ==
  /\ Ready(s) /\ Open(log[s]) /\ call[s] = NoCall /\ s < Depth
  /\ ~Stopped(log[s])
  /\ Spend("calls", MaxCalls)
  /\ Dispatched(log[s]) \/ log[s + 1] = << >>
  /\ Grow(s, <<[k |-> "called"]>>)
  /\ call' = [call EXCEPT ![s] =
       [what |-> IF Dispatched(log[s]) THEN "message" ELSE "spawn",
        at |-> Len(log[s]) + 1, mark |-> 0]]
  /\ UNCHANGED <<synced, loaded, last, queue, halts, opens>>

\* AgentPort::spawn and MessagePort::send: the child is created first and on disk at
\* once; what is said to it opens a turn or waits in the one that is open.
Send(s) ==
  LET c == s + 1
      said == <<[k |-> "said", by |-> "parent"]>>
                \o (IF Open(log[c]) THEN << >> ELSE <<Started>>) IN
  /\ Ready(s) /\ call[s] # NoCall /\ call[s].mark = 0
  /\ IF call[s].what = "spawn"
       THEN /\ Grow(c, <<[k |-> "created"]>> \o said)
            /\ synced' = [synced EXCEPT ![c] = 1]
            /\ loaded' = [loaded EXCEPT ![c] = TRUE]
       ELSE /\ Ready(c)
            /\ Grow(c, said)
            /\ UNCHANGED <<synced, loaded>>
  /\ call' = [call EXCEPT ![s].mark = Len(log'[c])]
  /\ UNCHANGED <<last, queue, halts, opens, used>>

\* The child has what it was told on disk; the result of the call says so.
Answered(s) ==
  /\ Ready(s) /\ call[s].mark # 0 /\ synced[s + 1] >= call[s].mark
  /\ Grow(s, <<[k |-> "result", effect |-> call[s].what, at |-> call[s].at]>>)
  /\ call' = [call EXCEPT ![s] = NoCall]
  /\ UNCHANGED <<synced, loaded, last, queue, halts, opens, used>>

\* The turn ends; what came in during it and was not heard opens the next one in the
\* same batch (Session::finish_turn).
Finish(s) ==
  /\ Ready(s) /\ Open(log[s]) /\ call[s] = NoCall
  /\ \E unheard \in BOOLEAN :
       /\ unheard => \E i \in (LastTurn(log[s]) + 1)..Len(log[s]) :
                       log[s][i].k \in {"said", "reported"}
       /\ Grow(s, <<EndedFor("done")>> \o (IF unheard THEN <<Started>> ELSE << >>))
  /\ UNCHANGED <<synced, loaded, last, call, queue, halts, opens, used>>

\* A person interrupts the turn; a subagent it was just sending out is stopped, too
\* (Unclaimed).
Interrupt(s) ==
  /\ Ready(s) /\ Open(log[s])
  /\ Spend("stops", MaxStops)
  /\ Grow(s, Cut(s) \o <<EndedFor("interrupted")>>)
  /\ halts' = halts \union
       (IF call[s].what = "spawn" /\ call[s].mark # 0
          THEN {[session |-> s + 1, report |-> FALSE]} ELSE {})
  /\ call' = [call EXCEPT ![s] = NoCall]
  /\ UNCHANGED <<synced, loaded, last, queue, opens>>

----------------------------------------------------------------------------
(***************************************************************************)
(* Stopping a subagent: its turn is interrupted, then it is reported       *)
(* stopped in its name (jobs/stop.rs).                                     *)
(***************************************************************************)
Stop(s) ==
  /\ Ready(s) /\ Dispatched(log[s]) /\ ~Stopped(log[s])
  /\ Spend("stops", MaxStops)
  /\ halts' = halts \union {[session |-> s + 1, report |-> TRUE]}
  /\ UNCHANGED <<log, synced, loaded, owed, lapsed, last, call, queue, opens>>

Halt(h) ==
  LET c == h.session IN
  /\ Ready(c)
  /\ IF Open(log[c])
       THEN Grow(c, Cut(c) \o <<EndedFor("interrupted")>>)
       ELSE UNCHANGED <<log, owed, lapsed>>
  /\ call' = [call EXCEPT ![c] = NoCall]
  /\ halts' = halts \ {h}
  /\ queue' = IF h.report
                THEN [queue EXCEPT ![c] = Append(@, Upward(0, "stopped", "stopper"))] ELSE queue
  /\ UNCHANGED <<synced, loaded, last, opens, used>>

----------------------------------------------------------------------------
(***************************************************************************)
(* A report reaches the parent.                                            *)
(***************************************************************************)
\* The report is one of the commands accepted last; heads send commands, too.
Remembered(l, turn) ==
  \E i \in Numbered(l, "reported") :
    /\ l[i].turn = turn
    /\ Cardinality({j \in DOMAIN l : j > i /\ l[j].k \in {"said", "reported"}}) < Capacity

\* Wrong: only the report that came last counts.
KnownAsLast(l, turn) ==
  LET reports == Numbered(l, "reported")
  IN  reports # {} /\ l[Latest(reports)].turn = turn

\* The command is one of the last accepted, or the last report is of this turn
\* (Session::known, Ledger::reported_as).
Known(l, turn) ==
  \/ Remembered(l, turn)
  \/ LET reports == Numbered(l, "reported")
     IN  reports # {} /\ l[Latest(reports)].turn = turn

\* Which reports wake the parent (jobs::wakes); a stop by the model does not.
Wakes(why) == why \in {"done", "stopped"}

\* Ledger: check_child.
Reportable(l) == Dispatched(l) /\ ~Stopped(l)

\* Reports of one reporter arrive in the order they were told.
First(c, i) == \A j \in 1..(i - 1) : queue[c][j].with # queue[c][i].with

\* Upstream::hand and Session::report.  A report of a job the parent does not know
\* is tried again while the call that sends the subagent out is under way (it is
\* over long before the reporter gives up).
Deliver(c, i) ==
  LET p == c - 1
      up == queue[c][i] IN
  /\ i \in DOMAIN queue[c] /\ First(c, i)
  /\ Ready(p)
  /\ \/ /\ Known(log[p], up.turn)
        /\ UNCHANGED <<log, owed, lapsed>>
     \/ /\ ~Known(log[p], up.turn) /\ Reportable(log[p])
        /\ Grow(p, <<[k |-> "reported", turn |-> up.turn, why |-> up.why]>>
                     \o (IF Wakes(up.why) /\ ~Open(log[p]) THEN <<Started>> ELSE << >>))
     \/ /\ ~Known(log[p], up.turn) /\ ~Reportable(log[p])
        /\ call[p].what # "spawn"
        /\ UNCHANGED <<log, owed, lapsed>>
  /\ queue' = [queue EXCEPT ![c] = RemoveAt(@, i)]
  /\ UNCHANGED <<synced, loaded, last, call, halts, opens, used>>

----------------------------------------------------------------------------
(***************************************************************************)
(* Sessions come and go.                                                   *)
(***************************************************************************)
\* Whoever wants a session that is not loaded has it loaded first: a head the main
\* session, its parent, a report, a message or a stop the others.
Wanted(s) ==
  \/ s = 1 \/ s \in opens
  \/ s < Depth /\ queue[s + 1] # << >>
  \/ s > 1 /\ call[s - 1].what = "message" /\ call[s - 1].mark = 0
  \/ \E h \in halts : h.session = s

\* Wrong: the last report is not told again.
TellAgainNever(told) == << >>

TellAgain(told) == IF told = 0 THEN << >> ELSE <<told>>

\* What the reporter of an actor that is gone still has.
Earlier(q) ==
  [i \in DOMAIN q |-> IF q[i].with = "reporter" THEN [q[i] EXCEPT !.with = "earlier"] ELSE q[i]]

\* Session::load and recover: a turn left open is ended, one that a restart ended is
\* taken up again or given up.
Recovered(l) ==
  IF Open(l)
    THEN (IF Latest(Numbered(l, "called")) > Max({LastTurn(l), Latest(Numbered(l, "result"))})
            THEN <<[k |-> "result", effect |-> "none", at |-> 0]>> ELSE << >>)
         \o <<EndedFor("aborted")>>
  ELSE IF Ended(l) = "restarted" /\ RestartsInRow(l) <= resumes
    THEN <<[Started EXCEPT !.resumes = TRUE]>> ELSE << >>

Load(s) ==
  /\ ~loaded[s] /\ log[s] # << >> /\ Wanted(s)
  /\ loaded' = [loaded EXCEPT ![s] = TRUE]
  /\ \E duty \in {Replay(log[s])}, events \in {Recovered(log[s])} :
       \E gaveUp \in {events = << >> /\ Ended(log[s]) = "restarted"} :
         LET before == [i \in DOMAIN TellAgain(duty.last) |->
                          Upward(duty.last, ReasonFor(log[s], duty.last), "reporter")]
             now == /\ events = << >> /\ duty.owed
                    /\ Settled(log[s], IF gaveUp THEN "aborted" ELSE Ended(log[s]))
             told == IF now THEN <<Upward(LastTurn(log[s]), Reason(log[s], gaveUp), "reporter")>>
                            ELSE << >>
         IN  /\ log' = [log EXCEPT ![s] = @ \o events]
             /\ owed' = [owed EXCEPT ![s] = duty.owed /\ ~now]
             /\ lapsed' = [lapsed EXCEPT ![s] = gaveUp]
             /\ last' = [last EXCEPT ![s] = IF now THEN LastTurn(log[s]) ELSE duty.last]
             /\ queue' = [queue EXCEPT ![s] = Earlier(@) \o before \o told]
  /\ opens' = (opens \ {s}) \union (IF Waiting(log[s]) THEN {s + 1} ELSE {})
  /\ UNCHANGED <<synced, call, halts, used>>

Gone ==
  /\ loaded' = [s \in Sessions |-> FALSE]
  /\ owed' = [s \in Sessions |-> FALSE] /\ lapsed' = [s \in Sessions |-> FALSE]
  /\ last' = [s \in Sessions |-> 0] /\ call' = [s \in Sessions |-> NoCall]
  /\ queue' = [s \in Sessions |-> << >>]
  /\ halts' = {} /\ opens' = {}

\* The process crashes: batches that were being written are kept whole, in part or
\* not at all.
Crash ==
  /\ Spend("faults", MaxFaults)
  /\ \E keep \in [Sessions -> 0..Max({Len(log[s]) : s \in Sessions})] :
       /\ \A s \in Sessions : keep[s] \in synced[s]..Len(log[s])
       /\ log' = [s \in Sessions |-> SubSeq(log[s], 1, keep[s])]
  /\ synced' = [s \in Sessions |-> Len(log'[s])]
  /\ Gone

\* A planned restart: every open turn is ended and on disk before the process stops;
\* no report is told any more.
Restart ==
  /\ \A s \in Sessions : loaded[s] => Ready(s)
  /\ Spend("faults", MaxFaults)
  /\ log' = [s \in Sessions |->
       IF loaded[s] /\ Open(log[s]) THEN log[s] \o Cut(s) \o <<EndedFor("restarted")>>
                                    ELSE log[s]]
  /\ synced' = [s \in Sessions |-> Len(log'[s])]
  /\ Gone

\* A session that is idle and waits for nobody retires; its reporter goes on.
Retire(s) ==
  /\ Ready(s) /\ ~Open(log[s]) /\ ~Waiting(log[s])
  /\ Spend("faults", MaxFaults)
  /\ loaded' = [loaded EXCEPT ![s] = FALSE]
  /\ owed' = [owed EXCEPT ![s] = FALSE] /\ lapsed' = [lapsed EXCEPT ![s] = FALSE]
  /\ last' = [last EXCEPT ![s] = 0]
  /\ UNCHANGED <<log, synced, call, queue, halts, opens>>

----------------------------------------------------------------------------
\* What the processes do by themselves.
Progress ==
  /\ \/ \E s \in Sessions :
          Sync(s) \/ Answered(s) \/ Finish(s) \/ Load(s) \/ (s < Depth /\ Send(s))
     \/ \E c \in Children : \E i \in DOMAIN queue[c] : Deliver(c, i)
     \/ \E h \in halts : Halt(h)
  /\ UNCHANGED resumes

\* What people, the model and the machine do.
Next ==
  \/ Progress
  \/ /\ \/ \E s \in Sessions :
             Say(s) \/ Issue(s) \/ Interrupt(s) \/ Retire(s) \/ (s < Depth /\ Stop(s))
        \/ Crash \/ Restart
     /\ UNCHANGED resumes

\* As long as there is something to do, something is done: batches are synced, turns end,
\* what was sent arrives, sessions that are wanted are loaded.
Spec == Init /\ [][Next]_vars
FairSpec == Spec /\ WF_vars(Progress)

----------------------------------------------------------------------------
(***************************************************************************)
(* Properties.                                                             *)
(***************************************************************************)
\* A parent records each report once, however often it is told, and none after the
\* subagent was stopped: what is told again after a load is recognised, the newer
\* commands in between or not.
ToldOnce ==
  \A p \in Sessions : \A i, j \in Numbered(log[p], "reported") :
    i < j => log[p][i].turn # log[p][j].turn /\ log[p][i].why # "stopped"

\* load.rs:130, "reports upwards are worked out as they were when it was alive": what a
\* session believes it owes and told last is what its log says when it is read back.
ReadBackExact ==
  \A s \in Sessions : Ready(s) =>
    lapsed[s] \/ [owed |-> owed[s], last |-> last[s]] = Replay(log[s])

\* That is so as long as no turn a restart ended was given up: such a turn is reported
\* aborted, but the log does not say so.
GivenUp(l) ==
  \E i \in Numbered(l, "ended") :
    /\ l[i].why = "restarted"
    /\ i = Len(l) \/ l[i + 1].k # "started" \/ ~l[i + 1].resumes

ReadBackAgrees ==
  \A s \in Sessions : Ready(s) /\ ~GivenUp(log[s]) =>
    [owed |-> owed[s], last |-> last[s]] = Replay(log[s])

\* A parent that waits for its subagent hears of it in the end, whatever crashes,
\* restarts or retires in between, unless the subagent was interrupted and waits for a
\* person (Duty::due).
WaitingEnds ==
  \A c \in Children :
    Waiting(log[c - 1]) ~>
      (~Waiting(log[c - 1]) \/ (\E s \in c..Depth : Ended(log[s]) = "interrupted"))
=============================================================================
