------------------------------- MODULE Outbox -------------------------------
(***************************************************************************)
(* How the OneBot bridge says in a group what she said in its session: it  *)
(* follows the session's log, puts each piece of a sentence on record,     *)
(* queues it and hands it to the chat platform while the door is open.     *)
(* After a restart of the bridge, or a subscription that was lost, the log *)
(* is replayed and what she said meanwhile is said later, unless it is too *)
(* late.                                                                   *)
(*                                                                         *)
(* Source: crates/miyu-onebot/src/core route.rs and route/: revive.rs,     *)
(* speak.rs, backlog.rs, sending.rs, queue.rs, muted.rs, quiet.rs,         *)
(* projection.rs, session.rs, and crates/miyu-chat/src/outbound/dedupe.rs. *)
(* Left out: private chats, notices and receipts, quoting and mentioning,  *)
(* several groups, a group whose bot is not known or not subscribed to.    *)
(***************************************************************************)
EXTENDS Naturals, Sequences

CONSTANTS
  Texts,         \* the texts of pieces
  Speeches,      \* what she may say: one sentence after the other
  MaxTurns,      \* bound: turns of the session
  MaxTroubles    \* bound: crashes, lost subscriptions, closed links, mutes

\* A sentence: its pieces, the texts it resembles as a whole, and whether she skips
\* the reply with it (it is a message that calls skip_reply).
Sentences == [pieces : Seq(Texts), like : SUBSET Texts, skip : BOOLEAN]

ASSUME OutboxLimits == MaxTurns \in Nat /\ MaxTroubles \in Nat
ASSUME SpeechesAreSentences == \A words \in Speeches : words \in Seq(Sentences)

VARIABLES
  log,        \* what landed in the session's log that the bridge looks at
  speech,     \* what she has still to say
  turn,       \* the turn she is in
  old,        \* what is in the log up to here was seen past its deadline
  over,       \* mutes up to here in the log were seen to have run out
  troubles,   \* what went wrong so far
  up,         \* the bridge runs
  task,       \* what its one task is at
  heard,      \* Projection::last
  upto,       \* Projection::upto
  cut,        \* the first number not pushed after a lost subscription; 0 while it goes on
  goal,       \* how far it listens before it goes on with the task
  round,      \* Projection::round: a turn and its texts on record
  mute,       \* Projection::muted: the mute that holds, 0 for none
  quiet,      \* Quiet::turns
  backlog,    \* Backlog: deadline, texts on record, sentences to say later
  todo,       \* the sentence it is saying, and which pieces of it are left
  waiting,    \* Queue: pieces on record, not handed over
  ready,      \* pieces it is handing over
  sending,    \* pieces handed over whose result is awaited
  link,       \* the connection of the bot
  greeted,    \* Event::Connected was handled
  handed,     \* every piece the platform was ever given, in this order
  ended       \* the pieces on record delivered, failed or gone with the bridge

session == <<speech, turn>>
clock == <<old, over>>
memory == <<task, heard, upto, cut, goal, round, mute, quiet, backlog, todo>>
outside == <<link, greeted>>
queued == <<waiting, ready, sending, handed, ended>>
vars == <<log, session, clock, troubles, up, memory, queued, outside>>

NoBacklog == [since |-> 0, sent |-> {}, said |-> {}]
NoRound == [turn |-> 0, texts |-> {}]
Nothing == [of |-> 0, left |-> {}]

Init ==
  /\ speech \in Speeches
  /\ log = << >> /\ turn = 1 /\ old = 0 /\ over = 0 /\ troubles = 0
  /\ up = TRUE /\ task = "idle" /\ heard = 0 /\ upto = 0 /\ cut = 0 /\ goal = 0
  /\ round = NoRound /\ mute = 0 /\ quiet = {} /\ backlog = NoBacklog /\ todo = Nothing
  /\ waiting = {} /\ ready = {} /\ sending = {}
  /\ link = "open" /\ greeted = TRUE /\ handed = << >> /\ ended = {}

\* It has nothing in hand, and nothing it has to go on with.
Free == up /\ todo.left = {} /\ ready = {}
Idle == Free /\ task = "idle"

Said(e) == e.kind = "said"

\* Numbers of the log: what was put on record, and in what turn with what text.
Queued == {q \in DOMAIN log : log[q].kind = "queued"}
Text(s, i) == log[s].sentence.pieces[i]
Key(s, i) == <<log[s].turn, Text(s, i)>>
First(n, set) == n \in set /\ \A m \in set : n <= m

----------------------------------------------------------------------------
(***************************************************************************)
(* The session and the connection.                                         *)
(***************************************************************************)
\* She says something: message.assistant.
Says ==
  /\ speech # << >> /\ speech' = Tail(speech)
  /\ log' = Append(log, [kind |-> "said", turn |-> turn, sentence |-> Head(speech)])
  /\ UNCHANGED <<turn, clock, troubles, up, memory, queued, outside>>

TurnEnds ==
  /\ turn < MaxTurns /\ turn' = turn + 1
  /\ log' = Append(log, [kind |-> "ended", turn |-> turn])
  /\ UNCHANGED <<speech, clock, troubles, up, memory, queued, outside>>

LinkCloses ==
  /\ link = "open" /\ troubles < MaxTroubles
  /\ link' = "closing" /\ troubles' = troubles + 1
  /\ UNCHANGED <<log, session, clock, up, memory, queued, greeted>>

LinkGone ==
  /\ link = "closing" /\ link' = "closed"
  /\ UNCHANGED <<log, session, clock, troubles, up, memory, queued, greeted>>

\* A new connection, which may replace one that is closing.
LinkOpens ==
  /\ link # "open" /\ link' = "open" /\ greeted' = FALSE
  /\ UNCHANGED <<log, session, clock, troubles, up, memory, queued>>

\* The head lagged, or the session stopped: a resync follows what was pushed.
SubscriptionLost ==
  /\ up /\ cut = 0 /\ task # "following"
  /\ troubles < MaxTroubles /\ troubles' = troubles + 1
  /\ cut' \in {n \in 1..(Len(log) + 1) : heard < n /\ goal < n}
  /\ UNCHANGED <<log, session, clock, up, task, heard, upto, goal, round, mute, quiet, backlog,
                 todo, queued, outside>>

----------------------------------------------------------------------------
(***************************************************************************)
(* The queue.                                                              *)
(***************************************************************************)
\* The clock is read when something depends on it: the deadlines of some of what
\* is looked at may have passed, and the mute may have run out.
Clock(looked) ==
  /\ old' \in {old} \cup {p \in looked : old < p /\ p <= Len(log)}
  /\ over' \in {over} \cup {m \in {mute} : over < m}

\* Route::shut: muted, or the bot is not connected.
Open == mute <= over' /\ link # "closed"

Late(items) == {q \in items : q <= old'}

\* Route::pump over what waits: what is late fails; the rest goes out through the
\* open door.
Pump(items) ==
  /\ Clock(items)
  /\ waiting' = IF Open THEN {} ELSE items \ Late(items)
  /\ ready' = IF Open THEN items \ Late(items) ELSE {}
  /\ ended' = ended \cup Late(items)
  /\ UNCHANGED <<sending, handed>>

\* Route::hand: given to the connection, or failed at once when that is closing.
Hand ==
  /\ up
  /\ \E q \in ready :
       /\ First(q, ready) /\ ready' = ready \ {q}
       /\ \/ /\ link = "open"
             /\ handed' = Append(handed, q) /\ sending' = sending \cup {q}
             /\ UNCHANGED ended
          \/ /\ link # "open"
             /\ ended' = ended \cup {q}
             /\ UNCHANGED <<handed, sending>>
  /\ UNCHANGED <<log, session, clock, troubles, up, memory, waiting, outside>>

\* Projection::queued: a text of the last turn that has one on record.
OnRecord(t, text) ==
  round' = CASE t < round.turn -> round
             [] t = round.turn -> [round EXCEPT !.texts = @ \cup {text}]
             [] t > round.turn -> [turn |-> t, texts |-> {text}]

\* Route::enqueue of the next piece: it is put on record, queued, and the queue
\* looked at.
Enqueue ==
  /\ up /\ ready = {}
  /\ \E i \in todo.left :
       /\ First(i, todo.left) /\ todo' = [todo EXCEPT !.left = @ \ {i}]
       /\ log' = Append(log, [kind |-> "queued", of |-> todo.of, piece |-> i])
       /\ OnRecord(log[todo.of].turn, Text(todo.of, i))
  /\ Pump(waiting \cup {Len(log) + 1})
  /\ UNCHANGED <<session, troubles, up, task, heard, upto, cut, goal, mute, quiet, backlog,
                 outside>>

\* Wrong: only the end of a mute wakes the bridge.
WakeForMute ==
  /\ Idle /\ waiting # {}
  /\ Pump(waiting)
  /\ over' # over
  /\ UNCHANGED <<log, session, troubles, up, memory, outside>>

\* Route::wake: a deadline passed, or a mute ran out.
Wake ==
  /\ Idle /\ waiting # {}
  /\ Pump(waiting)
  /\ Late(waiting) # {} \/ over' # over
  /\ UNCHANGED <<log, session, troubles, up, memory, outside>>

\* Event::Connected
Connected ==
  /\ Idle /\ ~greeted /\ greeted' = TRUE
  /\ Pump(waiting)
  /\ UNCHANGED <<log, session, troubles, up, memory, link>>

\* Route::answered: the results come in the order of handing over.
Answered ==
  /\ Idle
  /\ \E q \in sending :
       First(q, sending) /\ sending' = sending \ {q} /\ ended' = ended \cup {q}
  /\ UNCHANGED <<log, session, clock, troubles, up, memory, waiting, ready, handed, outside>>

----------------------------------------------------------------------------
(***************************************************************************)
(* What she says.                                                          *)
(***************************************************************************)
\* dedupe::repeats: the same as, or close to, a text of this turn on record.
Repeats(sentence, texts) ==
  \/ Len(sentence.pieces) = 1 /\ sentence.pieces[1] \in texts
  \/ sentence.like \cap texts # {}

Pieces(s) == DOMAIN log[s].sentence.pieces

\* Wrong: what else she says in the turn is not skipped.
HushedOnce(e) == e.sentence.skip

\* Quiet::heard: whether the sentence is one of a turn she skips.
Hushed(e) == e.sentence.skip \/ e.turn \in quiet

Hearing ==
  /\ Free /\ heard < Len(log) /\ heard + 1 # cut
  /\ task = "idle" \/ (task \in {"catching", "gathering"} /\ heard < goal)
  /\ heard' = heard + 1

Heard == log[heard + 1]
Replayed == task = "gathering" /\ heard + 1 <= upto

\* Route::heard of a message of hers: said at once, or kept when it is replayed.
HearSaid ==
  /\ Hearing /\ Said(Heard)
  /\ quiet' = IF Heard.sentence.skip THEN quiet \cup {Heard.turn} ELSE quiet
  /\ LET texts == IF round.turn = Heard.turn THEN round.texts ELSE {}
     IN IF Replayed
        THEN /\ backlog' = IF ~Hushed(Heard) /\ heard + 1 > backlog.since
                           THEN [backlog EXCEPT !.said = @ \cup {heard + 1}] ELSE backlog
             /\ UNCHANGED todo
        ELSE /\ todo' = IF ~Hushed(Heard) /\ ~Repeats(Heard.sentence, texts)
                        THEN [of |-> heard + 1, left |-> Pieces(heard + 1)] ELSE Nothing
             /\ UNCHANGED backlog
  /\ UNCHANGED <<log, session, clock, troubles, up, task, upto, cut, goal, round, mute, queued, outside>>

HearQueued ==
  /\ Hearing /\ Heard.kind = "queued"
  /\ OnRecord(log[Heard.of].turn, Text(Heard.of, Heard.piece))
  /\ backlog' = IF Replayed
                THEN [backlog EXCEPT !.sent = @ \cup {Key(Heard.of, Heard.piece)}] ELSE backlog
  /\ UNCHANGED <<log, session, clock, troubles, up, task, upto, cut, goal, mute, quiet, todo, queued,
                 outside>>

HearEnded ==
  /\ Hearing /\ Heard.kind = "ended"
  /\ quiet' = quiet \ {Heard.turn}
  /\ UNCHANGED <<log, session, clock, troubles, up, task, upto, cut, goal, round, mute, backlog, todo,
                 queued, outside>>

HearMute ==
  /\ Hearing /\ Heard.kind \in {"muted", "unmuted"}
  /\ mute' = IF Heard.kind = "muted" THEN heard + 1 ELSE 0
  /\ UNCHANGED <<log, session, clock, troubles, up, task, upto, cut, goal, round, quiet, backlog, todo,
                 queued, outside>>

----------------------------------------------------------------------------
(***************************************************************************)
(* Mutes, subscriptions and restarts.                                      *)
(***************************************************************************)
\* Route::muted: put on record; then everything pushed by then is heard ...
MuteNotice(kind) ==
  /\ Idle /\ troubles < MaxTroubles /\ troubles' = troubles + 1
  /\ kind = "unmuted" => mute # 0
  /\ log' = Append(log, [kind |-> kind])
  /\ task' = "catching" /\ goal' = IF cut = 0 THEN Len(log') ELSE cut - 1
  /\ UNCHANGED <<session, clock, up, heard, upto, cut, round, mute, quiet, backlog, todo, queued, outside>>

\* ... and the queue is looked at.
CaughtUp ==
  /\ Free /\ task = "catching" /\ heard >= goal
  /\ task' = "idle" /\ goal' = 0
  /\ Pump(waiting)
  /\ UNCHANGED <<log, session, troubles, up, heard, upto, cut, round, mute, quiet, backlog, todo,
                 outside>>

\* Route::follow: the resync is read, the core subscribes the bridge again ...
Follow ==
  /\ Idle /\ heard + 1 = cut
  /\ cut' = 0 /\ upto' = Len(log) /\ task' = "following"
  /\ UNCHANGED <<log, session, clock, troubles, up, heard, goal, round, mute, quiet, backlog, todo, queued,
                 outside>>

\* ... and the reply comes, after what was replayed and some of what was pushed:
\* Route::replay.
Followed ==
  /\ up /\ task = "following"
  /\ task' = "gathering" /\ goal' \in upto..Len(log)
  /\ Clock({s \in DOMAIN log : Said(log[s])})
  /\ backlog' = [NoBacklog EXCEPT !.since = old']
  /\ UNCHANGED <<log, session, troubles, up, heard, upto, cut, round, mute, quiet, todo, queued,
                 outside>>

Gathered == Free /\ task = "gathering" /\ heard >= goal

\* Wrong: all of a sentence again that was on record in part.
UnsentAll(s) == Pieces(s)

\* Wrong: a sentence that was on record in part is taken for said.
UnsentOrNothing(s) ==
  IF \E i \in Pieces(s) : Key(s, i) \in backlog.sent THEN {} ELSE Pieces(s)

\* Backlog::unsent: the pieces not on record yet.
Unsent(s) == {i \in Pieces(s) : Key(s, i) \notin backlog.sent}

\* Route::resend of the next sentence kept.
Resend ==
  /\ Gathered
  /\ \E s \in backlog.said :
       /\ First(s, backlog.said)
       /\ LET sent == {text \in Texts : <<log[s].turn, text>> \in backlog.sent}
              fresh == IF Repeats(log[s].sentence, sent) THEN {} ELSE Unsent(s)
          IN /\ todo' = [of |-> s, left |-> fresh]
             /\ backlog' = [backlog EXCEPT !.said = @ \ {s},
                             !.sent = @ \cup {Key(s, i) : i \in fresh}]
  /\ UNCHANGED <<log, session, clock, troubles, up, task, heard, upto, cut, goal, round, mute, quiet, queued,
                 outside>>

Resent ==
  /\ Gathered /\ backlog.said = {}
  /\ task' = "idle" /\ goal' = 0 /\ backlog' = NoBacklog
  /\ UNCHANGED <<log, session, clock, troubles, up, heard, upto, cut, round, mute, quiet, todo, queued,
                 outside>>

\* The bridge dies, or its core does; a piece may have got on record just before.
Crash ==
  /\ up /\ troubles < MaxTroubles /\ troubles' = troubles + 1
  /\ up' = FALSE
  /\ \/ UNCHANGED log
     \/ /\ ready = {}
        /\ \E i \in todo.left :
             /\ First(i, todo.left)
             /\ log' = Append(log, [kind |-> "queued", of |-> todo.of, piece |-> i])
  /\ ended' = Queued'
  /\ task' = "idle" /\ heard' = 0 /\ upto' = 0 /\ cut' = 0 /\ goal' = 0
  /\ round' = NoRound /\ mute' = 0 /\ quiet' = {} /\ backlog' = NoBacklog /\ todo' = Nothing
  /\ waiting' = {} /\ ready' = {} /\ sending' = {}
  /\ UNCHANGED <<session, clock, handed, outside>>

\* Route::revive: the log is followed from the start.
Restart ==
  /\ ~up /\ up' = TRUE
  /\ task' = "following" /\ upto' = Len(log)
  /\ UNCHANGED <<log, session, clock, troubles, heard, cut, goal, round, mute, quiet, backlog, todo, queued,
                 outside>>

Listen == HearSaid \/ HearQueued \/ HearEnded \/ HearMute

Next ==
  \/ Says \/ TurnEnds
  \/ LinkCloses \/ LinkGone \/ LinkOpens \/ SubscriptionLost
  \/ Enqueue \/ Hand \/ Wake \/ Connected \/ Answered
  \/ Listen
  \/ \E kind \in {"muted", "unmuted"} : MuteNotice(kind)
  \/ CaughtUp \/ Follow \/ Followed \/ Resend \/ Resent
  \/ Crash \/ Restart

Spec == Init /\ [][Next]_vars

\* The task does what is ready, results come or time out, the core starts the
\* bridge again, the clock goes on.
FairSpec ==
  /\ Spec
  /\ WF_vars(Enqueue) /\ WF_vars(Hand) /\ WF_vars(Wake) /\ WF_vars(Connected) /\ WF_vars(Listen)
  /\ WF_vars(Answered)
  /\ WF_vars(CaughtUp) /\ WF_vars(Follow) /\ WF_vars(Followed)
  /\ WF_vars(Resend) /\ WF_vars(Resent) /\ WF_vars(Restart)

----------------------------------------------------------------------------
(***************************************************************************)
(* Properties.                                                             *)
(***************************************************************************)
PieceOf(q) == <<log[q].of, log[q].piece>>

\* The platform is never given the same piece of a sentence twice, whatever
\* crashes, replays and reopened doors come between (sending.rs, revive.rs), and
\* gets the pieces in the order they were queued.
SaidOnce ==
  \A i, j \in DOMAIN handed :
    i < j => handed[i] < handed[j] /\ PieceOf(handed[i]) # PieceOf(handed[j])

SkippedBy(s) ==
  \E k \in 1..s : Said(log[k]) /\ log[k].turn = log[s].turn /\ log[k].sentence.skip

\* Once she chose in a turn not to reply, nothing she says in it from then on is
\* queued, also when it is heard again after a crash (quiet.rs, speak.rs).
SkippedStaysUnsaid ==
  \A q \in Queued : ~SkippedBy(log[q].of)

\* When the bridge rests, whatever she said that it heard and that is not too late
\* yet is on record to be said: nothing was swallowed by a crash between two
\* pieces or by a lost subscription (revive.rs, backlog.rs).
NothingSwallowed ==
  Idle =>
    \A s \in 1..heard :
      Said(log[s]) /\ s > old /\ ~SkippedBy(s) /\ log[s].sentence.like = {} =>
        \A i \in Pieces(s) : \E q \in Queued : Key(log[q].of, log[q].piece) = Key(s, i)

\* Every piece on record comes to an end: delivered, failed, or lost with the
\* bridge; none waits for ever behind a mute or a closed link (queue.rs).
EveryPieceEnds == []<>(Queued \subseteq ended)

\* A sentence of one piece that was said in this turn already is not said again
\* (dedupe.rs): onebot.md says the comparison is with the log.
NothingRepeated ==
  \A i, j \in DOMAIN handed :
    LET p == handed[i]
        q == handed[j] IN
    i < j /\ Key(log[p].of, log[p].piece) = Key(log[q].of, log[q].piece) =>
      Len(log[log[q].of].sentence.pieces) > 1
=============================================================================
