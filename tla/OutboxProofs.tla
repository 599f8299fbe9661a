---------------------------- MODULE OutboxProofs ----------------------------
(***************************************************************************)
(* Nothing is said twice, against her choice, or swallowed: an inductive   *)
(* invariant of Outbox that implies its three safety properties, for any   *)
(* speeches and any number of turns and of crashes, lost subscriptions,    *)
(* closed links and mutes.                                                 *)
(***************************************************************************)
EXTENDS Outbox, TLAPS

(***************************************************************************)
(* The inductive invariant.                                                *)
(***************************************************************************)
Events ==
  [kind : {"said"}, turn : Nat, sentence : Sentences]
    \cup [kind : {"queued"}, of : Nat, piece : Nat]
    \cup [kind : {"ended"}, turn : Nat]
    \cup [kind : {"muted", "unmuted"}]

\* The types of the variables.
TypeOK ==
  /\ log \in Seq(Events) /\ speech \in Seq(Sentences) /\ turn \in Nat
  /\ old \in Nat /\ over \in Nat /\ troubles \in Nat
  /\ up \in BOOLEAN /\ task \in {"idle", "catching", "following", "gathering"}
  /\ heard \in Nat /\ upto \in Nat /\ cut \in Nat /\ goal \in Nat
  /\ round \in [turn : Nat, texts : SUBSET Texts]
  /\ mute \in Nat /\ quiet \in SUBSET Nat
  /\ backlog \in [since : Nat, sent : SUBSET (Nat \X Texts), said : SUBSET Nat]
  /\ todo \in [of : Nat, left : SUBSET Nat]
  /\ waiting \in SUBSET Nat /\ ready \in SUBSET Nat /\ sending \in SUBSET Nat
  /\ link \in {"open", "closing", "closed"} /\ greeted \in BOOLEAN
  /\ handed \in Seq(Nat) /\ ended \in SUBSET Nat

\* A sentence of the log up to a number.
SaidBy(s, n) == s \in 1..n /\ Said(log[s])

\* What the log, the bridge's memory and its task point at is there.
RecordsAreOfSpeech ==
  \A q \in Queued :
    /\ log[q].of \in Nat /\ SaidBy(log[q].of, q - 1)
    /\ log[q].piece \in Pieces(log[q].of)

InHandIsHeard ==
  /\ todo.left # {} => SaidBy(todo.of, heard) /\ todo.left \subseteq Pieces(todo.of)
  /\ \A s \in backlog.said : SaidBy(s, heard)

InTheLog ==
  heard <= Len(log) /\ goal <= Len(log) /\ upto <= Len(log) /\ cut <= Len(log) + 1

TaskFits ==
  /\ ~up => task = "idle" /\ heard = 0 /\ todo.left = {} /\ ready = {}
  /\ task # "gathering" => backlog.said = {}
  /\ task = "following" => todo.left = {} /\ ready = {}
  /\ task = "gathering" => upto <= goal

\* A record of a sentence it has not heard yet is among those it will replay.
RecordsAhead ==
  \A q \in Queued :
    \/ ~up \/ log[q].of <= heard
    \/ q <= upto /\ task \in {"following", "gathering"}

\* What is on record of a sentence kept for later is replayed, and known when heard.
KeptIsKnown ==
  \A q \in Queued : log[q].of \in backlog.said =>
    /\ q <= upto
    /\ q <= heard => Key(log[q].of, log[q].piece) \in backlog.sent

\* What is left of the sentence in hand is not on record.
LeftIsNew ==
  todo.left # {} =>
    /\ todo.of \notin backlog.said
    /\ \A q \in Queued : log[q].of = todo.of => log[q].piece \notin todo.left

\* A piece is on record once.
RecordedOnce ==
  \A p, q \in Queued : PieceOf(p) = PieceOf(q) => p = q

\* What waits comes after what was handed over, in the order of the log.
InLine ==
  /\ waiting \subseteq Queued /\ ready \subseteq Queued
  /\ ready # {} => waiting = {}
  /\ \A i \in DOMAIN handed :
       handed[i] \in Queued /\ \A q \in waiting \cup ready : handed[i] < q
  /\ \A i, j \in DOMAIN handed : i < j => handed[i] < handed[j]

\* Nothing is said in a turn after its end.
TurnsInOrder ==
  \A n \in DOMAIN log :
    /\ Said(log[n]) => log[n].turn <= turn
    /\ log[n].kind = "ended" =>
         /\ log[n].turn < turn
         /\ \A s \in DOMAIN log : n < s /\ Said(log[s]) => log[n].turn < log[s].turn

\* It knows the turns she skips, as long as they have not ended.
QuietIsKnown ==
  /\ \A k \in 1..heard : Said(log[k]) /\ log[k].sentence.skip =>
       \/ log[k].turn \in quiet
       \/ \E e \in k..heard : log[e].kind = "ended" /\ log[e].turn = log[k].turn
  /\ \A t \in quiet : \E k \in 1..heard :
       Said(log[k]) /\ log[k].sentence.skip /\ log[k].turn = t

\* Nothing it has in hand or keeps for later is skipped.
InHandIsUnskipped ==
  /\ todo.left # {} => ~SkippedBy(todo.of)
  /\ \A s \in backlog.said : ~SkippedBy(s)

OnTheRecord(t, text) ==
  \E q \in Queued : Key(log[q].of, log[q].piece) = <<t, text>>

\* What it takes for said is on record, or in hand.
KnownIsRecorded ==
  /\ \A text \in round.texts : OnTheRecord(round.turn, text)
  /\ \A p \in backlog.sent :
       OnTheRecord(p[1], p[2]) \/ \E i \in todo.left : p = Key(todo.of, i)
  /\ backlog.since <= old

\* A sentence it has heard is kept for later, in hand, on record or too late.
Accounted(s) ==
  \/ s \in backlog.said
  \/ \A i \in Pieces(s) :
       OnTheRecord(log[s].turn, Text(s, i)) \/ (todo.of = s /\ i \in todo.left)

HeardIsAccounted ==
  \A s \in 1..heard :
    Said(log[s]) /\ s > old /\ ~SkippedBy(s) /\ log[s].sentence.like = {} => Accounted(s)

IInv ==
  /\ TypeOK
  /\ RecordsAreOfSpeech /\ InHandIsHeard /\ InTheLog /\ TaskFits
  /\ RecordsAhead /\ KeptIsKnown /\ LeftIsNew /\ RecordedOnce
  /\ InLine
  /\ TurnsInOrder /\ QuietIsKnown /\ InHandIsUnskipped /\ SkippedStaysUnsaid
  /\ KnownIsRecorded /\ HeardIsAccounted

(***************************************************************************)
(* The log.                                                                *)
(***************************************************************************)
\* What the fields of an event are.
LEMMA EventShape ==
  ASSUME TypeOK, NEW n \in DOMAIN log
  PROVE  /\ log[n] \in Events
         /\ n \in Nat /\ 1 <= n /\ n <= Len(log)
         /\ Said(log[n]) => log[n].turn \in Nat /\ log[n].sentence \in Sentences
         /\ log[n].kind = "queued" => log[n].of \in Nat /\ log[n].piece \in Nat
         /\ log[n].kind = "ended" => log[n].turn \in Nat
<1>1. log \in Seq(Events)
  BY DEF TypeOK
<1>2. log[n] \in Events /\ n \in 1..Len(log) /\ Len(log) \in Nat
  BY <1>1
<1> QED
  BY <1>2 DEF Events, Said

\* What the pieces of a sentence are.
LEMMA PieceShape ==
  ASSUME TypeOK, NEW s \in DOMAIN log, Said(log[s]), NEW i \in Pieces(s)
  PROVE  i \in Nat /\ Text(s, i) \in Texts /\ Key(s, i) \in Nat \X Texts
<1>1. log[s].turn \in Nat /\ log[s].sentence \in Sentences
  BY EventShape
<1>2. log[s].sentence.pieces \in Seq(Texts)
  BY <1>1 DEF Sentences
<1>3. i \in Nat /\ log[s].sentence.pieces[i] \in Texts
  BY <1>2 DEF Pieces
<1> QED
  BY <1>1, <1>3 DEF Text, Key

\* An event is put at the end of the log.
LEMMA Appended ==
  ASSUME TypeOK, NEW e \in Events, log' = Append(log, e)
  PROVE  /\ log' \in Seq(Events)
         /\ Len(log') = Len(log) + 1 /\ Len(log) \in Nat
         /\ DOMAIN log' = 1..(Len(log) + 1) /\ DOMAIN log = 1..Len(log)
         /\ \A n \in DOMAIN log : log'[n] = log[n]
         /\ log'[Len(log) + 1] = e
<1>1. log \in Seq(Events)
  BY DEF TypeOK
<1> HIDE DEF Events
<1> QED
  BY <1>1

\* Every event a step may append is one.
LEMMA NewEvents ==
  /\ \A t \in Nat, w \in Sentences : [kind |-> "said", turn |-> t, sentence |-> w] \in Events
  /\ \A t \in Nat : [kind |-> "ended", turn |-> t] \in Events
  /\ \A of, i \in Nat : [kind |-> "queued", of |-> of, piece |-> i] \in Events
  /\ \A kind \in {"muted", "unmuted"} : [kind |-> kind] \in Events
  BY DEF Events

\* A step leaves the log alone or appends one event to it.
LEMMA LogSteps ==
  ASSUME TypeOK, InHandIsHeard, InTheLog, [Next]_vars
  PROVE  \/ log' = log
         \/ \E e \in Events : log' = Append(log, e)
<1> DEFINE Piece(i) == [kind |-> "queued", of |-> todo.of, piece |-> i]
<1>1. CASE Says
  <2>1. Head(speech) \in Sentences
    BY <1>1 DEF Says, TypeOK
  <2> QED
    BY <1>1, <2>1, NewEvents DEF Says, TypeOK
<1>2. CASE TurnEnds
  BY <1>2, NewEvents DEF TurnEnds, TypeOK
<1>3. CASE \E kind \in {"muted", "unmuted"} : MuteNotice(kind)
  BY <1>3, NewEvents DEF MuteNotice
<1>4. ASSUME NEW i \in todo.left
      PROVE  Piece(i) \in Events
  BY NewEvents DEF TypeOK
<1>5. CASE Enqueue
  BY <1>5, <1>4 DEF Enqueue
<1>6. CASE Crash
  BY <1>6, <1>4 DEF Crash
<1>7. CASE LinkCloses \/ LinkGone \/ LinkOpens \/ SubscriptionLost \/ Hand
  BY <1>7 DEF LinkCloses, LinkGone, LinkOpens, SubscriptionLost, Hand
<1>8. CASE Wake \/ Connected \/ Answered \/ CaughtUp
  BY <1>8 DEF Wake, Connected, Answered, CaughtUp
<1>9. CASE Listen
  BY <1>9 DEF Listen, HearSaid, HearQueued, HearEnded, HearMute
<1>10. CASE Follow \/ Followed \/ Resend \/ Resent \/ Restart
  BY <1>10 DEF Follow, Followed, Resend, Resent, Restart
<1>11. CASE UNCHANGED vars
  BY <1>11 DEF vars
<1> QED
  BY <1>1, <1>2, <1>3, <1>5, <1>6, <1>7, <1>8, <1>9, <1>10, <1>11 DEF Next

\* The queue looked at again stays one.
LEMMA PumpType ==
  ASSUME TypeOK, NEW items \in SUBSET Nat, Pump(items)
  PROVE  /\ waiting' \in SUBSET Nat /\ ready' \in SUBSET Nat /\ ended' \in SUBSET Nat
         /\ sending' \in SUBSET Nat /\ handed' \in Seq(Nat)
         /\ old' \in Nat /\ over' \in Nat
<1>1. old' \in {old} \cup {p \in items : old < p /\ p <= Len(log)}
  BY DEF Pump, Clock
<1>2. over' \in {over} \cup {m \in {mute} : over < m}
  BY DEF Pump, Clock
<1> QED
  BY <1>1, <1>2 DEF Pump, Late, TypeOK

\* The round of texts on record stays one.
LEMMA RoundType ==
  ASSUME TypeOK, NEW t \in Nat, NEW text \in Texts, OnRecord(t, text)
  PROVE  round' \in [turn : Nat, texts : SUBSET Texts]
<1>1. round \in [turn : Nat, texts : SUBSET Texts]
  BY DEF TypeOK
<1>2. CASE t < round.turn
  BY <1>1, <1>2 DEF OnRecord
<1>3. CASE t = round.turn
  <2>1. round' = [round EXCEPT !.texts = round.texts \cup {text}]
    BY <1>1, <1>3 DEF OnRecord
  <2> QED
    BY <1>1, <2>1
<1>4. CASE t > round.turn
  BY <1>1, <1>4 DEF OnRecord
<1> QED
  BY <1>1, <1>2, <1>3, <1>4

\* The next event of the log is heard.
LEMMA Listening ==
  ASSUME TypeOK, Listen
  PROVE  /\ Hearing /\ heard < Len(log) /\ heard' = heard + 1 /\ heard' \in Nat
         /\ heard + 1 \in DOMAIN log /\ log[heard + 1] = Heard
         /\ UNCHANGED <<log, session, clock, troubles, up, task, upto, cut, goal, queued, outside>>
<1>1. Hearing
  BY DEF Listen, HearSaid, HearQueued, HearEnded, HearMute
<1>2. heard < Len(log) /\ heard' = heard + 1
  BY <1>1 DEF Hearing
<1>3. UNCHANGED <<log, session, clock, troubles, up, task, upto, cut, goal, queued, outside>>
  BY DEF Listen, HearSaid, HearQueued, HearEnded, HearMute
<1>4. heard \in Nat /\ Len(log) \in Nat /\ DOMAIN log = 1..Len(log)
  BY DEF TypeOK
<1> QED
  BY <1>1, <1>2, <1>3, <1>4 DEF Heard

\* The backlog with one more sentence or text stays one.
LEMMA BacklogType ==
  ASSUME NEW b \in [since : Nat, sent : SUBSET (Nat \X Texts), said : SUBSET Nat]
  PROVE  /\ \A s \in Nat : [b EXCEPT !.said = b.said \cup {s}]
              \in [since : Nat, sent : SUBSET (Nat \X Texts), said : SUBSET Nat]
         /\ \A p \in Nat \X Texts : [b EXCEPT !.sent = b.sent \cup {p}]
              \in [since : Nat, sent : SUBSET (Nat \X Texts), said : SUBSET Nat]
<1>1. ASSUME NEW p \in Nat \X Texts
      PROVE  b.sent \cup {p} \in SUBSET (Nat \X Texts)
  OBVIOUS
<1> QED
  BY <1>1

\* Types are kept by the session, the connection and the queue.
LEMMA TypeOutside ==
  ASSUME TypeOK, InHandIsHeard, InTheLog,
         \/ Says \/ TurnEnds \/ LinkCloses \/ LinkGone \/ LinkOpens \/ SubscriptionLost
         \/ Enqueue \/ Hand \/ Wake \/ Connected \/ Answered
  PROVE  TypeOK'
<1>0. log' \in Seq(Events)
  <2>1. log' = log \/ \E e \in Events : log' = Append(log, e)
    BY LogSteps DEF Next
  <2> QED
    BY <2>1, Appended DEF TypeOK
<1>1. CASE Says
  <2>1. speech' \in Seq(Sentences)
    BY <1>1 DEF Says, TypeOK
  <2> QED
    BY <1>0, <1>1, <2>1 DEF Says, TypeOK, clock, memory, queued, outside
<1>2. CASE TurnEnds
  BY <1>0, <1>2 DEF TurnEnds, TypeOK, clock, memory, queued, outside
<1>3. CASE LinkCloses \/ LinkGone \/ LinkOpens
  <2>1. link' \in {"open", "closing", "closed"} /\ greeted' \in BOOLEAN /\ troubles' \in Nat
    <3>1. CASE LinkCloses
      BY <3>1 DEF LinkCloses, TypeOK
    <3>2. CASE LinkGone
      BY <3>2 DEF LinkGone, TypeOK
    <3>3. CASE LinkOpens
      BY <3>3 DEF LinkOpens, TypeOK
    <3> QED
      BY <1>3, <3>1, <3>2, <3>3
  <2>2. UNCHANGED <<log, session, clock, up, memory, queued>>
    BY <1>3 DEF LinkCloses, LinkGone, LinkOpens
  <2> QED
    BY <2>1, <2>2 DEF TypeOK, session, clock, memory, queued
<1>4. CASE SubscriptionLost
  BY <1>4 DEF SubscriptionLost, TypeOK, session, clock, outside, queued
<1>5. CASE Enqueue
  <2>1. PICK i \in todo.left :
          /\ todo' = [todo EXCEPT !.left = @ \ {i}]
          /\ OnRecord(log[todo.of].turn, Text(todo.of, i))
    BY <1>5 DEF Enqueue
  <2>2. SaidBy(todo.of, heard) /\ i \in Pieces(todo.of)
    BY DEF InHandIsHeard
  <2>3. todo.of \in DOMAIN log /\ Said(log[todo.of])
    BY <2>2 DEF SaidBy, InTheLog, TypeOK
  <2>4. log[todo.of].turn \in Nat /\ Text(todo.of, i) \in Texts
    BY <2>2, <2>3, EventShape, PieceShape
  <2>5. round' \in [turn : Nat, texts : SUBSET Texts]
    BY <2>1, <2>4, RoundType
  <2>6. todo' \in [of : Nat, left : SUBSET Nat]
    BY <2>1 DEF TypeOK
  <2>7. waiting \cup {Len(log) + 1} \in SUBSET Nat
    <3>1. ASSUME NEW n \in Nat PROVE waiting \cup {n + 1} \in SUBSET Nat
      BY DEF TypeOK
    <3>2. Len(log) \in Nat
      BY DEF TypeOK
    <3> QED
      BY <3>1, <3>2
  <2>8. Pump(waiting \cup {Len(log) + 1})
    BY <1>5 DEF Enqueue
  <2> QED
    BY <1>0, <1>5, <2>5, <2>6, <2>7, <2>8, PumpType DEF Enqueue, TypeOK, session, outside
<1>6. CASE Hand
  <2>1. PICK q \in ready :
          /\ ready' = ready \ {q}
          /\ \/ /\ handed' = Append(handed, q) /\ sending' = sending \cup {q}
                /\ UNCHANGED ended
             \/ ended' = ended \cup {q} /\ UNCHANGED <<handed, sending>>
    BY <1>6 DEF Hand
  <2>2. q \in Nat /\ handed \in Seq(Nat)
    BY DEF TypeOK
  <2>3. handed' \in Seq(Nat)
    BY <2>1, <2>2
  <2> QED
    BY <1>6, <2>1, <2>2, <2>3 DEF Hand, TypeOK, session, clock, memory, outside
<1>7. CASE Wake
  BY <1>7, PumpType DEF Wake, TypeOK, session, memory, outside
<1>8. CASE Connected
  BY <1>8, PumpType DEF Connected, TypeOK, session, memory
<1>9. CASE Answered
  BY <1>9 DEF Answered, TypeOK, session, clock, memory, outside
<1> QED
  BY <1>1, <1>2, <1>3, <1>4, <1>5, <1>6, <1>7, <1>8, <1>9

\* Types are kept by what the bridge hears and by restarts.
LEMMA TypeBridge ==
  ASSUME TypeOK, RecordsAreOfSpeech, InHandIsHeard, InTheLog,
         \/ Listen \/ \E kind \in {"muted", "unmuted"} : MuteNotice(kind)
         \/ CaughtUp \/ Follow \/ Followed \/ Resend \/ Resent \/ Crash \/ Restart
  PROVE  TypeOK'
<1>0. log' \in Seq(Events) /\ Len(log) \in Nat /\ Len(log') \in Nat
  <2>1. log' = log \/ \E e \in Events : log' = Append(log, e)
    BY LogSteps DEF Next
  <2> QED
    BY <2>1, Appended DEF TypeOK
<1>1. CASE Listen
  <2>1. heard + 1 \in DOMAIN log /\ heard' = heard + 1 /\ heard' \in Nat
    BY <1>1, Listening
  <2>2. CASE HearSaid
    <3>1. Said(log[heard + 1])
      BY <2>2 DEF HearSaid, Heard
    <3>2. log[heard + 1].turn \in Nat /\ Pieces(heard + 1) \in SUBSET Nat
      BY <2>1, <3>1, EventShape, PieceShape
    <3>3. quiet' \in SUBSET Nat
      BY <2>2, <3>2 DEF HearSaid, Heard, TypeOK
    <3>4. backlog' \in [since : Nat, sent : SUBSET (Nat \X Texts), said : SUBSET Nat]
      <4>1. \/ backlog' = backlog
            \/ backlog' = [backlog EXCEPT !.said = backlog.said \cup {heard + 1}]
        BY <2>2 DEF HearSaid
      <4> QED
        BY <2>1, <4>1, BacklogType DEF TypeOK
    <3>5. todo' \in [of : Nat, left : SUBSET Nat]
      <4>1. todo' \in {todo, Nothing, [of |-> heard + 1, left |-> Pieces(heard + 1)]}
        BY <2>2 DEF HearSaid
      <4> QED
        BY <2>1, <3>2, <4>1 DEF TypeOK, Nothing
    <3> QED
      BY <1>0, <2>1, <2>2, <3>3, <3>4, <3>5 DEF HearSaid, TypeOK, session, clock, queued, outside
  <2>3. CASE HearQueued
    <3>1. heard + 1 \in Queued
      BY <2>1, <2>3 DEF HearQueued, Heard, Queued
    <3> DEFINE of == log[heard + 1].of
               i == log[heard + 1].piece
    <3>2. of \in DOMAIN log /\ Said(log[of]) /\ i \in Pieces(of)
      BY <1>0, <2>1, <3>1 DEF RecordsAreOfSpeech, SaidBy, TypeOK
    <3>3. log[of].turn \in Nat /\ Text(of, i) \in Texts /\ Key(of, i) \in Nat \X Texts
      BY <3>2, EventShape, PieceShape
    <3>4. round' \in [turn : Nat, texts : SUBSET Texts]
      BY <2>3, <3>3, RoundType DEF HearQueued, Heard
    <3>5. backlog' \in [since : Nat, sent : SUBSET (Nat \X Texts), said : SUBSET Nat]
      <4>1. \/ backlog' = backlog
            \/ backlog' = [backlog EXCEPT !.sent = backlog.sent \cup {Key(of, i)}]
        BY <2>3 DEF HearQueued, Heard
      <4>2. /\ backlog \in [since : Nat, sent : SUBSET (Nat \X Texts), said : SUBSET Nat]
            /\ Key(of, i) \in Nat \X Texts
        BY <3>3 DEF TypeOK
      <4> HIDE DEF of, i
      <4> QED
        BY <4>1, <4>2, BacklogType
    <3> QED
      BY <1>0, <2>1, <2>3, <3>4, <3>5 DEF HearQueued, TypeOK, session, clock, queued, outside
  <2>4. CASE HearEnded
    BY <1>0, <2>1, <2>4 DEF HearEnded, TypeOK, session, clock, queued, outside
  <2>5. CASE HearMute
    BY <1>0, <2>1, <2>5 DEF HearMute, TypeOK, session, clock, queued, outside
  <2> QED
    BY <1>1, <2>2, <2>3, <2>4, <2>5 DEF Listen
<1>2. CASE \E kind \in {"muted", "unmuted"} : MuteNotice(kind)
  <2>1. goal' \in Nat
    <3>1. goal' = IF cut = 0 THEN Len(log') ELSE cut - 1
      BY <1>2 DEF MuteNotice
    <3> QED
      BY <1>0, <3>1 DEF TypeOK
  <2> QED
    <3>1. /\ troubles' \in Nat /\ task' = "catching"
          /\ UNCHANGED <<session, clock, up, heard, upto, cut, round, mute, quiet, backlog,
                         todo, queued, outside>>
      BY <1>2 DEF MuteNotice, TypeOK
    <3> QED
      BY <1>0, <2>1, <3>1 DEF TypeOK, session, clock, queued, outside
<1>3. CASE CaughtUp
  BY <1>3, PumpType DEF CaughtUp, TypeOK, session, outside
<1>4. CASE Follow
  BY <1>0, <1>4 DEF Follow, TypeOK, session, clock, queued, outside
<1>5. CASE Followed
  <2>1. old' \in Nat /\ over' \in Nat /\ goal' \in Nat
    BY <1>0, <1>5 DEF Followed, Clock, TypeOK
  <2>2. backlog' \in [since : Nat, sent : SUBSET (Nat \X Texts), said : SUBSET Nat]
    BY <1>5, <2>1 DEF Followed, NoBacklog
  <2> QED
    BY <1>5, <2>1, <2>2 DEF Followed, TypeOK, session, queued, outside
<1>6. CASE Resend
  <2>1. PICK s \in backlog.said : \E fresh \in SUBSET Pieces(s) :
          /\ todo' = [of |-> s, left |-> fresh]
          /\ backlog' = [backlog EXCEPT !.said = @ \ {s},
                          !.sent = @ \cup {Key(s, i) : i \in fresh}]
    BY <1>6 DEF Resend, Unsent
  <2>2. PICK fresh \in SUBSET Pieces(s) :
          /\ todo' = [of |-> s, left |-> fresh]
          /\ backlog' = [backlog EXCEPT !.said = @ \ {s},
                          !.sent = @ \cup {Key(s, i) : i \in fresh}]
    BY <2>1
  <2>3. s \in DOMAIN log /\ Said(log[s])
    BY <1>0 DEF InHandIsHeard, SaidBy, InTheLog, TypeOK
  <2>4. \A i \in fresh : i \in Nat /\ Key(s, i) \in Nat \X Texts
    BY <2>3, PieceShape
  <2>5. s \in Nat /\ fresh \in SUBSET Nat /\ {Key(s, i) : i \in fresh} \in SUBSET (Nat \X Texts)
    BY <2>4 DEF TypeOK
  <2> QED
    BY <1>6, <2>2, <2>5 DEF Resend, TypeOK, session, clock, queued, outside
<1>7. CASE Resent
  BY <1>7 DEF Resent, TypeOK, NoBacklog, session, clock, queued, outside
<1>8. CASE Crash
  <2>1. Queued' \in SUBSET Nat
    BY <1>0 DEF Queued
  <2> QED
    <3>1. /\ task' = "idle" /\ heard' = 0 /\ upto' = 0 /\ cut' = 0 /\ goal' = 0
          /\ round' = NoRound /\ mute' = 0 /\ quiet' = {} /\ backlog' = NoBacklog
          /\ todo' = Nothing /\ waiting' = {} /\ ready' = {} /\ sending' = {} /\ up' = FALSE
          /\ ended' = Queued' /\ troubles' \in Nat
          /\ UNCHANGED <<session, clock, handed, outside>>
      BY <1>8 DEF Crash, TypeOK
    <3>2. /\ NoRound \in [turn : Nat, texts : SUBSET Texts]
          /\ NoBacklog \in [since : Nat, sent : SUBSET (Nat \X Texts), said : SUBSET Nat]
          /\ Nothing \in [of : Nat, left : SUBSET Nat]
      BY DEF NoRound, NoBacklog, Nothing
    <3> QED
      BY <1>0, <2>1, <3>1, <3>2 DEF TypeOK, session, clock, outside
<1>9. CASE Restart
  BY <1>0, <1>9 DEF Restart, TypeOK, session, clock, queued, outside
<1> QED
  BY <1>1, <1>2, <1>3, <1>4, <1>5, <1>6, <1>7, <1>8, <1>9

\* Every step keeps the types.
LEMMA TypeStep ==
  ASSUME TypeOK, RecordsAreOfSpeech, InHandIsHeard, InTheLog, [Next]_vars
  PROVE  TypeOK'
<1>1. CASE UNCHANGED vars
  BY <1>1 DEF vars, session, clock, memory, queued, outside, TypeOK
<1>2. CASE Next
  BY <1>2, TypeOutside, TypeBridge DEF Next
<1> QED
  BY <1>1, <1>2

(***************************************************************************)
(* What steps do to the log, and which of them do little else.             *)
(***************************************************************************)
Sound == TypeOK /\ RecordsAreOfSpeech /\ InHandIsHeard /\ InTheLog

\* The log only grows, by one event at a time.
LEMMA LogGrows ==
  ASSUME Sound, [Next]_vars
  PROVE  /\ Len(log) \in Nat /\ DOMAIN log = 1..Len(log)
         /\ Len(log') \in Nat /\ DOMAIN log' = 1..Len(log')
         /\ log' = log \/ Len(log') = Len(log) + 1
         /\ \A n \in DOMAIN log : n \in DOMAIN log' /\ log'[n] = log[n]
         /\ Queued \subseteq Queued'
<1>1. log' = log \/ \E e \in Events : log' = Append(log, e)
  BY LogSteps DEF Sound
<1>2. Len(log) \in Nat /\ DOMAIN log = 1..Len(log)
  BY DEF Sound, TypeOK
<1>3. /\ Len(log') \in Nat /\ DOMAIN log' = 1..Len(log')
      /\ log' = log \/ Len(log') = Len(log) + 1
      /\ \A n \in DOMAIN log : n \in DOMAIN log' /\ log'[n] = log[n]
  BY <1>1, <1>2, Appended DEF Sound
<1> QED
  BY <1>2, <1>3 DEF Queued

\* What she said stays what it was.
LEMMA SpeechKept ==
  ASSUME Sound, [Next]_vars, NEW s \in DOMAIN log
  PROVE  /\ Said(log'[s]) <=> Said(log[s])
         /\ SkippedBy(s)' <=> SkippedBy(s)
         /\ Pieces(s)' = Pieces(s)
         /\ \A i : Text(s, i)' = Text(s, i) /\ Key(s, i)' = Key(s, i)
<1>1. /\ DOMAIN log = 1..Len(log) /\ Len(log) \in Nat
      /\ \A n \in DOMAIN log : log'[n] = log[n]
  BY LogGrows
<1>2. \A k \in 1..s : log'[k] = log[k]
  BY <1>1
<1> QED
  BY <1>1, <1>2 DEF SkippedBy, Pieces, Text, Key

\* What is on record stays on record.
LEMMA RecordsKept ==
  ASSUME Sound, [Next]_vars
  PROVE  /\ \A q \in Queued : /\ q \in Queued' /\ log'[q] = log[q]
                              /\ log[q].of \in DOMAIN log /\ q \in DOMAIN log
                              /\ log[q].of < q /\ q \in Nat /\ log[q].of \in Nat
                              /\ PieceOf(q)' = PieceOf(q)
         /\ \A t, text : OnTheRecord(t, text) => OnTheRecord(t, text)'
<1>1. ASSUME NEW q \in Queued
      PROVE  /\ q \in Queued' /\ log'[q] = log[q] /\ log[q].of \in DOMAIN log /\ q \in DOMAIN log
             /\ log[q].of < q /\ q \in Nat /\ log[q].of \in Nat
             /\ Key(log[q].of, log[q].piece)' = Key(log[q].of, log[q].piece)
  <2>1. q \in DOMAIN log /\ q \in Queued' /\ log'[q] = log[q]
    BY LogGrows DEF Queued
  <2>2. log[q].of \in Nat /\ log[q].of \in 1..(q - 1) /\ q \in 1..Len(log) /\ Len(log) \in Nat
    BY <2>1, LogGrows DEF Sound, RecordsAreOfSpeech, SaidBy
  <2>3. log[q].of \in DOMAIN log /\ log[q].of < q /\ q \in Nat
    BY <2>2, LogGrows
  <2>4. log'[log[q].of] = log[log[q].of]
    BY <2>3, LogGrows
  <2> QED
    BY <2>1, <2>2, <2>3, <2>4 DEF Key, Text
<1>2. ASSUME NEW t, NEW text, OnTheRecord(t, text)
      PROVE  OnTheRecord(t, text)'
  <2>1. PICK q \in Queued : Key(log[q].of, log[q].piece) = <<t, text>>
    BY <1>2 DEF OnTheRecord
  <2> QED
    BY <1>1, <2>1 DEF OnTheRecord
<1> QED
  BY <1>1, <1>2 DEF PieceOf

core == <<log, turn, clock, up, task, heard, upto, goal, round, quiet, backlog, todo,
          waiting, ready, handed>>

Still ==
  LinkCloses \/ LinkGone \/ LinkOpens \/ SubscriptionLost \/ Answered \/ UNCHANGED vars
Told == Says \/ TurnEnds \/ \E kind \in {"muted", "unmuted"} : MuteNotice(kind)
Looked == Wake \/ Connected \/ CaughtUp

\* The connection and results change nothing that is said or remembered.
LEMMA StillSteps == Still => UNCHANGED core
  BY DEF Still, core, LinkCloses, LinkGone, LinkOpens, SubscriptionLost, Answered, vars,
         session, clock, memory, queued, outside

\* She or the people of the group did something: no piece gets on record.
LEMMA ToldSteps ==
  ASSUME Sound, Told
  PROVE  /\ UNCHANGED <<clock, up, heard, upto, cut, round, quiet, backlog, todo, waiting,
                        ready, handed>>
         /\ \/ UNCHANGED <<task, goal>>
            \/ up /\ task = "idle" /\ task' = "catching"
         /\ Queued' = Queued
<1>1. /\ UNCHANGED <<clock, up, heard, upto, cut, round, quiet, backlog, todo, waiting,
                     ready, handed>>
      /\ \/ UNCHANGED <<task, goal>>
         \/ up /\ task = "idle" /\ task' = "catching"
  BY DEF Told, Says, TurnEnds, MuteNotice, Idle, Free, session, clock, memory, queued, outside
<1>2. \E e \in Events : log' = Append(log, e) /\ e.kind # "queued"
  <2>1. CASE Says
    <3>1. Head(speech) \in Sentences
      BY <2>1 DEF Says, Sound, TypeOK
    <3> DEFINE e == [kind |-> "said", turn |-> turn, sentence |-> Head(speech)]
    <3>2. e \in Events
      BY <3>1, NewEvents DEF Sound, TypeOK
    <3>3. e.kind # "queued" /\ log' = Append(log, e)
      BY <2>1 DEF Says
    <3> QED
      BY <3>2, <3>3
  <2>2. CASE TurnEnds
    BY <2>2, NewEvents DEF TurnEnds, Sound, TypeOK
  <2>3. CASE \E kind \in {"muted", "unmuted"} : MuteNotice(kind)
    BY <2>3, NewEvents DEF MuteNotice
  <2> QED
    BY <2>1, <2>2, <2>3 DEF Told
<1>3. Queued' = Queued
  <2>1. PICK e \in Events : log' = Append(log, e) /\ e.kind # "queued"
    BY <1>2
  <2> QED
    BY <2>1, Appended DEF Sound, Queued
<1> QED
  BY <1>1, <1>3

\* The queue is looked at.
LEMMA LookedSteps ==
  ASSUME Looked
  PROVE  /\ UNCHANGED <<log, turn, up, heard, upto, round, quiet, backlog, todo, handed>>
         /\ Pump(waiting) /\ up /\ todo.left = {} /\ ready = {}
         /\ task \in {"idle", "catching"} /\ task' = "idle"
         /\ goal' \in {goal, 0}
  BY DEF Looked, Wake, Connected, CaughtUp, Pump, Idle, Free, session, memory, outside

\* The first piece of what is left gets on record.
LEMMA Recorded ==
  ASSUME Sound, Enqueue \/ (Crash /\ log' # log)
  PROVE  \E i \in todo.left :
           /\ log' = Append(log, [kind |-> "queued", of |-> todo.of, piece |-> i])
           /\ Enqueue => /\ todo' = [todo EXCEPT !.left = @ \ {i}]
                         /\ OnRecord(log[todo.of].turn, Text(todo.of, i))
           /\ Queued' = Queued \cup {Len(log) + 1}
           /\ log'[Len(log) + 1] = [kind |-> "queued", of |-> todo.of, piece |-> i]
           /\ todo.of \in DOMAIN log /\ SaidBy(todo.of, heard) /\ i \in Pieces(todo.of)
<1>1. PICK i \in todo.left :
        /\ log' = Append(log, [kind |-> "queued", of |-> todo.of, piece |-> i])
        /\ Enqueue => /\ todo' = [todo EXCEPT !.left = @ \ {i}]
                      /\ OnRecord(log[todo.of].turn, Text(todo.of, i))
  <2>1. CASE Enqueue
    BY <2>1 DEF Enqueue
  <2>2. CASE Crash /\ log' # log /\ ~Enqueue
    BY <2>2 DEF Crash
  <2> QED
    BY <2>1, <2>2
<1> DEFINE e == [kind |-> "queued", of |-> todo.of, piece |-> i]
<1>2. e \in Events
  BY NewEvents DEF Sound, TypeOK
<1>3. Queued' = Queued \cup {Len(log) + 1} /\ log'[Len(log) + 1] = e
  BY <1>1, <1>2, Appended DEF Sound, Queued
<1>4. todo.of \in DOMAIN log /\ SaidBy(todo.of, heard) /\ i \in Pieces(todo.of)
  BY DEF Sound, InHandIsHeard, SaidBy, InTheLog, TypeOK
<1> QED
  BY <1>1, <1>3, <1>4

\* The steps that put nothing on record, and the others.
LEMMA Unrecorded ==
  ASSUME Sound,
         \/ Still \/ Told \/ Looked \/ Hand \/ Listen \/ Follow \/ Followed \/ Resend
         \/ Resent \/ Restart
  PROVE  Queued' = Queued
<1>1. CASE Told
  BY <1>1, ToldSteps
<1>2. CASE Still \/ Looked \/ Hand \/ Listen \/ Follow \/ Followed \/ Resend \/ Resent \/ Restart
  <2>1. log' = log
    BY <1>2, StillSteps, LookedSteps, Listening
       DEF core, Sound, Hand, Follow, Followed, Resend, Resent, Restart
  <2> QED
    BY <2>1 DEF Queued
<1> QED
  BY <1>1, <1>2

\* Only the next piece in hand, by its append or one that a crash followed.
LEMMA QueuedKept ==
  ASSUME Sound, [Next]_vars, ~Enqueue, ~(Crash /\ log' # log)
  PROVE  Queued' = Queued
  BY Unrecorded DEF Next, Still, Told, Looked, Queued

(***************************************************************************)
(* What the log, the memory and the task point at stays there.             *)
(***************************************************************************)
\* A record is of a piece of an earlier sentence.
LEMMA RecordsAreOfSpeechStep ==
  ASSUME Sound, [Next]_vars
  PROVE  RecordsAreOfSpeech'
<1>1. ASSUME NEW s \in DOMAIN log, NEW q, Said(log[s]), s < q, q \in Nat
      PROVE  s \in Nat /\ SaidBy(s, q - 1)' /\ Pieces(s)' = Pieces(s)
  <2>1. s \in Nat /\ s \in 1..(q - 1)
    BY <1>1, LogGrows
  <2> QED
    BY <1>1, <2>1, SpeechKept DEF SaidBy
<1>2. ASSUME NEW q \in Queued'
      PROVE  \E s \in DOMAIN log :
               /\ Said(log[s]) /\ log'[q].of = s /\ s < q /\ q \in Nat
               /\ log'[q].piece \in Pieces(s)
  <2>1. CASE q \in Queued
    BY <2>1, RecordsKept DEF Sound, RecordsAreOfSpeech, SaidBy
  <2>2. CASE q \notin Queued
    <3>1. Enqueue \/ (Crash /\ log' # log)
      BY <2>2, <1>2, QueuedKept
    <3>2. PICK i \in todo.left :
            /\ Queued' = Queued \cup {Len(log) + 1}
            /\ log'[Len(log) + 1] = [kind |-> "queued", of |-> todo.of, piece |-> i]
            /\ todo.of \in DOMAIN log /\ SaidBy(todo.of, heard) /\ i \in Pieces(todo.of)
      BY <3>1, Recorded
    <3>3. q = Len(log) + 1 /\ log'[q].of = todo.of /\ log'[q].piece = i
      BY <1>2, <2>2, <3>2
    <3>4. Len(log) \in Nat /\ DOMAIN log = 1..Len(log)
      BY LogGrows
    <3> QED
      BY <3>2, <3>3, <3>4 DEF SaidBy
  <2> QED
    BY <2>1, <2>2
<1>3. ASSUME NEW q \in Queued'
      PROVE  /\ log'[q].of \in Nat /\ log'[q].of \in 1..(q - 1) /\ Said(log'[log'[q].of])
             /\ log'[q].piece \in DOMAIN log'[log'[q].of].sentence.pieces
  <2>1. PICK s \in DOMAIN log :
          /\ Said(log[s]) /\ log'[q].of = s /\ s < q /\ q \in Nat
          /\ log'[q].piece \in Pieces(s)
    BY <1>2
  <2> QED
    BY <1>1, <2>1 DEF SaidBy, Pieces
<1> QED
  BY <1>3 DEF RecordsAreOfSpeech, SaidBy, Pieces

\* It hears only what is in the log, and follows it no further.
LEMMA InTheLogStep ==
  ASSUME Sound, [Next]_vars
  PROVE  InTheLog'
<1>0. /\ Len(log) \in Nat /\ Len(log') \in Nat /\ Len(log) <= Len(log')
      /\ heard \in Nat /\ goal \in Nat /\ upto \in Nat /\ cut \in Nat
      /\ heard <= Len(log) /\ goal <= Len(log) /\ upto <= Len(log) /\ cut <= Len(log) + 1
  BY LogGrows DEF Sound, TypeOK, InTheLog
<1>1. CASE UNCHANGED <<heard, upto, goal, cut>>
  BY <1>0, <1>1 DEF InTheLog
<1>2. CASE SubscriptionLost
  BY <1>0, <1>2 DEF SubscriptionLost, InTheLog
<1>3. CASE \E kind \in {"muted", "unmuted"} : MuteNotice(kind)
  <2>1. goal' = (IF cut = 0 THEN Len(log') ELSE cut - 1) /\ UNCHANGED <<heard, upto, cut>>
    BY <1>3 DEF MuteNotice
  <2> QED
    BY <1>0, <2>1 DEF InTheLog
<1>4. CASE Listen
  BY <1>0, <1>4, Listening DEF Sound, InTheLog
<1>5. CASE CaughtUp \/ Resent
  BY <1>0, <1>5 DEF CaughtUp, Resent, InTheLog
<1>6. CASE Follow
  BY <1>0, <1>6 DEF Follow, InTheLog
<1>7. CASE Followed
  BY <1>0, <1>7 DEF Followed, InTheLog
<1>8. CASE Crash
  BY <1>0, <1>8 DEF Crash, InTheLog
<1>9. CASE Restart
  BY <1>0, <1>9 DEF Restart, InTheLog
<1> QED
  BY <1>1, <1>2, <1>3, <1>4, <1>5, <1>6, <1>7, <1>8, <1>9
     DEF Next, vars, session, clock, memory, queued, outside, Says, TurnEnds, LinkCloses,
         LinkGone, LinkOpens, Enqueue, Hand, Wake, Connected, Answered, Resend

\* It has in hand and keeps for later only what it has heard.
LEMMA InHandIsHeardStep ==
  ASSUME Sound, TaskFits, [Next]_vars
  PROVE  InHandIsHeard'
<1>0. /\ heard \in Nat /\ heard' \in Nat /\ Len(log) \in Nat /\ heard <= Len(log)
      /\ DOMAIN log = 1..Len(log)
  BY TypeStep, LogGrows DEF Sound, TypeOK, InTheLog
<1>1. ASSUME NEW s, SaidBy(s, heard), heard <= heard'
      PROVE  SaidBy(s, heard)' /\ Pieces(s)' = Pieces(s)
  <2>1. s \in DOMAIN log /\ s \in 1..heard' /\ Said(log[s])
    BY <1>0, <1>1 DEF SaidBy
  <2> QED
    BY <2>1, SpeechKept DEF SaidBy
<1>2. ASSUME heard <= heard', todo'.left # {} => todo'.of = todo.of /\ todo'.left \subseteq todo.left,
             backlog'.said \subseteq backlog.said
      PROVE  InHandIsHeard'
  BY <1>1, <1>2 DEF Sound, InHandIsHeard
<1>3. CASE Listen
  <2>1. heard' = heard + 1 /\ heard + 1 \in DOMAIN log /\ Free /\ UNCHANGED log
    BY <1>3, Listening DEF Hearing, Sound
  <2>2. CASE HearSaid
    <3>1. Said(log[heard + 1])
      BY <2>2 DEF HearSaid, Heard
    <3>2. PICK n \in DOMAIN log : n = heard + 1
      BY <2>1
    <3>3. SaidBy(n, heard)' /\ Pieces(n)' = Pieces(n)
      BY <1>0, <2>1, <3>1, <3>2, SpeechKept DEF SaidBy
    <3>4. todo'.left # {} => todo'.of = n /\ todo'.left = Pieces(n)
      BY <2>1, <2>2, <3>2 DEF HearSaid, Nothing, Free
    <3>5. todo'.left # {} => SaidBy(todo.of, heard)' /\ todo'.left \subseteq Pieces(todo.of)'
      BY <3>3, <3>4 DEF SaidBy, Pieces
    <3>6. backlog'.said \subseteq backlog.said \cup {n}
      BY <2>2, <3>2 DEF HearSaid, Sound, TypeOK
    <3>7. ASSUME NEW s \in backlog'.said PROVE SaidBy(s, heard)'
      BY <1>0, <1>1, <2>1, <3>3, <3>6 DEF Sound, InHandIsHeard
    <3> QED
      BY <3>5, <3>7 DEF InHandIsHeard
  <2>3. CASE HearQueued
    <3>1. todo' = todo
      BY <2>3 DEF HearQueued
    <3>2. backlog'.said = backlog.said
      BY <2>3 DEF HearQueued, Sound, TypeOK
    <3> QED
      BY <1>0, <1>2, <2>1, <3>1, <3>2
  <2>4. CASE HearEnded \/ HearMute
    BY <1>0, <1>2, <2>1, <2>4 DEF HearEnded, HearMute
  <2> QED
    BY <1>3, <2>2, <2>3, <2>4 DEF Listen
<1>4. CASE Enqueue
  <2>1. todo'.of = todo.of /\ todo'.left \subseteq todo.left
    BY <1>4 DEF Enqueue, Sound, TypeOK
  <2> QED
    BY <1>0, <1>2, <1>4, <2>1 DEF Enqueue
<1>5. CASE Followed \/ Resent
  BY <1>0, <1>2, <1>5 DEF Followed, Resent, NoBacklog
<1>6. CASE Resend
  <2>1. PICK s \in backlog.said : \E fresh \in SUBSET Pieces(s) :
          /\ todo' = [of |-> s, left |-> fresh]
          /\ backlog' = [backlog EXCEPT !.said = @ \ {s},
                          !.sent = @ \cup {Key(s, i) : i \in fresh}]
    BY <1>6 DEF Resend, Unsent
  <2>2. todo'.of = s /\ todo'.left \subseteq Pieces(s) /\ backlog'.said \subseteq backlog.said
    BY <2>1 DEF Sound, TypeOK
  <2>3. UNCHANGED <<heard, log>>
    BY <1>6 DEF Resend
  <2> QED
    BY <1>0, <1>1, <2>2, <2>3 DEF Sound, InHandIsHeard
<1>7. CASE Crash
  BY <1>7 DEF Crash, InHandIsHeard, Nothing, NoBacklog
<1>8. CASE UNCHANGED <<heard, todo, backlog>>
  BY <1>0, <1>2, <1>8
<1>9. CASE Still \/ Told \/ Looked
  BY <1>8, <1>9, StillSteps, ToldSteps, LookedSteps DEF core
<1> QED
  BY <1>3, <1>4, <1>5, <1>6, <1>7, <1>8, <1>9
     DEF Next, Still, Told, Looked, Hand, Follow, Restart, memory

\* The task and what the bridge has at hand agree.
LEMMA TaskFitsStep ==
  ASSUME Sound, TaskFits, [Next]_vars
  PROVE  TaskFits'
<1>0. /\ Len(log) \in Nat /\ upto \in Nat /\ goal \in Nat /\ heard \in Nat
      /\ upto <= Len(log) /\ goal <= Len(log)
  BY LogGrows DEF Sound, TypeOK, InTheLog
<1>1. CASE Still
  BY <1>1, StillSteps DEF core, TaskFits
<1>2. CASE Told
  BY <1>2, ToldSteps DEF TaskFits
<1>3. CASE Looked
  BY <1>3, LookedSteps DEF TaskFits
<1>4. CASE Enqueue \/ Hand
  <2>1. UNCHANGED <<up, task, heard, upto, goal, backlog>> /\ up
    BY <1>4 DEF Enqueue, Hand, memory
  <2>2. CASE Enqueue
    <3>1. ready = {} /\ todo.left # {}
      BY <2>2 DEF Enqueue
    <3> QED
      BY <2>1, <3>1 DEF TaskFits
  <2>3. CASE Hand
    <3>1. ready # {}
      BY <2>3 DEF Hand
    <3> QED
      BY <2>1, <3>1 DEF TaskFits
  <2> QED
    BY <1>4, <2>2, <2>3
<1>5. CASE Listen
  <2>1. UNCHANGED <<up, task, upto, goal, ready>> /\ up /\ task # "following"
    BY <1>5, Listening DEF Hearing, Free, queued, Sound
  <2>2. task # "gathering" => backlog' = backlog
    BY <1>5 DEF Listen, HearSaid, HearQueued, HearEnded, HearMute, Replayed
  <2> QED
    BY <2>1, <2>2 DEF TaskFits
<1>6. CASE Follow
  BY <1>6 DEF Follow, Idle, Free, TaskFits, queued
<1>7. CASE Followed
  <2>1. goal' \in upto..Len(log) /\ upto' = upto /\ task' = "gathering" /\ up' = TRUE
    BY <1>7 DEF Followed, Sound, TypeOK
  <2> QED
    BY <1>0, <2>1 DEF TaskFits
<1>8. CASE Resend
  BY <1>8 DEF Resend, Gathered, Free, TaskFits
<1>9. CASE Resent
  BY <1>9 DEF Resent, Gathered, Free, TaskFits, NoBacklog, queued
<1>10. CASE Crash
  BY <1>10 DEF Crash, TaskFits, NoBacklog, Nothing
<1>11. CASE Restart
  BY <1>11 DEF Restart, TaskFits, queued
<1> QED
  BY <1>1, <1>2, <1>3, <1>4, <1>5, <1>6, <1>7, <1>8, <1>9, <1>10, <1>11
     DEF Next, Still, Told, Looked

(***************************************************************************)
(* A piece is on record once.                                              *)
(***************************************************************************)
\* What was recorded before a crash or a loss is replayed before it is heard anew.
LEMMA RecordsAheadStep ==
  ASSUME Sound, TaskFits, RecordsAhead, [Next]_vars
  PROVE  RecordsAhead'
<1>0. /\ Len(log) \in Nat /\ upto \in Nat /\ goal \in Nat /\ heard \in Nat
      /\ DOMAIN log = 1..Len(log) /\ heard <= Len(log)
  BY LogGrows DEF Sound, TypeOK, InTheLog
<1>1. ASSUME NEW q \in Queued', Queued' = Queued
      PROVE  /\ q \in Queued /\ log'[q] = log[q] /\ q \in Nat /\ log[q].of \in Nat
             /\ log[q].of < q /\ q <= Len(log)
             /\ \/ ~up \/ log[q].of <= heard
                \/ q <= upto /\ task \in {"following", "gathering"}
  BY <1>0, <1>1, RecordsKept DEF RecordsAhead
<1>2. CASE Crash
  BY <1>2 DEF Crash, RecordsAhead
<1>3. CASE Enqueue
  <2>1. UNCHANGED <<up, heard, upto, task>>
    BY <1>3 DEF Enqueue
  <2>2. PICK i \in todo.left :
          /\ Queued' = Queued \cup {Len(log) + 1}
          /\ log'[Len(log) + 1] = [kind |-> "queued", of |-> todo.of, piece |-> i]
          /\ SaidBy(todo.of, heard)
    BY <1>3, Recorded
  <2>3. log'[Len(log) + 1].of <= heard
    BY <1>0, <2>2 DEF SaidBy
  <2>4. \A q \in Queued : log'[q] = log[q]
    BY RecordsKept
  <2> QED
    BY <2>1, <2>2, <2>3, <2>4 DEF RecordsAhead
<1>4. CASE Restart \/ Follow
  <2>1. upto' = Len(log) /\ task' = "following" /\ Queued' = Queued
    BY <1>4, Unrecorded DEF Restart, Follow
  <2> QED
    BY <1>1, <2>1 DEF RecordsAhead
<1>5. CASE Resent
  <2>1. /\ heard >= goal /\ task = "gathering" /\ UNCHANGED <<heard, up>> /\ up
        /\ Queued' = Queued
    BY <1>5, Unrecorded DEF Resent, Gathered, Free
  <2>2. upto <= heard
    BY <1>0, <2>1 DEF TaskFits
  <2>3. \A q \in Queued' : log'[q].of <= heard'
    BY <1>0, <1>1, <2>1, <2>2
  <2> QED
    BY <2>3 DEF RecordsAhead
<1>6. ASSUME Queued' = Queued, heard <= heard', upto' = upto, up' = up, heard' \in Nat,
             task \in {"following", "gathering"} => task' \in {"following", "gathering"}
      PROVE  RecordsAhead'
  BY <1>0, <1>1, <1>6 DEF RecordsAhead
<1>7. CASE Still \/ Told \/ Looked
  <2>1. UNCHANGED <<heard, upto, up>>
    BY <1>7, StillSteps, ToldSteps, LookedSteps DEF core
  <2>2. task \in {"following", "gathering"} => task' = task
    BY <1>7, StillSteps, ToldSteps, LookedSteps DEF core
  <2> QED
    BY <1>0, <1>6, <1>7, <2>1, <2>2, Unrecorded
<1>8. CASE Listen
  BY <1>0, <1>6, <1>8, Listening, Unrecorded DEF Sound
<1>9. CASE Hand \/ Followed \/ Resend
  <2>1. /\ UNCHANGED <<heard, upto, up>> /\ Queued' = Queued
        /\ task \in {"following", "gathering"} => task' \in {"following", "gathering"}
    BY <1>9, Unrecorded DEF Hand, Followed, Resend, memory
  <2> QED
    BY <1>0, <1>6, <2>1
<1> QED
  BY <1>2, <1>3, <1>4, <1>5, <1>7, <1>8, <1>9 DEF Next, Still, Told, Looked

\* What is on record of what it keeps is known by the time it is said again.
LEMMA KeptIsKnownStep ==
  ASSUME Sound, TaskFits, RecordsAhead, KeptIsKnown, LeftIsNew, [Next]_vars
  PROVE  KeptIsKnown'
<1>0. /\ Len(log) \in Nat /\ upto \in Nat /\ heard \in Nat /\ DOMAIN log = 1..Len(log)
      /\ heard <= Len(log)
  BY LogGrows DEF Sound, TypeOK, InTheLog
<1>1. ASSUME NEW q \in Queued, log[q].of \in backlog.said
      PROVE  /\ q <= upto /\ q \in Nat
             /\ q <= heard => Key(log[q].of, log[q].piece) \in backlog.sent
             /\ log'[q] = log[q] /\ Key(log[q].of, log[q].piece)' = Key(log[q].of, log[q].piece)
  <2>1. PICK s \in DOMAIN log : s = log[q].of
    BY RecordsKept
  <2>2. Key(s, log[q].piece)' = Key(s, log'[q].piece)
    BY <2>1, SpeechKept DEF Key, Text
  <2> QED
    BY <1>1, <2>1, <2>2, RecordsKept DEF KeptIsKnown, Key, Text
<1>2. ASSUME UNCHANGED <<heard, upto>>, backlog'.said \subseteq backlog.said,
             backlog.sent \subseteq backlog'.sent,
             \A q \in Queued' \ Queued : log'[q].of \notin backlog'.said
      PROVE  KeptIsKnown'
  <2> SUFFICES ASSUME NEW q \in Queued', log'[q].of \in backlog'.said
               PROVE  q <= upto' /\ (q <= heard' => Key(log[q].of, log[q].piece)' \in backlog'.sent)
    BY DEF KeptIsKnown
  <2>1. q \in Queued
    BY <1>2
  <2>2. log[q].of \in backlog.said
    BY <1>2, <2>1, RecordsKept
  <2> QED
    BY <1>1, <1>2, <2>1, <2>2
<1>3. CASE Still \/ Told \/ Looked
  <2>1. UNCHANGED <<heard, upto, backlog>>
    BY <1>3, StillSteps, ToldSteps, LookedSteps DEF core
  <2> QED
    BY <1>2, <1>3, <2>1, Unrecorded
<1>4. CASE Enqueue
  <2>1. UNCHANGED <<heard, upto, backlog>>
    BY <1>4 DEF Enqueue
  <2>2. \A q \in Queued' \ Queued : log'[q].of = todo.of /\ todo.left # {}
    <3>1. PICK i \in todo.left :
            /\ Queued' = Queued \cup {Len(log) + 1}
            /\ log'[Len(log) + 1] = [kind |-> "queued", of |-> todo.of, piece |-> i]
      BY <1>4, Recorded
    <3> QED
      BY <3>1
  <2> QED
    BY <1>2, <2>1, <2>2 DEF LeftIsNew
<1>5. CASE Crash
  BY <1>5 DEF Crash, KeptIsKnown, NoBacklog
<1>6. CASE Hand
  BY <1>2, <1>6, Unrecorded DEF Hand, memory
<1>7. CASE Followed \/ Resent
  BY <1>7 DEF Followed, Resent, KeptIsKnown, NoBacklog
<1>8. CASE Follow \/ Restart
  <2>1. backlog.said = {} /\ backlog' = backlog
    BY <1>8 DEF Follow, Restart, Idle, TaskFits
  <2> QED
    BY <2>1 DEF KeptIsKnown
<1>9. CASE Resend
  <2>1. PICK s \in backlog.said : \E fresh \in SUBSET Pieces(s) :
          backlog' = [backlog EXCEPT !.said = @ \ {s},
                                     !.sent = @ \cup {Key(s, i) : i \in fresh}]
    BY <1>9 DEF Resend, Unsent
  <2>2. backlog'.said \subseteq backlog.said /\ backlog.sent \subseteq backlog'.sent
    BY <2>1 DEF Sound, TypeOK
  <2>3. UNCHANGED <<heard, upto>>
    BY <1>9 DEF Resend
  <2> QED
    BY <1>2, <1>9, <2>2, <2>3, Unrecorded
<1>10. CASE Listen
  <2>1. heard' = heard + 1 /\ UNCHANGED <<upto, log, task>>
    BY <1>10, Listening DEF Sound
  <2>2. ASSUME NEW q \in Queued', log'[q].of \in backlog'.said
        PROVE  q <= upto' /\ (q <= heard' => Key(log[q].of, log[q].piece)' \in backlog'.sent)
    <3>1. /\ q \in Queued /\ log'[q] = log[q] /\ q \in Nat /\ log[q].of \in Nat
          /\ log[q].of < q /\ Key(log[q].of, log[q].piece)' = Key(log[q].of, log[q].piece)
      BY <1>10, <2>1, <2>2, RecordsKept DEF Queued, Key, Text
    <3>2. CASE HearSaid
      <4>1. backlog'.sent = backlog.sent
        BY <3>2 DEF HearSaid, Sound, TypeOK
      <4>2. CASE log[q].of \in backlog.said
        <5>1. q # heard + 1
          BY <3>1, <3>2 DEF HearSaid, Heard, Said, Queued
        <5> QED
          BY <1>0, <1>1, <2>1, <3>1, <4>1, <4>2, <5>1
      <4>3. CASE log[q].of \notin backlog.said
        <5>1. log[q].of = heard + 1
          <6>1. backlog'.said \subseteq backlog.said \cup {heard + 1}
            BY <3>2 DEF HearSaid, Sound, TypeOK
          <6> QED
            BY <2>2, <3>1, <4>3, <6>1
        <5>2. up
          BY <1>10, Listening DEF Hearing, Free, Sound
        <5>3. q <= upto
          BY <1>0, <3>1, <5>1, <5>2 DEF RecordsAhead
        <5> QED
          BY <1>0, <2>1, <3>1, <5>1, <5>3
      <4> QED
        BY <4>2, <4>3
    <3>3. CASE HearQueued
      <4>1. backlog'.said = backlog.said /\ backlog.sent \subseteq backlog'.sent
        BY <3>3 DEF HearQueued, Sound, TypeOK
      <4>2. q = heard + 1 => Key(log[q].of, log[q].piece) \in backlog'.sent
        <5>1. task = "gathering"
          BY <2>2, <4>1 DEF TaskFits
        <5>2. q = heard + 1 => Replayed
          BY <1>1, <2>2, <3>1, <4>1, <5>1 DEF Replayed
        <5> QED
          BY <3>3, <5>2 DEF HearQueued, Heard, Sound, TypeOK
      <4> QED
        BY <1>0, <1>1, <2>1, <2>2, <3>1, <4>1, <4>2
    <3>4. CASE HearEnded \/ HearMute
      <4>1. backlog' = backlog /\ q # heard + 1
        BY <3>1, <3>4 DEF HearEnded, HearMute, Heard, Queued
      <4> QED
        BY <1>0, <1>1, <2>1, <2>2, <3>1, <4>1
    <3> QED
      BY <1>10, <3>2, <3>3, <3>4 DEF Listen
  <2> QED
    BY <2>2 DEF KeptIsKnown
<1> QED
  BY <1>3, <1>4, <1>5, <1>6, <1>7, <1>8, <1>9, <1>10 DEF Next, Still, Told, Looked

\* What is left of the sentence in hand stays off the record until it is put there.
LEMMA LeftIsNewStep ==
  ASSUME Sound, TaskFits, RecordsAhead, KeptIsKnown, LeftIsNew, [Next]_vars
  PROVE  LeftIsNew'
<1>0. /\ Len(log) \in Nat /\ upto \in Nat /\ heard \in Nat /\ goal \in Nat
      /\ DOMAIN log = 1..Len(log) /\ heard <= Len(log)
  BY LogGrows DEF Sound, TypeOK, InTheLog
<1>1. \A q \in Queued : log'[q] = log[q] /\ q \in Nat /\ log[q].of \in Nat /\ log[q].of < q
  BY RecordsKept
<1>2. ASSUME todo'.left # {} => todo'.of = todo.of /\ todo'.left \subseteq todo.left,
             backlog'.said \subseteq backlog.said,
             Queued' = Queued
      PROVE  LeftIsNew'
  BY <1>1, <1>2 DEF LeftIsNew
<1>3. CASE Still \/ Told \/ Looked
  <2>1. UNCHANGED <<todo, backlog>>
    BY <1>3, StillSteps, ToldSteps, LookedSteps DEF core
  <2> QED
    BY <1>2, <1>3, <2>1, Unrecorded
<1>4. CASE Hand \/ Follow \/ Followed \/ Resent \/ Restart
  <2>1. todo' = todo /\ backlog'.said \subseteq backlog.said
    BY <1>4 DEF Hand, Follow, Followed, Resent, Restart, memory, NoBacklog
  <2> QED
    BY <1>2, <1>4, <2>1, Unrecorded
<1>5. CASE Crash
  BY <1>5 DEF Crash, LeftIsNew, Nothing
<1>6. CASE Enqueue
  <2>1. PICK i \in todo.left :
          /\ todo' = [todo EXCEPT !.left = @ \ {i}]
          /\ Queued' = Queued \cup {Len(log) + 1}
          /\ log'[Len(log) + 1] = [kind |-> "queued", of |-> todo.of, piece |-> i]
    BY <1>6, Recorded
  <2>2. todo'.of = todo.of /\ todo'.left = todo.left \ {i}
    BY <2>1 DEF Sound, TypeOK
  <2>3. backlog' = backlog
    BY <1>6 DEF Enqueue
  <2> QED
    BY <1>1, <2>1, <2>2, <2>3 DEF LeftIsNew
<1>7. CASE Resend
  <2>1. PICK s \in backlog.said : \E fresh \in SUBSET Unsent(s) :
          /\ todo' = [of |-> s, left |-> fresh]
          /\ backlog' = [backlog EXCEPT !.said = @ \ {s},
                          !.sent = @ \cup {Key(s, i) : i \in fresh}]
    BY <1>7 DEF Resend
  <2>2. /\ todo'.of = s /\ todo'.left \subseteq Unsent(s)
        /\ backlog'.said = backlog.said \ {s} /\ log' = log
    BY <1>7, <2>1 DEF Resend, Sound, TypeOK
  <2>3. ASSUME NEW q \in Queued, log[q].of = s
        PROVE  log[q].piece \notin Unsent(s)
    <3>1. heard >= goal /\ task = "gathering"
      BY <1>7 DEF Resend, Gathered
    <3>2. q <= heard
      BY <1>0, <1>1, <2>3, <3>1 DEF KeptIsKnown, TaskFits
    <3> QED
      BY <2>3, <3>2 DEF KeptIsKnown, Unsent
  <2> QED
    BY <1>7, <2>2, <2>3, Unrecorded DEF LeftIsNew
<1>8. CASE HearSaid
  <2>1. Listen /\ task # "following" /\ up
    BY <1>8 DEF Listen, HearSaid, Hearing, Free
  <2>2. log' = log /\ todo.left = {}
    BY <1>8 DEF HearSaid, Hearing, Free
  <2>3. CASE Replayed
    BY <1>8, <2>2, <2>3 DEF HearSaid, LeftIsNew
  <2>4. CASE ~Replayed
    <3>1. backlog' = backlog /\ (todo'.left # {} => todo'.of = heard + 1)
      BY <1>8, <2>4 DEF HearSaid, Nothing
    <3>2. heard + 1 \notin backlog.said
      BY <1>0 DEF Sound, InHandIsHeard, SaidBy
    <3>3. ASSUME NEW q \in Queued PROVE log[q].of # heard + 1
      BY <1>0, <1>1, <2>1, <2>4 DEF RecordsAhead, Replayed
    <3> QED
      BY <2>1, <2>2, <3>1, <3>2, <3>3, Unrecorded DEF LeftIsNew
  <2> QED
    BY <2>3, <2>4
<1>9. CASE HearQueued \/ HearEnded \/ HearMute
  <2>1. todo' = todo /\ backlog'.said = backlog.said /\ Listen
    BY <1>9 DEF HearQueued, HearEnded, HearMute, Listen, Sound, TypeOK
  <2> QED
    BY <1>2, <2>1, Unrecorded
<1> QED
  BY <1>3, <1>4, <1>5, <1>6, <1>7, <1>8, <1>9 DEF Next, Still, Told, Looked, Listen

\* The piece put on record was not there yet.
LEMMA RecordedOnceStep ==
  ASSUME Sound, LeftIsNew, RecordedOnce, [Next]_vars
  PROVE  RecordedOnce'
<1>1. \A q \in Queued : PieceOf(q)' = PieceOf(q) /\ log'[q] = log[q]
  BY RecordsKept
<1>2. CASE Queued' = Queued
  BY <1>1, <1>2 DEF RecordedOnce
<1>3. CASE Queued' # Queued
  <2>1. Enqueue \/ (Crash /\ log' # log)
    BY <1>3, QueuedKept
  <2>2. PICK i \in todo.left :
          /\ Queued' = Queued \cup {Len(log) + 1}
          /\ log'[Len(log) + 1] = [kind |-> "queued", of |-> todo.of, piece |-> i]
    BY <2>1, Recorded
  <2>3. \A q \in Queued : PieceOf(q) # <<todo.of, i>>
    BY <2>2 DEF LeftIsNew, PieceOf
  <2>4. \A q \in Queued : PieceOf(q)' = <<log'[q].of, log'[q].piece>>
    BY DEF PieceOf
  <2> QED
    BY <1>1, <2>2, <2>3, <2>4 DEF RecordedOnce, PieceOf
<1> QED
  BY <1>2, <1>3

(***************************************************************************)
(* Pieces are handed over in the order of the log.                         *)
(***************************************************************************)
\* The queue looked at keeps to the line.
LEMMA PumpInLine ==
  ASSUME Sound, InLine, [Next]_vars, NEW items, Pump(items), items \subseteq Queued',
         ready = {}, \A q \in items : q \in waiting \/ q \notin Queued
  PROVE  InLine'
<1>1. /\ waiting' \subseteq items /\ ready' \subseteq items /\ handed' = handed
      /\ ready' # {} => waiting' = {}
  BY DEF Pump, Late
<1>2. DOMAIN log = 1..Len(log) /\ Len(log) \in Nat
  BY LogGrows
<1>3. ASSUME NEW i \in DOMAIN handed, NEW q \in items
      PROVE  handed[i] \in Queued' /\ handed[i] < q
  <2>1. handed[i] \in Queued /\ handed[i] \in 1..Len(log) /\ Queued \subseteq Queued'
    BY <1>2, LogGrows DEF InLine, Queued
  <2>2. CASE q \in waiting
    BY <2>1, <2>2 DEF InLine
  <2>3. CASE q \notin Queued
    <3>1. q \in DOMAIN log' /\ q \notin DOMAIN log
      BY <2>3, LogGrows DEF Queued
    <3> QED
      BY <1>2, <2>1, <3>1, LogGrows
  <2> QED
    BY <2>1, <2>2, <2>3
<1>4. \A i \in DOMAIN handed : handed[i] \in Queued'
  BY LogGrows DEF InLine
<1> QED
  BY <1>1, <1>3, <1>4 DEF InLine

\* Every step keeps the pieces in the order they were queued.
LEMMA InLineStep ==
  ASSUME Sound, TaskFits, InLine, [Next]_vars
  PROVE  InLine'
<1>1. ASSUME waiting' \subseteq waiting, ready' \subseteq ready, handed' = handed
      PROVE  InLine'
  BY <1>1, LogGrows DEF InLine
<1>2. CASE Still \/ Told
  BY <1>1, <1>2, StillSteps, ToldSteps DEF core
<1>3. CASE Looked
  <2>1. Pump(waiting) /\ ready = {} /\ waiting \subseteq Queued'
    BY <1>3, LookedSteps, LogGrows DEF InLine
  <2> QED
    BY <2>1, PumpInLine
<1>4. CASE Enqueue
  <2> DEFINE items == waiting \cup {Len(log) + 1}
  <2>1. Pump(items) /\ ready = {}
    BY <1>4 DEF Enqueue
  <2>2. Queued' = Queued \cup {Len(log) + 1} /\ Len(log) + 1 \notin Queued
    <3>1. Queued' = Queued \cup {Len(log) + 1}
      BY <1>4, Recorded
    <3>2. Len(log) \in Nat /\ DOMAIN log = 1..Len(log)
      BY LogGrows
    <3> QED
      BY <3>1, <3>2 DEF Queued
  <2>3. items \subseteq Queued' /\ \A q \in items : q \in waiting \/ q \notin Queued
    BY <2>2 DEF InLine
  <2> QED
    BY <2>1, <2>3, PumpInLine
<1>5. CASE Hand
  <2>1. PICK q \in ready :
          /\ \A m \in ready : q <= m
          /\ ready' = ready \ {q} /\ waiting' = waiting
          /\ handed' = Append(handed, q) \/ handed' = handed
    BY <1>5 DEF Hand, First
  <2>2. CASE handed' = handed
    BY <1>1, <2>1, <2>2
  <2>3. CASE handed' = Append(handed, q)
    <3>1. q \in Nat /\ handed \in Seq(Nat) /\ Len(handed) \in Nat
      BY DEF Sound, TypeOK
    <3>2. /\ DOMAIN handed' = 1..(Len(handed) + 1) /\ DOMAIN handed = 1..Len(handed)
          /\ \A i \in DOMAIN handed : handed'[i] = handed[i]
          /\ handed'[Len(handed) + 1] = q
      BY <2>3, <3>1
    <3>3. log' = log
      BY <1>5 DEF Hand
    <3>4. Queued' = Queued /\ q \in Queued /\ waiting = {}
      BY <3>3 DEF Queued, InLine
    <3>5. \A m \in ready' : m \in Nat /\ q < m
      BY <2>1, <3>1 DEF Sound, TypeOK
    <3>6. \A i \in DOMAIN handed' : handed'[i] \in Queued' /\ \A m \in waiting' \cup ready' : handed'[i] < m
      BY <2>1, <3>2, <3>4, <3>5 DEF InLine
    <3>7. ASSUME NEW i \in DOMAIN handed', NEW j \in DOMAIN handed', i < j
          PROVE  handed'[i] < handed'[j]
      BY <2>1, <3>1, <3>2, <3>7 DEF InLine
    <3> QED
      BY <2>1, <3>4, <3>6, <3>7 DEF InLine
  <2> QED
    BY <2>1, <2>2, <2>3
<1>6. CASE Listen
  BY <1>1, <1>6, Listening DEF queued, Sound
<1>7. CASE Follow \/ Followed \/ Resend \/ Resent \/ Restart
  BY <1>1, <1>7 DEF Follow, Followed, Resend, Resent, Restart, queued
<1>8. CASE Crash
  BY <1>1, <1>8 DEF Crash
<1> QED
  BY <1>2, <1>3, <1>4, <1>5, <1>6, <1>7, <1>8 DEF Next, Still, Told, Looked

(***************************************************************************)
(* She is held to what she chose not to say.                               *)
(***************************************************************************)
\* The log keeps its turns in order.
LEMMA TurnsInOrderStep ==
  ASSUME Sound, TurnsInOrder, [Next]_vars
  PROVE  TurnsInOrder'
<1>0. /\ Len(log) \in Nat /\ DOMAIN log = 1..Len(log) /\ turn \in Nat
      /\ DOMAIN log' = 1..Len(log')
      /\ \A n \in DOMAIN log : log'[n] = log[n]
      /\ \A n \in DOMAIN log : Said(log[n]) \/ log[n].kind = "ended" => log[n].turn \in Nat
  BY LogGrows, EventShape DEF Sound, TypeOK
<1>1. CASE log' = log /\ turn' = turn
  BY <1>1 DEF TurnsInOrder
<1>2. ASSUME NEW e \in Events, log' = Append(log, e), turn' = turn,
             Said(e) => e.turn = turn, e.kind # "ended"
      PROVE  TurnsInOrder'
  <2>1. Len(log') = Len(log) + 1 /\ log'[Len(log) + 1] = e
    BY <1>2, Appended DEF Sound
  <2> QED
    BY <1>0, <1>2, <2>1 DEF TurnsInOrder, Said
<1>3. CASE Says
  <2> DEFINE e == [kind |-> "said", turn |-> turn, sentence |-> Head(speech)]
  <2>0. Head(speech) \in Sentences
    BY <1>3 DEF Says, Sound, TypeOK
  <2>1. e \in Events
    BY <2>0, NewEvents DEF Sound, TypeOK
  <2>2. log' = Append(log, e) /\ turn' = turn /\ e.turn = turn /\ e.kind # "ended"
    BY <1>3 DEF Says
  <2> HIDE DEF e
  <2> QED
    BY <1>2, <2>1, <2>2
<1>4. CASE TurnEnds
  <2>1. [kind |-> "ended", turn |-> turn] \in Events
    BY NewEvents DEF Sound, TypeOK
  <2>2. /\ Len(log') = Len(log) + 1 /\ log'[Len(log) + 1] = [kind |-> "ended", turn |-> turn]
        /\ turn' = turn + 1
    BY <1>4, <2>1, Appended DEF TurnEnds, Sound
  <2> QED
    BY <1>0, <2>2 DEF TurnsInOrder, Said
<1>5. CASE \E kind \in {"muted", "unmuted"} : MuteNotice(kind)
  <2>1. PICK kind \in {"muted", "unmuted"} : MuteNotice(kind)
    BY <1>5
  <2>2. [kind |-> kind] \in Events
    BY NewEvents
  <2>3. log' = Append(log, [kind |-> kind]) /\ turn' = turn
    BY <2>1 DEF MuteNotice, session
  <2> QED
    BY <1>2, <2>2, <2>3 DEF Said
<1>6. CASE Enqueue \/ (Crash /\ log' # log)
  <2>1. PICK i \in todo.left :
          log' = Append(log, [kind |-> "queued", of |-> todo.of, piece |-> i])
    BY <1>6, Recorded
  <2>2. [kind |-> "queued", of |-> todo.of, piece |-> i] \in Events
    BY NewEvents DEF Sound, TypeOK
  <2>3. turn' = turn
    BY <1>6 DEF Enqueue, Crash, session
  <2> QED
    BY <1>2, <2>1, <2>2, <2>3 DEF Said
<1>7. CASE Still \/ Looked \/ Listen
  BY <1>1, <1>7, StillSteps, LookedSteps, Listening DEF core, Sound, session
<1>8. CASE Hand \/ Follow \/ Followed \/ Resend \/ Resent \/ Restart
  BY <1>1, <1>8 DEF Hand, Follow, Followed, Resend, Resent, Restart, session
<1>9. CASE Crash
  BY <1>1, <1>6, <1>9 DEF Crash, session
<1> QED
  BY <1>3, <1>4, <1>5, <1>6, <1>7, <1>8, <1>9 DEF Next, Still, Looked

\* It remembers a turn she skips from when it hears of it until the turn's end.
LEMMA QuietIsKnownStep ==
  ASSUME Sound, QuietIsKnown, [Next]_vars
  PROVE  QuietIsKnown'
<1>0. /\ Len(log) \in Nat /\ DOMAIN log = 1..Len(log) /\ heard \in Nat /\ heard <= Len(log)
      /\ \A n \in 1..heard : log'[n] = log[n]
  BY LogGrows DEF Sound, TypeOK, InTheLog
<1>1. CASE UNCHANGED <<heard, quiet>>
  BY <1>0, <1>1 DEF QuietIsKnown, Said
<1>2. CASE Crash
  BY <1>2 DEF Crash, QuietIsKnown
<1>3. CASE Listen
  <2>1. heard' = heard + 1 /\ log' = log /\ heard + 1 \in DOMAIN log
    BY <1>3, Listening DEF Sound
  <2>2. \A e \in 1..heard' : e \in 1..heard \/ e = heard + 1
    BY <1>0, <2>1
  <2>3. \A k \in 1..heard : k..heard \subseteq k..heard' /\ heard' \in k..heard' /\ k \in 1..heard'
    BY <1>0, <2>1
  <2>4. CASE HearSaid
    <3>1. /\ Said(log[heard + 1])
          /\ quiet' = IF log[heard + 1].sentence.skip THEN quiet \cup {log[heard + 1].turn}
                      ELSE quiet
      BY <2>4 DEF HearSaid, Heard
    <3>2. heard' \in 1..heard'
      BY <1>0, <2>1
    <3>3. ASSUME NEW t \in quiet'
          PROVE  \E k \in 1..heard' : Said(log[k]) /\ log[k].sentence.skip /\ log[k].turn = t
      BY <2>1, <2>3, <3>1, <3>2 DEF QuietIsKnown
    <3>4. ASSUME NEW k \in 1..heard', Said(log[k]), log[k].sentence.skip
          PROVE  \/ log[k].turn \in quiet'
                 \/ \E e \in k..heard' : log[e].kind = "ended" /\ log[e].turn = log[k].turn
      BY <2>2, <2>3, <3>1, <3>4 DEF QuietIsKnown
    <3> QED
      BY <2>1, <3>3, <3>4 DEF QuietIsKnown
  <2>5. CASE HearEnded
    <3>1. log[heard + 1].kind = "ended" /\ quiet' = quiet \ {log[heard + 1].turn}
      BY <2>5 DEF HearEnded, Heard
    <3>2. ASSUME NEW t \in quiet'
          PROVE  \E k \in 1..heard' : Said(log[k]) /\ log[k].sentence.skip /\ log[k].turn = t
      BY <2>1, <2>3, <3>1 DEF QuietIsKnown
    <3>3. ASSUME NEW k \in 1..heard', Said(log[k]), log[k].sentence.skip
          PROVE  \/ log[k].turn \in quiet'
                 \/ \E e \in k..heard' : log[e].kind = "ended" /\ log[e].turn = log[k].turn
      <4>1. k \in 1..heard
        BY <2>2, <3>1, <3>3 DEF Said
      <4>2. CASE log[k].turn = log[heard + 1].turn
        BY <2>1, <2>3, <3>1, <4>1, <4>2
      <4>3. CASE log[k].turn # log[heard + 1].turn
        BY <2>3, <3>1, <3>3, <4>1, <4>3 DEF QuietIsKnown
      <4> QED
        BY <4>2, <4>3
    <3> QED
      BY <2>1, <3>2, <3>3 DEF QuietIsKnown
  <2>6. CASE HearQueued \/ HearMute
    <3>1. quiet' = quiet /\ ~Said(log[heard + 1])
      BY <2>6 DEF HearQueued, HearMute, Heard, Said
    <3>2. ASSUME NEW k \in 1..heard', Said(log[k]), log[k].sentence.skip
          PROVE  \/ log[k].turn \in quiet'
                 \/ \E e \in k..heard' : log[e].kind = "ended" /\ log[e].turn = log[k].turn
      BY <2>2, <2>3, <3>1, <3>2 DEF QuietIsKnown
    <3>3. ASSUME NEW t \in quiet'
          PROVE  \E k \in 1..heard' : Said(log[k]) /\ log[k].sentence.skip /\ log[k].turn = t
      BY <2>3, <3>1 DEF QuietIsKnown
    <3> QED
      BY <2>1, <3>2, <3>3 DEF QuietIsKnown
  <2> QED
    BY <1>3, <2>4, <2>5, <2>6 DEF Listen
<1>4. CASE Still \/ Told \/ Looked
  BY <1>1, <1>4, StillSteps, ToldSteps, LookedSteps DEF core
<1> QED
  BY <1>1, <1>2, <1>3, <1>4
     DEF Next, Still, Told, Looked, Enqueue, Hand, Follow, Followed, Resend, Resent, Restart,
         memory

\* A sentence it does not hush is of a turn she does not skip by then.
LEMMA UnhushedIsUnskipped ==
  ASSUME Sound, TurnsInOrder, QuietIsKnown, heard + 1 \in DOMAIN log, Said(Heard), ~Hushed(Heard)
  PROVE  ~SkippedBy(heard + 1)
<1>0. /\ Len(log) \in Nat /\ DOMAIN log = 1..Len(log) /\ heard \in Nat
      /\ Heard = log[heard + 1]
  BY DEF Sound, TypeOK, Heard
<1> SUFFICES ASSUME NEW k \in 1..(heard + 1), Said(log[k]), log[k].sentence.skip,
                    log[k].turn = log[heard + 1].turn
             PROVE  FALSE
  BY DEF SkippedBy
<1>1. k \in 1..heard /\ log[k].turn \notin quiet
  BY <1>0 DEF Hushed
<1>2. PICK e \in k..heard : log[e].kind = "ended" /\ log[e].turn = log[k].turn
  BY <1>1 DEF QuietIsKnown
<1>3. e \in DOMAIN log /\ e < heard + 1 /\ e \in Nat
  BY <1>0, <1>1, <1>2
<1>4. log[e].turn < log[heard + 1].turn
  BY <1>0, <1>2, <1>3 DEF TurnsInOrder
<1>5. log[e].turn \in Nat
  BY <1>2, <1>3, EventShape DEF Sound
<1> QED
  BY <1>2, <1>4, <1>5

\* It takes nothing in hand that she skips.
LEMMA InHandIsUnskippedStep ==
  ASSUME Sound, TurnsInOrder, QuietIsKnown, InHandIsUnskipped, [Next]_vars
  PROVE  InHandIsUnskipped'
<1>0. /\ Len(log) \in Nat /\ DOMAIN log = 1..Len(log) /\ heard \in Nat /\ heard <= Len(log)
  BY LogGrows DEF Sound, TypeOK, InTheLog
<1>1. ASSUME NEW s, SaidBy(s, heard), ~SkippedBy(s)
      PROVE  ~SkippedBy(s)'
  BY <1>0, <1>1, SpeechKept DEF SaidBy
<1>2. ASSUME NEW s, s \in DOMAIN log, ~SkippedBy(s)
      PROVE  ~SkippedBy(s)'
  BY <1>2, SpeechKept
<1>3. ASSUME todo'.left # {} => (todo'.of = todo.of /\ todo.left # {}) \/ todo'.of \in backlog.said,
             backlog'.said \subseteq backlog.said
      PROVE  InHandIsUnskipped'
  <2>1. ASSUME todo'.left # {} PROVE ~SkippedBy(todo.of)'
    <3>1. SaidBy(todo'.of, heard) /\ ~SkippedBy(todo'.of)
      BY <1>3, <2>1 DEF Sound, InHandIsHeard, InHandIsUnskipped
    <3>2. PICK s \in DOMAIN log : s = todo'.of
      BY <1>0, <3>1 DEF SaidBy
    <3>3. ~SkippedBy(s)'
      BY <1>2, <3>1, <3>2
    <3> QED
      BY <3>2, <3>3 DEF SkippedBy
  <2>2. \A s \in backlog'.said : ~SkippedBy(s)'
    BY <1>1, <1>3 DEF Sound, InHandIsHeard, InHandIsUnskipped
  <2> QED
    BY <2>1, <2>2 DEF InHandIsUnskipped
<1>4. CASE Still \/ Told \/ Looked
  BY <1>3, <1>4, StillSteps, ToldSteps, LookedSteps DEF core
<1>5. CASE Enqueue
  BY <1>3, <1>5 DEF Enqueue, Sound, TypeOK
<1>6. CASE Hand \/ Follow \/ Followed \/ Resent \/ Restart
  BY <1>3, <1>6 DEF Hand, Follow, Followed, Resent, Restart, memory, NoBacklog
<1>7. CASE Crash
  BY <1>7 DEF Crash, InHandIsUnskipped, NoBacklog, Nothing
<1>8. CASE Resend
  <2>1. PICK s \in backlog.said : todo'.of = s /\ backlog'.said = backlog.said \ {s}
    BY <1>8 DEF Resend, Sound, TypeOK
  <2> QED
    BY <1>3, <2>1
<1>9. CASE HearQueued \/ HearEnded \/ HearMute
  BY <1>3, <1>9 DEF HearQueued, HearEnded, HearMute, Sound, TypeOK
<1>10. CASE HearSaid
  <2>1. Listen /\ todo.left = {}
    BY <1>10 DEF Listen, HearSaid, Hearing, Free
  <2>2. heard + 1 \in DOMAIN log /\ Said(Heard) /\ log' = log
    BY <1>10, <2>1, Listening DEF HearSaid, Sound
  <2>3. CASE Hushed(Heard)
    <3>1. todo'.left = {} /\ backlog' = backlog
      BY <1>10, <2>1, <2>3 DEF HearSaid, Nothing
    <3> QED
      BY <1>3, <3>1
  <2>4. CASE ~Hushed(Heard)
    <3>1. PICK n \in DOMAIN log : n = heard + 1
      BY <2>2
    <3>2. ~SkippedBy(n)'
      BY <1>2, <2>2, <2>4, <3>1, UnhushedIsUnskipped
    <3>3. /\ todo'.left # {} => todo'.of = n
          /\ backlog'.said \subseteq backlog.said \cup {n}
      BY <1>10, <2>1, <3>1 DEF HearSaid, Nothing, Sound, TypeOK
    <3>4. \A s \in backlog'.said : ~SkippedBy(s)'
      BY <1>1, <3>2, <3>3 DEF Sound, InHandIsHeard, InHandIsUnskipped
    <3>5. todo'.left # {} => ~SkippedBy(todo.of)'
      BY <3>2, <3>3 DEF SkippedBy
    <3> QED
      BY <3>4, <3>5 DEF InHandIsUnskipped
  <2> QED
    BY <2>3, <2>4
<1> QED
  BY <1>4, <1>5, <1>6, <1>7, <1>8, <1>9, <1>10 DEF Next, Still, Told, Looked, Listen

\* Nothing skipped gets on record.
LEMMA SkippedStaysUnsaidStep ==
  ASSUME Sound, InHandIsUnskipped, SkippedStaysUnsaid, [Next]_vars
  PROVE  SkippedStaysUnsaid'
<1>1. ASSUME NEW s \in DOMAIN log, ~SkippedBy(s)
      PROVE  ~SkippedBy(s)'
  BY <1>1, SpeechKept
<1>2. ASSUME NEW q \in Queued'
      PROVE  ~SkippedBy(log[q].of)'
  <2>1. \E s \in DOMAIN log : s = log'[q].of /\ ~SkippedBy(s)
    <3>1. CASE q \in Queued
      BY <3>1, RecordsKept DEF SkippedStaysUnsaid
    <3>2. CASE q \notin Queued
      <4>1. Enqueue \/ (Crash /\ log' # log)
        BY <1>2, <3>2, QueuedKept
      <4>2. PICK i \in todo.left :
              /\ Queued' = Queued \cup {Len(log) + 1}
              /\ log'[Len(log) + 1] = [kind |-> "queued", of |-> todo.of, piece |-> i]
              /\ todo.of \in DOMAIN log
        BY <4>1, Recorded
      <4> QED
        BY <1>2, <3>2, <4>2 DEF InHandIsUnskipped
    <3> QED
      BY <3>1, <3>2
  <2>2. PICK s \in DOMAIN log : s = log'[q].of /\ ~SkippedBy(s)
    BY <2>1
  <2> QED
    BY <1>1, <2>2 DEF SkippedBy
<1> QED
  BY <1>2 DEF SkippedStaysUnsaid

(***************************************************************************)
(* Nothing is swallowed.                                                   *)
(***************************************************************************)
\* What is too late stays too late.
LEMMA OldGrows ==
  ASSUME Sound, [Next]_vars
  PROVE  old \in Nat /\ old' \in Nat /\ old <= old'
<1>1. old \in Nat
  BY DEF Sound, TypeOK
<1>2. old' \in Nat
  BY TypeStep DEF Sound, TypeOK
<1>4. CASE Looked
  <2>1. Pump(waiting)
    BY <1>4, LookedSteps
  <2>2. old' \in {old} \cup {p \in waiting : old < p /\ p <= Len(log)}
    BY <2>1 DEF Pump, Clock
  <2> QED
    BY <1>1, <2>2
<1>5. CASE Enqueue
  <2> DEFINE items == waiting \cup {Len(log) + 1}
  <2>1. Pump(items)
    BY <1>5 DEF Enqueue
  <2>2. old' \in {old} \cup {p \in items : old < p /\ p <= Len(log)}
    BY <2>1 DEF Pump, Clock
  <2> HIDE DEF items
  <2> QED
    BY <1>1, <2>2
<1>6. CASE Followed
  BY <1>1, <1>6 DEF Followed, Clock
<1>7. CASE old' = old
  BY <1>1, <1>7
<1>8. CASE Still \/ Told \/ Listen
  BY <1>7, <1>8, StillSteps, ToldSteps, Listening DEF core, clock, Sound
<1> QED
  BY <1>1, <1>2, <1>4, <1>5, <1>6, <1>7, <1>8
     DEF Next, Still, Told, Looked, Hand, Follow, Resend, Resent, Crash, Restart, clock

\* The texts of the round are on record when the one added is.
LEMMA RoundRecorded ==
  ASSUME Sound, KnownIsRecorded, [Next]_vars,
         NEW t \in Nat, NEW text, OnRecord(t, text), OnTheRecord(t, text)',
         NEW x \in round'.texts
  PROVE  OnTheRecord(round.turn, x)'
<1>1. \A y \in round.texts : OnTheRecord(round.turn, y)
  BY DEF KnownIsRecorded
<1>2. PICK r : r = round.turn
  OBVIOUS
<1>3. round \in [turn : Nat, texts : SUBSET Texts]
  BY DEF Sound, TypeOK
<1>4. \A y \in round.texts : OnTheRecord(r, y)'
  BY <1>1, <1>2, RecordsKept
<1>5. \/ round' = round
      \/ t = round.turn /\ round' = [round EXCEPT !.texts = round.texts \cup {text}]
      \/ round' = [turn |-> t, texts |-> {text}]
  BY <1>3 DEF OnRecord
<1>6. \/ round'.turn = r /\ x \in round.texts
      \/ round'.turn = t /\ x = text
  BY <1>2, <1>3, <1>5
<1>7. PICK v : v = round'.turn
  OBVIOUS
<1>8. OnTheRecord(v, x)'
  BY <1>4, <1>6, <1>7
<1> QED
  BY <1>7, <1>8 DEF OnTheRecord

\* A piece put on record is on record.
LEMMA NowRecorded ==
  ASSUME Sound, [Next]_vars, NEW s \in DOMAIN log, NEW i, NEW q \in Queued',
         log'[q].of = s, log'[q].piece = i, NEW t, NEW text, Key(s, i) = <<t, text>>
  PROVE  OnTheRecord(t, text)'
<1>1. log'[s] = log[s]
  BY LogGrows
<1>2. <<log'[log'[q].of].turn, log'[log'[q].of].sentence.pieces[log'[q].piece]>> = <<t, text>>
  BY <1>1 DEF Key, Text
<1> QED
  BY <1>2 DEF OnTheRecord, Key, Text

\* What it learns of the record is there.
LEMMA KnownIsRecordedStep ==
  ASSUME Sound, TaskFits, KnownIsRecorded, [Next]_vars
  PROVE  KnownIsRecorded'
<1> DEFINE Texts1 == \A x \in round'.texts : OnTheRecord(round.turn, x)'
           Sent1(p) == OnTheRecord(p[1], p[2])' \/ \E i \in todo'.left : p = Key(todo.of, i)'
<1>0. /\ Len(log) \in Nat /\ DOMAIN log = 1..Len(log) /\ heard \in Nat /\ heard <= Len(log)
      /\ old \in Nat /\ old' \in Nat /\ old <= old' /\ backlog.since \in Nat
      /\ backlog.since <= old
  BY LogGrows, OldGrows DEF Sound, TypeOK, InTheLog, KnownIsRecorded
<1>1. ASSUME round' = round
      PROVE  Texts1
  <2>1. PICK r : r = round.turn
    OBVIOUS
  <2>2. \A x \in round.texts : OnTheRecord(r, x)'
    BY <2>1, RecordsKept DEF KnownIsRecorded
  <2> QED
    BY <1>1, <2>1, <2>2 DEF OnTheRecord
<1>2. ASSUME NEW p \in backlog.sent, OnTheRecord(p[1], p[2])
      PROVE  Sent1(p)
  BY <1>2, RecordsKept
<1>3. ASSUME todo'.of = todo.of, NEW i \in todo'.left, i \in todo.left
      PROVE  Key(todo.of, i)' = Key(todo.of, i)
  <2>1. PICK s \in DOMAIN log : s = todo.of
    BY <1>0, <1>3 DEF Sound, InHandIsHeard, SaidBy
  <2>2. Key(s, i)' = Key(s, i)
    BY SpeechKept
  <2> QED
    BY <1>3, <2>1, <2>2 DEF Key, Text
<1>4. ASSUME todo' = todo \/ todo.left = {}
      PROVE  \A p \in backlog.sent : Sent1(p)
  BY <1>2, <1>3, <1>4 DEF KnownIsRecorded
<1>5. ASSUME Texts1, \A p \in backlog'.sent : Sent1(p), backlog'.since <= old'
      PROVE  KnownIsRecorded'
  BY <1>5 DEF KnownIsRecorded
<1>6. CASE UNCHANGED <<round, backlog>> /\ (todo' = todo \/ todo.left = {})
  BY <1>0, <1>1, <1>4, <1>5, <1>6
<1>7. CASE Still \/ Told \/ Looked
  BY <1>6, <1>7, StillSteps, ToldSteps, LookedSteps DEF core
<1>8. CASE Hand \/ Follow \/ Restart \/ HearEnded \/ HearMute
  BY <1>6, <1>8 DEF Hand, Follow, Restart, HearEnded, HearMute, memory
<1>9. CASE Followed \/ Resent
  <2>1. round' = round /\ backlog'.sent = {} /\ backlog'.since <= old'
    BY <1>0, <1>9 DEF Followed, Resent, NoBacklog
  <2> QED
    BY <1>1, <1>5, <2>1
<1>10. CASE Crash
  BY <1>0, <1>10 DEF Crash, KnownIsRecorded, NoRound, NoBacklog
<1>11. CASE HearSaid
  <2>1. round' = round /\ todo.left = {} /\ backlog'.since = backlog.since /\ backlog'.sent = backlog.sent
    BY <1>11 DEF HearSaid, Hearing, Free, Sound, TypeOK
  <2> QED
    BY <1>0, <1>1, <1>4, <1>5, <2>1
<1>12. CASE HearQueued
  <2>1. Listen /\ todo' = todo
    BY <1>12 DEF Listen, HearQueued
  <2>2. PICK q \in Queued : q = heard + 1 /\ q \in Queued' /\ log'[q] = log[q]
    BY <1>12, <2>1, Listening DEF HearQueued, Heard, Queued, Sound
  <2>3. PICK s \in DOMAIN log : s = log[q].of /\ Said(log[s]) /\ log[q].piece \in Pieces(s)
    BY <2>2, RecordsKept DEF Sound, RecordsAreOfSpeech, SaidBy
  <2>4. PICK i : i = log[q].piece
    OBVIOUS
  <2>5. PICK t \in Nat : t = log[s].turn
    BY <2>3, EventShape DEF Sound
  <2>6. PICK text : text = Text(s, i)
    OBVIOUS
  <2>7. OnTheRecord(t, text)' /\ Key(s, i) = <<t, text>>
    BY <2>2, <2>3, <2>4, <2>5, <2>6, NowRecorded DEF Key
  <2>8. OnRecord(t, text)
    BY <1>12, <2>2, <2>3, <2>4, <2>5, <2>6 DEF HearQueued, Heard
  <2>9. Texts1
    BY <2>7, <2>8, RoundRecorded
  <2>10. backlog'.sent \subseteq backlog.sent \cup {<<t, text>>} /\ backlog'.since = backlog.since
    BY <1>12, <2>2, <2>3, <2>4, <2>7 DEF HearQueued, Heard, Sound, TypeOK
  <2>11. \A p \in backlog'.sent : Sent1(p)
    BY <1>4, <2>1, <2>7, <2>10
  <2> QED
    BY <1>0, <1>5, <2>9, <2>10, <2>11
<1>13. CASE Enqueue
  <2>1. PICK i \in todo.left :
          /\ todo' = [todo EXCEPT !.left = @ \ {i}]
          /\ OnRecord(log[todo.of].turn, Text(todo.of, i))
          /\ Queued' = Queued \cup {Len(log) + 1}
          /\ log'[Len(log) + 1] = [kind |-> "queued", of |-> todo.of, piece |-> i]
          /\ todo.of \in DOMAIN log /\ SaidBy(todo.of, heard)
    BY <1>13, Recorded
  <2>2. PICK s \in DOMAIN log : s = todo.of /\ Said(log[s])
    BY <2>1 DEF SaidBy
  <2>3. PICK t \in Nat : t = log[s].turn
    BY <2>2, EventShape DEF Sound
  <2>4. PICK text : text = Text(s, i)
    OBVIOUS
  <2>5. PICK q \in Queued' : q = Len(log) + 1
    BY <2>1
  <2>6. OnTheRecord(t, text)' /\ Key(s, i) = <<t, text>>
    BY <2>1, <2>2, <2>3, <2>4, <2>5, NowRecorded DEF Key
  <2>7. Texts1
    BY <2>1, <2>2, <2>3, <2>4, <2>6, RoundRecorded
  <2>8. todo'.of = todo.of /\ todo'.left = todo.left \ {i} /\ backlog' = backlog
    BY <1>13, <2>1 DEF Enqueue, Sound, TypeOK
  <2>9. ASSUME NEW p \in backlog.sent PROVE Sent1(p)
    <3>1. CASE OnTheRecord(p[1], p[2])
      BY <1>2, <3>1
    <3>2. CASE p = Key(todo.of, i)
      BY <2>2, <2>6, <3>2
    <3>3. CASE \E j \in todo'.left : p = Key(todo.of, j)
      BY <1>3, <2>8, <3>3
    <3> QED
      BY <2>8, <3>1, <3>2, <3>3 DEF KnownIsRecorded
  <2> QED
    BY <1>0, <1>5, <2>7, <2>8, <2>9
<1>14. CASE Resend
  <2>1. PICK s \in backlog.said : \E fresh \in SUBSET Pieces(s) :
          /\ todo' = [of |-> s, left |-> fresh]
          /\ backlog' = [backlog EXCEPT !.said = @ \ {s},
                          !.sent = @ \cup {Key(s, i) : i \in fresh}]
    BY <1>14 DEF Resend, Unsent
  <2>2. /\ todo'.of = s /\ backlog'.since = backlog.since
        /\ backlog'.sent = backlog.sent \cup {Key(s, i) : i \in todo'.left}
    BY <2>1 DEF Sound, TypeOK
  <2>3. round' = round /\ todo.left = {} /\ log' = log
    BY <1>14 DEF Resend, Gathered, Free
  <2>4. ASSUME NEW i \in todo'.left PROVE Sent1(Key(s, i))
    BY <2>2, <2>3 DEF Key, Text
  <2>5. \A p \in backlog.sent : Sent1(p)
    BY <1>4, <2>3
  <2>6. ASSUME NEW p \in backlog'.sent PROVE Sent1(p)
    <3>1. CASE p \in backlog.sent
      BY <2>5, <3>1
    <3>2. CASE p \notin backlog.sent
      <4>1. PICK i \in todo'.left : p = Key(s, i)
        BY <2>2, <3>2
      <4> HIDE DEF Sent1
      <4> QED
        BY <2>4, <4>1
    <3> QED
      BY <3>1, <3>2
  <2>7. backlog'.since <= old'
    BY <1>0, <2>2
  <2> HIDE DEF Sent1, Texts1
  <2> QED
    BY <1>1, <1>5, <2>3, <2>6, <2>7
<1> QED
  BY <1>7, <1>8, <1>9, <1>10, <1>11, <1>12, <1>13, <1>14 DEF Next, Still, Told, Looked, Listen

\* A sentence accounted for stays so when nothing is forgotten.
LEMMA AccountedKept ==
  ASSUME Sound, [Next]_vars, NEW s \in DOMAIN log, Said(log[s]), Accounted(s),
         s \in backlog.said => s \in backlog'.said,
         \A i \in todo.left : todo.of = s =>
           (todo'.of = s /\ i \in todo'.left) \/ OnTheRecord(log[s].turn, Text(s, i))'
  PROVE  Accounted(s)'
<1>1. PICK t : t = log[s].turn
  OBVIOUS
<1>2. log'[s] = log[s] /\ Pieces(s)' = Pieces(s) /\ \A i : Text(s, i)' = Text(s, i)
  BY SpeechKept, LogGrows
<1>3. ASSUME NEW i \in Pieces(s), OnTheRecord(log[s].turn, Text(s, i))
      PROVE  OnTheRecord(log[s].turn, Text(s, i))'
  <2>1. PICK x : x = Text(s, i)
    OBVIOUS
  <2>2. OnTheRecord(t, x)'
    BY <1>1, <1>3, <2>1, RecordsKept
  <2> QED
    BY <1>1, <1>2, <2>1, <2>2 DEF OnTheRecord
<1> QED
  BY <1>2, <1>3 DEF Accounted

\* A sentence just heard is accounted for.
LEMMA NewAccounted ==
  ASSUME Sound, KnownIsRecorded, HearSaid, Next, NEW n \in DOMAIN log, n = heard + 1,
         n > old, ~SkippedBy(n), QuietIsKnown, log[n].sentence.like = {}
  PROVE  Accounted(n)'
<1>0. /\ Len(log) \in Nat /\ DOMAIN log = 1..Len(log) /\ heard \in Nat /\ heard <= Len(log)
      /\ old \in Nat /\ backlog.since <= old /\ backlog.since \in Nat /\ log' = log
  BY LogGrows DEF Sound, TypeOK, InTheLog, KnownIsRecorded, HearSaid
<1>1. Said(log[n]) /\ Heard = log[n]
  BY DEF HearSaid, Heard
<1>2. ~Hushed(Heard)
  <2>1. ~log[n].sentence.skip
    BY <1>0, <1>1 DEF SkippedBy
  <2>2. log[n].turn \notin quiet
    <3> SUFFICES ASSUME log[n].turn \in quiet PROVE FALSE
      OBVIOUS
    <3>1. PICK k \in 1..heard : Said(log[k]) /\ log[k].sentence.skip /\ log[k].turn = log[n].turn
      BY DEF QuietIsKnown
    <3>2. k \in 1..n
      BY <1>0
    <3> QED
      BY <3>1, <3>2 DEF SkippedBy
  <2> QED
    BY <1>1, <2>1, <2>2 DEF Hushed
<1>3. CASE Replayed
  <2>1. n \in backlog'.said
    BY <1>0, <1>2, <1>3 DEF HearSaid, Sound, TypeOK
  <2> QED
    BY <2>1 DEF Accounted
<1>4. CASE ~Replayed
  <2> DEFINE texts == IF round.turn = Heard.turn THEN round.texts ELSE {}
  <2>1. todo' = IF ~Repeats(Heard.sentence, texts)
                THEN [of |-> n, left |-> Pieces(n)] ELSE Nothing
    BY <1>2, <1>4 DEF HearSaid
  <2>2. Pieces(n)' = Pieces(n)
    BY <1>0 DEF Pieces
  <2>3. CASE ~Repeats(Heard.sentence, texts)
    BY <2>1, <2>2, <2>3 DEF Accounted
  <2>4. CASE Repeats(Heard.sentence, texts)
    <3>1. Len(log[n].sentence.pieces) = 1 /\ Text(n, 1) \in texts
      BY <1>1, <2>4 DEF Repeats, Text
    <3>2. Pieces(n) = {1}
      <4>1. log[n].sentence.pieces \in Seq(Texts)
        BY <1>1, EventShape DEF Sound, Sentences
      <4> QED
        BY <3>1, <4>1 DEF Pieces
    <3>3. round.turn = log[n].turn /\ Text(n, 1) \in round.texts
      BY <1>1, <3>1
    <3>4. OnTheRecord(log[n].turn, Text(n, 1))
      BY <3>3 DEF KnownIsRecorded
    <3>5. OnTheRecord(log[n].turn, Text(n, 1))'
      BY <1>0, <3>4 DEF OnTheRecord, Queued, Key, Text
    <3> QED
      BY <2>2, <3>2, <3>5 DEF Accounted
  <2> QED
    BY <2>3, <2>4
<1> QED
  BY <1>3, <1>4

\* A sentence kept for later that is taken up is accounted for.
LEMMA ResentAccounted ==
  ASSUME Sound, KnownIsRecorded, Resend, NEW s \in backlog.said, todo'.of = s,
         LET sent == {text \in Texts : <<log[s].turn, text>> \in backlog.sent}
         IN  todo'.left = IF Repeats(log[s].sentence, sent) THEN {} ELSE Unsent(s),
         log[s].sentence.like = {}
  PROVE  Accounted(s)'
<1> DEFINE sent == {text \in Texts : <<log[s].turn, text>> \in backlog.sent}
<1>0. log' = log /\ todo.left = {}
  BY DEF Resend, Gathered, Free
<1>1. \A p \in backlog.sent : OnTheRecord(p[1], p[2])
  BY <1>0 DEF KnownIsRecorded
<1>2. \A i : Key(s, i) \in backlog.sent => OnTheRecord(log[s].turn, Text(s, i))
  BY <1>1 DEF Key
<1>3. ASSUME NEW i \in Pieces(s)
      PROVE  OnTheRecord(log[s].turn, Text(s, i)) \/ i \in todo'.left
  <2>1. CASE Repeats(log[s].sentence, sent)
    <3>1. Len(log[s].sentence.pieces) = 1 /\ log[s].sentence.pieces[1] \in sent
      BY <2>1 DEF Repeats
    <3>2. s \in DOMAIN log /\ Said(log[s])
      BY DEF Sound, InHandIsHeard, SaidBy, InTheLog, TypeOK
    <3>3. log[s].sentence.pieces \in Seq(Texts)
      BY <3>2, EventShape DEF Sound, Sentences
    <3>4. i = 1
      BY <3>1, <3>3 DEF Pieces
    <3>5. Key(s, i) \in backlog.sent
      BY <3>1, <3>4 DEF Key, Text
    <3> QED
      BY <1>2, <3>5
  <2>2. CASE ~Repeats(log[s].sentence, sent)
    BY <1>2, <2>2 DEF Unsent
  <2> QED
    BY <2>1, <2>2
<1>4. Pieces(s)' = Pieces(s) /\ \A t, x : OnTheRecord(t, x)' <=> OnTheRecord(t, x)
  BY <1>0 DEF Pieces, OnTheRecord, Queued, Key, Text
<1>5. ASSUME NEW i \in Pieces(s), OnTheRecord(log[s].turn, Text(s, i))
      PROVE  OnTheRecord(log[s].turn, Text(s, i))'
  BY <1>0, <1>5 DEF OnTheRecord, Queued, Key, Text
<1> QED
  BY <1>3, <1>4, <1>5 DEF Accounted

\* Nothing heard is forgotten before it is on record or too late.
LEMMA HeardIsAccountedStep ==
  ASSUME Sound, TaskFits, QuietIsKnown, KnownIsRecorded, HeardIsAccounted, [Next]_vars
  PROVE  HeardIsAccounted'
<1>0. /\ Len(log) \in Nat /\ DOMAIN log = 1..Len(log) /\ heard \in Nat /\ heard <= Len(log)
      /\ old \in Nat /\ old' \in Nat /\ old <= old'
  BY LogGrows, OldGrows DEF Sound, TypeOK, InTheLog
<1>1. CASE Crash
  BY <1>1 DEF Crash, HeardIsAccounted
<1> SUFFICES ASSUME ~Crash, NEW s \in 1..heard', Said(log[s])', s > old', ~SkippedBy(s)',
                    (log[s].sentence.like = {})'
             PROVE  Accounted(s)'
  BY <1>1 DEF HeardIsAccounted
<1>2. ASSUME s \in 1..heard
      PROVE  /\ s \in DOMAIN log /\ Said(log[s]) /\ ~SkippedBy(s) /\ log[s].sentence.like = {}
             /\ Accounted(s) /\ s > old
  <2>1. s \in DOMAIN log /\ log'[s] = log[s] /\ s > old
    BY <1>0, <1>2, LogGrows
  <2>2. ~SkippedBy(s) /\ Said(log[s])
    BY <2>1, SpeechKept
  <2> QED
    BY <1>2, <2>1, <2>2 DEF HeardIsAccounted
<1>3. ASSUME heard' = heard, s \in backlog.said => s \in backlog'.said,
             todo' = todo \/ todo.left = {}
      PROVE  Accounted(s)'
  BY <1>2, <1>3, AccountedKept
<1>4. CASE Still \/ Told \/ Looked
  BY <1>3, <1>4, StillSteps, ToldSteps, LookedSteps DEF core
<1>5. CASE Hand \/ Follow \/ Restart
  BY <1>3, <1>5 DEF Hand, Follow, Restart, memory
<1>6. CASE Followed \/ Resent
  <2>1. backlog.said = {} /\ heard' = heard /\ todo' = todo
    BY <1>6 DEF Followed, Resent, TaskFits
  <2> QED
    BY <1>3, <2>1
<1>7. CASE Enqueue
  <2>1. PICK i \in todo.left :
          /\ todo' = [todo EXCEPT !.left = @ \ {i}]
          /\ Queued' = Queued \cup {Len(log) + 1}
          /\ log'[Len(log) + 1] = [kind |-> "queued", of |-> todo.of, piece |-> i]
    BY <1>7, Recorded
  <2>2. /\ todo'.of = todo.of /\ todo'.left = todo.left \ {i} /\ backlog' = backlog
        /\ heard' = heard
    BY <1>7, <2>1 DEF Enqueue, Sound, TypeOK
  <2>3. s \in DOMAIN log /\ Said(log[s]) /\ Accounted(s)
    BY <1>2, <2>2
  <2>4. ASSUME todo.of = s
        PROVE  OnTheRecord(log[s].turn, Text(s, i))'
    <3>1. PICK q \in Queued' : q = Len(log) + 1
      BY <2>1
    <3>2. PICK t : t = log[s].turn
      OBVIOUS
    <3>3. PICK text : text = Text(s, i)
      OBVIOUS
    <3>4. OnTheRecord(t, text)'
      BY <2>1, <2>3, <2>4, <3>1, <3>2, <3>3, NowRecorded DEF Key
    <3>5. log'[s] = log[s] /\ Text(s, i)' = Text(s, i)
      BY <2>3, LogGrows, SpeechKept
    <3> QED
      BY <3>2, <3>3, <3>4, <3>5 DEF OnTheRecord
  <2>5. \A j \in todo.left : todo.of = s =>
          (todo'.of = s /\ j \in todo'.left) \/ OnTheRecord(log[s].turn, Text(s, j))'
    BY <2>2, <2>4
  <2> QED
    BY <2>2, <2>3, <2>5, AccountedKept
<1>8. CASE Resend
  <2>1. PICK r \in backlog.said :
          /\ todo' = [of |-> r,
                      left |-> LET sent == {text \in Texts : <<log[r].turn, text>> \in backlog.sent}
                               IN  IF Repeats(log[r].sentence, sent) THEN {} ELSE Unsent(r)]
          /\ backlog'.said = backlog.said \ {r}
    BY <1>8 DEF Resend, Sound, TypeOK
  <2>2. heard' = heard /\ todo.left = {}
    BY <1>8 DEF Resend, Gathered, Free
  <2>3. CASE s = r
    <3>1. log[s].sentence.like = {}
      BY <1>2, <2>2
    <3> QED
      BY <1>8, <2>1, <2>3, <3>1, ResentAccounted
  <2>4. CASE s # r
    BY <1>3, <2>1, <2>2, <2>4
  <2> QED
    BY <2>3, <2>4
<1>9. CASE Listen
  <2>1. /\ heard' = heard + 1 /\ heard + 1 \in DOMAIN log /\ log' = log /\ Free
        /\ old' = old
    BY <1>9, Listening DEF Hearing, Sound, clock
  <2>2. CASE s \in 1..heard
    <3>1. s \in backlog.said => s \in backlog'.said
      BY <1>9 DEF Listen, HearSaid, HearQueued, HearEnded, HearMute, Sound, TypeOK
    <3>2. todo.left = {}
      BY <2>1 DEF Free
    <3> QED
      BY <1>2, <2>2, <3>1, <3>2, AccountedKept
  <2>3. CASE s \notin 1..heard
    <3>1. s = heard + 1 /\ Said(Heard)
      BY <1>0, <2>1, <2>3 DEF Heard
    <3>2. HearSaid
      BY <1>9, <3>1 DEF Listen, HearQueued, HearEnded, HearMute, Said
    <3>3. Next
      BY <3>2 DEF Next, Listen
    <3>4. ~SkippedBy(s)
      BY <2>1 DEF SkippedBy
    <3> QED
      BY <2>1, <3>1, <3>2, <3>3, <3>4, NewAccounted
  <2> QED
    BY <2>2, <2>3
<1> QED
  BY <1>4, <1>5, <1>6, <1>7, <1>8, <1>9 DEF Next, Still, Told, Looked

(***************************************************************************)
(* The invariant holds at first and is kept by every step.                 *)
(***************************************************************************)
\* At first nothing was said.
LEMMA IInvInit == Init => IInv
<1> SUFFICES ASSUME Init PROVE IInv
  OBVIOUS
<1>1. log = << >> /\ heard = 0 /\ Queued = {} /\ todo.left = {} /\ backlog.said = {}
  BY DEF Init, Queued, Nothing, NoBacklog
<1>2. TypeOK
  <2>1. speech \in Seq(Sentences)
    BY SpeechesAreSentences DEF Init
  <2>2. /\ NoRound \in [turn : Nat, texts : SUBSET Texts]
        /\ NoBacklog \in [since : Nat, sent : SUBSET (Nat \X Texts), said : SUBSET Nat]
        /\ Nothing \in [of : Nat, left : SUBSET Nat]
    BY DEF NoRound, NoBacklog, Nothing
  <2>3. log \in Seq(Events) /\ handed \in Seq(Nat)
    BY DEF Init
  <2> QED
    BY <2>1, <2>2, <2>3 DEF Init, TypeOK
<1>3. InTheLog /\ TaskFits
  BY <1>1 DEF Init, InTheLog, TaskFits
<1>4. RecordsAreOfSpeech /\ InHandIsHeard
  BY <1>1 DEF RecordsAreOfSpeech, InHandIsHeard
<1>5. RecordsAhead /\ KeptIsKnown /\ LeftIsNew /\ RecordedOnce
  BY <1>1 DEF RecordsAhead, KeptIsKnown, LeftIsNew, RecordedOnce
<1>6. InLine
  BY <1>1 DEF Init, InLine
<1>7. TurnsInOrder /\ QuietIsKnown /\ InHandIsUnskipped /\ SkippedStaysUnsaid
  BY <1>1 DEF Init, TurnsInOrder, QuietIsKnown, InHandIsUnskipped, SkippedStaysUnsaid
<1>8. KnownIsRecorded /\ HeardIsAccounted
  BY <1>1 DEF Init, KnownIsRecorded, HeardIsAccounted, NoRound, NoBacklog
<1> QED
  BY <1>2, <1>3, <1>4, <1>5, <1>6, <1>7, <1>8 DEF IInv

\* Every step keeps every part of the invariant.
LEMMA IInvStep == IInv /\ [Next]_vars => IInv'
<1> SUFFICES ASSUME IInv, [Next]_vars PROVE IInv'
  OBVIOUS
<1>1. Sound
  BY DEF IInv, Sound
<1>2. TypeOK' /\ RecordsAreOfSpeech' /\ InTheLog'
  BY <1>1, TypeStep, RecordsAreOfSpeechStep, InTheLogStep DEF Sound
<1>3. InHandIsHeard' /\ TaskFits'
  BY <1>1, InHandIsHeardStep, TaskFitsStep DEF IInv
<1>4. RecordsAhead' /\ KeptIsKnown' /\ LeftIsNew' /\ RecordedOnce'
  BY <1>1, RecordsAheadStep, KeptIsKnownStep, LeftIsNewStep, RecordedOnceStep DEF IInv
<1>5. InLine'
  BY <1>1, InLineStep DEF IInv
<1>6. TurnsInOrder' /\ QuietIsKnown'
  BY <1>1, TurnsInOrderStep, QuietIsKnownStep DEF IInv
<1>7. InHandIsUnskipped' /\ SkippedStaysUnsaid'
  BY <1>1, InHandIsUnskippedStep, SkippedStaysUnsaidStep DEF IInv
<1>8. KnownIsRecorded' /\ HeardIsAccounted'
  BY <1>1, KnownIsRecordedStep, HeardIsAccountedStep DEF IInv
<1> QED
  BY <1>2, <1>3, <1>4, <1>5, <1>6, <1>7, <1>8 DEF IInv

\* The invariant holds in every behaviour.
LEMMA InvariantHolds == Spec => []IInv
<1>1. Init => IInv
  BY IInvInit
<1>2. IInv /\ [Next]_vars => IInv'
  BY IInvStep
<1> QED
  BY <1>1, <1>2, PTL DEF Spec

(***************************************************************************)
(* The theorems.                                                           *)
(***************************************************************************)
\* The bridge's state is what it should be in every behaviour: the log has events of the
\* four kinds, the memory, the queue and the task point into it (route.rs).
THEOREM OutboxTypes == Spec => []TypeOK
<1>1. IInv => TypeOK
  BY DEF IInv
<1> QED
  BY <1>1, InvariantHolds, PTL

\* The platform is never given the same piece of a sentence twice, and gets the pieces in
\* the order they were queued, whatever crashes, replays, mutes and closed links come
\* between (sending.rs, revive.rs, backlog.rs).
THEOREM NeverSaidTwice == Spec => []SaidOnce
<1>1. IInv => SaidOnce
  <2> SUFFICES ASSUME IInv, NEW i \in DOMAIN handed, NEW j \in DOMAIN handed, i < j
               PROVE  handed[i] < handed[j] /\ PieceOf(handed[i]) # PieceOf(handed[j])
    BY DEF SaidOnce
  <2>1. handed[i] \in Queued /\ handed[j] \in Queued /\ handed[i] < handed[j]
    BY DEF IInv, InLine
  <2>2. handed[i] \in Nat
    BY DEF IInv, TypeOK
  <2>3. handed[i] # handed[j]
    BY <2>1, <2>2
  <2> QED
    BY <2>1, <2>3 DEF IInv, RecordedOnce
<1> QED
  BY <1>1, InvariantHolds, PTL

\* Once she chose in a turn not to reply, nothing she says in it is queued, also when the
\* bridge hears it again after a crash (quiet.rs, speak.rs).
THEOREM NeverSaidAgainstHer == Spec => []SkippedStaysUnsaid
<1>1. IInv => SkippedStaysUnsaid
  BY DEF IInv
<1> QED
  BY <1>1, InvariantHolds, PTL

\* When the bridge rests, whatever she said that it heard is on record to be said, unless it
\* is too late, skipped or close to what was said: no crash between two pieces and no lost
\* subscription swallows any of it (revive.rs, backlog.rs).
THEOREM NeverSwallowed == Spec => []NothingSwallowed
<1>1. IInv => NothingSwallowed
  <2> SUFFICES ASSUME IInv, Idle, NEW s \in 1..heard, Said(log[s]), s > old, ~SkippedBy(s),
                      log[s].sentence.like = {}, NEW i \in Pieces(s)
               PROVE  \E q \in Queued : Key(log[q].of, log[q].piece) = Key(s, i)
    BY DEF NothingSwallowed
  <2>1. backlog.said = {} /\ todo.left = {}
    BY DEF IInv, TaskFits, Idle, Free
  <2>2. OnTheRecord(log[s].turn, Text(s, i))
    BY <2>1 DEF IInv, HeardIsAccounted, Accounted
  <2> QED
    BY <2>2 DEF OnTheRecord, Key
<1> QED
  BY <1>1, InvariantHolds, PTL

=============================================================================
