------------------------------ MODULE Delivery ------------------------------
(***************************************************************************)
(* How the events of a session reach a head: the actor pushes what landed  *)
(* in its log, a forwarder per subscription writes it to the connection,   *)
(* and the replies to the head's requests go through the same forwarder,   *)
(* after the events they tell of.  A subscription starts between two       *)
(* batches of the actor, with the past it is to be given; one that is read *)
(* too slowly, or whose session stopped, ends with a resync.               *)
(*                                                                         *)
(* Source: crates/miyu-session/src actor/mail.rs and handle/subscription.rs*)
(* and crates/miyu-endpoint/src subscriptions.rs and connection/streams.rs.*)
(* Left out: views, transient events, other streams, logs that cannot be   *)
(* read, lost connections.                                                 *)
(***************************************************************************)
EXTENDS Naturals, Sequences, FiniteSetsExt

CONSTANTS
  Ring,          \* actor::PUSH_QUEUE: pushes kept for a subscription
  Lines,         \* connection::QUEUE: lines waiting to be written
  Careful,       \* whether heads say after which event they subscribe
  MaxEvents,     \* bound: events that land by themselves
  MaxCommands,   \* bound: commands of the head
  MaxStops,      \* bound: times the session stops
  MaxSubs,       \* bound: subscriptions
  MaxWishes      \* bound: subscriptions asked for without need

ASSUME DeliveryLimits ==
  /\ Ring \in Nat \ {0} /\ Lines \in Nat \ {0} /\ Careful \subseteq BOOLEAN
  /\ MaxEvents \in Nat /\ MaxCommands \in Nat /\ MaxStops \in Nat
  /\ MaxSubs \in Nat /\ MaxWishes \in Nat

VARIABLES
  landed,      \* events in the log, all of them pushed
  running,     \* the session has an actor
  subs,        \* the subscriptions there have been, each with its forwarder
  slot,        \* the one registered for the session; 0 for none
  conn,        \* the request the connection is busy with
  out,         \* the lines to be written
  head,        \* what the head has seen and wants
  answered,    \* how much had landed when a command was answered
  stops        \* how often the session stopped

vars == <<landed, running, subs, slot, conn, out, head, answered, stops>>

Idle == [do |-> "idle", id |-> 0, sub |-> 0]
Line(kind, sub, n) == [kind |-> kind, sub |-> sub, n |-> n]
Active == {"replay", "relay", "draining"}

Init ==
  /\ landed \in 0..1 /\ running = TRUE
  /\ subs = << >> /\ slot = 0 /\ conn = Idle /\ out = << >>
  /\ \E careful \in Careful :
       head = [mode |-> "off", careful |-> careful, last |-> 0, asked |-> 0, newest |-> 0,
               got |-> [s \in 1..MaxSubs |-> 0], resynced |-> {}]
  /\ answered = << >> /\ stops = 0

Room == Len(out) < Lines
Write(line) == Room /\ out' = Append(out, line)

----------------------------------------------------------------------------
(***************************************************************************)
(* The session.                                                            *)
(***************************************************************************)
\* A batch lands: it is stored and pushed in one step.
Land ==
  /\ running /\ landed < MaxEvents + Len(answered)
  /\ landed' = landed + 1
  /\ UNCHANGED <<running, subs, slot, conn, out, head, answered, stops>>

\* The actor ends; whoever is subscribed reads what was pushed, then hears of it.
Stop ==
  /\ running /\ stops < MaxStops
  /\ running' = FALSE /\ stops' = stops + 1
  /\ subs' = [s \in DOMAIN subs |->
       IF subs[s].open THEN [subs[s] EXCEPT !.open = FALSE, !.end = landed] ELSE subs[s]]
  /\ UNCHANGED <<landed, slot, conn, out, head, answered>>

----------------------------------------------------------------------------
(***************************************************************************)
(* Requests, one at a time.                                                *)
(***************************************************************************)
\* A command: its event lands, then it is answered.
Command ==
  /\ conn = Idle /\ head.asked < MaxCommands
  /\ head' = [head EXCEPT !.asked = @ + 1]
  /\ conn' = [Idle EXCEPT !.do = "command"]
  /\ running' = TRUE
  /\ UNCHANGED <<landed, subs, slot, out, answered, stops>>

Answer ==
  /\ conn.do = "command" /\ running
  /\ landed' = landed + 1
  /\ answered' = Append(answered, landed')
  /\ conn' = [conn EXCEPT !.do = "reply", !.id = Len(answered')]
  /\ UNCHANGED <<running, subs, slot, out, head, stops>>

\* A session that stopped refuses.
Refuse ==
  /\ conn.do = "command" /\ ~running
  /\ answered' = Append(answered, 0)
  /\ conn' = [conn EXCEPT !.do = "reply", !.id = Len(answered')]
  /\ UNCHANGED <<landed, running, subs, slot, out, head, stops>>

\* Wrong: a reply does not wait for the events before it.
ReplyAtOnce ==
  /\ conn.do = "reply"
  /\ Write(Line("reply", slot, conn.id))
  /\ conn' = Idle
  /\ UNCHANGED <<landed, running, subs, slot, head, answered, stops>>

\* Subscriptions::reply.
Reply ==
  /\ conn.do = "reply"
  /\ IF slot # 0
       THEN subs' = [subs EXCEPT ![slot].replies = Append(@, conn.id)] /\ UNCHANGED out
       ELSE Write(Line("reply", 0, conn.id)) /\ UNCHANGED subs
  /\ conn' = Idle
  /\ UNCHANGED <<landed, running, slot, head, answered, stops>>

\* Nobody hands replies to this forwarder any more.
Closed(s) == IF s = 0 THEN subs ELSE [subs EXCEPT ![s].closed = TRUE]

Wants ==
  \/ head.mode = "needs"
  \/ Len(subs) < MaxWishes

\* streams::events: a subscription that still pushes stays unless the head says where
\* to begin; any other is taken down first.
Subscribe ==
  /\ conn = Idle /\ Wants
  /\ running' = TRUE
  /\ head' = [head EXCEPT !.mode = "on"]
  /\ IF ~head.careful /\ slot # 0 /\ subs[slot].pushing
       THEN UNCHANGED <<subs, slot, conn>>
       ELSE /\ Len(subs) < MaxSubs
            /\ subs' = Closed(slot) /\ slot' = 0
            /\ conn' = [do |-> "take", id |-> head.last, sub |-> slot]
  /\ UNCHANGED <<landed, out, answered, stops>>

\* Wrong: what the old forwarder still has is not waited for.
TakeAtOnce == conn.do = "take"

\* Subscriptions::take: the old forwarder has written everything it was handed.
Taken == conn.do = "take" /\ \A s \in DOMAIN subs : s = conn.sub => subs[s].stage = "gone"

\* What the past ends with: as much as was pushed before the subscription.
Upto == landed

\* Message::Subscribe: from now on it is pushed to, and the past reaches up to now.
Begin ==
  /\ Taken /\ running
  /\ LET first == IF head.careful THEN Min({conn.id, landed}) + 1 ELSE landed + 1 IN
     subs' = Append(subs,
       [first |-> first, back |-> first, upto |-> IF head.careful THEN Upto ELSE landed,
        next |-> landed + 1, open |-> TRUE, end |-> 0, stage |-> "reading",
        replies |-> << >>, holding |-> 0, closed |-> FALSE, pushing |-> TRUE, dropped |-> FALSE])
  /\ conn' = [do |-> "read", id |-> 0, sub |-> Len(subs')]
  /\ UNCHANGED <<landed, running, slot, out, head, answered, stops>>

\* The session stopped in between: the head is told to try again.
Missed ==
  /\ Taken /\ ~running
  /\ head' = [head EXCEPT !.mode = "needs"]
  /\ conn' = Idle
  /\ UNCHANGED <<landed, running, subs, slot, out, answered, stops>>

\* The past is read; Subscriptions::add.
Add ==
  /\ conn.do = "read"
  /\ subs' = [subs EXCEPT ![conn.sub].stage = "replay"]
  /\ slot' = conn.sub
  /\ conn' = Idle
  /\ UNCHANGED <<landed, running, out, head, answered, stops>>

Unsubscribe ==
  /\ conn = Idle /\ slot # 0 /\ head.mode = "on"
  /\ subs' = [Closed(slot) EXCEPT ![slot].dropped = TRUE] /\ slot' = 0
  /\ head' = [head EXCEPT !.mode = "off"]
  /\ UNCHANGED <<landed, running, conn, out, answered, stops>>

----------------------------------------------------------------------------
(***************************************************************************)
(* A forwarder.                                                            *)
(***************************************************************************)
Pushed(s) == IF subs[s].open THEN landed ELSE subs[s].end
Lagged(s) == Pushed(s) >= subs[s].next + Ring

\* replay: the past first.
Replay(s) ==
  /\ subs[s].stage = "replay"
  /\ IF subs[s].back <= subs[s].upto
       THEN /\ Write(Line("event", s, subs[s].back))
            /\ subs' = [subs EXCEPT ![s].back = @ + 1]
       ELSE /\ subs' = [subs EXCEPT ![s].stage = "relay"]
            /\ UNCHANGED out
  /\ UNCHANGED <<landed, running, slot, conn, head, answered, stops>>

\* Wrong: a subscription that missed pushes goes on with what is left.
DeliverWhatIsLeft(s, stage, ended) ==
  LET next == IF Lagged(s) THEN Pushed(s) + 1 - Ring ELSE subs[s].next IN
  /\ subs[s].stage = stage
  /\ \/ /\ next <= Pushed(s)
        /\ Write(Line("event", s, next))
        /\ subs' = [subs EXCEPT ![s].next = next + 1]
     \/ /\ subs[s].next > Pushed(s) /\ ~subs[s].open
        /\ Write(Line("resync", s, 0))
        /\ subs' = [subs EXCEPT ![s].stage = ended]

\* Wrong: a subscription that ends does not say so.
DeliverAndEnd(s, stage, ended) ==
  /\ subs[s].stage = stage
  /\ \/ /\ ~Lagged(s) /\ subs[s].next <= Pushed(s)
        /\ Write(Line("event", s, subs[s].next))
        /\ subs' = [subs EXCEPT ![s].next = @ + 1]
     \/ /\ Lagged(s) \/ (subs[s].next > Pushed(s) /\ ~subs[s].open)
        /\ subs' = [subs EXCEPT ![s].stage = ended] /\ UNCHANGED out

\* deliver: the next push, or a resync when pushes are lost or the session stopped.
Deliver(s, stage, ended) ==
  /\ subs[s].stage = stage
  /\ \/ /\ ~Lagged(s) /\ subs[s].next <= Pushed(s)
        /\ Write(Line("event", s, subs[s].next))
        /\ subs' = [subs EXCEPT ![s].next = @ + 1]
     \/ /\ Lagged(s) \/ (subs[s].next > Pushed(s) /\ ~subs[s].open)
        /\ Write(Line("resync", s, 0))
        /\ subs' = [subs EXCEPT ![s].stage = ended]

\* relay: replies come first, each after the pushes that are there already.
Relay(s) ==
  /\ \/ /\ subs[s].stage = "relay" /\ subs[s].replies # << >>
        /\ subs' = [subs EXCEPT ![s].stage = "draining", ![s].replies = Tail(@),
                                ![s].holding = subs[s].replies[1]]
        /\ UNCHANGED out
     \/ /\ subs[s].stage = "relay" /\ subs[s].replies = << >> /\ subs[s].closed
        /\ subs' = [subs EXCEPT ![s].stage = "ended"]
        /\ UNCHANGED out
     \/ /\ subs[s].replies = << >> /\ ~subs[s].closed
        /\ Deliver(s, "relay", "ended")
     \/ Deliver(s, "draining", "replying")
     \/ /\ subs[s].stage = "draining" /\ ~Lagged(s) /\ subs[s].next > Pushed(s)
        /\ subs[s].open
        /\ Write(Line("reply", s, subs[s].holding))
        /\ subs' = [subs EXCEPT ![s].stage = "relay"]
     \/ /\ subs[s].stage = "replying"
        /\ Write(Line("reply", s, subs[s].holding))
        /\ subs' = [subs EXCEPT ![s].stage = "ended"]
  /\ UNCHANGED <<landed, running, slot, conn, head, answered, stops>>

\* forward: it does not push any more, but writes the replies it is handed.
Finish(s) ==
  /\ \/ /\ subs[s].stage = "ended"
        /\ subs' = [subs EXCEPT ![s].stage = "flush", ![s].pushing = FALSE]
        /\ UNCHANGED out
     \/ /\ subs[s].stage = "flush" /\ subs[s].replies # << >>
        /\ Write(Line("reply", s, subs[s].replies[1]))
        /\ subs' = [subs EXCEPT ![s].replies = Tail(@)]
     \/ /\ subs[s].stage = "flush" /\ subs[s].replies = << >> /\ subs[s].closed
        /\ subs' = [subs EXCEPT ![s].stage = "gone", ![s].open = FALSE, ![s].end = Pushed(s)]
        /\ UNCHANGED out
  /\ UNCHANGED <<landed, running, slot, conn, head, answered, stops>>

----------------------------------------------------------------------------
(***************************************************************************)
(* The head reads a line.                                                  *)
(***************************************************************************)
Read ==
  /\ out # << >>
  /\ out' = Tail(out)
  /\ LET line == out[1]
         newest == [head EXCEPT !.newest = Max({@, line.sub})] IN
     head' = CASE line.kind = "event" ->
                    [newest EXCEPT !.got[line.sub] = line.n, !.last = Max({@, line.n})]
               [] line.kind = "resync" ->
                    [newest EXCEPT !.resynced = @ \union {line.sub},
                                   !.mode = IF @ = "on" THEN "needs" ELSE @]
               [] OTHER -> newest
  /\ UNCHANGED <<landed, running, subs, slot, conn, answered, stops>>

----------------------------------------------------------------------------
Work ==
  \/ Answer \/ Refuse \/ Reply \/ Begin \/ Missed \/ Add \/ Read
  \/ \E s \in DOMAIN subs : Replay(s) \/ Relay(s) \/ Finish(s)

Next == Work \/ Land \/ Stop \/ Command \/ Subscribe \/ Unsubscribe

\* Whatever is asked is dealt with, lines are read, and a head that was told to resync
\* subscribes again.
Spec == Init /\ [][Next]_vars
FairSpec == Spec /\ WF_vars(Work) /\ WF_vars(Subscribe /\ head.mode = "needs")

----------------------------------------------------------------------------
(***************************************************************************)
(* Properties.                                                             *)
(***************************************************************************)
Of(s, kind) == {i \in DOMAIN out : out[i].sub = s /\ out[i].kind = kind}
Before(s, i) == {j \in Of(s, "event") : j < i}

\* protocol.md, replay: the past and what is pushed join without a gap and without a
\* repetition, whatever lands while the past is read and written.
NoGapNoOverlap ==
  \A s \in DOMAIN subs : \A i \in Of(s, "event") :
    LET got == IF head.got[s] = 0 THEN subs[s].first - 1 ELSE head.got[s]
    IN  out[i].n = got + Cardinality(Before(s, i)) + 1

\* A reply to a command comes after the event it tells of, or after the resync that says
\* that events are missing.
ResultsBeforeReply ==
  \A i \in DOMAIN out : \A s \in DOMAIN subs :
    out[i].kind = "reply" /\ out[i].sub = s =>
      \/ s \in head.resynced \/ \E j \in Of(s, "resync") : j < i
      \/ answered[out[i].n] < subs[s].first
      \/ head.got[s] >= answered[out[i].n]
      \/ \E j \in Before(s, i) : out[j].n >= answered[out[i].n]

\* A subscription that replaces another starts when the other has written everything.
Handover ==
  \A i \in DOMAIN out : out[i].sub # 0 /\ ~subs[out[i].sub].dropped =>
    /\ out[i].sub >= head.newest
    /\ \A j \in 1..(i - 1) : out[j].sub <= out[i].sub

\* protocol.md, subscribe, 2: one that does not push any more is replaced.  A head that
\* was told it is subscribed is pushed to, or is about to read that it is not.
SubscribedIsPushed ==
  head.mode = "on" /\ conn = Idle =>
    slot # 0 /\ (subs[slot].stage \in Active \/ Of(slot, "resync") # {})

\* A head that says where it is gets everything in the end, however slowly it reads and
\* however often the session stops.
CatchesUp ==
  \A n \in 1..(MaxEvents + MaxCommands) :
    landed >= n /\ head.careful /\ head.mode # "off" ~> head.last >= n \/ head.mode = "off"
=============================================================================
