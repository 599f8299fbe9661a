--------------------------- MODULE DeliveryProofs ---------------------------
(***************************************************************************)
(* What a head reads has no gap and no repetition, a reply comes after     *)
(* what it tells of, and one subscription has ended before the next        *)
(* begins: an inductive invariant of Delivery that implies its three       *)
(* safety properties, for rings and queues of any size and any number of   *)
(* events, commands, stops and subscriptions.                              *)
(***************************************************************************)
EXTENDS Delivery, FiniteSetTheorems, FunctionTheorems, TLAPS

(***************************************************************************)
(* The inductive invariant.                                                *)
(***************************************************************************)
Stages ==
  {"reading", "replay", "relay", "draining", "replying", "ended", "flush", "gone"}

Subscriptions ==
  [first : Nat, back : Nat, upto : Nat, next : Nat, open : BOOLEAN, end : Nat,
   stage : Stages, replies : Seq(Nat), holding : Nat, closed : BOOLEAN,
   pushing : BOOLEAN, dropped : BOOLEAN]

LinesOut == [kind : {"event", "resync", "reply"}, sub : Nat, n : Nat]

Busy == [do : {"idle", "command", "reply", "take", "read"}, id : Nat, sub : Nat]

Heads ==
  [mode : {"off", "on", "needs"}, careful : BOOLEAN, last : Nat, asked : Nat, newest : Nat,
   got : [1..MaxSubs -> Nat], resynced : SUBSET Nat]

\* The types of the variables.
TypeOK ==
  /\ landed \in Nat /\ running \in BOOLEAN /\ stops \in Nat
  /\ subs \in Seq(Subscriptions) /\ slot \in Nat /\ conn \in Busy
  /\ out \in Seq(LinesOut) /\ head \in Heads /\ answered \in Seq(Nat)

\* The slot, the connection and the lines are of subscriptions there are.
OfSubscriptions ==
  /\ Len(subs) <= MaxSubs /\ (conn.do = "take" => Len(subs) < MaxSubs /\ slot = 0)
  /\ slot <= Len(subs)
  /\ conn.do = "read" => conn.sub \in DOMAIN subs /\ slot = 0
  /\ \A i \in DOMAIN out : out[i].sub <= Len(subs)
  /\ \A i \in DOMAIN out : out[i].kind = "event" => out[i].sub # 0
  /\ head.newest <= Len(subs)

\* The one whose past is being read was not started yet, and is not closed.
BeingRead ==
  conn.do = "read" => subs[conn.sub].stage = "reading" /\ ~subs[conn.sub].closed

\* Replies are handed to the registered one alone.
ClosedIsOut == slot # 0 => ~subs[slot].closed

\* A subscription's past reaches up to where its pushes begin.
Past(s) ==
  /\ 1 <= subs[s].first /\ subs[s].first <= subs[s].back
  /\ subs[s].back <= subs[s].upto + 1 /\ subs[s].upto < subs[s].next
  /\ subs[s].stage \in {"reading", "replay"} => subs[s].next = subs[s].upto + 1
  /\ subs[s].stage \notin {"reading", "replay"} => subs[s].back = subs[s].upto + 1

PastJoins == \A s \in DOMAIN subs : Past(s)

\* The next event it writes, and the last one the head has read of it.
Position(s) ==
  IF subs[s].stage \in {"reading", "replay"} THEN subs[s].back ELSE subs[s].next
Got(s) == IF head.got[s] = 0 THEN subs[s].first - 1 ELSE head.got[s]

\* What was written and not read are the events in between, each of them once.
IsEvent(line, s) == line.sub = s /\ line.kind = "event"

Chain(q, s, g, p) ==
  /\ g < p
  /\ \A i \in DOMAIN q : IsEvent(q[i], s) => g < q[i].n /\ q[i].n < p
  /\ \A i, j \in DOMAIN q :
       IsEvent(q[i], s) /\ IsEvent(q[j], s) /\ i < j => q[i].n < q[j].n
  /\ \A n \in (g + 1)..(p - 1) : \E i \in DOMAIN q : IsEvent(q[i], s) /\ q[i].n = n

Chained(s) == subs[s].first - 1 <= Got(s) /\ Chain(out, s, Got(s), Position(s))

EventsChained == \A s \in DOMAIN subs : Chained(s)

\* Nothing was read of a subscription that is still to come.
UnreadAhead == \A s \in 1..MaxSubs : s > Len(subs) => head.got[s] = 0

\* Replies are to commands, each answered when its event had landed.
RepliesAreAnswers ==
  /\ \A id \in DOMAIN answered : answered[id] <= landed
  /\ conn.do = "reply" => conn.id \in DOMAIN answered
  /\ \A s \in DOMAIN subs : \A k \in DOMAIN subs[s].replies :
       subs[s].replies[k] \in DOMAIN answered
  /\ \A s \in DOMAIN subs :
       subs[s].stage \in {"draining", "replying"} => subs[s].holding \in DOMAIN answered
  /\ \A i \in DOMAIN out : out[i].kind = "reply" => out[i].n \in DOMAIN answered

\* The head was told that events are missing, or is about to read it.
Told(s) ==
  \/ s \in head.resynced
  \/ \E j \in DOMAIN out : out[j].sub = s /\ out[j].kind = "resync"

\* A reply among the lines comes after that, or after the event it tells of.
Covered(q, i, s, told, first, got, a) ==
  \/ told
  \/ \E j \in DOMAIN q : j < i /\ q[j].sub = s /\ q[j].kind = "resync"
  \/ a < first \/ got >= a
  \/ \E j \in DOMAIN q : j < i /\ IsEvent(q[j], s) /\ q[j].n >= a

RepliesCovered ==
  \A i \in DOMAIN out : \A s \in DOMAIN subs :
    out[i].kind = "reply" /\ out[i].sub = s =>
      Covered(out, i, s, s \in head.resynced, subs[s].first, head.got[s],
              answered[out[i].n])

\* A forwarder that does not push has told so, or has no replies and gets none.
EndedIsTold ==
  \A s \in DOMAIN subs :
    /\ subs[s].stage = "replying" => Told(s)
    /\ subs[s].stage \in {"ended", "flush", "gone"} =>
         Told(s) \/ (subs[s].closed /\ subs[s].replies = << >>)

\* All but the last have written everything, or were given up by the head.
OneAtATime ==
  \A s \in DOMAIN subs : subs[s].stage = "gone" \/ subs[s].dropped \/ s = Len(subs)

\* Without a slot, a request and a reading, none is left.
Registered ==
  \A s \in DOMAIN subs : subs[s].stage = "gone" \/ subs[s].dropped \/ s = slot
                           \/ (conn.do \in {"take", "read"} /\ conn.sub = s)

IInv ==
  /\ TypeOK /\ OfSubscriptions /\ BeingRead /\ ClosedIsOut
  /\ PastJoins /\ EventsChained /\ UnreadAhead
  /\ RepliesAreAnswers /\ EndedIsTold /\ OneAtATime /\ Registered
  /\ RepliesCovered /\ Handover

----------------------------------------------------------------------------
(***************************************************************************)
(* Facts about sequences and about the smaller and the larger of two.      *)
(***************************************************************************)
\* Finite sets of two numbers have a smallest and a largest.
LEMMA MinOfTwo ==
  ASSUME NEW a \in Nat, NEW b \in Nat
  PROVE  Min({a, b}) \in Nat /\ Min({a, b}) <= a /\ Min({a, b}) <= b
<1> DEFINE P(x) == \A y \in {a, b} : x <= y
<1>1. \E x \in {a, b} : P(x)
  <2>1. CASE a <= b
    BY <2>1
  <2>2. CASE b <= a
    BY <2>2
  <2> QED BY <2>1, <2>2
<1>2. Min({a, b}) = CHOOSE x \in {a, b} : P(x)
  BY DEF Min
<1>3. Min({a, b}) \in {a, b} /\ P(Min({a, b}))
  <2> HIDE DEF P
  <2> QED BY <1>1, <1>2
<1> QED BY <1>3

LEMMA MaxOfTwo ==
  ASSUME NEW a \in Nat, NEW b \in Nat
  PROVE  Max({a, b}) \in {a, b} /\ a <= Max({a, b}) /\ b <= Max({a, b})
<1> DEFINE P(x) == \A y \in {a, b} : x >= y
<1>1. \E x \in {a, b} : P(x)
  <2>1. CASE a <= b
    BY <2>1
  <2>2. CASE b <= a
    BY <2>2
  <2> QED BY <2>1, <2>2
<1>2. Max({a, b}) = CHOOSE x \in {a, b} : P(x)
  BY DEF Max
<1>3. Max({a, b}) \in {a, b} /\ P(Max({a, b}))
  <2> HIDE DEF P
  <2> QED BY <1>1, <1>2
<1> QED BY <1>3

\* A sequence with one element replaced.
LEMMA Replaced ==
  ASSUME NEW S, NEW q \in Seq(S), NEW k \in DOMAIN q, NEW v \in S
  PROVE  /\ [q EXCEPT ![k] = v] \in Seq(S) /\ Len([q EXCEPT ![k] = v]) = Len(q)
         /\ DOMAIN [q EXCEPT ![k] = v] = DOMAIN q
         /\ [q EXCEPT ![k] = v][k] = v
         /\ \A t \in DOMAIN q : t # k => [q EXCEPT ![k] = v][t] = q[t]
OBVIOUS

\* A sequence with a line more.
LEMMA Appended ==
  ASSUME NEW S, NEW q \in Seq(S), NEW v \in S
  PROVE  /\ Append(q, v) \in Seq(S) /\ Len(Append(q, v)) = Len(q) + 1
         /\ DOMAIN Append(q, v) = DOMAIN q \cup {Len(q) + 1}
         /\ Append(q, v)[Len(q) + 1] = v
         /\ \A i \in DOMAIN q : i < Len(q) + 1 /\ Append(q, v)[i] = q[i]
OBVIOUS

\* A sequence without its first line.
LEMMA WithoutFirst ==
  ASSUME NEW S, NEW q \in Seq(S), q # << >>
  PROVE  /\ Tail(q) \in Seq(S) /\ 1 \in DOMAIN q /\ q[1] \in S
         /\ \A i \in DOMAIN Tail(q) : i \in Nat /\ i + 1 \in DOMAIN q /\ Tail(q)[i] = q[i + 1]
         /\ \A i \in DOMAIN q : i # 1 => i - 1 \in DOMAIN Tail(q) /\ Tail(q)[i - 1] = q[i]
OBVIOUS

----------------------------------------------------------------------------
(***************************************************************************)
(* Lines are written at the end and read at the front.                     *)
(***************************************************************************)
\* A line that is no event of it leaves the chain alone.
LEMMA ChainApart ==
  ASSUME NEW q \in Seq(LinesOut), NEW line \in LinesOut, NEW s, NEW g \in Int, NEW p \in Nat,
         Chain(q, s, g, p), ~IsEvent(line, s)
  PROVE  Chain(Append(q, line), s, g, p)
BY Appended DEF Chain

\* The event at its end makes it longer.
LEMMA ChainGrows ==
  ASSUME NEW q \in Seq(LinesOut), NEW line \in LinesOut, NEW s, NEW g \in Int, NEW p \in Nat,
         Chain(q, s, g, p), IsEvent(line, s), line.n = p
  PROVE  Chain(Append(q, line), s, g, p + 1)
<1> DEFINE r == Append(q, line)
<1>1. /\ DOMAIN r = DOMAIN q \cup {Len(q) + 1} /\ r[Len(q) + 1] = line
      /\ \A i \in DOMAIN q : i < Len(q) + 1 /\ r[i] = q[i]
  BY Appended
<1>2. \A i \in DOMAIN q : i \in Nat /\ q[i] \in LinesOut
  OBVIOUS
<1>3. Len(q) \in Nat
  OBVIOUS
<1> HIDE DEF r
<1>4. \A i \in DOMAIN r : IsEvent(r[i], s) => g < r[i].n /\ r[i].n < p + 1
  BY <1>1, <1>2, <1>3 DEF Chain, LinesOut
<1>5. ASSUME NEW i \in DOMAIN r, NEW j \in DOMAIN r, IsEvent(r[i], s), IsEvent(r[j], s), i < j
      PROVE  r[i].n < r[j].n
  <2>1. i \in DOMAIN q
    BY <1>1, <1>2, <1>3, <1>5
  <2> QED BY <1>1, <1>2, <1>3, <1>5, <2>1 DEF Chain, LinesOut
<1>6. ASSUME NEW n \in (g + 1)..p
      PROVE  \E i \in DOMAIN r : IsEvent(r[i], s) /\ r[i].n = n
  <2>1. CASE n = p
    BY <1>1, <2>1
  <2>2. CASE n # p
    <3>1. n \in (g + 1)..(p - 1)
      BY <2>2
    <3>2. PICK i \in DOMAIN q : IsEvent(q[i], s) /\ q[i].n = n
      BY <3>1 DEF Chain
    <3> QED BY <1>1, <3>2
  <2> QED BY <2>1, <2>2
<1>7. g < p + 1 /\ p + 1 - 1 = p
  BY DEF Chain
<1> QED BY <1>4, <1>5, <1>6, <1>7 DEF Chain, r

\* Reading a line that is no event of it leaves it alone.
LEMMA ChainSpared ==
  ASSUME NEW q \in Seq(LinesOut), NEW s, NEW g \in Int, NEW p \in Nat,
         Chain(q, s, g, p), q # << >>, ~IsEvent(q[1], s)
  PROVE  Chain(Tail(q), s, g, p)
<1> DEFINE r == Tail(q)
<1>1. /\ \A i \in DOMAIN r : i \in Nat /\ i + 1 \in DOMAIN q /\ r[i] = q[i + 1]
      /\ \A i \in DOMAIN q : i # 1 => i - 1 \in DOMAIN r /\ r[i - 1] = q[i]
  BY WithoutFirst
<1> HIDE DEF r
<1>2. \A i, j \in DOMAIN r : i < j => i + 1 < j + 1
  BY <1>1
<1>3. ASSUME NEW n \in (g + 1)..(p - 1)
      PROVE  \E i \in DOMAIN r : IsEvent(r[i], s) /\ r[i].n = n
  <2>1. PICK i \in DOMAIN q : IsEvent(q[i], s) /\ q[i].n = n
    BY DEF Chain
  <2>2. i # 1
    BY <2>1
  <2> QED BY <1>1, <2>1, <2>2
<1>4. \A i, j \in DOMAIN r :
        IsEvent(r[i], s) /\ IsEvent(r[j], s) /\ i < j => r[i].n < r[j].n
  BY <1>1, <1>2 DEF Chain
<1>5. \A i \in DOMAIN r : IsEvent(r[i], s) => g < r[i].n /\ r[i].n < p
  BY <1>1 DEF Chain
<1> QED BY <1>3, <1>4, <1>5 DEF Chain, r

\* The event that is read is the next one.
LEMMA ChainRead ==
  ASSUME NEW q \in Seq(LinesOut), NEW s, NEW g \in Int, NEW p \in Nat,
         Chain(q, s, g, p), q # << >>, IsEvent(q[1], s)
  PROVE  q[1].n = g + 1 /\ Chain(Tail(q), s, g + 1, p)
<1> DEFINE r == Tail(q)
<1>1. /\ \A i \in DOMAIN r : i \in Nat /\ i + 1 \in DOMAIN q /\ r[i] = q[i + 1]
      /\ \A i \in DOMAIN q : i # 1 => i - 1 \in DOMAIN r /\ r[i - 1] = q[i]
      /\ 1 \in DOMAIN q /\ q[1] \in LinesOut
  BY WithoutFirst
<1>2. \A i \in DOMAIN q : i \in Nat /\ i >= 1 /\ q[i] \in LinesOut
  OBVIOUS
<1> HIDE DEF r
<1>3. q[1].n \in Nat /\ g < q[1].n /\ q[1].n < p
  BY <1>1 DEF Chain, LinesOut
<1>4. q[1].n = g + 1
  <2>1. g + 1 \in (g + 1)..(p - 1)
    BY <1>3
  <2>2. PICK i \in DOMAIN q : IsEvent(q[i], s) /\ q[i].n = g + 1
    BY <2>1 DEF Chain
  <2>3. CASE i = 1
    BY <2>2, <2>3
  <2>4. CASE i # 1
    <3>1. 1 < i
      BY <1>2, <2>4
    <3>2. q[1].n < q[i].n
      BY <1>1, <2>2, <3>1 DEF Chain
    <3> QED BY <1>3, <2>2, <3>2
  <2> QED BY <2>3, <2>4
<1>5. \A i, j \in DOMAIN r : i < j => i + 1 < j + 1
  BY <1>1
<1>6. \A i, j \in DOMAIN r :
        IsEvent(r[i], s) /\ IsEvent(r[j], s) /\ i < j => r[i].n < r[j].n
  BY <1>1, <1>5 DEF Chain
<1>7. ASSUME NEW i \in DOMAIN r, IsEvent(r[i], s)
      PROVE  g + 1 < r[i].n /\ r[i].n < p
  <2>1. i + 1 \in DOMAIN q /\ r[i] = q[i + 1] /\ 1 < i + 1
    BY <1>1, <1>2
  <2>2. q[1].n < q[i + 1].n /\ q[i + 1].n < p
    BY <1>1, <1>7, <2>1 DEF Chain
  <2> QED BY <1>4, <2>1, <2>2
<1>8. ASSUME NEW n \in (g + 2)..(p - 1)
      PROVE  \E i \in DOMAIN r : IsEvent(r[i], s) /\ r[i].n = n
  <2>1. n \in (g + 1)..(p - 1)
    OBVIOUS
  <2>2. PICK i \in DOMAIN q : IsEvent(q[i], s) /\ q[i].n = n
    BY <2>1 DEF Chain
  <2>3. i # 1
    BY <1>4, <2>2
  <2> QED BY <1>1, <2>2, <2>3
<1>9. g + 1 < p /\ (g + 1) + 1 = g + 2
  BY <1>3, <1>4
<1> QED BY <1>4, <1>6, <1>7, <1>8, <1>9 DEF Chain, r

\* A reply stays covered when a line is written,
LEMMA CoveredStays ==
  ASSUME NEW q \in Seq(LinesOut), NEW line \in LinesOut, NEW i \in DOMAIN q, NEW s,
         NEW told, NEW first, NEW got, NEW a, Covered(q, i, s, told, first, got, a)
  PROVE  Covered(Append(q, line), i, s, told, first, got, a)
<1> DEFINE r == Append(q, line)
<1>1. \A j \in DOMAIN q : j \in DOMAIN r /\ r[j] = q[j]
  BY Appended
<1> HIDE DEF r
<1> QED BY <1>1 DEF Covered, r

\* when a line of another is read, and when one of its own is.
LEMMA CoveredSpared ==
  ASSUME NEW q \in Seq(LinesOut), q # << >>, NEW i \in DOMAIN Tail(q), NEW s,
         NEW told \in BOOLEAN, NEW toldNow \in BOOLEAN, NEW first \in Nat,
         NEW got \in Nat, NEW gotNow \in Nat, NEW a \in Nat,
         told => toldNow, q[1].sub = s /\ q[1].kind = "resync" => toldNow,
         got <= gotNow, IsEvent(q[1], s) => gotNow = q[1].n,
         Covered(q, i + 1, s, told, first, got, a)
  PROVE  Covered(Tail(q), i, s, toldNow, first, gotNow, a)
<1> DEFINE r == Tail(q)
<1>1. /\ \A j \in DOMAIN q : j # 1 => j - 1 \in DOMAIN r /\ r[j - 1] = q[j]
      /\ i \in Nat
  BY WithoutFirst
<1>0. \A j \in DOMAIN q : j \in Nat /\ q[j].n \in Nat
  <2>1. \A j \in DOMAIN q : j \in Nat /\ q[j] \in LinesOut
    OBVIOUS
  <2> QED BY <2>1 DEF LinesOut
<1>2. \A j \in DOMAIN q : j < i + 1 /\ j # 1 => j - 1 < i
  BY <1>0, <1>1
<1> HIDE DEF r
<1>3. CASE told \/ a < first \/ got >= a
  BY <1>3 DEF Covered
<1>4. CASE \E j \in DOMAIN q : j < i + 1 /\ q[j].sub = s /\ q[j].kind = "resync"
  <2>1. PICK j \in DOMAIN q : j < i + 1 /\ q[j].sub = s /\ q[j].kind = "resync"
    BY <1>4
  <2>2. CASE j = 1
    BY <2>1, <2>2 DEF Covered
  <2>3. CASE j # 1
    BY <1>1, <1>2, <2>1, <2>3 DEF Covered, r
  <2> QED BY <2>2, <2>3
<1>5. CASE \E j \in DOMAIN q : j < i + 1 /\ IsEvent(q[j], s) /\ q[j].n >= a
  <2>1. PICK j \in DOMAIN q : j < i + 1 /\ IsEvent(q[j], s) /\ q[j].n >= a
    BY <1>5
  <2>2. CASE j = 1
    BY <2>1, <2>2 DEF Covered
  <2>3. CASE j # 1
    BY <1>1, <1>2, <2>1, <2>3 DEF Covered, r
  <2> QED BY <2>2, <2>3
<1> QED BY <1>3, <1>4, <1>5 DEF Covered

----------------------------------------------------------------------------
(***************************************************************************)
(* What a step of a forwarder does, case by case.                          *)
(***************************************************************************)
Becomes(s, sub) == subs' = [subs EXCEPT ![s] = sub]
Says(s, kind, n) == out' = Append(out, Line(kind, s, n))

WritesPast(s) ==
  /\ subs[s].stage = "replay" /\ subs[s].back <= subs[s].upto
  /\ Says(s, "event", subs[s].back)
  /\ Becomes(s, [subs[s] EXCEPT !.back = @ + 1])

WritesPush(s) ==
  /\ subs[s].stage \in {"relay", "draining"} /\ ~Lagged(s) /\ subs[s].next <= Pushed(s)
  /\ Says(s, "event", subs[s].next)
  /\ Becomes(s, [subs[s] EXCEPT !.next = @ + 1])

GivesUp(s) ==
  /\ Says(s, "resync", 0)
  /\ \/ subs[s].stage = "relay" /\ Becomes(s, [subs[s] EXCEPT !.stage = "ended"])
     \/ subs[s].stage = "draining" /\ Becomes(s, [subs[s] EXCEPT !.stage = "replying"])

WritesReply(s) ==
  \/ /\ subs[s].stage = "draining" /\ subs[s].open /\ subs[s].next > landed
     /\ Says(s, "reply", subs[s].holding)
     /\ Becomes(s, [subs[s] EXCEPT !.stage = "relay"])
  \/ /\ subs[s].stage = "replying"
     /\ Says(s, "reply", subs[s].holding)
     /\ Becomes(s, [subs[s] EXCEPT !.stage = "ended"])
  \/ /\ subs[s].stage = "flush" /\ subs[s].replies # << >>
     /\ Says(s, "reply", subs[s].replies[1])
     /\ Becomes(s, [subs[s] EXCEPT !.replies = Tail(@)])

Moves(s) ==
  /\ UNCHANGED out
  /\ \/ /\ subs[s].stage = "replay" /\ subs[s].back > subs[s].upto
        /\ Becomes(s, [subs[s] EXCEPT !.stage = "relay"])
     \/ /\ subs[s].stage = "relay" /\ subs[s].replies # << >>
        /\ Becomes(s, [subs[s] EXCEPT !.stage = "draining", !.replies = Tail(@),
                                      !.holding = subs[s].replies[1]])
     \/ /\ subs[s].stage = "relay" /\ subs[s].replies = << >> /\ subs[s].closed
        /\ Becomes(s, [subs[s] EXCEPT !.stage = "ended"])
     \/ /\ subs[s].stage = "ended"
        /\ Becomes(s, [subs[s] EXCEPT !.stage = "flush", !.pushing = FALSE])
     \/ /\ subs[s].stage = "flush"
        /\ Becomes(s, [subs[s] EXCEPT !.stage = "gone", !.open = FALSE, !.end = Pushed(s)])

\* The fields of a subscription.
LEMMA SubscriptionTyped ==
  ASSUME TypeOK, NEW s \in DOMAIN subs
  PROVE  /\ subs[s] \in Subscriptions /\ s \in Nat /\ s >= 1 /\ s <= Len(subs)
         /\ subs[s].first \in Nat /\ subs[s].back \in Nat /\ subs[s].upto \in Nat
         /\ subs[s].next \in Nat /\ subs[s].end \in Nat /\ subs[s].holding \in Nat
         /\ subs[s].replies \in Seq(Nat)
         /\ Pushed(s) \in Nat
<1>1. subs[s] \in Subscriptions /\ s \in Nat /\ s >= 1 /\ s <= Len(subs)
  BY DEF TypeOK
<1> QED BY <1>1 DEF Subscriptions, Pushed, TypeOK

LEMMA ForwarderSteps ==
  ASSUME TypeOK, NEW s \in DOMAIN subs, Replay(s) \/ Relay(s) \/ Finish(s)
  PROVE  /\ UNCHANGED <<landed, running, slot, conn, head, answered, stops>>
         /\ \/ WritesPast(s) \/ WritesPush(s) \/ GivesUp(s) \/ WritesReply(s) \/ Moves(s)
<1>1. CASE Replay(s)
  <2>1. subs[s].back \in Nat /\ subs[s].upto \in Nat
    BY SubscriptionTyped
  <2> QED BY <1>1, <2>1 DEF Replay, Write, WritesPast, Moves, Becomes, Says
<1>2. CASE Relay(s)
  <2>1. UNCHANGED <<landed, running, slot, conn, head, answered, stops>>
    BY <1>2 DEF Relay
  <2>2. CASE Deliver(s, "relay", "ended") \/ Deliver(s, "draining", "replying")
    <3>1. CASE \E stage \in {"relay", "draining"} :
                 /\ subs[s].stage = stage /\ ~Lagged(s) /\ subs[s].next <= Pushed(s)
                 /\ Write(Line("event", s, subs[s].next))
                 /\ subs' = [subs EXCEPT ![s].next = @ + 1]
      BY <2>1, <3>1 DEF Write, WritesPush, Becomes, Says
    <3>2. CASE /\ Write(Line("resync", s, 0))
               /\ \/ subs[s].stage = "relay" /\ subs' = [subs EXCEPT ![s].stage = "ended"]
                  \/ subs[s].stage = "draining" /\ subs' = [subs EXCEPT ![s].stage = "replying"]
      BY <2>1, <3>2 DEF Write, GivesUp, Becomes, Says
    <3> QED BY <2>2, <3>1, <3>2 DEF Deliver
  <2>3. CASE /\ subs[s].stage = "draining" /\ ~Lagged(s) /\ subs[s].next > Pushed(s)
             /\ subs[s].open
             /\ Write(Line("reply", s, subs[s].holding))
             /\ subs' = [subs EXCEPT ![s].stage = "relay"]
    BY <2>1, <2>3 DEF Write, WritesReply, Becomes, Says, Pushed
  <2>4. CASE /\ subs[s].stage = "replying"
             /\ Write(Line("reply", s, subs[s].holding))
             /\ subs' = [subs EXCEPT ![s].stage = "ended"]
    BY <2>1, <2>4 DEF Write, WritesReply, Becomes, Says
  <2>5. CASE /\ subs[s].stage = "relay" /\ subs[s].replies # << >>
             /\ subs' = [subs EXCEPT ![s].stage = "draining", ![s].replies = Tail(@),
                                     ![s].holding = subs[s].replies[1]]
             /\ UNCHANGED out
    BY <2>1, <2>5 DEF Moves, Becomes, TypeOK
  <2>6. CASE /\ subs[s].stage = "relay" /\ subs[s].replies = << >> /\ subs[s].closed
             /\ subs' = [subs EXCEPT ![s].stage = "ended"]
             /\ UNCHANGED out
    BY <2>1, <2>6 DEF Moves, Becomes
  <2> QED BY <1>2, <2>2, <2>3, <2>4, <2>5, <2>6 DEF Relay
<1>3. CASE Finish(s)
  <2>1. UNCHANGED <<landed, running, slot, conn, head, answered, stops>>
    BY <1>3 DEF Finish
  <2>2. CASE /\ subs[s].stage = "ended"
             /\ subs' = [subs EXCEPT ![s].stage = "flush", ![s].pushing = FALSE]
             /\ UNCHANGED out
    BY <2>1, <2>2 DEF Moves, Becomes, TypeOK
  <2>3. CASE /\ subs[s].stage = "flush" /\ subs[s].replies # << >>
             /\ Write(Line("reply", s, subs[s].replies[1]))
             /\ subs' = [subs EXCEPT ![s].replies = Tail(@)]
    BY <2>1, <2>3 DEF Write, WritesReply, Becomes, Says
  <2>4. CASE /\ subs[s].stage = "flush" /\ subs[s].replies = << >> /\ subs[s].closed
             /\ subs' = [subs EXCEPT ![s].stage = "gone", ![s].open = FALSE, ![s].end = Pushed(s)]
             /\ UNCHANGED out
    BY <2>1, <2>4 DEF Moves, Becomes, TypeOK
  <2> QED BY <1>3, <2>2, <2>3, <2>4 DEF Finish
<1> QED BY <1>1, <1>2, <1>3

\* A line is a line.
LEMMA LineTyped ==
  ASSUME NEW kind \in {"event", "resync", "reply"}, NEW s \in Nat, NEW n \in Nat
  PROVE  /\ Line(kind, s, n) \in LinesOut /\ Line(kind, s, n).kind = kind
         /\ Line(kind, s, n).sub = s /\ Line(kind, s, n).n = n
BY DEF Line, LinesOut

\* A subscription with some fields changed, none of them those it keeps for good.
Alike(o, n) ==
  /\ n \in Subscriptions
  /\ n.first = o.first /\ n.upto = o.upto /\ n.closed = o.closed /\ n.dropped = o.dropped

LEMMA FieldsChanged ==
  ASSUME NEW o \in Subscriptions
  PROVE  /\ \A k \in Nat : Alike(o, [o EXCEPT !.back = k]) /\ Alike(o, [o EXCEPT !.next = k])
         /\ \A stage \in Stages : Alike(o, [o EXCEPT !.stage = stage])
         /\ \A stage \in Stages : Alike(o, [o EXCEPT !.stage = stage, !.pushing = FALSE])
         /\ \A stage \in Stages, k \in Nat :
              Alike(o, [o EXCEPT !.stage = stage, !.open = FALSE, !.end = k])
         /\ \A rest \in Seq(Nat) : Alike(o, [o EXCEPT !.replies = rest])
         /\ \A stage \in Stages, rest \in Seq(Nat), k \in Nat :
              Alike(o, [o EXCEPT !.stage = stage, !.replies = rest, !.holding = k])
<1>1. \A k \in Nat : Alike(o, [o EXCEPT !.back = k]) /\ Alike(o, [o EXCEPT !.next = k])
  BY DEF Alike, Subscriptions
<1>2. \A stage \in Stages : Alike(o, [o EXCEPT !.stage = stage])
  BY DEF Alike, Subscriptions
<1>3. \A stage \in Stages : Alike(o, [o EXCEPT !.stage = stage, !.pushing = FALSE])
  BY DEF Alike, Subscriptions
<1>4. \A stage \in Stages, k \in Nat :
        Alike(o, [o EXCEPT !.stage = stage, !.open = FALSE, !.end = k])
  BY DEF Alike, Subscriptions
<1>5. \A rest \in Seq(Nat) : Alike(o, [o EXCEPT !.replies = rest])
  BY DEF Alike, Subscriptions
<1>6. \A stage \in Stages, rest \in Seq(Nat), k \in Nat :
        Alike(o, [o EXCEPT !.stage = stage, !.replies = rest, !.holding = k])
  BY DEF Alike, Subscriptions
<1> QED BY <1>1, <1>2, <1>3, <1>4, <1>5, <1>6

\* The other subscriptions, and what never changes of its own.
LEMMA ForwarderKeeps ==
  ASSUME TypeOK, NEW s \in DOMAIN subs, Replay(s) \/ Relay(s) \/ Finish(s)
  PROVE  /\ subs' \in Seq(Subscriptions) /\ Len(subs') = Len(subs)
         /\ DOMAIN subs' = DOMAIN subs
         /\ \A t \in DOMAIN subs : t # s => subs'[t] = subs[t]
         /\ subs'[s].first = subs[s].first /\ subs'[s].upto = subs[s].upto
         /\ subs'[s].closed = subs[s].closed /\ subs'[s].dropped = subs[s].dropped
         /\ out' \in Seq(LinesOut)
<1>0. subs \in Seq(Subscriptions) /\ out \in Seq(LinesOut)
  BY DEF TypeOK
<1>1. PICK n : Becomes(s, n) /\ Alike(subs[s], n)
  <2>0. /\ subs[s] \in Subscriptions /\ subs[s].back + 1 \in Nat /\ subs[s].next + 1 \in Nat
        /\ subs[s].replies \in Seq(Nat) /\ Pushed(s) \in Nat
    BY SubscriptionTyped
  <2>1. subs[s].replies # << >> =>
          Tail(subs[s].replies) \in Seq(Nat) /\ subs[s].replies[1] \in Nat
    BY <2>0
  <2>2. /\ {"relay", "draining", "replying", "ended", "flush", "gone"} \subseteq Stages
    BY DEF Stages
  <2>3. CASE WritesPast(s)
    BY <2>0, <2>3, FieldsChanged DEF WritesPast
  <2>4. CASE WritesPush(s)
    BY <2>0, <2>4, FieldsChanged DEF WritesPush
  <2>5. CASE Becomes(s, [subs[s] EXCEPT !.stage = "relay"])
    BY <2>0, <2>2, <2>5, FieldsChanged
  <2>6. CASE Becomes(s, [subs[s] EXCEPT !.stage = "ended"])
    BY <2>0, <2>2, <2>6, FieldsChanged
  <2>7. CASE Becomes(s, [subs[s] EXCEPT !.stage = "replying"])
    BY <2>0, <2>2, <2>7, FieldsChanged
  <2>8. CASE subs[s].replies # << >> /\ Becomes(s, [subs[s] EXCEPT !.replies = Tail(@)])
    BY <2>0, <2>1, <2>8, FieldsChanged
  <2>9. CASE subs[s].replies # << >>
             /\ Becomes(s, [subs[s] EXCEPT !.stage = "draining", !.replies = Tail(@),
                                           !.holding = subs[s].replies[1]])
    BY <2>0, <2>1, <2>2, <2>9, FieldsChanged
  <2>10. CASE Becomes(s, [subs[s] EXCEPT !.stage = "flush", !.pushing = FALSE])
    BY <2>0, <2>2, <2>10, FieldsChanged
  <2>11. CASE Becomes(s, [subs[s] EXCEPT !.stage = "gone", !.open = FALSE, !.end = Pushed(s)])
    BY <2>0, <2>2, <2>11, FieldsChanged
  <2> QED BY <2>3, <2>4, <2>5, <2>6, <2>7, <2>8, <2>9, <2>10, <2>11, ForwarderSteps
          DEF GivesUp, WritesReply, Moves
<1>a. n \in Subscriptions
  BY <1>1 DEF Alike
<1>2. /\ subs' \in Seq(Subscriptions) /\ Len(subs') = Len(subs) /\ DOMAIN subs' = DOMAIN subs
      /\ subs'[s] = n /\ \A t \in DOMAIN subs : t # s => subs'[t] = subs[t]
  BY <1>0, <1>1, <1>a, Replaced DEF Becomes
<1>3. out' \in Seq(LinesOut)
  <2>0. /\ s \in Nat /\ subs[s].back \in Nat /\ subs[s].next \in Nat /\ 0 \in Nat
        /\ subs[s].holding \in Nat /\ subs[s].replies \in Seq(Nat)
    BY SubscriptionTyped
  <2>1. CASE Says(s, "event", subs[s].back)
    BY <1>0, <2>0, <2>1, LineTyped, Appended DEF Says
  <2>2. CASE Says(s, "event", subs[s].next)
    BY <1>0, <2>0, <2>2, LineTyped, Appended DEF Says
  <2>3. CASE Says(s, "resync", 0)
    BY <1>0, <2>0, <2>3, LineTyped, Appended DEF Says
  <2>4. CASE Says(s, "reply", subs[s].holding)
    BY <1>0, <2>0, <2>4, LineTyped, Appended DEF Says
  <2>5. CASE subs[s].replies # << >> /\ Says(s, "reply", subs[s].replies[1])
    <3>1. subs[s].replies[1] \in Nat
      BY <2>0, <2>5
    <3> QED BY <1>0, <2>0, <2>5, <3>1, LineTyped, Appended DEF Says
  <2>6. CASE UNCHANGED out
    BY <1>0, <2>6
  <2> QED BY <2>1, <2>2, <2>3, <2>4, <2>5, <2>6, ForwarderSteps
          DEF WritesPast, WritesPush, GivesUp, WritesReply, Moves
<1> QED BY <1>1, <1>2, <1>3 DEF Alike

----------------------------------------------------------------------------
(***************************************************************************)
(* The types.                                                              *)
(***************************************************************************)
LEMMA InitTyped == Init => TypeOK
<1> SUFFICES ASSUME Init PROVE TypeOK
  OBVIOUS
<1>1. PICK careful \in Careful :
        head = [mode |-> "off", careful |-> careful, last |-> 0, asked |-> 0, newest |-> 0,
                got |-> [s \in 1..MaxSubs |-> 0], resynced |-> {}]
  BY DEF Init
<1>2. careful \in BOOLEAN
  BY DeliveryLimits
<1>3. head \in Heads
  BY <1>1, <1>2 DEF Heads
<1>4. conn \in Busy
  BY DEF Init, Idle, Busy
<1>5. landed \in Nat
  BY DEF Init
<1> QED BY <1>3, <1>4, <1>5 DEF Init, TypeOK

LEMMA LandTyped == TypeOK /\ Land => TypeOK'
BY DEF TypeOK, Land

LEMMA StopTyped == TypeOK /\ Stop => TypeOK'
<1> SUFFICES ASSUME TypeOK, Stop PROVE TypeOK'
  OBVIOUS
<1> DEFINE ended(s) ==
      IF subs[s].open THEN [subs[s] EXCEPT !.open = FALSE, !.end = landed] ELSE subs[s]
<1>1. subs' = [s \in DOMAIN subs |-> ended(s)]
  BY DEF Stop
<1>2. \A s \in DOMAIN subs : ended(s) \in Subscriptions
  <2>1. ASSUME NEW s \in DOMAIN subs PROVE ended(s) \in Subscriptions
    <3>1. subs[s] \in Subscriptions /\ landed \in Nat
      BY SubscriptionTyped DEF TypeOK
    <3> QED BY <3>1 DEF Subscriptions
  <2> QED BY <2>1
<1>3. subs' \in Seq(Subscriptions)
  <2> HIDE DEF ended
  <2>1. DOMAIN subs = 1..Len(subs) /\ Len(subs) \in Nat
    BY DEF TypeOK
  <2> QED BY <1>1, <1>2, <2>1
<1>4. /\ landed' = landed /\ slot' = slot /\ conn' = conn /\ out' = out /\ head' = head
      /\ answered' = answered /\ running' = FALSE /\ stops' = stops + 1
  BY DEF Stop
<1>5. running' \in BOOLEAN
  BY <1>4
<1>8. stops' \in Nat
  BY <1>4 DEF TypeOK
<1>6. landed' \in Nat /\ slot' \in Nat /\ conn' \in Busy
  BY <1>4 DEF TypeOK
<1>7. out' \in Seq(LinesOut) /\ head' \in Heads /\ answered' \in Seq(Nat)
  BY <1>4 DEF TypeOK
<1> QED BY <1>3, <1>5, <1>6, <1>7, <1>8 DEF TypeOK

LEMMA CommandTyped == TypeOK /\ Command => TypeOK'
<1> SUFFICES ASSUME TypeOK, Command PROVE TypeOK'
  OBVIOUS
<1>1. head' \in Heads
  <2>1. head \in Heads /\ head' = [head EXCEPT !.asked = head.asked + 1]
    BY DEF TypeOK, Command
  <2>2. head.asked + 1 \in Nat
    BY <2>1 DEF Heads
  <2> QED BY <2>1, <2>2 DEF Heads
<1>2. conn' \in Busy
  BY DEF Command, Idle, Busy
<1> QED BY <1>1, <1>2 DEF TypeOK, Command

LEMMA AnswerTyped == TypeOK /\ Answer => TypeOK'
<1> SUFFICES ASSUME TypeOK, Answer PROVE TypeOK'
  OBVIOUS
<1>1. landed' \in Nat /\ answered' \in Seq(Nat) /\ Len(answered') \in Nat
  BY DEF TypeOK, Answer
<1>2. conn' \in Busy
  BY <1>1 DEF TypeOK, Answer, Busy
<1> QED BY <1>1, <1>2 DEF TypeOK, Answer

LEMMA RefuseTyped == TypeOK /\ Refuse => TypeOK'
<1> SUFFICES ASSUME TypeOK, Refuse PROVE TypeOK'
  OBVIOUS
<1>1. answered' \in Seq(Nat) /\ Len(answered') \in Nat
  BY DEF TypeOK, Refuse
<1>2. conn' \in Busy
  BY <1>1 DEF TypeOK, Refuse, Busy
<1> QED BY <1>1, <1>2 DEF TypeOK, Refuse

LEMMA IdleTyped == Idle \in Busy /\ Idle.do = "idle"
BY DEF Idle, Busy

\* A reply is handed to the registered forwarder, or written at once without one.
LEMMA ReplyMoves ==
  ASSUME TypeOK, OfSubscriptions, Reply
  PROVE  /\ conn.id \in Nat
         /\ \/ /\ slot = 0 /\ subs' = subs /\ out' = Append(out, Line("reply", 0, conn.id))
            \/ /\ slot \in DOMAIN subs /\ out' = out
               /\ Becomes(slot, [subs[slot] EXCEPT !.replies = Append(@, conn.id)])
               /\ [subs[slot] EXCEPT !.replies = Append(@, conn.id)] \in Subscriptions
<1>1. conn.id \in Nat
  BY DEF TypeOK, Busy
<1>2. CASE slot = 0
  BY <1>1, <1>2 DEF Reply, Write
<1>3. CASE slot # 0
  <2>1. slot \in DOMAIN subs
    BY <1>3 DEF OfSubscriptions, TypeOK
  <2>2. subs[slot] \in Subscriptions /\ subs[slot].replies \in Seq(Nat)
    BY <2>1, SubscriptionTyped
  <2>3. Append(subs[slot].replies, conn.id) \in Seq(Nat)
    BY <1>1, <2>2
  <2> QED BY <1>1, <1>3, <2>1, <2>2, <2>3 DEF Reply, Becomes, Subscriptions
<1> QED BY <1>2, <1>3

LEMMA ReplyTyped == TypeOK /\ OfSubscriptions /\ Reply => TypeOK'
<1> SUFFICES ASSUME TypeOK, OfSubscriptions, Reply PROVE TypeOK'
  OBVIOUS
<1>1. subs \in Seq(Subscriptions) /\ out \in Seq(LinesOut)
  BY DEF TypeOK
<1>2. subs' \in Seq(Subscriptions)
  <2>1. CASE slot = 0 /\ subs' = subs
    BY <1>1, <2>1
  <2>2. CASE slot \in DOMAIN subs
             /\ Becomes(slot, [subs[slot] EXCEPT !.replies = Append(@, conn.id)])
             /\ [subs[slot] EXCEPT !.replies = Append(@, conn.id)] \in Subscriptions
    BY <1>1, <2>2, Replaced DEF Becomes
  <2> QED BY <2>1, <2>2, ReplyMoves
<1>3. out' \in Seq(LinesOut)
  <2>1. conn.id \in Nat /\ 0 \in Nat
    BY ReplyMoves
  <2>2. Line("reply", 0, conn.id) \in LinesOut
    BY <2>1, LineTyped
  <2>3. CASE out' = out
    BY <1>1, <2>3
  <2>4. CASE out' = Append(out, Line("reply", 0, conn.id))
    BY <1>1, <2>2, <2>4, Appended
  <2> QED BY <2>3, <2>4, ReplyMoves
<1>4. conn' \in Busy
  BY IdleTyped DEF Reply
<1> QED BY <1>2, <1>3, <1>4 DEF TypeOK, Reply

\* What a request to subscribe does.
LEMMA SubscribeMoves ==
  ASSUME TypeOK, OfSubscriptions, Subscribe
  PROVE  /\ conn = Idle /\ head' = [head EXCEPT !.mode = "on"]
         /\ \/ UNCHANGED <<subs, slot, conn>>
            \/ /\ Len(subs) < MaxSubs /\ slot' = 0
               /\ conn' = [do |-> "take", id |-> head.last, sub |-> slot]
               /\ \/ slot = 0 /\ subs' = subs
                  \/ /\ slot \in DOMAIN subs
                     /\ Becomes(slot, [subs[slot] EXCEPT !.closed = TRUE])
                     /\ [subs[slot] EXCEPT !.closed = TRUE] \in Subscriptions
<1>1. CASE UNCHANGED <<subs, slot, conn>>
  BY <1>1 DEF Subscribe
<1>2. CASE slot = 0
  BY <1>2 DEF Subscribe, Closed
<1>3. CASE slot # 0 /\ subs' = Closed(slot) /\ slot' = 0
  <2>1. slot \in DOMAIN subs
    BY <1>3 DEF OfSubscriptions, TypeOK
  <2>2. subs[slot] \in Subscriptions
    BY <2>1, SubscriptionTyped
  <2>3. [subs[slot] EXCEPT !.closed = TRUE] \in Subscriptions
    BY <2>2 DEF Subscriptions
  <2> QED BY <1>1, <1>3, <2>1, <2>3 DEF Subscribe, Closed, Becomes
<1> QED BY <1>1, <1>2, <1>3 DEF Subscribe

LEMMA HeadFields ==
  ASSUME TypeOK
  PROVE  /\ head \in Heads /\ head.last \in Nat /\ head.newest \in Nat
         /\ head.got \in [1..MaxSubs -> Nat] /\ head.resynced \in SUBSET Nat
         /\ \A mode \in {"off", "on", "needs"} : [head EXCEPT !.mode = mode] \in Heads
<1>1. head \in Heads
  BY DEF TypeOK
<1> QED BY <1>1 DEF Heads

LEMMA SubscribeTyped == TypeOK /\ OfSubscriptions /\ Subscribe => TypeOK'
<1> SUFFICES ASSUME TypeOK, OfSubscriptions, Subscribe PROVE TypeOK'
  OBVIOUS
<1>0. subs \in Seq(Subscriptions)
  BY DEF TypeOK
<1>1. head' \in Heads
  BY HeadFields, SubscribeMoves
<1>2. subs' \in Seq(Subscriptions)
  <2>1. CASE subs' = subs
    BY <1>0, <2>1
  <2>2. CASE slot \in DOMAIN subs
             /\ Becomes(slot, [subs[slot] EXCEPT !.closed = TRUE])
             /\ [subs[slot] EXCEPT !.closed = TRUE] \in Subscriptions
    BY <1>0, <2>2, Replaced DEF Becomes
  <2> QED BY <2>1, <2>2, SubscribeMoves
<1>3. slot' \in Nat /\ conn' \in Busy
  <2>1. CASE UNCHANGED <<slot, conn>>
    BY <2>1 DEF TypeOK
  <2>2. CASE slot' = 0 /\ conn' = [do |-> "take", id |-> head.last, sub |-> slot]
    BY <2>2, HeadFields DEF TypeOK, Busy
  <2> QED BY <2>1, <2>2, SubscribeMoves
<1>4. running' \in BOOLEAN
  BY DEF Subscribe
<1> QED BY <1>1, <1>2, <1>3, <1>4 DEF TypeOK, Subscribe

\* The subscription that begins: its past ends where its pushes start.
LEMMA BeginMoves ==
  ASSUME TypeOK, Begin
  PROVE  \E n \in Subscriptions :
           /\ subs' = Append(subs, n)
           /\ 1 <= n.first /\ n.back = n.first /\ n.first <= landed + 1
           /\ n.upto = landed /\ n.next = landed + 1
           /\ n.stage = "reading" /\ n.replies = << >> /\ ~n.closed /\ ~n.dropped
<1> DEFINE first == IF head.careful THEN Min({conn.id, landed}) + 1 ELSE landed + 1
           n == [first |-> first, back |-> first,
                 upto |-> IF head.careful THEN Upto ELSE landed,
                 next |-> landed + 1, open |-> TRUE, end |-> 0, stage |-> "reading",
                 replies |-> << >>, holding |-> 0, closed |-> FALSE, pushing |-> TRUE,
                 dropped |-> FALSE]
<1>1. subs' = Append(subs, n)
  BY DEF Begin
<1>2. landed \in Nat /\ conn.id \in Nat
  BY DEF TypeOK, Busy
<1>3. first \in Nat /\ 1 <= first /\ first <= landed + 1
  <2>1. Min({conn.id, landed}) \in Nat /\ Min({conn.id, landed}) <= landed
    BY <1>2, MinOfTwo
  <2> QED BY <1>2, <2>1
<1>4. (IF head.careful THEN Upto ELSE landed) = landed
  BY DEF Upto
<1> HIDE DEF first
<1>5. n \in Subscriptions
  BY <1>2, <1>3, <1>4 DEF Subscriptions, Stages
<1>6. /\ n.first = first /\ n.back = first /\ n.upto = landed /\ n.next = landed + 1
      /\ n.stage = "reading" /\ n.replies = << >> /\ n.closed = FALSE /\ n.dropped = FALSE
  BY <1>4
<1> HIDE DEF n
<1> QED BY <1>1, <1>3, <1>5, <1>6

LEMMA BeginTyped == TypeOK /\ Begin => TypeOK'
<1> SUFFICES ASSUME TypeOK, Begin PROVE TypeOK'
  OBVIOUS
<1>0. subs \in Seq(Subscriptions)
  BY DEF TypeOK
<1>1. subs' \in Seq(Subscriptions)
  BY <1>0, BeginMoves, Appended
<1>2. Len(subs') \in Nat
  BY <1>1
<1>3. conn' \in Busy
  BY <1>2 DEF Begin, Busy
<1> QED BY <1>1, <1>3 DEF TypeOK, Begin

LEMMA MissedTyped == TypeOK /\ Missed => TypeOK'
<1> SUFFICES ASSUME TypeOK, Missed PROVE TypeOK'
  OBVIOUS
<1>1. head' \in Heads
  BY HeadFields DEF Missed
<1>2. conn' \in Busy
  BY IdleTyped DEF Missed
<1> QED BY <1>1, <1>2 DEF TypeOK, Missed

\* The subscription whose past was read starts.
LEMMA AddMoves ==
  ASSUME TypeOK, OfSubscriptions, Add
  PROVE  /\ conn.sub \in DOMAIN subs /\ slot' = conn.sub /\ slot = 0 /\ conn' = Idle
         /\ subs' = [subs EXCEPT ![conn.sub] = [subs[conn.sub] EXCEPT !.stage = "replay"]]
         /\ [subs[conn.sub] EXCEPT !.stage = "replay"] \in Subscriptions
<1>1. conn.sub \in DOMAIN subs /\ slot = 0
  BY DEF OfSubscriptions, Add
<1>2. subs[conn.sub] \in Subscriptions
  BY <1>1, SubscriptionTyped
<1>3. [subs[conn.sub] EXCEPT !.stage = "replay"] \in Subscriptions
  BY <1>2 DEF Subscriptions, Stages
<1> QED BY <1>1, <1>3 DEF Add

LEMMA AddTyped == TypeOK /\ OfSubscriptions /\ Add => TypeOK'
<1> SUFFICES ASSUME TypeOK, OfSubscriptions, Add PROVE TypeOK'
  OBVIOUS
<1>0. subs \in Seq(Subscriptions)
  BY DEF TypeOK
<1>1. subs' \in Seq(Subscriptions)
  BY <1>0, AddMoves, Replaced
<1>2. slot' \in Nat /\ conn' \in Busy
  BY AddMoves, IdleTyped DEF TypeOK, Busy
<1> QED BY <1>1, <1>2 DEF TypeOK, Add

\* The head gives the registered subscription up.
LEMMA UnsubscribeMoves ==
  ASSUME TypeOK, OfSubscriptions, Unsubscribe
  PROVE  /\ slot \in DOMAIN subs /\ slot' = 0 /\ conn = Idle
         /\ Becomes(slot, [subs[slot] EXCEPT !.closed = TRUE, !.dropped = TRUE])
         /\ [subs[slot] EXCEPT !.closed = TRUE, !.dropped = TRUE] \in Subscriptions
<1>1. slot \in DOMAIN subs /\ slot # 0
  BY DEF OfSubscriptions, TypeOK, Unsubscribe
<1>2. subs[slot] \in Subscriptions /\ subs \in Seq(Subscriptions)
  BY <1>1, SubscriptionTyped DEF TypeOK
<1>3. [subs[slot] EXCEPT !.closed = TRUE, !.dropped = TRUE] \in Subscriptions
  BY <1>2 DEF Subscriptions
<1>4. Becomes(slot, [subs[slot] EXCEPT !.closed = TRUE, !.dropped = TRUE])
  BY <1>1, <1>2 DEF Unsubscribe, Closed, Becomes
<1> QED BY <1>1, <1>3, <1>4 DEF Unsubscribe

LEMMA UnsubscribeTyped == TypeOK /\ OfSubscriptions /\ Unsubscribe => TypeOK'
<1> SUFFICES ASSUME TypeOK, OfSubscriptions, Unsubscribe PROVE TypeOK'
  OBVIOUS
<1>0. subs \in Seq(Subscriptions)
  BY DEF TypeOK
<1>1. subs' \in Seq(Subscriptions)
  BY <1>0, UnsubscribeMoves, Replaced DEF Becomes
<1>2. head' \in Heads
  BY HeadFields DEF Unsubscribe
<1>3. slot' \in Nat
  BY UnsubscribeMoves
<1> QED BY <1>1, <1>2, <1>3 DEF TypeOK, Unsubscribe

\* What reading a line changes of the head.
LEMMA ReadMoves ==
  ASSUME TypeOK, OfSubscriptions, Read
  PROVE  /\ out # << >> /\ out' = Tail(out) /\ out[1] \in LinesOut /\ 1 \in DOMAIN out
         /\ head' \in Heads
         /\ head'.newest = Max({head.newest, out[1].sub})
         /\ out[1].kind = "event" => head'.got = [head.got EXCEPT ![out[1].sub] = out[1].n]
         /\ out[1].kind # "event" => head'.got = head.got
         /\ out[1].kind = "resync" => head'.resynced = head.resynced \cup {out[1].sub}
         /\ out[1].kind # "resync" => head'.resynced = head.resynced
<1> DEFINE line == out[1]
           newest == [head EXCEPT !.newest = Max({@, line.sub})]
<1>1. out # << >> /\ out' = Tail(out) /\ out[1] \in LinesOut /\ 1 \in DOMAIN out
  BY WithoutFirst DEF TypeOK, Read
<1>2. /\ line.sub \in Nat /\ line.n \in Nat /\ line.sub <= Len(subs)
      /\ line.kind \in {"event", "resync", "reply"}
      /\ line.kind = "event" => line.sub # 0
  BY <1>1 DEF LinesOut, OfSubscriptions
<1>3. Len(subs) \in Nat /\ Len(subs) <= MaxSubs /\ MaxSubs \in Nat
  BY DeliveryLimits DEF TypeOK, OfSubscriptions
<1>4. Max({head.newest, line.sub}) \in Nat
  BY <1>2, HeadFields, MaxOfTwo
<1>5. newest \in Heads /\ newest.newest = Max({head.newest, line.sub})
      /\ newest.got = head.got /\ newest.resynced = head.resynced
      /\ newest.last = head.last /\ newest.mode = head.mode
  BY <1>4, HeadFields DEF Heads
<1>6. head' = CASE line.kind = "event" ->
                     [newest EXCEPT !.got[line.sub] = line.n, !.last = Max({@, line.n})]
                [] line.kind = "resync" ->
                     [newest EXCEPT !.resynced = @ \union {line.sub},
                                    !.mode = IF @ = "on" THEN "needs" ELSE @]
                [] OTHER -> newest
  BY DEF Read
<1> HIDE DEF newest
<1>7. CASE line.kind = "event"
  <2>1. Max({newest.last, line.n}) \in Nat
    BY <1>2, <1>5, HeadFields, MaxOfTwo
  <2>2. line.sub \in 1..MaxSubs
    BY <1>2, <1>3, <1>7
  <2>3. head' = [newest EXCEPT !.got[line.sub] = line.n, !.last = Max({newest.last, line.n})]
    BY <1>6, <1>7
  <2>4. [newest.got EXCEPT ![line.sub] = line.n] \in [1..MaxSubs -> Nat]
    BY <1>2, <1>5, <2>2, HeadFields
  <2>5. head' \in Heads /\ head'.newest = newest.newest
        /\ head'.got = [newest.got EXCEPT ![line.sub] = line.n]
        /\ head'.resynced = newest.resynced
    BY <1>5, <2>1, <2>3, <2>4 DEF Heads
  <2> QED BY <1>1, <1>5, <1>7, <2>5
<1>8. CASE line.kind = "resync"
  <2>1. head' = [newest EXCEPT !.resynced = newest.resynced \union {line.sub},
                               !.mode = IF newest.mode = "on" THEN "needs" ELSE newest.mode]
    BY <1>6, <1>8
  <2>2. newest.resynced \union {line.sub} \in SUBSET Nat
    BY <1>2, <1>5, HeadFields
  <2>3. (IF newest.mode = "on" THEN "needs" ELSE newest.mode) \in {"off", "on", "needs"}
    BY <1>5 DEF Heads
  <2>4. head' \in Heads /\ head'.newest = newest.newest /\ head'.got = newest.got
        /\ head'.resynced = newest.resynced \union {line.sub}
    BY <1>5, <2>1, <2>2, <2>3 DEF Heads
  <2> QED BY <1>1, <1>5, <1>8, <2>4
<1>9. CASE line.kind = "reply"
  <2>1. head' = newest
    BY <1>6, <1>9
  <2> QED BY <1>1, <1>5, <1>9, <2>1
<1> QED BY <1>2, <1>7, <1>8, <1>9

LEMMA ReadTyped == TypeOK /\ OfSubscriptions /\ Read => TypeOK'
<1> SUFFICES ASSUME TypeOK, OfSubscriptions, Read PROVE TypeOK'
  OBVIOUS
<1>1. out' \in Seq(LinesOut)
  BY ReadMoves DEF TypeOK
<1> QED BY <1>1, ReadMoves DEF TypeOK, Read

LEMMA ForwarderTyped ==
  ASSUME TypeOK, NEW s \in DOMAIN subs, Replay(s) \/ Relay(s) \/ Finish(s)
  PROVE  TypeOK'
BY ForwarderSteps, ForwarderKeeps DEF TypeOK

LEMMA NextTyped == TypeOK /\ OfSubscriptions /\ [Next]_vars => TypeOK'
<1> SUFFICES ASSUME TypeOK, OfSubscriptions, [Next]_vars PROVE TypeOK'
  OBVIOUS
<1>1. CASE UNCHANGED vars
  BY <1>1 DEF TypeOK, vars
<1>2. CASE \E s \in DOMAIN subs : Replay(s) \/ Relay(s) \/ Finish(s)
  BY <1>2, ForwarderTyped
<1> QED BY <1>1, <1>2, LandTyped, StopTyped, CommandTyped, AnswerTyped, RefuseTyped,
           ReplyTyped, SubscribeTyped, BeginTyped, MissedTyped, AddTyped, UnsubscribeTyped,
           ReadTyped DEF Next, Work

----------------------------------------------------------------------------
(***************************************************************************)
(* Steps that leave what was written as it is: all but those of a          *)
(* forwarder, the begin of a subscription and the reading of a line.       *)
(***************************************************************************)
SameLines(o, n) ==
  /\ n.first = o.first /\ n.back = o.back /\ n.upto = o.upto /\ n.next = o.next
  /\ n.holding = o.holding /\ (o.dropped => n.dropped) /\ (o.closed => n.closed)
  /\ n.stage = o.stage \/ (o.stage = "reading" /\ n.stage = "replay")
  /\ \/ n.replies = o.replies
     \/ ~o.closed /\ conn.do = "reply" /\ n.replies = Append(o.replies, conn.id)

Aside ==
  /\ DOMAIN subs' = DOMAIN subs /\ Len(subs') = Len(subs)
  /\ \A s \in DOMAIN subs : SameLines(subs[s], subs'[s])
  /\ \/ out' = out
     \/ /\ out' = Append(out, Line("reply", 0, conn.id)) /\ conn.id \in Nat
        /\ conn.do = "reply"
  /\ head'.got = head.got /\ head'.newest = head.newest /\ head'.resynced = head.resynced
  /\ \A id \in DOMAIN answered : id \in DOMAIN answered' /\ answered'[id] = answered[id]

LEMMA AsideBecomes ==
  ASSUME TypeOK, NEW s \in DOMAIN subs,
         \E n \in Subscriptions : Becomes(s, n) /\ SameLines(subs[s], n)
  PROVE  /\ DOMAIN subs' = DOMAIN subs /\ Len(subs') = Len(subs)
         /\ \A t \in DOMAIN subs : SameLines(subs[t], subs'[t])
<1>1. PICK n \in Subscriptions : Becomes(s, n) /\ SameLines(subs[s], n)
  OBVIOUS
<1>2. subs \in Seq(Subscriptions)
  BY DEF TypeOK
<1>3. /\ DOMAIN subs' = DOMAIN subs /\ Len(subs') = Len(subs)
      /\ subs'[s] = n /\ \A t \in DOMAIN subs : t # s => subs'[t] = subs[t]
  BY <1>1, <1>2, Replaced DEF Becomes
<1>4. \A t \in DOMAIN subs : SameLines(subs[t], subs[t])
  BY DEF SameLines
<1> QED BY <1>1, <1>3, <1>4

LEMMA AsideSteps ==
  ASSUME TypeOK, OfSubscriptions, BeingRead, ClosedIsOut,
         \/ Land \/ Stop \/ Command \/ Answer \/ Refuse \/ Reply \/ Subscribe \/ Missed
         \/ Add \/ Unsubscribe \/ UNCHANGED vars
  PROVE  Aside
<1>1. \A s \in DOMAIN subs : SameLines(subs[s], subs[s])
  BY DEF SameLines
<1>2. answered \in Seq(Nat) /\ head \in Heads
  BY DEF TypeOK
<1>3. CASE Land \/ UNCHANGED vars
  BY <1>1, <1>3 DEF Aside, Land, vars
<1>4. CASE Stop
  <2>1. ASSUME NEW s \in DOMAIN subs PROVE SameLines(subs[s], subs'[s])
    <3>1. subs[s] \in Subscriptions
      BY SubscriptionTyped
    <3>2. subs'[s] = subs[s]
            \/ subs'[s] = [subs[s] EXCEPT !.open = FALSE, !.end = landed]
      BY <1>4 DEF Stop
    <3> QED BY <3>1, <3>2 DEF SameLines, Subscriptions
  <2>2. DOMAIN subs' = DOMAIN subs
    BY <1>4 DEF Stop
  <2>3. subs \in Seq(Subscriptions) /\ subs' \in Seq(Subscriptions)
    BY <1>4, StopTyped DEF TypeOK
  <2>4. Len(subs') = Len(subs)
    BY <2>2, <2>3
  <2> QED BY <1>4, <2>1, <2>2, <2>4 DEF Aside, Stop
<1>5. CASE Command
  <2>1. head'.got = head.got /\ head'.newest = head.newest /\ head'.resynced = head.resynced
    BY <1>2, <1>5 DEF Command, Heads
  <2> QED BY <1>1, <1>5, <2>1 DEF Aside, Command
<1>6. CASE Answer \/ Refuse
  <2>1. \A id \in DOMAIN answered : id \in DOMAIN answered' /\ answered'[id] = answered[id]
    <3>1. landed + 1 \in Nat /\ 0 \in Nat
      BY DEF TypeOK
    <3>2. \E k \in Nat : answered' = Append(answered, k)
      BY <1>6, <3>1 DEF Answer, Refuse
    <3> QED BY <1>2, <3>2, Appended
  <2> QED BY <1>1, <1>6, <2>1 DEF Aside, Answer, Refuse
<1>7. CASE Reply
  <2>1. CASE slot = 0 /\ subs' = subs /\ out' = Append(out, Line("reply", 0, conn.id))
    BY <1>1, <1>7, <2>1, ReplyMoves DEF Aside, Reply
  <2>2. CASE /\ slot \in DOMAIN subs /\ out' = out
             /\ Becomes(slot, [subs[slot] EXCEPT !.replies = Append(@, conn.id)])
             /\ [subs[slot] EXCEPT !.replies = Append(@, conn.id)] \in Subscriptions
    <3>1. subs[slot] \in Subscriptions
      BY <2>2, SubscriptionTyped
    <3>2. SameLines(subs[slot], [subs[slot] EXCEPT !.replies = Append(@, conn.id)])
      <4>1. ~subs[slot].closed /\ conn.do = "reply"
        BY <1>7, <2>2, SubscriptionTyped DEF ClosedIsOut, Reply
      <4> QED BY <3>1, <4>1 DEF SameLines, Subscriptions
    <3>3. /\ DOMAIN subs' = DOMAIN subs /\ Len(subs') = Len(subs)
          /\ \A t \in DOMAIN subs : SameLines(subs[t], subs'[t])
      BY <2>2, <3>2, AsideBecomes
    <3> QED BY <1>7, <2>2, <3>3 DEF Aside, Reply
  <2> QED BY <1>7, <2>1, <2>2, ReplyMoves
<1>8. CASE Subscribe
  <2>1. head'.got = head.got /\ head'.newest = head.newest /\ head'.resynced = head.resynced
    BY <1>2, <1>8, SubscribeMoves DEF Heads
  <2>2. CASE subs' = subs
    BY <1>1, <1>8, <2>1, <2>2 DEF Aside, Subscribe
  <2>3. CASE /\ slot \in DOMAIN subs
             /\ Becomes(slot, [subs[slot] EXCEPT !.closed = TRUE])
             /\ [subs[slot] EXCEPT !.closed = TRUE] \in Subscriptions
    <3>1. subs[slot] \in Subscriptions
      BY <2>3, SubscriptionTyped
    <3>2. SameLines(subs[slot], [subs[slot] EXCEPT !.closed = TRUE])
      BY <3>1 DEF SameLines, Subscriptions
    <3>3. /\ DOMAIN subs' = DOMAIN subs /\ Len(subs') = Len(subs)
          /\ \A t \in DOMAIN subs : SameLines(subs[t], subs'[t])
      BY <2>3, <3>2, AsideBecomes
    <3> QED BY <1>8, <2>1, <3>3 DEF Aside, Subscribe
  <2> QED BY <1>8, <2>2, <2>3, SubscribeMoves
<1>9. CASE Missed
  <2>1. head'.got = head.got /\ head'.newest = head.newest /\ head'.resynced = head.resynced
    BY <1>2, <1>9 DEF Missed, Heads
  <2> QED BY <1>1, <1>9, <2>1 DEF Aside, Missed
<1>10. CASE Add
  <2>1. conn.sub \in DOMAIN subs /\ subs[conn.sub].stage = "reading"
    BY <1>10, AddMoves DEF BeingRead, Add
  <2>2. subs[conn.sub] \in Subscriptions
    BY <2>1, SubscriptionTyped
  <2>3. SameLines(subs[conn.sub], [subs[conn.sub] EXCEPT !.stage = "replay"])
    BY <2>1, <2>2 DEF SameLines, Subscriptions
  <2>4. /\ DOMAIN subs' = DOMAIN subs /\ Len(subs') = Len(subs)
        /\ \A t \in DOMAIN subs : SameLines(subs[t], subs'[t])
    BY <1>10, <2>1, <2>3, AddMoves, AsideBecomes DEF Becomes
  <2> QED BY <1>10, <2>4 DEF Aside, Add
<1>11. CASE Unsubscribe
  <2>1. slot \in DOMAIN subs
    BY <1>11, UnsubscribeMoves
  <2>2. subs[slot] \in Subscriptions
    BY <2>1, SubscriptionTyped
  <2>3. SameLines(subs[slot], [subs[slot] EXCEPT !.closed = TRUE, !.dropped = TRUE])
    BY <2>2 DEF SameLines, Subscriptions
  <2>4. /\ DOMAIN subs' = DOMAIN subs /\ Len(subs') = Len(subs)
        /\ \A t \in DOMAIN subs : SameLines(subs[t], subs'[t])
    BY <1>11, <2>1, <2>3, UnsubscribeMoves, AsideBecomes
  <2>5. head'.got = head.got /\ head'.newest = head.newest /\ head'.resynced = head.resynced
    BY <1>2, <1>11 DEF Unsubscribe, Heads
  <2> QED BY <1>11, <2>4, <2>5 DEF Aside, Unsubscribe
<1> QED BY <1>3, <1>4, <1>5, <1>6, <1>7, <1>8, <1>9, <1>10, <1>11

----------------------------------------------------------------------------
(***************************************************************************)
(* The past joins the pushes.                                              *)
(***************************************************************************)
LEMMA AsidePast == TypeOK /\ PastJoins /\ Aside => PastJoins'
<1> SUFFICES ASSUME TypeOK, PastJoins, Aside, NEW s \in DOMAIN subs
             PROVE  Past(s)'
  BY DEF PastJoins, Aside
<1>1. SameLines(subs[s], subs'[s]) /\ Past(s)
  BY DEF Aside, PastJoins
<1> QED BY <1>1 DEF SameLines, Past

LEMMA BeginPast == TypeOK /\ PastJoins /\ Begin => PastJoins'
<1> SUFFICES ASSUME TypeOK, PastJoins, Begin, NEW s \in DOMAIN subs'
             PROVE  Past(s)'
  BY DEF PastJoins
<1>1. PICK n \in Subscriptions :
        /\ subs' = Append(subs, n)
        /\ 1 <= n.first /\ n.back = n.first /\ n.first <= landed + 1
        /\ n.upto = landed /\ n.next = landed + 1 /\ n.stage = "reading"
  BY BeginMoves
<1>2. subs \in Seq(Subscriptions) /\ landed \in Nat
  BY DEF TypeOK
<1>3. /\ DOMAIN subs' = DOMAIN subs \cup {Len(subs) + 1} /\ subs'[Len(subs) + 1] = n
      /\ \A t \in DOMAIN subs : subs'[t] = subs[t]
  BY <1>1, <1>2, Appended
<1>4. CASE s \in DOMAIN subs
  BY <1>3, <1>4 DEF PastJoins, Past
<1>5. CASE s = Len(subs) + 1
  <2>1. n.first \in Nat
    BY DEF Subscriptions
  <2> QED BY <1>1, <1>2, <1>3, <1>5, <2>1 DEF Past
<1> QED BY <1>3, <1>4, <1>5

LEMMA ForwarderPast ==
  ASSUME TypeOK, PastJoins, NEW s \in DOMAIN subs, Replay(s) \/ Relay(s) \/ Finish(s)
  PROVE  PastJoins'
<1>0. subs \in Seq(Subscriptions) /\ Past(s)
  BY DEF TypeOK, PastJoins
<1>1. /\ DOMAIN subs' = DOMAIN subs /\ subs' \in Seq(Subscriptions)
      /\ \A t \in DOMAIN subs : t # s => subs'[t] = subs[t]
  BY ForwarderKeeps
<1>2. /\ subs[s].first \in Nat /\ subs[s].back \in Nat /\ subs[s].upto \in Nat
      /\ subs[s].next \in Nat /\ subs[s] \in Subscriptions
  BY SubscriptionTyped
<1>3. \A n : Becomes(s, n) => subs'[s] = n
  BY <1>0 DEF Becomes
<1>4. Past(s)'
  <2>1. CASE WritesPast(s)
    <3>1. subs'[s] = [subs[s] EXCEPT !.back = @ + 1] /\ subs[s].stage = "replay"
          /\ subs[s].back <= subs[s].upto
      BY <1>3, <2>1 DEF WritesPast
    <3>2. /\ subs'[s].back = subs[s].back + 1 /\ subs'[s].next = subs[s].next
          /\ subs'[s].first = subs[s].first /\ subs'[s].upto = subs[s].upto
          /\ subs'[s].stage = "replay"
      BY <1>2, <3>1 DEF Subscriptions
    <3> QED BY <1>0, <1>2, <3>1, <3>2 DEF Past
  <2>2. CASE WritesPush(s)
    <3>1. subs'[s] = [subs[s] EXCEPT !.next = @ + 1] /\ subs[s].stage \in {"relay", "draining"}
      BY <1>3, <2>2 DEF WritesPush
    <3>2. /\ subs'[s].back = subs[s].back /\ subs'[s].next = subs[s].next + 1
          /\ subs'[s].first = subs[s].first /\ subs'[s].upto = subs[s].upto
          /\ subs'[s].stage = subs[s].stage
      BY <1>2, <3>1 DEF Subscriptions
    <3> QED BY <1>0, <1>2, <3>1, <3>2 DEF Past
  <2>3. CASE GivesUp(s)
    <3>1. /\ subs[s].stage \in {"relay", "draining"}
          /\ \/ subs'[s] = [subs[s] EXCEPT !.stage = "ended"]
             \/ subs'[s] = [subs[s] EXCEPT !.stage = "replying"]
      BY <1>3, <2>3 DEF GivesUp
    <3>2. /\ subs'[s].back = subs[s].back /\ subs'[s].next = subs[s].next
          /\ subs'[s].first = subs[s].first /\ subs'[s].upto = subs[s].upto
          /\ subs'[s].stage \notin {"reading", "replay"}
      BY <1>2, <3>1 DEF Subscriptions
    <3>3. subs[s].stage \notin {"reading", "replay"}
      BY <3>1
    <3> QED BY <1>0, <1>2, <3>2, <3>3 DEF Past
  <2>4. CASE WritesReply(s)
    <3>1. /\ subs[s].stage \in {"draining", "replying", "flush"}
          /\ \/ subs'[s] = [subs[s] EXCEPT !.stage = "relay"]
             \/ subs'[s] = [subs[s] EXCEPT !.stage = "ended"]
             \/ subs'[s] = [subs[s] EXCEPT !.replies = Tail(@)]
      BY <1>3, <2>4 DEF WritesReply
    <3>2. /\ subs'[s].back = subs[s].back /\ subs'[s].next = subs[s].next
          /\ subs'[s].first = subs[s].first /\ subs'[s].upto = subs[s].upto
          /\ subs'[s].stage \notin {"reading", "replay"}
      BY <1>2, <3>1 DEF Subscriptions
    <3>3. subs[s].stage \notin {"reading", "replay"}
      BY <3>1
    <3> QED BY <1>0, <1>2, <3>2, <3>3 DEF Past
  <2>5. CASE Moves(s)
    <3>1. CASE /\ subs[s].stage = "replay" /\ subs[s].back > subs[s].upto
               /\ Becomes(s, [subs[s] EXCEPT !.stage = "relay"])
      <4>1. subs'[s] = [subs[s] EXCEPT !.stage = "relay"]
        BY <1>3, <3>1
      <4> QED BY <1>0, <1>2, <3>1, <4>1 DEF Past, Subscriptions
    <3>2. CASE ~(subs[s].stage = "replay")
      <4>1. /\ subs[s].stage \in {"relay", "ended", "flush"}
            /\ \/ subs'[s] = [subs[s] EXCEPT !.stage = "draining", !.replies = Tail(@),
                                             !.holding = subs[s].replies[1]]
               \/ subs'[s] = [subs[s] EXCEPT !.stage = "ended"]
               \/ subs'[s] = [subs[s] EXCEPT !.stage = "flush", !.pushing = FALSE]
               \/ subs'[s] = [subs[s] EXCEPT !.stage = "gone", !.open = FALSE, !.end = Pushed(s)]
        BY <1>3, <2>5, <3>2 DEF Moves
      <4> QED BY <1>0, <1>2, <4>1 DEF Past, Subscriptions
    <3> QED BY <2>5, <3>1, <3>2 DEF Moves
  <2> QED BY <2>1, <2>2, <2>3, <2>4, <2>5, ForwarderSteps
<1>5. ASSUME NEW t \in DOMAIN subs, t # s
      PROVE  Past(t)'
  BY <1>1, <1>5 DEF PastJoins, Past
<1> QED BY <1>1, <1>4, <1>5 DEF PastJoins

LEMMA ReadPast == PastJoins /\ Read => PastJoins'
BY DEF PastJoins, Past, Read

----------------------------------------------------------------------------
(***************************************************************************)
(* What was written and not read is the events in between.                 *)
(***************************************************************************)
LEMMA Positions ==
  ASSUME TypeOK, OfSubscriptions, PastJoins, NEW s \in DOMAIN subs
  PROVE  s \in 1..MaxSubs /\ head.got[s] \in Nat /\ Got(s) \in Nat /\ Position(s) \in Nat
<1>1. s \in 1..MaxSubs
  <2>1. s \in Nat /\ 1 <= s /\ s <= Len(subs) /\ Len(subs) \in Nat
    BY DEF TypeOK
  <2> QED BY <2>1, DeliveryLimits DEF OfSubscriptions
<1>2. head.got[s] \in Nat
  BY <1>1, HeadFields
<1>3. /\ subs[s].first \in Nat /\ 1 <= subs[s].first
      /\ subs[s].back \in Nat /\ subs[s].next \in Nat
  BY SubscriptionTyped DEF PastJoins, Past
<1> QED BY <1>1, <1>2, <1>3 DEF Got, Position

LEMMA AsideChained ==
  TypeOK /\ OfSubscriptions /\ PastJoins /\ EventsChained /\ Aside => EventsChained'
<1> SUFFICES ASSUME TypeOK, OfSubscriptions, PastJoins, EventsChained, Aside,
                    NEW s \in DOMAIN subs
             PROVE  Chained(s)'
  BY DEF EventsChained, Aside
<1>1. SameLines(subs[s], subs'[s]) /\ Chained(s) /\ Past(s)
  BY DEF Aside, EventsChained, PastJoins
<1>2. /\ Got(s) \in Nat /\ Position(s) \in Nat /\ out \in Seq(LinesOut)
      /\ subs[s].next \in Nat /\ subs[s].upto \in Nat
  BY Positions, SubscriptionTyped DEF TypeOK
<1>3. Got(s)' = Got(s) /\ subs'[s].first = subs[s].first
  BY <1>1 DEF Got, SameLines, Aside
<1>4. Position(s)' = Position(s)
  BY <1>1, <1>2 DEF Position, SameLines, Past
<1>5. Chain(out', s, Got(s), Position(s))
  <2>1. CASE out' = out
    BY <1>1, <2>1 DEF Chained
  <2>2. CASE out' = Append(out, Line("reply", 0, conn.id)) /\ conn.id \in Nat
    <3>1. /\ Line("reply", 0, conn.id) \in LinesOut
          /\ Line("reply", 0, conn.id).kind = "reply"
      BY <2>2, LineTyped
    <3>2. ~IsEvent(Line("reply", 0, conn.id), s)
      BY <3>1 DEF IsEvent
    <3> QED BY <1>1, <1>2, <2>2, <3>1, <3>2, ChainApart DEF Chained
  <2> QED BY <2>1, <2>2 DEF Aside
<1> QED BY <1>1, <1>3, <1>4, <1>5 DEF Chained

LEMMA BeginChained ==
  TypeOK /\ OfSubscriptions /\ PastJoins /\ EventsChained /\ UnreadAhead /\ Begin
    => EventsChained'
<1> SUFFICES ASSUME TypeOK, OfSubscriptions, PastJoins, EventsChained, UnreadAhead, Begin,
                    NEW s \in DOMAIN subs'
             PROVE  Chained(s)'
  BY DEF EventsChained
<1>1. PICK n \in Subscriptions :
        /\ subs' = Append(subs, n)
        /\ 1 <= n.first /\ n.back = n.first /\ n.stage = "reading"
  BY BeginMoves
<1>2. subs \in Seq(Subscriptions) /\ out \in Seq(LinesOut) /\ Len(subs) \in Nat
  BY DEF TypeOK
<1>3. /\ DOMAIN subs' = DOMAIN subs \cup {Len(subs) + 1} /\ subs'[Len(subs) + 1] = n
      /\ \A t \in DOMAIN subs : subs'[t] = subs[t]
  BY <1>1, <1>2, Appended
<1>4. out' = out /\ head' = head
  BY DEF Begin
<1>5. CASE s \in DOMAIN subs
  BY <1>3, <1>4, <1>5 DEF EventsChained, Chained, Got, Position
<1>6. CASE s = Len(subs) + 1
  <2>1. head.got[s] = 0
    <3>1. Len(subs) < MaxSubs
      BY DEF Begin, Taken, OfSubscriptions
    <3> QED BY <1>2, <1>6, <3>1, DeliveryLimits DEF UnreadAhead
  <2>2. n.first \in Nat
    BY DEF Subscriptions
  <2>3. Got(s)' = n.first - 1 /\ Position(s)' = n.first
    BY <1>1, <1>3, <1>4, <1>6, <2>1 DEF Got, Position
  <2>4. \A i \in DOMAIN out : ~IsEvent(out[i], s)
    <3>1. \A i \in DOMAIN out : out[i].sub <= Len(subs) /\ out[i].sub \in Nat
      <4>1. \A i \in DOMAIN out : out[i] \in LinesOut
        BY <1>2
      <4> QED BY <4>1 DEF OfSubscriptions, LinesOut
    <3> QED BY <1>2, <1>6, <3>1 DEF IsEvent
  <2>5. (n.first - 1 + 1)..(n.first - 1) = {}
    BY <2>2
  <2>6. Chain(out, s, n.first - 1, n.first)
    BY <2>2, <2>4, <2>5 DEF Chain
  <2> QED BY <1>3, <1>4, <1>6, <2>2, <2>3, <2>6 DEF Chained
<1> QED BY <1>3, <1>5, <1>6

LEMMA ReadChained ==
  TypeOK /\ OfSubscriptions /\ PastJoins /\ EventsChained /\ Read => EventsChained'
<1> SUFFICES ASSUME TypeOK, OfSubscriptions, PastJoins, EventsChained, Read,
                    NEW s \in DOMAIN subs
             PROVE  Chained(s)'
  BY DEF EventsChained, Read
<1>1. subs' = subs /\ out # << >> /\ out' = Tail(out) /\ out \in Seq(LinesOut)
      /\ out[1] \in LinesOut /\ head.got \in [1..MaxSubs -> Nat]
  BY ReadMoves, HeadFields DEF Read, TypeOK
<1>2. /\ s \in 1..MaxSubs /\ Got(s) \in Nat /\ Position(s) \in Nat /\ Got(s) \in Int
      /\ Chained(s) /\ subs[s].first \in Nat
  BY Positions, SubscriptionTyped DEF EventsChained
<1>3. Position(s)' = Position(s)
  BY <1>1 DEF Position
<1>4. CASE IsEvent(out[1], s)
  <2>1. head'.got[s] = out[1].n
    BY <1>1, <1>2, <1>4, ReadMoves DEF IsEvent
  <2>2. out[1].n = Got(s) + 1 /\ Chain(out', s, Got(s) + 1, Position(s))
    BY <1>1, <1>2, <1>4, ChainRead DEF Chained
  <2>3. Got(s)' = Got(s) + 1
    BY <1>2, <2>1, <2>2 DEF Got
  <2>4. subs[s].first - 1 <= Got(s) + 1
    BY <1>2 DEF Chained
  <2> QED BY <1>1, <1>3, <2>2, <2>3, <2>4 DEF Chained
<1>5. CASE ~IsEvent(out[1], s)
  <2>1. head'.got[s] = head.got[s]
    <3>1. CASE out[1].kind = "event"
      <4>1. out[1].sub # s
        BY <1>5, <3>1 DEF IsEvent
      <4> QED BY <1>1, <1>2, <3>1, <4>1, ReadMoves
    <3>2. CASE out[1].kind # "event"
      BY <3>2, ReadMoves
    <3> QED BY <3>1, <3>2
  <2>2. Got(s)' = Got(s)
    BY <1>1, <2>1 DEF Got
  <2>3. Chain(out', s, Got(s), Position(s))
    BY <1>1, <1>2, <1>5, ChainSpared DEF Chained
  <2> QED BY <1>1, <1>2, <1>3, <2>2, <2>3 DEF Chained
<1> QED BY <1>4, <1>5

\* A forwarder's line is an event at its position, or none.
LEMMA ForwarderLine ==
  ASSUME TypeOK, PastJoins, NEW s \in DOMAIN subs, Replay(s) \/ Relay(s) \/ Finish(s)
  PROVE  \/ /\ Says(s, "event", Position(s)) /\ Position(s)' = Position(s) + 1
         \/ /\ Position(s)' = Position(s)
            /\ \/ out' = out
               \/ \E kind \in {"resync", "reply"}, n \in Nat : Says(s, kind, n)
<1>0. subs \in Seq(Subscriptions) /\ Past(s)
  BY DEF TypeOK, PastJoins
<1>2. /\ subs[s].first \in Nat /\ subs[s].back \in Nat /\ subs[s].upto \in Nat
      /\ subs[s].next \in Nat /\ subs[s] \in Subscriptions /\ 0 \in Nat
      /\ subs[s].holding \in Nat /\ subs[s].replies \in Seq(Nat)
  BY SubscriptionTyped
<1>3. \A n : Becomes(s, n) => subs'[s] = n
  BY <1>0 DEF Becomes
<1>4. CASE WritesPast(s)
  <2>1. subs'[s] = [subs[s] EXCEPT !.back = @ + 1] /\ subs[s].stage = "replay"
        /\ Says(s, "event", subs[s].back)
    BY <1>3, <1>4 DEF WritesPast
  <2> QED BY <1>2, <2>1 DEF Position, Subscriptions
<1>5. CASE WritesPush(s)
  <2>1. subs'[s] = [subs[s] EXCEPT !.next = @ + 1] /\ subs[s].stage \in {"relay", "draining"}
        /\ Says(s, "event", subs[s].next)
    BY <1>3, <1>5 DEF WritesPush
  <2> QED BY <1>2, <2>1 DEF Position, Subscriptions
<1>6. CASE GivesUp(s)
  <2>1. /\ subs[s].stage \in {"relay", "draining"} /\ Says(s, "resync", 0)
        /\ \/ subs'[s] = [subs[s] EXCEPT !.stage = "ended"]
           \/ subs'[s] = [subs[s] EXCEPT !.stage = "replying"]
    BY <1>3, <1>6 DEF GivesUp
  <2>2. Position(s)' = Position(s)
    BY <1>2, <2>1 DEF Position, Subscriptions
  <2> QED BY <1>2, <2>1, <2>2
<1>7. CASE WritesReply(s)
  <2>1. /\ subs[s].stage \in {"draining", "replying", "flush"}
        /\ \/ subs'[s] = [subs[s] EXCEPT !.stage = "relay"]
           \/ subs'[s] = [subs[s] EXCEPT !.stage = "ended"]
           \/ subs'[s] = [subs[s] EXCEPT !.replies = Tail(@)]
    BY <1>3, <1>7 DEF WritesReply
  <2>2. Position(s)' = Position(s)
    BY <1>2, <2>1 DEF Position, Subscriptions
  <2>3. \E n \in Nat : Says(s, "reply", n)
    <3>1. subs[s].replies # << >> => subs[s].replies[1] \in Nat
      BY <1>2
    <3> QED BY <1>2, <1>7, <3>1 DEF WritesReply
  <2> QED BY <2>2, <2>3
<1>8. CASE Moves(s)
  <2>1. Position(s)' = Position(s)
    <3>1. CASE subs[s].stage = "replay"
      <4>1. subs[s].back > subs[s].upto /\ subs'[s] = [subs[s] EXCEPT !.stage = "relay"]
        BY <1>3, <1>8, <3>1 DEF Moves
      <4>2. subs[s].next = subs[s].back
        BY <1>0, <1>2, <3>1, <4>1 DEF Past
      <4> QED BY <1>2, <3>1, <4>1, <4>2 DEF Position, Subscriptions
    <3>2. CASE subs[s].stage # "replay"
      <4>1. /\ subs[s].stage \in {"relay", "ended", "flush"}
            /\ \/ subs'[s] = [subs[s] EXCEPT !.stage = "draining", !.replies = Tail(@),
                                             !.holding = subs[s].replies[1]]
               \/ subs'[s] = [subs[s] EXCEPT !.stage = "ended"]
               \/ subs'[s] = [subs[s] EXCEPT !.stage = "flush", !.pushing = FALSE]
               \/ subs'[s] = [subs[s] EXCEPT !.stage = "gone", !.open = FALSE, !.end = Pushed(s)]
        BY <1>3, <1>8, <3>2 DEF Moves
      <4> QED BY <1>2, <4>1 DEF Position, Subscriptions
    <3> QED BY <3>1, <3>2
  <2> QED BY <1>8, <2>1 DEF Moves
<1> QED BY <1>4, <1>5, <1>6, <1>7, <1>8, ForwarderSteps

LEMMA ForwarderChained ==
  ASSUME TypeOK, OfSubscriptions, PastJoins, EventsChained, NEW s \in DOMAIN subs,
         Replay(s) \/ Relay(s) \/ Finish(s)
  PROVE  EventsChained'
<1> SUFFICES ASSUME NEW t \in DOMAIN subs
             PROVE  Chained(t)'
  BY ForwarderKeeps DEF EventsChained
<1>1. /\ head' = head /\ out \in Seq(LinesOut) /\ Chained(t) /\ s \in Nat
      /\ Got(t) \in Nat /\ Got(t) \in Int /\ Position(t) \in Nat /\ Position(s) \in Nat
  BY Positions, SubscriptionTyped, ForwarderSteps DEF TypeOK, EventsChained
<1>2. subs'[t].first = subs[t].first
  BY ForwarderKeeps
<1>3. Got(t)' = Got(t)
  BY <1>1, <1>2 DEF Got
<1>4. t # s => Position(t)' = Position(t)
  BY ForwarderKeeps DEF Position
<1>5. CASE Says(s, "event", Position(s)) /\ Position(s)' = Position(s) + 1
  <2> DEFINE line == Line("event", s, Position(s))
  <2>1. line \in LinesOut /\ line.kind = "event" /\ line.sub = s /\ line.n = Position(s)
    BY <1>1, LineTyped
  <2>2. out' = Append(out, line)
    BY <1>5 DEF Says
  <2> HIDE DEF line
  <2>3. CASE t = s
    <3>1. IsEvent(line, s)
      BY <2>1 DEF IsEvent
    <3>2. Chain(out', s, Got(s), Position(s) + 1)
      BY <1>1, <2>1, <2>2, <2>3, <3>1, ChainGrows DEF Chained
    <3> QED BY <1>1, <1>2, <1>3, <1>5, <2>3, <3>2 DEF Chained
  <2>4. CASE t # s
    <3>1. ~IsEvent(line, t)
      BY <2>1, <2>4 DEF IsEvent
    <3>2. Chain(out', t, Got(t), Position(t))
      BY <1>1, <2>1, <2>2, <3>1, ChainApart DEF Chained
    <3> QED BY <1>1, <1>2, <1>3, <1>4, <2>4, <3>2 DEF Chained
  <2> QED BY <2>3, <2>4
<1>6. CASE Position(s)' = Position(s) /\ out' = out
  BY <1>1, <1>2, <1>3, <1>4, <1>6 DEF Chained
<1>7. CASE /\ Position(s)' = Position(s)
           /\ \E kind \in {"resync", "reply"}, n \in Nat : Says(s, kind, n)
  <2>1. PICK kind \in {"resync", "reply"}, n \in Nat : Says(s, kind, n)
    BY <1>7
  <2>2. Line(kind, s, n) \in LinesOut /\ Line(kind, s, n).kind = kind
    BY <1>1, LineTyped
  <2>3. ~IsEvent(Line(kind, s, n), t)
    BY <2>2 DEF IsEvent
  <2>4. Chain(out', t, Got(t), Position(t))
    BY <1>1, <2>1, <2>2, <2>3, ChainApart DEF Chained, Says
  <2> QED BY <1>1, <1>2, <1>3, <1>4, <1>7, <2>4 DEF Chained
<1> QED BY <1>5, <1>6, <1>7, ForwarderLine

----------------------------------------------------------------------------
(***************************************************************************)
(* Replies are to commands whose events have landed.                       *)
(***************************************************************************)
LEMMA Answering ==
  ASSUME TypeOK, RepliesAreAnswers, Answer \/ Refuse
  PROVE  /\ \A id \in DOMAIN answered' : answered'[id] <= landed'
         /\ conn'.do = "reply" /\ conn'.id \in DOMAIN answered' /\ conn.do = "command"
<1>0. answered \in Seq(Nat) /\ landed \in Nat /\ conn \in Busy
  BY DEF TypeOK
<1>1. /\ \E k \in Nat : answered' = Append(answered, k) /\ k <= landed'
      /\ landed <= landed' /\ landed' \in Nat
  BY <1>0 DEF Answer, Refuse
<1>2. PICK k \in Nat : answered' = Append(answered, k) /\ k <= landed'
  BY <1>1
<1>3. /\ DOMAIN answered' = DOMAIN answered \cup {Len(answered) + 1}
      /\ answered'[Len(answered) + 1] = k /\ Len(answered') = Len(answered) + 1
      /\ \A id \in DOMAIN answered : answered'[id] = answered[id]
  BY <1>0, <1>2, Appended
<1>4. \A id \in DOMAIN answered : answered[id] \in Nat /\ answered[id] <= landed
  BY <1>0 DEF RepliesAreAnswers
<1>5. conn.do = "command" /\ conn' = [conn EXCEPT !.do = "reply", !.id = Len(answered')]
  BY DEF Answer, Refuse
<1>6. conn'.do = "reply" /\ conn'.id = Len(answered')
  BY <1>0, <1>5 DEF Busy
<1>7. \A id \in DOMAIN answered' : answered'[id] <= landed'
  BY <1>0, <1>1, <1>2, <1>3, <1>4
<1> QED BY <1>3, <1>5, <1>6, <1>7

LEMMA AsideAnswers ==
  ASSUME TypeOK, RepliesAreAnswers, Aside,
         \/ Land \/ Stop \/ Command \/ Answer \/ Refuse \/ Reply \/ Subscribe \/ Missed
         \/ Add \/ Unsubscribe \/ UNCHANGED vars
  PROVE  RepliesAreAnswers'
<1>0. answered \in Seq(Nat) /\ landed \in Nat /\ out \in Seq(LinesOut)
  BY DEF TypeOK
<1>1. /\ \A id \in DOMAIN answered' : answered'[id] <= landed'
      /\ conn'.do = "reply" => conn'.id \in DOMAIN answered'
  <2>1. CASE Answer \/ Refuse
    BY <2>1, Answering
  <2>2. CASE Land
    <3>1. \A id \in DOMAIN answered : answered[id] \in Nat /\ answered[id] <= landed
      BY <1>0 DEF RepliesAreAnswers
    <3> QED BY <1>0, <2>2, <3>1 DEF Land, RepliesAreAnswers
  <2>3. CASE Stop \/ UNCHANGED vars
    BY <2>3 DEF Stop, vars, RepliesAreAnswers
  <2>4. CASE Command \/ Reply \/ Missed \/ Add \/ Unsubscribe
    <3>1. answered' = answered /\ landed' = landed
      BY <2>4 DEF Command, Reply, Missed, Add, Unsubscribe
    <3>2. conn'.do # "reply"
      BY <2>4 DEF Command, Reply, Missed, Add, Unsubscribe, Idle
    <3> QED BY <3>1, <3>2 DEF RepliesAreAnswers
  <2>5. CASE Subscribe
    <3>1. answered' = answered /\ landed' = landed
      BY <2>5 DEF Subscribe
    <3>2. conn'.do # "reply"
      BY <2>5 DEF Subscribe, Idle
    <3> QED BY <3>1, <3>2 DEF RepliesAreAnswers
  <2> QED BY <2>1, <2>2, <2>3, <2>4, <2>5
<1>2. ASSUME NEW s \in DOMAIN subs'
      PROVE  /\ \A k \in DOMAIN subs'[s].replies : subs'[s].replies[k] \in DOMAIN answered'
             /\ subs'[s].stage \in {"draining", "replying"} =>
                  subs'[s].holding \in DOMAIN answered'
  <2>1. s \in DOMAIN subs /\ SameLines(subs[s], subs'[s])
    BY <1>2 DEF Aside
  <2>2. subs[s].replies \in Seq(Nat)
    BY <2>1, SubscriptionTyped
  <2>3. \A k \in DOMAIN subs[s].replies : subs[s].replies[k] \in DOMAIN answered'
    BY <2>1 DEF RepliesAreAnswers, Aside
  <2>4. \A k \in DOMAIN subs'[s].replies : subs'[s].replies[k] \in DOMAIN answered'
    <3>1. CASE subs'[s].replies = subs[s].replies
      BY <2>3, <3>1
    <3>2. CASE conn.do = "reply" /\ subs'[s].replies = Append(subs[s].replies, conn.id)
      <4>1. conn.id \in DOMAIN answered'
        BY <3>2 DEF RepliesAreAnswers, Aside
      <4>2. conn.id \in Nat
        BY DEF TypeOK, Busy
      <4> QED BY <2>2, <2>3, <3>2, <4>1, <4>2, Appended
    <3> QED BY <2>1, <3>1, <3>2 DEF SameLines
  <2>5. subs'[s].stage \in {"draining", "replying"} => subs'[s].holding \in DOMAIN answered'
    BY <2>1 DEF SameLines, RepliesAreAnswers, Aside
  <2> QED BY <2>4, <2>5
<1>3. \A i \in DOMAIN out' : out'[i].kind = "reply" => out'[i].n \in DOMAIN answered'
  <2>0. \A i \in DOMAIN out : out[i].kind = "reply" => out[i].n \in DOMAIN answered'
    BY DEF RepliesAreAnswers, Aside
  <2>1. CASE out' = out
    BY <2>0, <2>1
  <2>2. CASE out' = Append(out, Line("reply", 0, conn.id)) /\ conn.id \in Nat
             /\ conn.do = "reply"
    <3>1. conn.id \in DOMAIN answered'
      BY <2>2 DEF RepliesAreAnswers, Aside
    <3>2. /\ Line("reply", 0, conn.id) \in LinesOut
          /\ Line("reply", 0, conn.id).n = conn.id
      BY <2>2, LineTyped
    <3> QED BY <1>0, <2>0, <2>2, <3>1, <3>2, Appended
  <2> QED BY <2>1, <2>2 DEF Aside
<1> QED BY <1>1, <1>2, <1>3 DEF RepliesAreAnswers

LEMMA BeginAnswers == TypeOK /\ RepliesAreAnswers /\ Begin => RepliesAreAnswers'
<1> SUFFICES ASSUME TypeOK, RepliesAreAnswers, Begin PROVE RepliesAreAnswers'
  OBVIOUS
<1>1. PICK n \in Subscriptions :
        subs' = Append(subs, n) /\ n.stage = "reading" /\ n.replies = << >>
  BY BeginMoves
<1>2. subs \in Seq(Subscriptions)
  BY DEF TypeOK
<1>3. /\ DOMAIN subs' = DOMAIN subs \cup {Len(subs) + 1} /\ subs'[Len(subs) + 1] = n
      /\ \A t \in DOMAIN subs : subs'[t] = subs[t]
  BY <1>1, <1>2, Appended
<1>4. landed' = landed /\ out' = out /\ answered' = answered /\ conn'.do = "read"
  BY DEF Begin
<1>5. DOMAIN n.replies = {}
  BY <1>1
<1> QED BY <1>1, <1>3, <1>4, <1>5 DEF RepliesAreAnswers

LEMMA ReadAnswers == TypeOK /\ RepliesAreAnswers /\ Read => RepliesAreAnswers'
<1> SUFFICES ASSUME TypeOK, RepliesAreAnswers, Read PROVE RepliesAreAnswers'
  OBVIOUS
<1>1. out \in Seq(LinesOut) /\ out # << >> /\ out' = Tail(out)
  BY DEF TypeOK, Read
<1>2. \A i \in DOMAIN out' : i + 1 \in DOMAIN out /\ out'[i] = out[i + 1]
  BY <1>1, WithoutFirst
<1> QED BY <1>2 DEF RepliesAreAnswers, Read

\* What a forwarder hands on are replies it was handed.
LEMMA ForwarderAnswers ==
  ASSUME TypeOK, RepliesAreAnswers, NEW s \in DOMAIN subs, Replay(s) \/ Relay(s) \/ Finish(s)
  PROVE  RepliesAreAnswers'
<1>0. /\ out \in Seq(LinesOut) /\ subs[s] \in Subscriptions /\ subs[s].replies \in Seq(Nat)
      /\ subs \in Seq(Subscriptions) /\ s \in Nat
      /\ subs[s].back \in Nat /\ subs[s].next \in Nat /\ 0 \in Nat
  BY SubscriptionTyped DEF TypeOK
<1>1. /\ DOMAIN subs' = DOMAIN subs
      /\ \A t \in DOMAIN subs : t # s => subs'[t] = subs[t]
  BY ForwarderKeeps
<1>2. landed' = landed /\ conn' = conn /\ answered' = answered
  BY ForwarderSteps
<1>3. \A n : Becomes(s, n) => subs'[s] = n
  BY <1>0 DEF Becomes
<1>4. /\ \A k \in DOMAIN subs[s].replies : subs[s].replies[k] \in DOMAIN answered
      /\ subs[s].stage \in {"draining", "replying"} => subs[s].holding \in DOMAIN answered
      /\ subs[s].replies # << >> =>
           /\ subs[s].replies[1] \in DOMAIN answered
           /\ \A k \in DOMAIN Tail(subs[s].replies) :
                Tail(subs[s].replies)[k] \in DOMAIN answered
  <2>1. /\ \A k \in DOMAIN subs[s].replies : subs[s].replies[k] \in DOMAIN answered
        /\ subs[s].stage \in {"draining", "replying"} => subs[s].holding \in DOMAIN answered
    BY DEF RepliesAreAnswers
  <2> QED BY <1>0, <2>1, WithoutFirst
<1>5. /\ \A k \in DOMAIN subs'[s].replies : subs'[s].replies[k] \in DOMAIN answered
      /\ subs'[s].stage \in {"draining", "replying"} => subs'[s].holding \in DOMAIN answered
  <2>1. CASE WritesPast(s) \/ WritesPush(s)
    <3>1. \/ subs'[s] = [subs[s] EXCEPT !.back = @ + 1]
          \/ subs'[s] = [subs[s] EXCEPT !.next = @ + 1]
      BY <1>3, <2>1 DEF WritesPast, WritesPush
    <3>2. subs'[s].replies = subs[s].replies /\ subs'[s].stage = subs[s].stage
          /\ subs'[s].holding = subs[s].holding
      BY <1>0, <3>1 DEF Subscriptions
    <3> QED BY <1>4, <3>2
  <2>2. CASE \E stage \in {"relay", "ended"} : Becomes(s, [subs[s] EXCEPT !.stage = stage])
    <3>1. subs'[s].replies = subs[s].replies /\ subs'[s].stage \in {"relay", "ended"}
      BY <1>0, <1>3, <2>2 DEF Subscriptions
    <3> QED BY <1>4, <3>1
  <2>3. CASE subs[s].stage = "draining" /\ Becomes(s, [subs[s] EXCEPT !.stage = "replying"])
    <3>1. subs'[s].replies = subs[s].replies /\ subs'[s].holding = subs[s].holding
      BY <1>0, <1>3, <2>3 DEF Subscriptions
    <3> QED BY <1>4, <2>3, <3>1
  <2>4. CASE subs[s].replies # << >> /\ Becomes(s, [subs[s] EXCEPT !.replies = Tail(@)])
    <3>1. subs'[s].replies = Tail(subs[s].replies) /\ subs'[s].holding = subs[s].holding
          /\ subs'[s].stage = subs[s].stage
      BY <1>0, <1>3, <2>4 DEF Subscriptions
    <3> QED BY <1>4, <2>4, <3>1
  <2>5. CASE subs[s].replies # << >>
             /\ Becomes(s, [subs[s] EXCEPT !.stage = "draining", !.replies = Tail(@),
                                           !.holding = subs[s].replies[1]])
    <3>1. subs'[s].replies = Tail(subs[s].replies) /\ subs'[s].holding = subs[s].replies[1]
      BY <1>0, <1>3, <2>5 DEF Subscriptions
    <3> QED BY <1>4, <2>5, <3>1
  <2>6. CASE \/ Becomes(s, [subs[s] EXCEPT !.stage = "flush", !.pushing = FALSE])
             \/ Becomes(s, [subs[s] EXCEPT !.stage = "gone", !.open = FALSE, !.end = Pushed(s)])
    <3>1. subs'[s].replies = subs[s].replies /\ subs'[s].stage \in {"flush", "gone"}
      BY <1>0, <1>3, <2>6 DEF Subscriptions
    <3> QED BY <1>4, <3>1
  <2> QED BY <2>1, <2>2, <2>3, <2>4, <2>5, <2>6, ForwarderSteps
          DEF GivesUp, WritesReply, Moves
<1>6. \A i \in DOMAIN out' : out'[i].kind = "reply" => out'[i].n \in DOMAIN answered
  <2>0. \A i \in DOMAIN out : out[i].kind = "reply" => out[i].n \in DOMAIN answered
    BY DEF RepliesAreAnswers
  <2>1. CASE out' = out
    BY <2>0, <2>1
  <2>2. CASE \E kind \in {"event", "resync"}, n \in Nat : Says(s, kind, n)
    <3>1. PICK kind \in {"event", "resync"}, n \in Nat : out' = Append(out, Line(kind, s, n))
      BY <2>2 DEF Says
    <3>2. Line(kind, s, n) \in LinesOut /\ Line(kind, s, n).kind # "reply"
      BY <1>0, LineTyped
    <3> QED BY <1>0, <2>0, <3>1, <3>2, Appended
  <2>3. CASE \E n \in DOMAIN answered : Says(s, "reply", n)
    <3>1. PICK n \in DOMAIN answered : out' = Append(out, Line("reply", s, n))
      BY <2>3 DEF Says
    <3>2. n \in Nat
      BY DEF TypeOK
    <3>3. Line("reply", s, n) \in LinesOut /\ Line("reply", s, n).n = n
      BY <1>0, <3>2, LineTyped
    <3> QED BY <1>0, <2>0, <3>1, <3>3, Appended
  <2>4. WritesPast(s) \/ WritesPush(s) \/ GivesUp(s) =>
          \E kind \in {"event", "resync"}, n \in Nat : Says(s, kind, n)
    BY <1>0 DEF WritesPast, WritesPush, GivesUp
  <2>5. WritesReply(s) => \E n \in DOMAIN answered : Says(s, "reply", n)
    BY <1>4 DEF WritesReply
  <2> QED BY <2>1, <2>2, <2>3, <2>4, <2>5, ForwarderSteps DEF Moves
<1>7. ASSUME NEW t \in DOMAIN subs
      PROVE  /\ \A k \in DOMAIN subs'[t].replies : subs'[t].replies[k] \in DOMAIN answered
             /\ subs'[t].stage \in {"draining", "replying"} =>
                  subs'[t].holding \in DOMAIN answered
  <2>1. CASE t = s
    BY <1>5, <2>1
  <2>2. CASE t # s
    BY <1>1, <2>2 DEF RepliesAreAnswers
  <2> QED BY <2>1, <2>2
<1> QED BY <1>1, <1>2, <1>6, <1>7 DEF RepliesAreAnswers

----------------------------------------------------------------------------
(***************************************************************************)
(* A forwarder that has ended has told so.                                 *)
(***************************************************************************)
LEMMA ToldStays ==
  ASSUME TypeOK, NEW s,
         \/ /\ head'.resynced = head.resynced
            /\ out' = out \/ \E line \in LinesOut : out' = Append(out, line)
         \/ OfSubscriptions /\ Read,
         Told(s)
  PROVE  Told(s)'
<1>0. out \in Seq(LinesOut)
  BY DEF TypeOK
<1>1. CASE out' = out /\ head'.resynced = head.resynced
  BY <1>1 DEF Told
<1>2. CASE head'.resynced = head.resynced /\ \E line \in LinesOut : out' = Append(out, line)
  <2>1. \A j \in DOMAIN out : j \in DOMAIN out' /\ out'[j] = out[j]
    BY <1>0, <1>2, Appended
  <2> QED BY <1>2, <2>1 DEF Told
<1>3. CASE OfSubscriptions /\ Read
  <2>1. /\ out # << >> /\ out' = Tail(out)
        /\ out[1].kind = "resync" => head'.resynced = head.resynced \cup {out[1].sub}
        /\ out[1].kind # "resync" => head'.resynced = head.resynced
    BY <1>3, ReadMoves
  <2>2. CASE s \in head.resynced
    BY <2>1, <2>2 DEF Told
  <2>3. CASE \E j \in DOMAIN out : out[j].sub = s /\ out[j].kind = "resync"
    <3>1. PICK j \in DOMAIN out : out[j].sub = s /\ out[j].kind = "resync"
      BY <2>3
    <3>2. CASE j = 1
      BY <2>1, <3>1, <3>2 DEF Told
    <3>3. CASE j # 1
      <4>1. j - 1 \in DOMAIN out' /\ out'[j - 1] = out[j]
        BY <1>0, <2>1, <3>3, WithoutFirst
      <4> QED BY <3>1, <4>1 DEF Told
    <3> QED BY <3>2, <3>3
  <2> QED BY <2>2, <2>3 DEF Told
<1> QED BY <1>1, <1>2, <1>3

LEMMA AsideTold == TypeOK /\ EndedIsTold /\ Aside => EndedIsTold'
<1> SUFFICES ASSUME TypeOK, EndedIsTold, Aside PROVE EndedIsTold'
  OBVIOUS
<1>1. /\ head'.resynced = head.resynced
      /\ out' = out \/ \E line \in LinesOut : out' = Append(out, line)
  <2>1. 0 \in Nat
    OBVIOUS
  <2> QED BY <2>1, LineTyped DEF Aside
<1>2. ASSUME NEW s \in DOMAIN subs
      PROVE  /\ subs'[s].stage = "replying" => Told(s)'
             /\ subs'[s].stage \in {"ended", "flush", "gone"} =>
                  Told(s)' \/ (subs'[s].closed /\ subs'[s].replies = << >>)
  <2>1. SameLines(subs[s], subs'[s])
    BY DEF Aside
  <2>2. Told(s) => Told(s)'
    BY <1>1, ToldStays
  <2> QED BY <2>1, <2>2 DEF EndedIsTold, SameLines
<1>3. DOMAIN subs' = DOMAIN subs
  BY DEF Aside
<1> QED BY <1>2, <1>3 DEF EndedIsTold

LEMMA BeginTold == TypeOK /\ EndedIsTold /\ Begin => EndedIsTold'
<1> SUFFICES ASSUME TypeOK, EndedIsTold, Begin PROVE EndedIsTold'
  OBVIOUS
<1>1. PICK n \in Subscriptions : subs' = Append(subs, n) /\ n.stage = "reading"
  BY BeginMoves
<1>2. subs \in Seq(Subscriptions)
  BY DEF TypeOK
<1>3. /\ DOMAIN subs' = DOMAIN subs \cup {Len(subs) + 1} /\ subs'[Len(subs) + 1] = n
      /\ \A t \in DOMAIN subs : subs'[t] = subs[t]
  BY <1>1, <1>2, Appended
<1>4. \A s : Told(s)' = Told(s)
  BY DEF Begin, Told
<1> QED BY <1>1, <1>3, <1>4 DEF EndedIsTold

LEMMA ReadTold == TypeOK /\ OfSubscriptions /\ EndedIsTold /\ Read => EndedIsTold'
<1> SUFFICES ASSUME TypeOK, OfSubscriptions, EndedIsTold, Read PROVE EndedIsTold'
  OBVIOUS
<1>1. \A s : Told(s) => Told(s)'
  BY ToldStays
<1>2. subs' = subs
  BY DEF Read
<1> QED BY <1>1, <1>2 DEF EndedIsTold

\* What a forwarder writes is a line.
LEMMA ForwarderWrites ==
  ASSUME TypeOK, NEW s \in DOMAIN subs, Replay(s) \/ Relay(s) \/ Finish(s)
  PROVE  \/ out' = out /\ Moves(s)
         \/ \E k \in Nat : Says(s, "event", k) /\ (WritesPast(s) \/ WritesPush(s))
         \/ Says(s, "resync", 0) /\ GivesUp(s)
         \/ \E k \in Nat : Says(s, "reply", k) /\ WritesReply(s)
<1>0. /\ subs[s].back \in Nat /\ subs[s].next \in Nat /\ subs[s].holding \in Nat
      /\ subs[s].replies # << >> => subs[s].replies[1] \in Nat
  <2>1. subs[s].replies \in Seq(Nat)
    BY SubscriptionTyped
  <2> QED BY <2>1, SubscriptionTyped
<1>1. CASE WritesPast(s) \/ WritesPush(s)
  BY <1>0, <1>1 DEF WritesPast, WritesPush
<1>2. CASE GivesUp(s)
  BY <1>2 DEF GivesUp
<1>3. CASE WritesReply(s)
  BY <1>0, <1>3 DEF WritesReply
<1>4. CASE Moves(s)
  BY <1>4 DEF Moves
<1> QED BY <1>1, <1>2, <1>3, <1>4, ForwarderSteps

LEMMA ForwarderTold ==
  ASSUME TypeOK, EndedIsTold, NEW s \in DOMAIN subs, Replay(s) \/ Relay(s) \/ Finish(s)
  PROVE  EndedIsTold'
<1>0. /\ out \in Seq(LinesOut) /\ subs[s] \in Subscriptions /\ subs[s].replies \in Seq(Nat)
      /\ subs \in Seq(Subscriptions) /\ s \in Nat /\ 0 \in Nat
  BY SubscriptionTyped DEF TypeOK
<1>1. /\ DOMAIN subs' = DOMAIN subs
      /\ \A t \in DOMAIN subs : t # s => subs'[t] = subs[t]
      /\ subs'[s].closed = subs[s].closed
  BY ForwarderKeeps
<1>2. head' = head
  BY ForwarderSteps
<1>3. \A n : Becomes(s, n) => subs'[s] = n
  BY <1>0 DEF Becomes
<1>4. out' = out \/ \E line \in LinesOut : out' = Append(out, line)
  BY <1>0, ForwarderWrites, LineTyped DEF Says
<1>5. \A t : Told(t) => Told(t)'
  BY <1>2, <1>4, ToldStays
<1>6. /\ subs'[s].stage = "replying" => Told(s)'
      /\ subs'[s].stage \in {"ended", "flush", "gone"} =>
           Told(s)' \/ (subs'[s].closed /\ subs'[s].replies = << >>)
  <2>1. CASE WritesPast(s) \/ WritesPush(s)
    <3>1. /\ subs[s].stage \in {"replay", "relay", "draining"}
          /\ \/ subs'[s] = [subs[s] EXCEPT !.back = @ + 1]
             \/ subs'[s] = [subs[s] EXCEPT !.next = @ + 1]
      BY <1>3, <2>1 DEF WritesPast, WritesPush
    <3>2. subs'[s].stage \in {"replay", "relay", "draining"}
      BY <1>0, <3>1 DEF Subscriptions
    <3> QED BY <3>2
  <2>2. CASE GivesUp(s)
    <3>1. out' = Append(out, Line("resync", s, 0))
      BY <2>2 DEF GivesUp, Says
    <3>2. /\ Line("resync", s, 0) \in LinesOut /\ Line("resync", s, 0).kind = "resync"
          /\ Line("resync", s, 0).sub = s
      BY <1>0, LineTyped
    <3>3. /\ Len(out) + 1 \in DOMAIN out'
          /\ out'[Len(out) + 1] = Line("resync", s, 0)
      BY <1>0, <3>1, <3>2, Appended
    <3>4. Told(s)'
      BY <3>2, <3>3 DEF Told
    <3> QED BY <3>4
  <2>3. CASE Becomes(s, [subs[s] EXCEPT !.stage = "relay"])
    <3>1. subs'[s].stage = "relay"
      BY <1>0, <1>3, <2>3 DEF Subscriptions
    <3> QED BY <3>1
  <2>4. CASE subs[s].stage = "replying" /\ Becomes(s, [subs[s] EXCEPT !.stage = "ended"])
    BY <1>5, <2>4 DEF EndedIsTold
  <2>5. CASE /\ subs[s].stage = "flush" /\ subs[s].replies # << >>
             /\ Becomes(s, [subs[s] EXCEPT !.replies = Tail(@)])
    BY <1>5, <2>5 DEF EndedIsTold
  <2>6. CASE Becomes(s, [subs[s] EXCEPT !.stage = "draining", !.replies = Tail(@),
                                        !.holding = subs[s].replies[1]])
    <3>1. subs'[s].stage = "draining"
      BY <1>0, <1>3, <2>6 DEF Subscriptions
    <3> QED BY <3>1
  <2>7. CASE /\ subs[s].replies = << >> /\ subs[s].closed
             /\ Becomes(s, [subs[s] EXCEPT !.stage = "ended"])
    <3>1. subs'[s].replies = << >> /\ subs'[s].stage = "ended"
      BY <1>0, <1>3, <2>7 DEF Subscriptions
    <3> QED BY <1>1, <2>7, <3>1
  <2>8. CASE /\ subs[s].stage \in {"ended", "flush"}
             /\ \/ Becomes(s, [subs[s] EXCEPT !.stage = "flush", !.pushing = FALSE])
                \/ Becomes(s, [subs[s] EXCEPT !.stage = "gone", !.open = FALSE, !.end = Pushed(s)])
    <3>1. subs'[s].replies = subs[s].replies /\ subs'[s].stage \in {"flush", "gone"}
      BY <1>0, <1>3, <2>8 DEF Subscriptions
    <3>2. Told(s) \/ (subs[s].closed /\ subs[s].replies = << >>)
      BY <2>8 DEF EndedIsTold
    <3> QED BY <1>1, <1>5, <3>1, <3>2
  <2> QED BY <2>1, <2>2, <2>3, <2>4, <2>5, <2>6, <2>7, <2>8, ForwarderSteps
          DEF WritesReply, Moves
<1>7. ASSUME NEW t \in DOMAIN subs
      PROVE  /\ subs'[t].stage = "replying" => Told(t)'
             /\ subs'[t].stage \in {"ended", "flush", "gone"} =>
                  Told(t)' \/ (subs'[t].closed /\ subs'[t].replies = << >>)
  <2>1. CASE t = s
    BY <1>6, <2>1
  <2>2. CASE t # s
    BY <1>1, <1>5, <2>2 DEF EndedIsTold
  <2> QED BY <2>1, <2>2
<1> QED BY <1>1, <1>7 DEF EndedIsTold

----------------------------------------------------------------------------
(***************************************************************************)
(* A reply comes after what it tells of.                                   *)
(***************************************************************************)
CoveredAt(i, s) ==
  Covered(out, i, s, s \in head.resynced, subs[s].first, head.got[s], answered[out[i].n])

\* What was covered stays so when lines are added.
LEMMA CoveredKept ==
  ASSUME TypeOK, RepliesAreAnswers, RepliesCovered,
         head'.got = head.got, head'.resynced = head.resynced,
         out' = out \/ \E line \in LinesOut : out' = Append(out, line),
         \A id \in DOMAIN answered : answered'[id] = answered[id],
         NEW s \in DOMAIN subs, subs'[s].first = subs[s].first,
         NEW i \in DOMAIN out, out[i].kind = "reply", out[i].sub = s
  PROVE  CoveredAt(i, s)'
<1>1. /\ CoveredAt(i, s) /\ out[i].n \in DOMAIN answered
      /\ out \in Seq(LinesOut)
  BY DEF RepliesCovered, CoveredAt, RepliesAreAnswers, TypeOK
<1>2. out'[i] = out[i]
  BY <1>1, Appended
<1>3. Covered(out', i, s, s \in head.resynced, subs[s].first, head.got[s],
              answered[out[i].n])
  <2>1. CASE out' = out
    BY <1>1, <2>1 DEF CoveredAt
  <2>2. CASE \E line \in LinesOut : out' = Append(out, line)
    BY <1>1, <2>2, CoveredStays DEF CoveredAt
  <2> QED BY <2>1, <2>2
<1> QED BY <1>1, <1>2, <1>3 DEF CoveredAt

LEMMA AsideCovered ==
  TypeOK /\ OfSubscriptions /\ RepliesAreAnswers /\ RepliesCovered /\ Aside => RepliesCovered'
<1> SUFFICES ASSUME TypeOK, OfSubscriptions, RepliesAreAnswers, RepliesCovered, Aside,
                    NEW i \in DOMAIN out', NEW s \in DOMAIN subs',
                    out'[i].kind = "reply", out'[i].sub = s
             PROVE  CoveredAt(i, s)'
  BY DEF RepliesCovered, CoveredAt
<1>1. /\ s \in DOMAIN subs /\ subs'[s].first = subs[s].first /\ s # 0
      /\ out \in Seq(LinesOut) /\ 0 \in Nat
  BY SubscriptionTyped DEF Aside, SameLines, TypeOK
<1>2. CASE out' = out
  BY <1>1, <1>2, CoveredKept DEF Aside
<1>3. CASE out' = Append(out, Line("reply", 0, conn.id)) /\ conn.id \in Nat
  <2> DEFINE line == Line("reply", 0, conn.id)
  <2>1. line \in LinesOut /\ line.sub = 0
    BY <1>1, <1>3, LineTyped
  <2> HIDE DEF line
  <2>2. DOMAIN out' = DOMAIN out \cup {Len(out) + 1} /\ out'[Len(out) + 1] = line
        /\ \A j \in DOMAIN out : out'[j] = out[j]
    BY <1>1, <1>3, <2>1, Appended DEF line
  <2>3. i \in DOMAIN out /\ out[i].kind = "reply" /\ out[i].sub = s
    BY <1>1, <2>1, <2>2
  <2>4. \E l \in LinesOut : out' = Append(out, l)
    BY <1>3, <2>1 DEF line
  <2> QED BY <1>1, <2>3, <2>4, CoveredKept DEF Aside
<1> QED BY <1>2, <1>3 DEF Aside

LEMMA BeginCovered ==
  TypeOK /\ OfSubscriptions /\ RepliesAreAnswers /\ RepliesCovered /\ Begin => RepliesCovered'
<1> SUFFICES ASSUME TypeOK, OfSubscriptions, RepliesAreAnswers, RepliesCovered, Begin,
                    NEW i \in DOMAIN out', NEW s \in DOMAIN subs',
                    out'[i].kind = "reply", out'[i].sub = s
             PROVE  CoveredAt(i, s)'
  BY DEF RepliesCovered, CoveredAt
<1>1. PICK n \in Subscriptions : subs' = Append(subs, n)
  BY BeginMoves
<1>2. subs \in Seq(Subscriptions) /\ Len(subs) \in Nat
  BY DEF TypeOK
<1>3. /\ DOMAIN subs' = DOMAIN subs \cup {Len(subs) + 1}
      /\ \A t \in DOMAIN subs : subs'[t] = subs[t]
  BY <1>1, <1>2, Appended
<1>4. out' = out /\ head' = head /\ answered' = answered
  BY DEF Begin
<1>5. s \in DOMAIN subs
  <2>1. s <= Len(subs)
    BY <1>4 DEF OfSubscriptions
  <2> QED BY <1>2, <1>3, <2>1
<1> QED BY <1>3, <1>4, <1>5, CoveredKept

LEMMA ReadCovered ==
  TypeOK /\ OfSubscriptions /\ PastJoins /\ EventsChained /\ RepliesAreAnswers
    /\ RepliesCovered /\ Read => RepliesCovered'
<1> SUFFICES ASSUME TypeOK, OfSubscriptions, PastJoins, EventsChained, RepliesAreAnswers,
                    RepliesCovered, Read,
                    NEW i \in DOMAIN out', NEW s \in DOMAIN subs',
                    out'[i].kind = "reply", out'[i].sub = s
             PROVE  CoveredAt(i, s)'
  BY DEF RepliesCovered, CoveredAt
<1>1. /\ subs' = subs /\ answered' = answered /\ out # << >> /\ out' = Tail(out)
      /\ out \in Seq(LinesOut) /\ answered \in Seq(Nat)
  BY DEF Read, TypeOK
<1>2. i + 1 \in DOMAIN out /\ out'[i] = out[i + 1]
  BY <1>1, WithoutFirst
<1>3. CoveredAt(i + 1, s) /\ answered[out'[i].n] \in Nat
  BY <1>1, <1>2 DEF RepliesCovered, CoveredAt, RepliesAreAnswers
<1>4. /\ s \in 1..MaxSubs /\ head.got[s] \in Nat /\ subs[s].first \in Nat
      /\ Chained(s) /\ head' \in Heads /\ out[1] \in LinesOut /\ 1 \in DOMAIN out
  BY <1>1, Positions, SubscriptionTyped, ReadMoves DEF EventsChained
<1>5. head'.got[s] \in Nat
  BY <1>4 DEF Heads
<1>6. IsEvent(out[1], s) => head'.got[s] = out[1].n
  BY <1>4, HeadFields, ReadMoves DEF IsEvent
<1>7. head.got[s] <= head'.got[s]
  <2>1. CASE IsEvent(out[1], s)
    <3>1. Got(s) < out[1].n /\ out[1].n \in Nat
      BY <1>4, <2>1 DEF Chained, Chain, LinesOut
    <3>2. head.got[s] = 0 \/ head.got[s] = Got(s)
      BY DEF Got
    <3> QED BY <1>4, <1>6, <2>1, <3>1, <3>2
  <2>2. CASE ~IsEvent(out[1], s)
    <3>1. head'.got[s] = head.got[s]
      <4>1. CASE out[1].kind = "event"
        <5>1. out[1].sub # s
          BY <2>2, <4>1 DEF IsEvent
        <5> QED BY <1>4, <4>1, <5>1, HeadFields, ReadMoves
      <4>2. CASE out[1].kind # "event"
        BY <4>2, ReadMoves
      <4> QED BY <4>1, <4>2
    <3> QED BY <1>4, <3>1
  <2> QED BY <2>1, <2>2
<1>8. /\ s \in head.resynced => s \in head'.resynced
      /\ out[1].sub = s /\ out[1].kind = "resync" => s \in head'.resynced
  BY ReadMoves
<1>9. Covered(Tail(out), i, s, s \in head'.resynced, subs[s].first, head'.got[s],
              answered[out'[i].n])
  <2>1. Covered(out, i + 1, s, s \in head.resynced, subs[s].first, head.got[s],
                answered[out'[i].n])
    BY <1>2, <1>3 DEF CoveredAt
  <2>2. i \in DOMAIN Tail(out)
    BY <1>1
  <2> DEFINE told == s \in head.resynced
             toldNow == s \in head'.resynced
             first == subs[s].first
             got == head.got[s]
             gotNow == head'.got[s]
             a == answered[out'[i].n]
  <2>3. told \in BOOLEAN /\ toldNow \in BOOLEAN
    OBVIOUS
  <2>4. /\ told => toldNow
        /\ out[1].sub = s /\ out[1].kind = "resync" => toldNow
        /\ got <= gotNow /\ (IsEvent(out[1], s) => gotNow = out[1].n)
        /\ first \in Nat /\ got \in Nat /\ gotNow \in Nat /\ a \in Nat
        /\ Covered(out, i + 1, s, told, first, got, a)
    BY <1>3, <1>4, <1>5, <1>6, <1>7, <1>8, <2>1
  <2> HIDE DEF told, toldNow, first, got, gotNow, a
  <2>5. Covered(Tail(out), i, s, toldNow, first, gotNow, a)
    BY <1>1, <2>2, <2>3, <2>4, CoveredSpared
  <2> QED BY <2>5 DEF toldNow, first, gotNow, a
<1> QED BY <1>1, <1>9 DEF CoveredAt

\* The reply a forwarder writes is covered.
LEMMA ReplyIsCovered ==
  ASSUME TypeOK, OfSubscriptions, PastJoins, EventsChained, RepliesAreAnswers, EndedIsTold,
         NEW s \in DOMAIN subs, WritesReply(s), NEW k \in Nat, Says(s, "reply", k)
  PROVE  Covered(out', Len(out) + 1, s, s \in head.resynced, subs[s].first, head.got[s],
                 answered[k])
<1>0. out \in Seq(LinesOut) /\ s \in Nat /\ subs[s].replies \in Seq(Nat)
  BY SubscriptionTyped DEF TypeOK
<1>1. /\ Line("reply", s, k) \in LinesOut /\ Line("reply", s, k).n = k
      /\ out' = Append(out, Line("reply", s, k))
  BY <1>0, LineTyped DEF Says
<1>2. /\ out'[Len(out) + 1] = Line("reply", s, k)
      /\ \A j \in DOMAIN out : j < Len(out) + 1 /\ j \in DOMAIN out' /\ out'[j] = out[j]
  BY <1>0, <1>1, Appended
<1>3. CASE Told(s)
  <2>1. CASE s \in head.resynced
    BY <2>1 DEF Covered
  <2>2. CASE \E j \in DOMAIN out : out[j].sub = s /\ out[j].kind = "resync"
    BY <1>2, <2>2 DEF Covered
  <2> QED BY <1>3, <2>1, <2>2 DEF Told
<1>4. CASE subs[s].stage = "draining" /\ subs[s].next > landed
           /\ Says(s, "reply", subs[s].holding)
  <2>1. k = subs[s].holding
    <3>1. Line("reply", s, subs[s].holding) = Line("reply", s, k)
      <4>1. Append(out, Line("reply", s, subs[s].holding))[Len(out) + 1]
              = Line("reply", s, subs[s].holding)
        <5>1. subs[s].holding \in Nat
          BY SubscriptionTyped
        <5>2. Line("reply", s, subs[s].holding) \in LinesOut
          BY <1>0, <5>1, LineTyped
        <5> QED BY <1>0, <5>2, Appended
      <4> QED BY <1>2, <1>4, <4>1 DEF Says
    <3>2. Line("reply", s, subs[s].holding).n = subs[s].holding
      BY DEF Line
    <3> QED BY <1>1, <3>1, <3>2
  <2>2. answered[k] <= landed /\ answered[k] \in Nat
    BY <1>4, <2>1 DEF RepliesAreAnswers, TypeOK
  <2>3. /\ subs[s].next \in Nat /\ landed \in Nat /\ subs[s].first \in Nat
        /\ Got(s) \in Nat /\ head.got[s] \in Nat /\ Chained(s)
    BY SubscriptionTyped, Positions DEF TypeOK, EventsChained
  <2>4. Position(s) = subs[s].next
    BY <1>4 DEF Position
  <2>5. CASE answered[k] <= Got(s)
    <3>1. CASE head.got[s] = 0
      <4>1. answered[k] < subs[s].first
        BY <2>2, <2>3, <2>5, <3>1 DEF Got
      <4> QED BY <4>1 DEF Covered
    <3>2. CASE head.got[s] # 0
      <4>1. head.got[s] >= answered[k]
        BY <2>2, <2>3, <2>5, <3>2 DEF Got
      <4> QED BY <4>1 DEF Covered
    <3> QED BY <3>1, <3>2
  <2>6. CASE answered[k] > Got(s)
    <3>1. answered[k] \in (Got(s) + 1)..(Position(s) - 1)
      BY <1>4, <2>2, <2>3, <2>4, <2>6
    <3>2. PICK j \in DOMAIN out : IsEvent(out[j], s) /\ out[j].n = answered[k]
      BY <2>3, <3>1 DEF Chained, Chain
    <3>3. out'[j].n >= answered[k]
      BY <1>2, <2>2, <3>2
    <3> QED BY <1>2, <3>2, <3>3 DEF Covered
  <2> QED BY <2>2, <2>3, <2>5, <2>6
<1>5. CASE subs[s].stage = "replying"
  BY <1>3, <1>5 DEF EndedIsTold
<1>6. CASE subs[s].stage = "flush" /\ subs[s].replies # << >>
  BY <1>3, <1>6 DEF EndedIsTold
<1> QED BY <1>4, <1>5, <1>6 DEF WritesReply

LEMMA ForwarderCovered ==
  ASSUME TypeOK, OfSubscriptions, PastJoins, EventsChained, RepliesAreAnswers, EndedIsTold,
         RepliesCovered, NEW s \in DOMAIN subs, Replay(s) \/ Relay(s) \/ Finish(s)
  PROVE  RepliesCovered'
<1> SUFFICES ASSUME NEW i \in DOMAIN out', NEW t \in DOMAIN subs',
                    out'[i].kind = "reply", out'[i].sub = t
             PROVE  CoveredAt(i, t)'
  BY DEF RepliesCovered, CoveredAt
<1>0. /\ out \in Seq(LinesOut) /\ s \in Nat /\ 0 \in Nat
  BY SubscriptionTyped DEF TypeOK
<1>1. t \in DOMAIN subs /\ subs'[t].first = subs[t].first /\ subs'[s].first = subs[s].first
  BY ForwarderKeeps
<1>2. head' = head /\ answered' = answered
  BY ForwarderSteps
<1>3. out' = out \/ \E line \in LinesOut : out' = Append(out, line)
  BY <1>0, ForwarderWrites, LineTyped DEF Says
<1>4. CASE i \in DOMAIN out
  <2>1. out'[i] = out[i]
    BY <1>0, <1>3, <1>4, Appended
  <2> QED BY <1>1, <1>2, <1>3, <1>4, <2>1, CoveredKept
<1>5. CASE i \notin DOMAIN out
  <2>1. PICK line \in LinesOut : out' = Append(out, line)
    BY <1>3, <1>5
  <2>2. i = Len(out) + 1 /\ out'[i] = line
    BY <1>0, <1>5, <2>1, Appended
  <2>3. PICK k \in Nat : Says(s, "reply", k) /\ WritesReply(s)
    <3>1. CASE \E k \in Nat : Says(s, "event", k)
      <4>1. PICK k \in Nat : out' = Append(out, Line("event", s, k))
        BY <3>1 DEF Says
      <4>2. out'[i].kind = "event"
        BY <1>0, <2>2, <4>1, LineTyped, Appended
      <4> QED BY <4>2
    <3>2. CASE Says(s, "resync", 0)
      <4>1. out'[i].kind = "resync"
        BY <1>0, <2>2, <3>2, LineTyped, Appended DEF Says
      <4> QED BY <4>1
    <3> QED BY <1>5, <3>1, <3>2, ForwarderWrites
  <2>4. out'[i].n = k /\ out'[i].sub = s
    BY <1>0, <2>2, <2>3, LineTyped, Appended DEF Says
  <2>5. Covered(out', i, s, s \in head.resynced, subs[s].first, head.got[s], answered[k])
    BY <2>2, <2>3, ReplyIsCovered
  <2> QED BY <1>1, <1>2, <2>4, <2>5 DEF CoveredAt
<1> QED BY <1>4, <1>5

----------------------------------------------------------------------------
(***************************************************************************)
(* One subscription after the other.                                       *)
(***************************************************************************)
\* Whose turn it is: what the steps aside do to the request and to the slot.
LEMMA AsideTurns ==
  ASSUME TypeOK, OfSubscriptions, BeingRead,
         \/ Land \/ Stop \/ Command \/ Answer \/ Refuse \/ Reply \/ Subscribe \/ Missed
         \/ Add \/ Unsubscribe \/ UNCHANGED vars
  PROVE  \/ conn' = conn /\ slot' = slot
         \/ /\ slot' = slot
            /\ conn.do \notin {"take", "read"} /\ conn'.do \notin {"take", "read"}
         \/ slot' = slot /\ Taken /\ conn'.do = "idle"
         \/ /\ conn.do = "idle" /\ Len(subs) < MaxSubs
            /\ slot' = 0 /\ conn'.do = "take" /\ conn'.sub = slot
         \/ /\ conn.do = "read" /\ conn.sub \in DOMAIN subs
            /\ slot' = conn.sub /\ conn'.do = "idle"
         \/ /\ slot \in DOMAIN subs /\ subs'[slot].dropped
            /\ slot' = 0 /\ conn' = conn /\ conn.do = "idle"
<1>0. conn \in Busy /\ subs \in Seq(Subscriptions)
  BY DEF TypeOK
<1>1. CASE Land \/ Stop \/ UNCHANGED vars
  BY <1>1 DEF Land, Stop, vars
<1>2. CASE Command \/ Reply
  BY <1>2 DEF Command, Reply, Idle
<1>3. CASE Answer \/ Refuse
  BY <1>0, <1>3 DEF Answer, Refuse, Busy
<1>4. CASE Subscribe
  BY <1>4, SubscribeMoves DEF Idle
<1>5. CASE Missed
  BY <1>5 DEF Missed, Idle
<1>6. CASE Add
  BY <1>6, AddMoves DEF Add, Idle
<1>7. CASE Unsubscribe
  <2>1. slot \in DOMAIN subs /\ slot' = 0 /\ conn = Idle
    BY <1>7, UnsubscribeMoves
  <2>2. subs'[slot] = [subs[slot] EXCEPT !.closed = TRUE, !.dropped = TRUE]
    BY <1>0, <1>7, UnsubscribeMoves DEF Becomes
  <2>3. subs'[slot].dropped
    BY <2>1, <2>2, SubscriptionTyped DEF Subscriptions
  <2> QED BY <1>7, <2>1, <2>3 DEF Unsubscribe, Idle
<1> QED BY <1>1, <1>2, <1>3, <1>4, <1>5, <1>6, <1>7

LEMMA AsideOrder ==
  ASSUME TypeOK, OfSubscriptions, BeingRead, ClosedIsOut, OneAtATime, Registered,
         \/ Land \/ Stop \/ Command \/ Answer \/ Refuse \/ Reply \/ Subscribe \/ Missed
         \/ Add \/ Unsubscribe \/ UNCHANGED vars
  PROVE  OneAtATime' /\ Registered'
<1>1. Aside
  BY AsideSteps
<1>2. /\ DOMAIN subs' = DOMAIN subs /\ Len(subs') = Len(subs)
      /\ \A s \in DOMAIN subs :
           /\ subs[s].stage = "gone" => subs'[s].stage = "gone"
           /\ subs[s].dropped => subs'[s].dropped
  BY <1>1 DEF Aside, SameLines
<1>3. OneAtATime'
  BY <1>2 DEF OneAtATime
<1>4. Registered'
  <2>1. \A s \in DOMAIN subs : subs[s].stage = "gone" \/ subs[s].dropped \/ s = slot
                                 \/ (conn.do \in {"take", "read"} /\ conn.sub = s)
    BY DEF Registered
  <2>2. conn.do = "read" => slot = 0
    BY DEF OfSubscriptions
  <2>3. \A s \in DOMAIN subs : s # 0
    BY SubscriptionTyped
  <2>4. CASE conn' = conn /\ slot' = slot
    BY <1>2, <2>1, <2>4 DEF Registered
  <2>5. CASE /\ slot' = slot
             /\ conn.do \notin {"take", "read"} /\ conn'.do \notin {"take", "read"}
    BY <1>2, <2>1, <2>5 DEF Registered
  <2>6. CASE slot' = slot /\ Taken /\ conn'.do = "idle"
    BY <1>2, <2>1, <2>6 DEF Registered, Taken
  <2>7. CASE /\ conn.do = "idle" /\ slot' = 0 /\ conn'.do = "take" /\ conn'.sub = slot
    BY <1>2, <2>1, <2>7 DEF Registered
  <2>8. CASE /\ conn.do = "read" /\ slot' = conn.sub /\ conn'.do = "idle"
    BY <1>2, <2>1, <2>2, <2>3, <2>8 DEF Registered
  <2>9. CASE /\ slot \in DOMAIN subs /\ subs'[slot].dropped
             /\ slot' = 0 /\ conn' = conn /\ conn.do = "idle"
    BY <1>2, <2>1, <2>9 DEF Registered
  <2> QED BY <2>4, <2>5, <2>6, <2>7, <2>8, <2>9, AsideTurns
<1> QED BY <1>3, <1>4

LEMMA BeginOrder ==
  TypeOK /\ OfSubscriptions /\ OneAtATime /\ Registered /\ Begin => OneAtATime' /\ Registered'
<1> SUFFICES ASSUME TypeOK, OfSubscriptions, OneAtATime, Registered, Begin
             PROVE  OneAtATime' /\ Registered'
  OBVIOUS
<1>1. PICK n \in Subscriptions : subs' = Append(subs, n)
  BY BeginMoves
<1>2. subs \in Seq(Subscriptions)
  BY DEF TypeOK
<1>3. /\ DOMAIN subs' = DOMAIN subs \cup {Len(subs) + 1} /\ Len(subs') = Len(subs) + 1
      /\ \A t \in DOMAIN subs : subs'[t] = subs[t]
  BY <1>1, <1>2, Appended
<1>4. conn.do = "take" /\ slot = 0 /\ slot' = 0 /\ conn'.do = "read" /\ conn'.sub = Len(subs')
  BY DEF Begin, Taken, OfSubscriptions
<1>5. \A s \in DOMAIN subs : subs[s].stage = "gone" \/ subs[s].dropped
  <2>1. \A s \in DOMAIN subs : s # 0
    BY SubscriptionTyped
  <2> QED BY <1>4, <2>1 DEF Registered, Begin, Taken
<1> QED BY <1>3, <1>4, <1>5 DEF OneAtATime, Registered

LEMMA ReadOrder == OneAtATime /\ Registered /\ Read => OneAtATime' /\ Registered'
BY DEF OneAtATime, Registered, Read

\* A forwarder that writes has not gone.
LEMMA ForwarderWorks ==
  ASSUME TypeOK, NEW s \in DOMAIN subs, Replay(s) \/ Relay(s) \/ Finish(s)
  PROVE  subs[s].stage \notin {"gone", "reading"}
BY ForwarderSteps DEF WritesPast, WritesPush, GivesUp, WritesReply, Moves

LEMMA ForwarderOrder ==
  ASSUME TypeOK, OneAtATime, Registered, NEW s \in DOMAIN subs,
         Replay(s) \/ Relay(s) \/ Finish(s)
  PROVE  OneAtATime' /\ Registered'
<1>1. /\ DOMAIN subs' = DOMAIN subs /\ Len(subs') = Len(subs)
      /\ \A t \in DOMAIN subs : t # s => subs'[t] = subs[t]
      /\ subs'[s].dropped = subs[s].dropped
  BY ForwarderKeeps
<1>2. slot' = slot /\ conn' = conn
  BY ForwarderSteps
<1>3. subs[s].stage # "gone"
  BY ForwarderWorks
<1> QED BY <1>1, <1>2, <1>3 DEF OneAtATime, Registered

----------------------------------------------------------------------------
(***************************************************************************)
(* The order of the lines.                                                 *)
(***************************************************************************)
LEMMA LinesTyped ==
  ASSUME TypeOK, OfSubscriptions, NEW i \in DOMAIN out
  PROVE  /\ i \in Nat /\ i >= 1 /\ i <= Len(out) /\ out[i] \in LinesOut
         /\ out[i].sub \in Nat /\ out[i].sub <= Len(subs)
         /\ out[i].sub # 0 => out[i].sub \in DOMAIN subs
<1>1. i \in Nat /\ i >= 1 /\ i <= Len(out) /\ out[i] \in LinesOut
  BY DEF TypeOK
<1>2. out[i].sub \in Nat /\ out[i].sub <= Len(subs)
  BY <1>1 DEF LinesOut, OfSubscriptions
<1>3. DOMAIN subs = 1..Len(subs) /\ Len(subs) \in Nat
  BY DEF TypeOK
<1> QED BY <1>1, <1>2, <1>3

\* A line at the end that is of no subscription, of the last one or of one given up.
LEMMA OrderGrows ==
  ASSUME TypeOK, OfSubscriptions, Handover, NEW line \in LinesOut, out' = Append(out, line),
         head'.newest = head.newest,
         \A s \in DOMAIN subs : subs[s].dropped => subs'[s].dropped,
         line.sub = 0 \/ line.sub = Len(subs) \/ subs'[line.sub].dropped
  PROVE  Handover'
<1> SUFFICES ASSUME NEW i \in DOMAIN out', out'[i].sub # 0, ~subs'[out'[i].sub].dropped
             PROVE  /\ out'[i].sub >= head'.newest
                    /\ \A j \in 1..(i - 1) : out'[j].sub <= out'[i].sub
  BY DEF Handover
<1>0. out \in Seq(LinesOut) /\ Len(out) \in Nat /\ DOMAIN out = 1..Len(out)
  BY DEF TypeOK
<1>1. /\ DOMAIN out' = DOMAIN out \cup {Len(out) + 1} /\ out'[Len(out) + 1] = line
      /\ \A j \in DOMAIN out : out'[j] = out[j]
  BY <1>0, Appended
<1>2. CASE i \in DOMAIN out
  <2>1. out[i].sub \in DOMAIN subs /\ i \in Nat /\ i <= Len(out)
    BY <1>1, <1>2, LinesTyped
  <2>2. ~subs[out[i].sub].dropped
    BY <1>1, <1>2, <2>1
  <2>3. out[i].sub >= head.newest /\ \A j \in 1..(i - 1) : out[j].sub <= out[i].sub
    BY <1>1, <1>2, <2>2 DEF Handover
  <2>4. \A j \in 1..(i - 1) : j \in DOMAIN out
    BY <1>0, <2>1
  <2> QED BY <1>1, <1>2, <2>3, <2>4
<1>3. CASE i = Len(out) + 1
  <2>1. out'[i].sub = Len(subs)
    BY <1>1, <1>3
  <2>2. \A j \in 1..(i - 1) : j \in DOMAIN out
    BY <1>0, <1>3
  <2>3. \A j \in DOMAIN out : out[j].sub <= Len(subs)
    BY DEF OfSubscriptions
  <2>4. head.newest <= Len(subs) /\ head.newest \in Nat /\ Len(subs) \in Nat
    BY HeadFields DEF OfSubscriptions, TypeOK
  <2> QED BY <1>1, <2>1, <2>2, <2>3, <2>4
<1> QED BY <1>1, <1>2, <1>3

LEMMA OrderSame ==
  ASSUME TypeOK, OfSubscriptions, Handover, out' = out, head'.newest = head.newest,
         \A s \in DOMAIN subs : subs[s].dropped => subs'[s].dropped
  PROVE  Handover'
<1> SUFFICES ASSUME NEW i \in DOMAIN out, out[i].sub # 0, ~subs'[out[i].sub].dropped
             PROVE  /\ out[i].sub >= head.newest
                    /\ \A j \in 1..(i - 1) : out[j].sub <= out[i].sub
  BY DEF Handover
<1>1. out[i].sub \in DOMAIN subs
  BY LinesTyped
<1> QED BY <1>1 DEF Handover

LEMMA AsideHandover == TypeOK /\ OfSubscriptions /\ Handover /\ Aside => Handover'
<1> SUFFICES ASSUME TypeOK, OfSubscriptions, Handover, Aside PROVE Handover'
  OBVIOUS
<1>1. /\ \A s \in DOMAIN subs : subs[s].dropped => subs'[s].dropped
      /\ head'.newest = head.newest
  BY DEF Aside, SameLines
<1>2. CASE out' = out
  BY <1>1, <1>2, OrderSame
<1>3. CASE out' = Append(out, Line("reply", 0, conn.id)) /\ conn.id \in Nat
  <2>1. Line("reply", 0, conn.id) \in LinesOut /\ Line("reply", 0, conn.id).sub = 0
    <3>1. 0 \in Nat
      OBVIOUS
    <3> QED BY <1>3, <3>1, LineTyped
  <2> QED BY <1>1, <1>3, <2>1, OrderGrows
<1> QED BY <1>2, <1>3 DEF Aside

LEMMA BeginHandover == TypeOK /\ OfSubscriptions /\ Handover /\ Begin => Handover'
<1> SUFFICES ASSUME TypeOK, OfSubscriptions, Handover, Begin PROVE Handover'
  OBVIOUS
<1>1. PICK n \in Subscriptions : subs' = Append(subs, n)
  BY BeginMoves
<1>2. subs \in Seq(Subscriptions)
  BY DEF TypeOK
<1>3. \A t \in DOMAIN subs : subs'[t] = subs[t]
  BY <1>1, <1>2, Appended
<1> QED BY <1>3, OrderSame DEF Begin

LEMMA ReadHandover == TypeOK /\ OfSubscriptions /\ Handover /\ Read => Handover'
<1> SUFFICES ASSUME TypeOK, OfSubscriptions, Handover, Read,
                    NEW i \in DOMAIN out', out'[i].sub # 0, ~subs'[out'[i].sub].dropped
             PROVE  /\ out'[i].sub >= head'.newest
                    /\ \A j \in 1..(i - 1) : out'[j].sub <= out'[i].sub
  BY DEF Handover
<1>1. /\ subs' = subs /\ out \in Seq(LinesOut) /\ out # << >> /\ out' = Tail(out)
      /\ head'.newest = Max({head.newest, out[1].sub})
      /\ 1 \in DOMAIN out
  BY ReadMoves DEF Read, TypeOK
<1>2. /\ i \in Nat /\ i >= 1 /\ i + 1 \in DOMAIN out /\ out'[i] = out[i + 1]
      /\ \A j \in 1..(i - 1) : out'[j] = out[j + 1] /\ j + 1 \in 1..i
  BY <1>1
<1>3. out[i + 1].sub >= head.newest /\ \A j \in 1..(i + 1 - 1) : out[j].sub <= out[i + 1].sub
  BY <1>1, <1>2 DEF Handover
<1>4. 1 \in 1..(i + 1 - 1) /\ i + 1 - 1 = i
  BY <1>2
<1>5. head.newest \in Nat /\ out[1].sub \in Nat /\ out[1].sub <= out[i + 1].sub
  BY <1>1, <1>3, <1>4, HeadFields, LinesTyped
<1>6. head'.newest \in {head.newest, out[1].sub}
  BY <1>1, <1>5, MaxOfTwo
<1> QED BY <1>2, <1>3, <1>4, <1>5, <1>6

LEMMA ForwarderHandover ==
  ASSUME TypeOK, OfSubscriptions, OneAtATime, Handover, NEW s \in DOMAIN subs,
         Replay(s) \/ Relay(s) \/ Finish(s)
  PROVE  Handover'
<1>1. /\ \A t \in DOMAIN subs : subs[t].dropped => subs'[t].dropped
      /\ head'.newest = head.newest
  BY ForwarderKeeps, ForwarderSteps
<1>2. s = Len(subs) \/ subs'[s].dropped
  BY <1>1, ForwarderWorks DEF OneAtATime
<1>3. CASE out' = out
  BY <1>1, <1>3, OrderSame
<1>4. CASE \E kind \in {"event", "resync", "reply"}, k \in Nat : Says(s, kind, k)
  <2>1. PICK kind \in {"event", "resync", "reply"}, k \in Nat : Says(s, kind, k)
    BY <1>4
  <2>2. Line(kind, s, k) \in LinesOut /\ Line(kind, s, k).sub = s
    BY SubscriptionTyped, LineTyped
  <2> QED BY <1>1, <1>2, <2>1, <2>2, OrderGrows DEF Says
<1>5. 0 \in Nat
  OBVIOUS
<1> QED BY <1>3, <1>4, <1>5, ForwarderWrites

----------------------------------------------------------------------------
(***************************************************************************)
(* What is pointed at is there.                                            *)
(***************************************************************************)
\* Nothing points past the subscriptions after a line is written.
LEMMA LinesOfSubscriptions ==
  ASSUME TypeOK, OfSubscriptions, NEW line \in LinesOut, out' = Append(out, line),
         line.sub <= Len(subs), line.kind = "event" => line.sub # 0
  PROVE  /\ \A i \in DOMAIN out' : out'[i].sub <= Len(subs)
         /\ \A i \in DOMAIN out' : out'[i].kind = "event" => out'[i].sub # 0
<1>1. out \in Seq(LinesOut)
  BY DEF TypeOK
<1>2. /\ DOMAIN out' = DOMAIN out \cup {Len(out) + 1} /\ out'[Len(out) + 1] = line
      /\ \A j \in DOMAIN out : out'[j] = out[j]
  BY <1>1, Appended
<1> QED BY <1>2 DEF OfSubscriptions

LEMMA AsideOf ==
  ASSUME TypeOK, OfSubscriptions, BeingRead, ClosedIsOut,
         \/ Land \/ Stop \/ Command \/ Answer \/ Refuse \/ Reply \/ Subscribe \/ Missed
         \/ Add \/ Unsubscribe \/ UNCHANGED vars
  PROVE  OfSubscriptions'
<1>1. Aside
  BY AsideSteps
<1>2. DOMAIN subs' = DOMAIN subs /\ Len(subs') = Len(subs) /\ head'.newest = head.newest
  BY <1>1 DEF Aside
<1>3. DOMAIN subs = 1..Len(subs) /\ Len(subs) \in Nat
  BY DEF TypeOK
<1>4. /\ \A i \in DOMAIN out' : out'[i].sub <= Len(subs)
      /\ \A i \in DOMAIN out' : out'[i].kind = "event" => out'[i].sub # 0
  <2>1. CASE out' = out
    BY <2>1 DEF OfSubscriptions
  <2>2. CASE out' = Append(out, Line("reply", 0, conn.id)) /\ conn.id \in Nat
    <3>1. /\ Line("reply", 0, conn.id) \in LinesOut /\ Line("reply", 0, conn.id).sub = 0
          /\ Line("reply", 0, conn.id).kind = "reply"
      <4>1. 0 \in Nat
        OBVIOUS
      <4> QED BY <2>2, <4>1, LineTyped
    <3> QED BY <1>3, <2>2, <3>1, LinesOfSubscriptions
  <2> QED BY <1>1, <2>1, <2>2 DEF Aside
<1>5. /\ conn'.do = "take" => Len(subs) < MaxSubs /\ slot' = 0
      /\ slot' <= Len(subs)
      /\ conn'.do = "read" => conn'.sub \in DOMAIN subs /\ slot' = 0
  <2>1. CASE conn' = conn /\ slot' = slot
    BY <2>1 DEF OfSubscriptions
  <2>2. CASE slot' = slot /\ conn'.do \notin {"take", "read"}
    BY <2>2 DEF OfSubscriptions
  <2>3. CASE slot' = slot /\ conn'.do = "idle"
    BY <2>3 DEF OfSubscriptions
  <2>4. CASE Len(subs) < MaxSubs /\ slot' = 0 /\ conn'.do = "take"
    BY <1>3, <2>4
  <2>5. CASE conn.sub \in DOMAIN subs /\ slot' = conn.sub /\ conn'.do = "idle"
    BY <1>3, <2>5
  <2>6. CASE slot' = 0 /\ conn' = conn /\ conn.do = "idle"
    BY <1>3, <2>6
  <2> QED BY <2>1, <2>2, <2>3, <2>4, <2>5, <2>6, AsideTurns
<1> QED BY <1>2, <1>4, <1>5 DEF OfSubscriptions

LEMMA BeginOf == TypeOK /\ OfSubscriptions /\ Begin => OfSubscriptions'
<1> SUFFICES ASSUME TypeOK, OfSubscriptions, Begin PROVE OfSubscriptions'
  OBVIOUS
<1>1. PICK n \in Subscriptions : subs' = Append(subs, n)
  BY BeginMoves
<1>2. subs \in Seq(Subscriptions) /\ Len(subs) \in Nat
  BY DEF TypeOK
<1>3. DOMAIN subs' = DOMAIN subs \cup {Len(subs) + 1} /\ Len(subs') = Len(subs) + 1
  BY <1>1, <1>2, Appended
<1>4. /\ conn'.do = "read" /\ conn'.sub = Len(subs') /\ slot' = slot /\ out' = out
      /\ head' = head
  BY DEF Begin
<1>5. Len(subs) < MaxSubs /\ slot = 0
  BY DEF Begin, Taken, OfSubscriptions
<1>6. \A i \in DOMAIN out : out[i].sub \in Nat /\ out[i].sub <= Len(subs)
  BY LinesTyped
<1>7. head.newest \in Nat /\ head.newest <= Len(subs)
  BY HeadFields DEF OfSubscriptions
<1>8. /\ \A i \in DOMAIN out : out[i].sub <= Len(subs) + 1
      /\ \A i \in DOMAIN out : out[i].kind = "event" => out[i].sub # 0
  BY <1>2, <1>6 DEF OfSubscriptions
<1>9. Len(subs) + 1 <= MaxSubs /\ head.newest <= Len(subs) + 1 /\ 0 <= Len(subs) + 1
  BY <1>2, <1>5, <1>7, DeliveryLimits
<1> QED BY <1>3, <1>4, <1>5, <1>8, <1>9 DEF OfSubscriptions

LEMMA ReadOf == TypeOK /\ OfSubscriptions /\ Read => OfSubscriptions'
<1> SUFFICES ASSUME TypeOK, OfSubscriptions, Read PROVE OfSubscriptions'
  OBVIOUS
<1>1. /\ out \in Seq(LinesOut) /\ out # << >> /\ out' = Tail(out) /\ 1 \in DOMAIN out
      /\ head'.newest = Max({head.newest, out[1].sub})
      /\ subs' = subs /\ slot' = slot /\ conn' = conn
  BY ReadMoves DEF Read, TypeOK
<1>2. \A i \in DOMAIN out' : i + 1 \in DOMAIN out /\ out'[i] = out[i + 1]
  BY <1>1, WithoutFirst
<1>3. head'.newest \in {head.newest, out[1].sub}
  BY <1>1, HeadFields, LinesTyped, MaxOfTwo
<1> QED BY <1>1, <1>2, <1>3 DEF OfSubscriptions

LEMMA ForwarderOf ==
  ASSUME TypeOK, OfSubscriptions, NEW s \in DOMAIN subs, Replay(s) \/ Relay(s) \/ Finish(s)
  PROVE  OfSubscriptions'
<1>1. DOMAIN subs' = DOMAIN subs /\ Len(subs') = Len(subs)
  BY ForwarderKeeps
<1>2. slot' = slot /\ conn' = conn /\ head' = head
  BY ForwarderSteps
<1>3. /\ \A i \in DOMAIN out' : out'[i].sub <= Len(subs)
      /\ \A i \in DOMAIN out' : out'[i].kind = "event" => out'[i].sub # 0
  <2>1. CASE out' = out
    BY <2>1 DEF OfSubscriptions
  <2>2. CASE \E kind \in {"event", "resync", "reply"}, k \in Nat : Says(s, kind, k)
    <3>1. PICK kind \in {"event", "resync", "reply"}, k \in Nat : Says(s, kind, k)
      BY <2>2
    <3>2. Line(kind, s, k) \in LinesOut /\ Line(kind, s, k).sub = s
      BY SubscriptionTyped, LineTyped
    <3>3. s <= Len(subs) /\ s # 0
      BY SubscriptionTyped
    <3> QED BY <3>1, <3>2, <3>3, LinesOfSubscriptions DEF Says
  <2>3. 0 \in Nat
    OBVIOUS
  <2> QED BY <2>1, <2>2, <2>3, ForwarderWrites
<1> QED BY <1>1, <1>2, <1>3 DEF OfSubscriptions

\* Nothing is read of a subscription to come.
LEMMA UnreadStays ==
  ASSUME TypeOK, OfSubscriptions, UnreadAhead,
         \/ head'.got = head.got /\ Len(subs') \in Nat /\ Len(subs') >= Len(subs)
         \/ Read
  PROVE  UnreadAhead'
<1>0. Len(subs) \in Nat
  BY DEF TypeOK
<1>1. CASE Read
  <2> SUFFICES ASSUME NEW s \in 1..MaxSubs, s > Len(subs) PROVE head'.got[s] = 0
    BY <1>1 DEF UnreadAhead, Read
  <2>1. out[1].sub \in Nat /\ out[1].sub <= Len(subs)
    BY <1>1, ReadMoves, LinesTyped
  <2>2. out[1].sub # s
    BY <1>0, <2>1
  <2>3. head.got[s] = 0
    BY DEF UnreadAhead
  <2>4. CASE out[1].kind = "event"
    BY <1>1, <2>2, <2>3, <2>4, ReadMoves, HeadFields
  <2>5. CASE out[1].kind # "event"
    BY <1>1, <2>3, <2>5, ReadMoves
  <2> QED BY <2>4, <2>5
<1>2. CASE head'.got = head.got /\ Len(subs') \in Nat /\ Len(subs') >= Len(subs)
  <2> SUFFICES ASSUME NEW s \in 1..MaxSubs, s > Len(subs') PROVE head'.got[s] = 0
    BY <1>2 DEF UnreadAhead
  <2> QED BY <1>0, <1>2 DEF UnreadAhead
<1> QED BY <1>1, <1>2

----------------------------------------------------------------------------
(***************************************************************************)
(* The steps together.                                                     *)
(***************************************************************************)
LEMMA InitInv == Init => IInv
<1> SUFFICES ASSUME Init PROVE IInv
  OBVIOUS
<1>1. /\ subs = << >> /\ out = << >> /\ answered = << >> /\ slot = 0 /\ conn.do = "idle"
      /\ head.newest = 0 /\ head.got = [s \in 1..MaxSubs |-> 0]
  BY DEF Init, Idle
<1>2. DOMAIN subs = {} /\ DOMAIN out = {} /\ DOMAIN answered = {} /\ Len(subs) = 0
  BY <1>1
<1>3. OfSubscriptions /\ BeingRead /\ ClosedIsOut /\ UnreadAhead
  BY <1>1, <1>2, DeliveryLimits DEF OfSubscriptions, BeingRead, ClosedIsOut, UnreadAhead
<1>4. PastJoins /\ EventsChained /\ EndedIsTold /\ OneAtATime /\ Registered
  BY <1>2 DEF PastJoins, EventsChained, EndedIsTold, OneAtATime, Registered
<1>5. RepliesAreAnswers /\ RepliesCovered /\ Handover
  BY <1>1, <1>2 DEF RepliesAreAnswers, RepliesCovered, Handover
<1> QED BY <1>3, <1>4, <1>5, InitTyped DEF IInv

\* The one whose past is read stays as it is, and the registered one open.
LEMMA AsideSlots ==
  ASSUME TypeOK, OfSubscriptions, BeingRead, ClosedIsOut,
         \/ Land \/ Stop \/ Command \/ Answer \/ Refuse \/ Reply \/ Subscribe \/ Missed
         \/ Add \/ Unsubscribe \/ UNCHANGED vars
  PROVE  BeingRead' /\ ClosedIsOut'
<1>0. conn \in Busy /\ subs \in Seq(Subscriptions) /\ slot \in Nat
  BY DEF TypeOK
<1>1. CASE Land \/ UNCHANGED vars
  BY <1>1 DEF Land, vars, BeingRead, ClosedIsOut
<1>2. CASE Stop
  <2>1. ASSUME NEW s \in DOMAIN subs
        PROVE  subs'[s].stage = subs[s].stage /\ subs'[s].closed = subs[s].closed
    <3>1. subs[s] \in Subscriptions
      BY SubscriptionTyped
    <3>2. subs'[s] = subs[s]
            \/ subs'[s] = [subs[s] EXCEPT !.open = FALSE, !.end = landed]
      BY <1>2 DEF Stop
    <3> QED BY <3>1, <3>2 DEF Subscriptions
  <2>2. slot # 0 => slot \in DOMAIN subs
    BY <1>0 DEF OfSubscriptions
  <2>3. conn.do = "read" => conn.sub \in DOMAIN subs
    BY DEF OfSubscriptions
  <2> QED BY <1>2, <2>1, <2>2, <2>3 DEF Stop, BeingRead, ClosedIsOut
<1>3. CASE Command \/ Missed
  BY <1>3 DEF Command, Missed, Idle, BeingRead, ClosedIsOut
<1>4. CASE Answer \/ Refuse
  <2>1. conn'.do = "reply"
    BY <1>0, <1>4 DEF Answer, Refuse, Busy
  <2> QED BY <1>4, <2>1 DEF Answer, Refuse, BeingRead, ClosedIsOut
<1>5. CASE Reply
  <2>1. conn'.do = "idle" /\ slot' = slot
    BY <1>5 DEF Reply, Idle
  <2>2. slot # 0 => ~subs'[slot].closed
    <3>1. CASE subs' = subs
      BY <3>1 DEF ClosedIsOut
    <3>2. CASE /\ slot \in DOMAIN subs
               /\ Becomes(slot, [subs[slot] EXCEPT !.replies = Append(@, conn.id)])
      <4>1. subs'[slot] = [subs[slot] EXCEPT !.replies = Append(@, conn.id)]
        BY <1>0, <3>2 DEF Becomes
      <4>2. subs'[slot].closed = subs[slot].closed
        BY <3>2, <4>1, SubscriptionTyped DEF Subscriptions
      <4> QED BY <4>2 DEF ClosedIsOut
    <3> QED BY <1>5, <3>1, <3>2, ReplyMoves
  <2> QED BY <2>1, <2>2 DEF BeingRead, ClosedIsOut
<1>6. CASE Subscribe
  <2>1. CASE UNCHANGED <<subs, slot, conn>>
    BY <2>1 DEF BeingRead, ClosedIsOut
  <2>2. CASE slot' = 0 /\ conn'.do = "take"
    BY <2>2 DEF BeingRead, ClosedIsOut
  <2> QED BY <1>6, <2>1, <2>2, SubscribeMoves
<1>7. CASE Add
  <2>1. /\ conn.sub \in DOMAIN subs /\ slot' = conn.sub /\ conn' = Idle /\ conn.do = "read"
        /\ subs'[conn.sub] = [subs[conn.sub] EXCEPT !.stage = "replay"]
    BY <1>0, <1>7, AddMoves DEF Add
  <2>2. ~subs[conn.sub].closed
    BY <2>1 DEF BeingRead
  <2>3. ~subs'[conn.sub].closed
    BY <2>1, <2>2, SubscriptionTyped DEF Subscriptions
  <2> QED BY <2>1, <2>3 DEF BeingRead, ClosedIsOut, Idle
<1>8. CASE Unsubscribe
  <2>1. slot' = 0 /\ conn' = Idle
    BY <1>8, UnsubscribeMoves DEF Unsubscribe
  <2> QED BY <2>1 DEF BeingRead, ClosedIsOut, Idle
<1> QED BY <1>1, <1>2, <1>3, <1>4, <1>5, <1>6, <1>7, <1>8

LEMMA AsideInv ==
  ASSUME IInv,
         \/ Land \/ Stop \/ Command \/ Answer \/ Refuse \/ Reply \/ Subscribe \/ Missed
         \/ Add \/ Unsubscribe \/ UNCHANGED vars
  PROVE  IInv'
<1>1. /\ TypeOK /\ OfSubscriptions /\ BeingRead /\ ClosedIsOut
      /\ PastJoins /\ EventsChained /\ UnreadAhead
      /\ RepliesAreAnswers /\ EndedIsTold /\ OneAtATime /\ Registered
      /\ RepliesCovered /\ Handover
  BY DEF IInv
<1>2. Aside
  BY <1>1, AsideSteps
<1>3. TypeOK'
  BY <1>1, NextTyped DEF Next, Work
<1>4. OfSubscriptions' /\ BeingRead' /\ ClosedIsOut'
  BY <1>1, AsideOf, AsideSlots
<1>5. PastJoins' /\ EventsChained'
  BY <1>1, <1>2, AsidePast, AsideChained
<1>6. UnreadAhead'
  <2>1. head'.got = head.got /\ Len(subs') \in Nat /\ Len(subs') >= Len(subs)
    <3>1. Len(subs) \in Nat
      BY <1>1 DEF TypeOK
    <3> QED BY <1>2, <3>1 DEF Aside
  <2> QED BY <1>1, <2>1, UnreadStays
<1>7. RepliesAreAnswers' /\ EndedIsTold'
  BY <1>1, <1>2, AsideAnswers, AsideTold
<1>8. OneAtATime' /\ Registered'
  BY <1>1, AsideOrder
<1>9. RepliesCovered' /\ Handover'
  BY <1>1, <1>2, AsideCovered, AsideHandover
<1> QED BY <1>3, <1>4, <1>5, <1>6, <1>7, <1>8, <1>9 DEF IInv

LEMMA BeginInv == IInv /\ Begin => IInv'
<1> SUFFICES ASSUME IInv, Begin PROVE IInv'
  OBVIOUS
<1>1. /\ TypeOK /\ OfSubscriptions /\ BeingRead /\ ClosedIsOut
      /\ PastJoins /\ EventsChained /\ UnreadAhead
      /\ RepliesAreAnswers /\ EndedIsTold /\ OneAtATime /\ Registered
      /\ RepliesCovered /\ Handover
  BY DEF IInv
<1>2. PICK n \in Subscriptions :
        subs' = Append(subs, n) /\ n.stage = "reading" /\ ~n.closed
  BY <1>1, BeginMoves
<1>3. subs \in Seq(Subscriptions) /\ Len(subs) \in Nat
  BY <1>1 DEF TypeOK
<1>4. Len(subs') = Len(subs) + 1 /\ subs'[Len(subs) + 1] = n
  BY <1>2, <1>3, Appended
<1>5. BeingRead' /\ ClosedIsOut'
  <2>1. conn'.sub = Len(subs') /\ slot' = slot /\ slot = 0
    BY <1>1 DEF Begin, Taken, OfSubscriptions
  <2> QED BY <1>2, <1>4, <2>1 DEF BeingRead, ClosedIsOut
<1>6. UnreadAhead'
  <2>1. head' = head /\ Len(subs') \in Nat /\ Len(subs') >= Len(subs)
    BY <1>3, <1>4 DEF Begin
  <2> QED BY <1>1, <2>1, UnreadStays
<1>7. TypeOK' /\ OfSubscriptions' /\ PastJoins' /\ EventsChained'
  BY <1>1, BeginTyped, BeginOf, BeginPast, BeginChained
<1>8. RepliesAreAnswers' /\ EndedIsTold' /\ OneAtATime' /\ Registered'
  BY <1>1, BeginAnswers, BeginTold, BeginOrder
<1>9. RepliesCovered' /\ Handover'
  BY <1>1, BeginCovered, BeginHandover
<1> QED BY <1>5, <1>6, <1>7, <1>8, <1>9 DEF IInv

LEMMA ReadInv == IInv /\ Read => IInv'
<1> SUFFICES ASSUME IInv, Read PROVE IInv'
  OBVIOUS
<1>1. /\ TypeOK /\ OfSubscriptions /\ BeingRead /\ ClosedIsOut
      /\ PastJoins /\ EventsChained /\ UnreadAhead
      /\ RepliesAreAnswers /\ EndedIsTold /\ OneAtATime /\ Registered
      /\ RepliesCovered /\ Handover
  BY DEF IInv
<1>2. BeingRead' /\ ClosedIsOut'
  BY <1>1 DEF Read, BeingRead, ClosedIsOut
<1>3. UnreadAhead'
  BY <1>1, UnreadStays
<1>4. TypeOK' /\ OfSubscriptions' /\ PastJoins' /\ EventsChained'
  BY <1>1, ReadTyped, ReadOf, ReadPast, ReadChained
<1>5. RepliesAreAnswers' /\ EndedIsTold' /\ OneAtATime' /\ Registered'
  BY <1>1, ReadAnswers, ReadTold, ReadOrder
<1>6. RepliesCovered' /\ Handover'
  BY <1>1, ReadCovered, ReadHandover
<1> QED BY <1>2, <1>3, <1>4, <1>5, <1>6 DEF IInv

LEMMA ForwarderInv ==
  ASSUME IInv, NEW s \in DOMAIN subs, Replay(s) \/ Relay(s) \/ Finish(s)
  PROVE  IInv'
<1>1. /\ TypeOK /\ OfSubscriptions /\ BeingRead /\ ClosedIsOut
      /\ PastJoins /\ EventsChained /\ UnreadAhead
      /\ RepliesAreAnswers /\ EndedIsTold /\ OneAtATime /\ Registered
      /\ RepliesCovered /\ Handover
  BY DEF IInv
<1>2. /\ \A t \in DOMAIN subs : t # s => subs'[t] = subs[t]
      /\ subs'[s].closed = subs[s].closed /\ Len(subs') = Len(subs)
  BY <1>1, ForwarderKeeps
<1>3. slot' = slot /\ conn' = conn /\ head' = head
  BY <1>1, ForwarderSteps
<1>4. BeingRead' /\ ClosedIsOut'
  <2>1. conn.do = "read" => conn.sub # s /\ conn.sub \in DOMAIN subs
    BY <1>1, ForwarderWorks DEF BeingRead, OfSubscriptions
  <2>2. slot # 0 => slot \in DOMAIN subs
    BY <1>1 DEF OfSubscriptions, TypeOK
  <2>3. BeingRead'
    BY <1>1, <1>2, <1>3, <2>1 DEF BeingRead
  <2>4. ClosedIsOut'
    BY <1>1, <1>2, <1>3, <2>2 DEF ClosedIsOut
  <2> QED BY <2>3, <2>4
<1>5. UnreadAhead'
  <2>1. Len(subs) \in Nat
    BY <1>1 DEF TypeOK
  <2> QED BY <1>1, <1>2, <1>3, <2>1, UnreadStays
<1>6. TypeOK' /\ OfSubscriptions' /\ PastJoins' /\ EventsChained'
  BY <1>1, ForwarderTyped, ForwarderOf, ForwarderPast, ForwarderChained
<1>7. RepliesAreAnswers' /\ EndedIsTold' /\ OneAtATime' /\ Registered'
  BY <1>1, ForwarderAnswers, ForwarderTold, ForwarderOrder
<1>8. RepliesCovered' /\ Handover'
  BY <1>1, ForwarderCovered, ForwarderHandover
<1> QED BY <1>4, <1>5, <1>6, <1>7, <1>8 DEF IInv

LEMMA NextInv == IInv /\ [Next]_vars => IInv'
<1> SUFFICES ASSUME IInv, [Next]_vars PROVE IInv'
  OBVIOUS
<1>1. CASE \/ Land \/ Stop \/ Command \/ Answer \/ Refuse \/ Reply \/ Subscribe \/ Missed
           \/ Add \/ Unsubscribe \/ UNCHANGED vars
  BY <1>1, AsideInv
<1>2. CASE \E s \in DOMAIN subs : Replay(s) \/ Relay(s) \/ Finish(s)
  BY <1>2, ForwarderInv
<1> QED BY <1>1, <1>2, BeginInv, ReadInv DEF Next, Work

LEMMA AlwaysInv == Spec => []IInv
BY InitInv, NextInv, PTL DEF Spec

----------------------------------------------------------------------------
(***************************************************************************)
(* What it means for the lines.                                            *)
(***************************************************************************)
\* The events of a chain before one of them are as many as the numbers before its own.
LEMMA ChainCounted ==
  ASSUME NEW q \in Seq(LinesOut), NEW s, NEW g \in Nat, NEW p \in Nat, Chain(q, s, g, p),
         NEW i \in DOMAIN q, IsEvent(q[i], s)
  PROVE  q[i].n = g + Cardinality({j \in DOMAIN q : IsEvent(q[j], s) /\ j < i}) + 1
<1> DEFINE earlier == {j \in DOMAIN q : IsEvent(q[j], s) /\ j < i}
           numbers == (g + 1)..(q[i].n - 1)
           number == [j \in earlier |-> q[j].n]
<1>1. \A j \in DOMAIN q : j \in Nat /\ q[j] \in LinesOut /\ q[j].n \in Nat
  <2>1. \A j \in DOMAIN q : j \in Nat /\ q[j] \in LinesOut
    OBVIOUS
  <2> QED BY <2>1 DEF LinesOut
<1>2. g < q[i].n /\ q[i].n < p
  BY DEF Chain
<1>3. number \in [earlier -> numbers]
  <2>1. ASSUME NEW j \in earlier PROVE q[j].n \in numbers
    <3>1. g < q[j].n /\ q[j].n < q[i].n
      BY DEF Chain
    <3> QED BY <1>1, <3>1
  <2> QED BY <2>1
<1>4. ASSUME NEW j \in earlier, NEW k \in earlier, number[j] = number[k]
      PROVE  j = k
  <2>1. q[j].n = q[k].n
    BY <1>4
  <2>2. ~(j < k) /\ ~(k < j)
    BY <1>1, <2>1 DEF Chain
  <2> QED BY <1>1, <2>2
<1>5. ASSUME NEW n \in numbers PROVE \E j \in earlier : number[j] = n
  <2>1. n \in (g + 1)..(p - 1) /\ n < q[i].n /\ n \in Int
    BY <1>1, <1>2
  <2>2. PICK j \in DOMAIN q : IsEvent(q[j], s) /\ q[j].n = n
    BY <2>1 DEF Chain
  <2>3. ~(i < j) /\ i # j
    BY <1>1, <2>1, <2>2 DEF Chain
  <2>4. j \in earlier
    BY <1>1, <2>2, <2>3
  <2> QED BY <2>2, <2>4
<1>6. number \in Bijection(earlier, numbers)
  <2> HIDE DEF number, earlier, numbers
  <2> QED BY <1>3, <1>4, <1>5, Fun_IsBij
<1>7. IsFiniteSet(earlier)
  <2>1. DOMAIN q = 1..Len(q) /\ Len(q) \in Int /\ 1 \in Int
    OBVIOUS
  <2>2. IsFiniteSet(1..Len(q))
    BY <2>1, FS_Interval
  <2>3. earlier \subseteq 1..Len(q)
    BY <2>1
  <2> QED BY <2>2, <2>3, FS_Subset
<1>8. Cardinality(numbers) = Cardinality(earlier)
  <2> HIDE DEF number, earlier, numbers
  <2> QED BY <1>6, <1>7, FS_Bijection DEF ExistsBijection
<1>9. Cardinality(numbers) = q[i].n - 1 - g
  <2>1. g + 1 \in Int /\ q[i].n - 1 \in Int
    BY <1>1
  <2>2. Cardinality((g + 1)..(q[i].n - 1))
          = IF g + 1 > q[i].n - 1 THEN 0 ELSE q[i].n - 1 - (g + 1) + 1
    BY <2>1, FS_Interval
  <2> QED BY <1>1, <1>2, <2>2
<1> HIDE DEF numbers
<1> QED BY <1>1, <1>8, <1>9

LEMMA InvImpliesJoined == IInv => NoGapNoOverlap
<1> SUFFICES ASSUME IInv, NEW s \in DOMAIN subs, NEW i \in Of(s, "event")
             PROVE  out[i].n = Got(s) + Cardinality(Before(s, i)) + 1
  BY DEF NoGapNoOverlap, Got
<1>1. TypeOK /\ OfSubscriptions /\ PastJoins /\ EventsChained
  BY DEF IInv
<1>2. /\ out \in Seq(LinesOut) /\ Got(s) \in Nat /\ Position(s) \in Nat
      /\ Chain(out, s, Got(s), Position(s))
  BY <1>1, Positions DEF TypeOK, EventsChained, Chained
<1>3. i \in DOMAIN out /\ IsEvent(out[i], s)
  BY DEF Of, IsEvent
<1>4. Before(s, i) = {j \in DOMAIN out : IsEvent(out[j], s) /\ j < i}
  BY DEF Before, Of, IsEvent
<1> QED BY <1>2, <1>3, <1>4, ChainCounted

LEMMA InvImpliesCovered == IInv => ResultsBeforeReply
<1> SUFFICES ASSUME IInv, NEW i \in DOMAIN out, NEW s \in DOMAIN subs,
                    out[i].kind = "reply", out[i].sub = s
             PROVE  \/ s \in head.resynced \/ \E j \in Of(s, "resync") : j < i
                    \/ answered[out[i].n] < subs[s].first
                    \/ head.got[s] >= answered[out[i].n]
                    \/ \E j \in Before(s, i) : out[j].n >= answered[out[i].n]
  BY DEF ResultsBeforeReply
<1>1. Covered(out, i, s, s \in head.resynced, subs[s].first, head.got[s], answered[out[i].n])
  BY DEF IInv, RepliesCovered
<1>2. CASE \E j \in DOMAIN out : j < i /\ out[j].sub = s /\ out[j].kind = "resync"
  BY <1>2 DEF Of
<1>3. CASE \E j \in DOMAIN out : j < i /\ IsEvent(out[j], s) /\ out[j].n >= answered[out[i].n]
  BY <1>3 DEF Before, Of, IsEvent
<1> QED BY <1>1, <1>2, <1>3 DEF Covered

----------------------------------------------------------------------------
\* The subscriptions, the lines, the request and the head keep their types.
THEOREM DeliveryTypes == Spec => []TypeOK
BY AlwaysInv, PTL DEF IInv

\* Whatever lands while the past is read and written, and however often a session stops or
\* a subscription is replaced: the events of a subscription are read one after the other,
\* without a gap and without a repetition.
THEOREM PastAndPushesJoin == Spec => []NoGapNoOverlap
BY AlwaysInv, InvImpliesJoined, PTL

\* A reply is never read before the event it tells of, or before the resync that says that
\* events are missing.
THEOREM EventsBeforeReply == Spec => []ResultsBeforeReply
BY AlwaysInv, InvImpliesCovered, PTL

\* Lines of a subscription come after all lines of those before it, unless the head gave
\* it up.
THEOREM OneAfterTheOther == Spec => []Handover
<1>1. IInv => Handover
  BY DEF IInv
<1> QED BY <1>1, AlwaysInv, PTL

=============================================================================
