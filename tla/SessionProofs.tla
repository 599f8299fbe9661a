--------------------------- MODULE SessionProofs ---------------------------
(***************************************************************************)
(* What holds of a session for any scenes: its log is a journal, what a    *)
(* head was told was accepted stays in it, every command is answered as    *)
(* often as it was received, the ledger never refuses what the kernel      *)
(* makes, calls that write run alone and in order, none starts while the   *)
(* session is read-only, none starts but with its reply and permissions on *)
(* disk, no result lies about whether its tool ran, nobody is left unheard *)
(* and no turn opens that was stopped or taken up too often.               *)
(***************************************************************************)
EXTENDS Session, TurnProofs

----------------------------------------------------------------------------
(***************************************************************************)
(* The journal speaks of the same rule book.                               *)
(***************************************************************************)
LEMMA SameEmptyBook == Outside!EmptyBook = EmptyBook
BY DEF EmptyBook, Outside!EmptyBook

LEMMA SameLegal ==
  ASSUME NEW b, NEW e
  PROVE  Outside!Legal(b, e) = Legal(b, e)
BY DEF Legal, LegalTurn, LegalStart, LegalTriggers, LegalBody, LegalRevert,
       InTurnOnly, Compacted, LastReverted, TurnsFrom, PositionOf,
       Outside!Legal, Outside!LegalTurn, Outside!LegalStart, Outside!LegalTriggers,
       Outside!LegalBody, Outside!LegalRevert, Outside!InTurnOnly,
       Outside!Compacted, Outside!LastReverted, Outside!TurnsFrom,
       Outside!PositionOf, Last, Outside!Last

LEMMA SameRecord ==
  ASSUME NEW b, NEW e
  PROVE  Outside!Record(b, e) = Record(b, e)
BY DEF Record, RecordBody, RecordStarted, RecordJoined, RecordUser,
       RecordWithdrawn, RecordCalled, RecordAssistant, RecordResult,
       RecordRequested, RecordDecided, RecordAsked, RecordAnswered,
       RecordEnded, RecordCompacted, RecordReverted, RecordUnreverted,
       PositionOf, KeptBefore, Range, Last, Front,
       Outside!Record, Outside!RecordBody, Outside!RecordStarted,
       Outside!RecordJoined, Outside!RecordUser, Outside!RecordWithdrawn,
       Outside!RecordCalled, Outside!RecordAssistant, Outside!RecordResult,
       Outside!RecordRequested, Outside!RecordDecided, Outside!RecordAsked,
       Outside!RecordAnswered, Outside!RecordEnded, Outside!RecordCompacted,
       Outside!RecordReverted, Outside!RecordUnreverted,
       Outside!PositionOf, Outside!KeptBefore, Outside!Range, Outside!Last, Outside!Front

\* The book of a log is the same book.
LEMMA SameBook ==
  ASSUME NEW events
  PROVE  Outside!Book(events) = BookOf(events)
BY DEF BookOf, FoldLeft, MapThenFoldSet, EmptyBook, Max, Outside!Book,
       Outside!FoldLeft, Outside!MapThenFoldSet, Outside!EmptyBook, Outside!Max,
       Record, RecordBody, RecordStarted, RecordJoined, RecordUser,
       RecordWithdrawn, RecordCalled, RecordAssistant, RecordResult,
       RecordRequested, RecordDecided, RecordAsked, RecordAnswered,
       RecordEnded, RecordCompacted, RecordReverted, RecordUnreverted,
       PositionOf, KeptBefore, Range, Last, Front,
       Outside!Record, Outside!RecordBody, Outside!RecordStarted,
       Outside!RecordJoined, Outside!RecordUser, Outside!RecordWithdrawn,
       Outside!RecordCalled, Outside!RecordAssistant, Outside!RecordResult,
       Outside!RecordRequested, Outside!RecordDecided, Outside!RecordAsked,
       Outside!RecordAnswered, Outside!RecordEnded, Outside!RecordCompacted,
       Outside!RecordReverted, Outside!RecordUnreverted,
       Outside!PositionOf, Outside!KeptBefore, Outside!Range, Outside!Last, Outside!Front

\* A longer log extends the one before by legal events.
LEMMA LongerIsLegal ==
  ASSUME NEW l, IsLog(l), NEW m, IsLog(m), Longer(l, m)
  PROVE  Outside!Extends(m, l) /\ Outside!LegalFrom(m, Len(l) + 1)
<1>1. Len(l) \in Nat /\ Len(m) \in Nat
  BY SeqIsFunction DEF IsLog
<1>2. Outside!LegalFrom(m, Len(l) + 1)
  BY SameBook, SameLegal DEF Longer, LegalSince, Outside!LegalFrom
<1>3. PICK b : b = SubSeq(m, 1, Len(l))
  OBVIOUS
<1>4. /\ IsSeq(b) /\ Len(b) = Len(l)
      /\ \A i \in 1..Len(l) : b[i] = m[i]
  BY <1>1, <1>3, BeginningIsSeq DEF IsLog, Longer
<1>5. b = l
  BY <1>4, SameSeq DEF IsLog, Longer
<1> QED
  BY <1>1, <1>2, <1>3, <1>5 DEF Outside!Extends, Longer

----------------------------------------------------------------------------
(***************************************************************************)
(* The inductive invariant.                                                *)
(***************************************************************************)
\* Batches that are being written end inside the log.
Pending(batches, n) ==
  IsSeq(batches) /\ \A i \in 1..Len(batches) : batches[i] \in 0..n

\* What was given to a head is on disk, as it was given.
OnDisk(events, log, n) ==
  \A e \in Range(events) : e.seq \in 1..n /\ log[e.seq] = e

IInv ==
  /\ scene \in DOMAIN Scenes
  /\ Sound(kernel) /\ Talking(kernel) /\ kernel.replies = << >>
  /\ Linked(kernel) /\ kernel.out = {} /\ kernel.stored # 0
  /\ Pending(ends, Len(kernel.log))
  /\ \A id \in Ids : OnDisk(given[id].events, kernel.log, kernel.stored)

\* What is on disk stays there when the log gets longer.
LEMMA StaysOnDisk ==
  ASSUME NEW events, NEW l, NEW n \in Nat, n <= Len(l), OnDisk(events, l, n),
         NEW m, NEW k \in Nat, n <= k, \A i \in 1..n : m[i] = l[i]
  PROVE  OnDisk(events, m, k)
BY DEF OnDisk

\* The first accepted answer tells events that are on disk.
LEMMA GivenOnDisk ==
  ASSUME NEW s, Sound(s), Talking(s), NEW id,
         OnDisk(given[id].events, s.log, s.stored)
  PROVE  OnDisk(FirstGiven(s, id).events, s.log, s.stored)
<1> DEFINE accepted == {i \in RepliesTo(s, id) : s.replies[i].ok}
           events == s.replies[Min(accepted)].events
<1>1. CASE given[id].ok \/ accepted = {}
  BY <1>1 DEF FirstGiven
<1>2. CASE ~(given[id].ok \/ accepted = {})
  <2>1. IsSeq(s.replies)
    BY DEF Talking, Answers
  <2>2. PICK n : n = Len(s.replies)
    OBVIOUS
  <2>3. n \in Nat /\ DOMAIN s.replies = 1..n
    BY <2>1, <2>2, SeqIsFunction
  <2>4. accepted \in SUBSET (1..n) /\ accepted # {}
    BY <1>2, <2>3 DEF RepliesTo
  <2>5. PICK m : m = Min(accepted)
    OBVIOUS
  <2>6. m \in accepted
    <3> HIDE DEF accepted
    <3> QED
      BY <2>3, <2>4, <2>5, LeastPlace
  <2>7. m \in 1..n /\ s.replies[m].ok
    BY <2>4, <2>6
  <2>8. NumbersUpTo(events, s.stored)
    BY <2>2, <2>5, <2>7 DEF Talking, Answers
  <2>9. FirstGiven(s, id).events = [i \in DOMAIN events |-> s.log[events[i]]]
    BY <1>2 DEF FirstGiven
  <2>10. DOMAIN events = 1..Len(events)
    BY <2>8, SeqIsFunction DEF NumbersUpTo, Numbers
  <2>11. \A i \in DOMAIN events : events[i] \in 1..s.stored
    <3> HIDE DEF events
    <3>1. s.stored \in Nat
      BY LogLength DEF Sound
    <3>2. \A i \in 1..Len(events) : events[i] \in Nat \ {0} /\ events[i] <= s.stored
      BY <2>8 DEF NumbersUpTo, Numbers
    <3> QED
      BY <2>10, <3>1, <3>2
  <2>12. \A i \in DOMAIN events : s.log[events[i]].seq = events[i]
    <3> HIDE DEF events
    <3> QED
      BY <2>11, LogLength DEF Sound, IsLog, IsEvent
  <2>13. \A e \in Range(FirstGiven(s, id).events) :
           e.seq \in 1..s.stored /\ s.log[e.seq] = e
    <3> HIDE DEF events
    <3> QED
      BY <2>9, <2>11, <2>12 DEF Range
  <2> QED
    BY <2>13 DEF OnDisk
<1> QED
  BY <1>1, <1>2

----------------------------------------------------------------------------
(***************************************************************************)
(* Initially.                                                              *)
(***************************************************************************)
Created(perm) == [k |-> "session.created", perm |-> perm,
                  seq |-> 1, turn |-> 0, cause |-> None]

LEMMA CreatedIsLog ==
  ASSUME NEW perm
  PROVE  /\ IsLog(<<Created(perm)>>) /\ Clean(<<Created(perm)>>)
         /\ Legal(BookOf(<< >>), Created(perm))
         /\ Replay(<<Created(perm)>>).ended = NotEnded
         /\ Replay(<<Created(perm)>>).book.open = 0
<1>1. PICK e : e = Created(perm)
  OBVIOUS
<1>2. PICK l : l = <<e>>
  OBVIOUS
<1>3. IsSeq(l) /\ Len(l) = 1 /\ l[1] = e
  BY <1>2, LonelyIsSeq
<1>4. IsLog(l)
  BY <1>1, <1>3 DEF IsLog, IsEvent, Created
<1>5. BookOf(<< >>) = EmptyBook
  BY EmptyIsSeq, BookChain
<1>6. Legal(EmptyBook, e)
  BY <1>1 DEF Created, EmptyBook, Legal, LegalTurn, LegalBody, InTurnOnly
<1>7. Clean(l)
  <2>1. SubSeq(l, 1, 0) = << >>
    <3>1. IsSeq(SubSeq(l, 1, 0)) /\ Len(SubSeq(l, 1, 0)) = 0
      BY <1>3, BeginningIsSeq
    <3> QED
      BY <3>1, EmptyIsSeq, SameSeq
  <2>2. \A i \in 1..Len(l) : i = 1 /\ i - 1 = 0
    BY <1>3
  <2>3. e.k # "message.assistant"
    BY <1>1 DEF Created
  <2> QED
    BY <1>3, <1>5, <1>6, <2>1, <2>2, <2>3 DEF Clean
<1>8. Replay(l) = ReplayEvent(NothingReplayed, e)
  <2>1. PICK v : /\ v[0] = NothingReplayed /\ Replay(l) = v[Len(l)]
                 /\ \A k \in 1..Len(l) : v[k] = ReplayEvent(v[k - 1], l[k])
    BY <1>3, ReplayChain
  <2> QED
    BY <1>3, <2>1
<1>9. e.k = "session.created"
  BY <1>1 DEF Created
<1>10. PICK r : r = NothingReplayed
  OBVIOUS
<1>11. ReplayEvent(r, e).ended = r.ended /\ ReplayEvent(r, e).book = Record(r.book, e)
  BY <1>9 DEF ReplayEvent
<1>12. r.ended = NotEnded /\ r.book = EmptyBook
  BY <1>10 DEF NothingReplayed
<1>13. Record(EmptyBook, e).open = 0
  BY <1>9 DEF EmptyBook, Record, RecordBody
<1> QED
  BY <1>1, <1>2, <1>4, <1>5, <1>6, <1>8, <1>10, <1>11, <1>12, <1>13, <1>7

\* A session that was just created is loaded as it is.
LEMMA LoadCreated ==
  ASSUME NEW perm, NEW policy
  PROVE  /\ Load(<<Created(perm)>>, policy).log = <<Created(perm)>>
         /\ Load(<<Created(perm)>>, policy).out = {}
<1>1. PICK l : l = <<Created(perm)>>
  OBVIOUS
<1>2. PICK r : r = Replay(l)
  OBVIOUS
<1>3. r.ended = NotEnded /\ r.book.open = 0
  BY <1>1, <1>2, CreatedIsLog
<1>4. PICK s : s = [ log |-> l, book |-> r.book, stored |-> Len(l), turn |-> NoTurn,
             waiting |-> << >>, recent |-> RecentOf(l),
             policy |-> policy, perm |-> PermissionOf(l), eff |-> PermissionOf(l), closing |-> << >>,
             restarting |-> FALSE, refused |-> ~r.ok,
             out |-> {}, replies |-> << >> ]
  OBVIOUS
<1>5. Load(l, policy) = Recover(s, r)
  BY <1>2, <1>4 DEF Load
<1>6. s.log = l /\ s.book.open = 0 /\ s.out = {}
  BY <1>3, <1>4
<1>7. ~MayResume(s, r)
  BY <1>3 DEF MayResume, NotEnded, None
<1>8. Recover(s, r) = s
  BY <1>6, <1>7 DEF Recover
<1> QED
  BY <1>1, <1>5, <1>6, <1>8

LEMMA InitHolds ==
  ASSUME Init
  PROVE  /\ IInv
         /\ kernel.log = <<Created(Permission)>> /\ kernel.stored = 1
<1>1. PICK l : l = <<Created(Permission)>>
  OBVIOUS
<1>2. IsLog(l) /\ Clean(l) /\ Len(l) = 1
  BY <1>1, CreatedIsLog, LonelyIsSeq
<1>3. kernel = Load(l, Scene.policy)
  BY <1>1 DEF Init, Created
<1>4. PICK policy : policy = Scene.policy
  OBVIOUS
<1>5. /\ Sound(kernel) /\ Talking(kernel) /\ kernel.stored = 1
      /\ kernel.replies = << >>
  <2>1. LET t == Load(l, policy) IN
        /\ Sound(t) /\ Talking(t) /\ Longer(l, t.log) /\ t.stored = Len(l)
        /\ t.waiting = << >> /\ t.replies = << >>
    BY <1>2, LoadGoes
  <2> QED
    BY <1>2, <1>3, <1>4, <2>1
<1>6. kernel.log = l /\ kernel.out = {}
  BY <1>1, <1>3, <1>4, LoadCreated
<1>7. Linked(kernel)
  <2>1. Linked(Load(l, policy))
    BY <1>2, LoadLinked
  <2> QED
    BY <1>3, <1>4, <2>1
<1>8. Pending(ends, Len(kernel.log))
  BY EmptyIsSeq DEF Init, Pending
<1>9. \A id \in Ids : OnDisk(given[id].events, kernel.log, kernel.stored)
  BY DEF Init, Unanswered, OnDisk, Range
<1> QED
  BY <1>1, <1>5, <1>6, <1>8, <1>9, <1>7 DEF IInv, Init

----------------------------------------------------------------------------
(***************************************************************************)
(* Every step.                                                             *)
(***************************************************************************)
\* A longer log, with what is on disk untouched, or the log as it is, with more of
\* it on disk.
Steps ==
  \/ Longer(kernel.log, kernel'.log) /\ kernel'.stored = kernel.stored
  \/ /\ kernel'.log = kernel.log
     /\ kernel'.stored \in kernel.stored..Len(kernel.log)

\* No call that writes is started while the session is read-only.
Obeys == \A a \in ran' \ ran : a.write => Rank(kernel'.perm) # 0

\* What the kernel made of an input becomes the state of the session.
LEMMA PerformKeeps ==
  ASSUME IInv, NEW s, Sound(s), Talking(s), Linked(s),
         \/ Longer(kernel.log, s.log) /\ s.stored = kernel.stored
         \/ s.log = kernel.log /\ s.stored \in kernel.stored..Len(kernel.log),
         NEW received, NEW left, Pending(left, Len(kernel.log)),
         Perform(s, received, left)
  PROVE  IInv' /\ Steps /\ Obeys
<1>1. kernel' = [s EXCEPT !.out = {}, !.replies = << >>]
  BY DEF Perform
<1>2. PICK t : t = kernel'
  OBVIOUS
<1>3. PICK k : k = kernel
  OBVIOUS
<1>4. /\ t.log = s.log /\ t.book = s.book /\ t.stored = s.stored /\ t.turn = s.turn
      /\ t.waiting = s.waiting /\ t.recent = s.recent /\ t.replies = << >>
      /\ t.perm = s.perm /\ t.eff = s.eff /\ t.refused = s.refused /\ t.out = {}
      /\ DOMAIN t = DOMAIN s
  BY <1>1, <1>2 DEF Sound, Shapely, KernelFields
<1>5. Sound(t)
  BY <1>4 DEF Sound, Shapely
<1>6. Talking(t)
  BY <1>4, EmptyIsSeq DEF Talking, Answers
<1>7. Linked(t)
  <2>1. Apart(s, t) /\ OutFits(t) /\ t.stored \in 0..Len(s.log)
    BY <1>4, LogLength DEF Apart, OutFits, Sound, Shapely
  <2> QED
    BY <2>1, ApartLinked
<1>8. /\ Sound(k) /\ k.stored \in Nat /\ s.stored \in Nat /\ k.stored <= s.stored
      /\ k.stored <= Len(k.log) /\ s.stored <= Len(s.log)
      /\ Len(k.log) \in Nat /\ Len(s.log) \in Nat /\ Len(k.log) <= Len(s.log)
      /\ \A i \in 1..Len(k.log) : s.log[i] = k.log[i]
  <2>1. Sound(k) /\ k.stored \in Nat /\ Len(k.log) \in Nat /\ k.stored <= Len(k.log)
    BY <1>3, LogLength DEF IInv, Sound
  <2>2. s.stored \in Nat /\ Len(s.log) \in Nat /\ s.stored <= Len(s.log)
    BY LogLength DEF Sound
  <2>3. CASE Longer(k.log, s.log) /\ s.stored = k.stored
    BY <2>1, <2>2, <2>3 DEF Longer
  <2>4. CASE s.log = k.log /\ s.stored \in k.stored..Len(k.log)
    BY <2>1, <2>2, <2>4
  <2> QED
    BY <1>3, <2>3, <2>4
<1>9. Steps
  BY <1>2, <1>4 DEF Steps
<1>10. t.stored # 0
  BY <1>3, <1>4, <1>8 DEF IInv
<1>11. Obeys
  <2>1. OutFits(s)
    BY DEF Linked, InOrder, Rooted
  <2>2. ran' = ran \union Runs(s.out)
    BY DEF Perform
  <2> QED
    BY <1>2, <1>4, <2>1, <2>2 DEF Obeys, OutFits, Runs
<1>12. Pending(ends, Len(kernel.log))'
  <2>1. PICK f : f = ends'
    OBVIOUS
  <2>2. IsSeq(left) /\ \A i \in 1..Len(left) : left[i] \in 0..Len(s.log)
    BY <1>3, <1>8 DEF Pending
  <2>3. CASE f = Append(left, Len(s.log))
    <3>1. IsSeq(f) /\ \A i \in 1..Len(f) : f[i] = Len(s.log) \/ \E j \in 1..Len(left) : f[i] = left[j]
      BY <2>2, <2>3, AppendHolds
    <3>2. Len(s.log) \in 0..Len(s.log)
      BY <1>8
    <3>3. Pending(f, Len(s.log))
      BY <2>2, <3>1, <3>2 DEF Pending
    <3> QED
      BY <1>2, <1>4, <2>1, <3>3
  <2>4. CASE f = left
    BY <1>2, <1>4, <2>1, <2>2, <2>4 DEF Pending
  <2> QED
    BY <2>1, <2>3, <2>4 DEF Perform
<1>13. (\A id \in Ids : OnDisk(given[id].events, kernel.log, kernel.stored))'
  <2>1. Ids' = Ids
    BY DEF Perform, Ids, Script, Scene
  <2>2. ASSUME NEW id \in Ids
        PROVE  OnDisk(given'[id].events, s.log, s.stored)
    <3>1. given'[id] = FirstGiven(s, id)
      BY <2>2 DEF Perform
    <3>2. PICK events : events = given[id].events
      OBVIOUS
    <3>3. OnDisk(events, k.log, k.stored)
      BY <1>3, <2>2, <3>2 DEF IInv
    <3>4. OnDisk(events, s.log, s.stored)
      BY <1>8, <3>3, StaysOnDisk
    <3>5. OnDisk(FirstGiven(s, id).events, s.log, s.stored)
      BY <3>2, <3>4, GivenOnDisk
    <3> QED
      BY <3>1, <3>5
  <2> QED
    BY <1>2, <1>4, <2>1, <2>2
<1> QED
  BY <1>2, <1>4, <1>5, <1>6, <1>9, <1>12, <1>13, <1>7, <1>10, <1>11 DEF IInv, Perform

\* An input that takes the kernel onward.
LEMMA ReportedKeeps ==
  ASSUME IInv, NEW s, Onward(kernel, s), Linked(s), Reported(s)
  PROVE  IInv' /\ Steps /\ Obeys
<1>1. PICK k : k = kernel
  OBVIOUS
<1>2. Goes(k, s)
  BY <1>1, OnwardGoes DEF IInv
<1>3. Pending(ends, Len(kernel.log)) /\ Perform(s, None, ends)
  BY DEF IInv, Reported
<1> QED
  BY <1>1, <1>2, <1>3, PerformKeeps DEF Goes

\* After a crash or a stop the session goes on from what is on disk.
LEMMA ReloadKeeps ==
  ASSUME IInv, NEW keep \in kernel.stored..Len(kernel.log),
         NEW log, log = SubSeq(kernel.log, 1, keep), Reload(log)
  PROVE  /\ IInv'
         /\ IsLog(log) /\ Len(log) = keep
         /\ Longer(log, kernel'.log) /\ kernel'.stored = keep
         /\ Obeys
<1>1. PICK k : k = kernel
  OBVIOUS
<1>2. /\ Sound(k) /\ Len(k.log) \in Nat /\ k.stored \in Nat /\ k.stored <= Len(k.log)
      /\ keep \in k.stored..Len(k.log) /\ keep \in 0..Len(k.log)
  <2>1. Sound(k) /\ Len(k.log) \in Nat /\ k.stored \in 0..Len(k.log)
    BY <1>1, LogLength DEF IInv, Sound
  <2> QED
    BY <1>1, <2>1
<1>3. /\ IsSeq(log) /\ Len(log) = keep /\ \A i \in 1..keep : log[i] = k.log[i]
  BY <1>1, <1>2, BeginningIsSeq DEF Sound, IsLog
<1>4. IsLog(log)
  BY <1>2, <1>3 DEF Sound, IsLog
<1>5. Clean(log) /\ Len(log) >= 1
  <2>1. Clean(k.log) /\ IsLog(k.log)
    BY <1>1, <1>2 DEF IInv, Linked, InOrder, Rooted, Whole, Sound
  <2>2. Clean(SubSeq(k.log, 1, keep))
    BY <1>2, <2>1, CleanBeginning
  <2>3. k.stored # 0
    BY <1>1 DEF IInv
  <2> QED
    BY <1>1, <1>2, <1>3, <2>2, <2>3
<1>6. PICK policy : policy = Scene.policy
  OBVIOUS
<1>7. PICK s : s = Load(log, policy)
  OBVIOUS
<1>8. /\ Sound(s) /\ Talking(s) /\ Longer(log, s.log) /\ s.stored = keep
      /\ s.replies = << >>
  <2>1. LET t == Load(log, policy) IN
        /\ Sound(t) /\ Talking(t) /\ Longer(log, t.log) /\ t.stored = Len(log)
        /\ t.waiting = << >> /\ t.replies = << >>
    BY <1>4, LoadGoes
  <2> QED
    BY <1>3, <1>7, <2>1
<1>9. PICK t : t = kernel'
  OBVIOUS
<1>10. t = [s EXCEPT !.out = {}]
  BY <1>6, <1>7, <1>9 DEF Reload
<1>11. /\ t.log = s.log /\ t.book = s.book /\ t.stored = s.stored /\ t.turn = s.turn
       /\ t.waiting = s.waiting /\ t.recent = s.recent /\ t.replies = s.replies
       /\ t.perm = s.perm /\ t.eff = s.eff /\ t.refused = s.refused /\ t.out = {}
       /\ DOMAIN t = DOMAIN s
  BY <1>8, <1>10 DEF Sound, Shapely, KernelFields
<1>12. Sound(t) /\ Talking(t) /\ t.replies = << >>
  BY <1>8, <1>11 DEF Sound, Shapely, Talking
<1>13. Linked(t) /\ t.stored # 0
  <2>1. Linked(s)
    BY <1>4, <1>7, <1>5, LoadLinked
  <2>2. Apart(s, t) /\ OutFits(t) /\ t.stored \in 0..Len(s.log)
    BY <1>8, <1>11, LogLength DEF Apart, OutFits, Sound, Shapely
  <2>3. t.stored # 0
    BY <1>1, <1>2, <1>8, <1>11 DEF IInv
  <2> QED
    BY <2>1, <2>2, <2>3, ApartLinked
<1>14. Pending(ends, Len(kernel.log))'
  <2>1. PICK f : f = ends'
    OBVIOUS
  <2>2. PICK n : n = Len(s.log)
    OBVIOUS
  <2>3. n \in Nat
    BY <1>8, <2>2, LogLength
  <2>4. f = <<n>> \/ f = << >>
    BY <1>6, <1>7, <2>1, <2>2 DEF Reload
  <2>5. Pending(f, n)
    <3>1. CASE f = <<n>>
      BY <2>3, <3>1, LonelyIsSeq DEF Pending
    <3>2. CASE f = << >>
      BY <3>2, EmptyIsSeq DEF Pending
    <3> QED
      BY <2>4, <3>1, <3>2
  <2> QED
    BY <1>9, <1>11, <2>1, <2>2, <2>5
<1>15. (\A id \in Ids : OnDisk(given[id].events, kernel.log, kernel.stored))'
  <2>1. Ids' = Ids /\ given' = given
    BY DEF Reload, Ids, Script, Scene, history
  <2>2. ASSUME NEW id \in Ids
        PROVE  OnDisk(given[id].events, s.log, s.stored)
    <3>1. PICK events : events = given[id].events
      OBVIOUS
    <3>2. OnDisk(events, k.log, k.stored)
      BY <1>1, <2>2, <3>1 DEF IInv
    <3>3. \A i \in 1..k.stored : s.log[i] = k.log[i]
      BY <1>2, <1>3, <1>8 DEF Longer
    <3>4. s.stored \in Nat /\ k.stored <= s.stored
      BY <1>2, <1>8
    <3> QED
      BY <1>2, <3>1, <3>2, <3>3, <3>4, StaysOnDisk
  <2> QED
    BY <1>9, <1>11, <2>1, <2>2
<1> QED
  BY <1>3, <1>4, <1>8, <1>9, <1>11, <1>12, <1>14, <1>15, <1>13 DEF IInv, Reload, Obeys, history

\* What scenes may ask for, and what requests may bring, is what the kernel expects.
LEMMA ScenesAsk ==
  ASSUME scene \in DOMAIN Scenes
  PROVE  /\ \A id \in Ids : Asks(Script[id])
         /\ \A end \in Scene.endings \union Scene.halves : IsSeq(end.calls)
<1>1. PICK c : c = Scenes[scene]
  OBVIOUS
<1>2. /\ \A end \in c.endings \union c.halves :
           end.calls \in Seq({"read", "execute", "write", "bad"})
      /\ \A id \in DOMAIN c.script :
           /\ c.script[id].op \in {"send", "interrupt", "permission", "approve", "answer"}
           /\ c.script[id].op = "interrupt" =>
                c.script[id].queued \in {"return", "keep", "send"}
  BY <1>1, ScenesAreWellFormed
<1>3. \A id \in DOMAIN c.script : Asks(c.script[id])
  BY <1>2 DEF Asks, Queueings
<1>4. \A end \in c.endings \union c.halves : IsSeq(end.calls)
  BY <1>2, InSeqs
<1> QED
  BY <1>1, <1>3, <1>4 DEF Ids, Script, Scene

LEMMA CommandKeeps ==
  ASSUME IInv, NEW id \in Ids, Command(id)
  PROVE  IInv' /\ Steps /\ Obeys
<1>1. PICK op : op = Script[id]
  OBVIOUS
<1>2. PICK call, half :
        half \in Scene.halves /\ Perform(Receive(kernel, id, op, call, half), id, ends)
  BY <1>1 DEF Command
<1>3. Asks(op) /\ IsSeq(half.calls)
  BY <1>1, <1>2, ScenesAsk DEF IInv
<1>4. PICK k : k = kernel
  OBVIOUS
<1>5. PICK s : s = Receive(k, id, op, call, half)
  OBVIOUS
<1>6. Goes(k, s) /\ Linked(s)
  BY <1>3, <1>4, <1>5, ReceiveGoes, ReceiveLinked DEF IInv
<1>7. Perform(s, id, ends) /\ Pending(ends, Len(kernel.log))
  BY <1>2, <1>4, <1>5 DEF IInv
<1> QED
  BY <1>4, <1>6, <1>7, PerformKeeps DEF Goes

LEMMA BatchStoredKeeps ==
  ASSUME IInv, BatchStored
  PROVE  IInv' /\ Steps /\ Obeys
<1>1. PICK k : k = kernel
  OBVIOUS
<1>2. PICK f : f = ends
  OBVIOUS
<1>3. Pending(f, Len(k.log)) /\ Len(k.log) \in Nat
  BY <1>1, <1>2, LogLength DEF IInv
<1>4. Len(f) > 0
  BY <1>2, <1>3, SeqIsFunction DEF BatchStored, Pending
<1>5. PICK upto : upto = Head(f)
  OBVIOUS
<1>6. upto \in Nat /\ upto <= Len(k.log)
  <2>1. Len(f) \in Nat /\ upto = f[1]
    BY <1>3, <1>5, SeqIsFunction DEF Pending
  <2>2. upto \in 0..Len(k.log)
    BY <1>3, <1>4, <2>1 DEF Pending
  <2> QED
    BY <1>3, <2>2
<1>7. PICK rest : rest = Tail(f)
  OBVIOUS
<1>8. Pending(rest, Len(k.log))
  <2>1. IsSeq(rest) /\ \A i \in 1..Len(rest) : \E j \in 1..Len(f) : rest[i] = f[j]
    BY <1>3, <1>4, <1>7, TailHolds DEF Pending
  <2> QED
    BY <1>3, <2>1 DEF Pending
<1>9. PICK s : s = Stored(k, upto)
  OBVIOUS
<1>10. /\ Sound(s) /\ Talking(s) /\ s.log = k.log
       /\ s.stored = IF upto <= k.stored THEN k.stored ELSE upto
  <2>1. LET t == Stored(k, upto) IN
         /\ Sound(t) /\ Talking(t) /\ t.log = k.log
         /\ t.stored = IF upto <= k.stored THEN k.stored ELSE upto
    BY <1>1, <1>6, StoredGoes DEF IInv
  <2> QED
    BY <1>9, <2>1
<1>11. s.stored \in k.stored..Len(k.log)
  <2>1. k.stored \in 0..Len(k.log)
    BY <1>1 DEF IInv, Sound
  <2> QED
    BY <1>3, <1>6, <1>10, <2>1
<1>12. Perform(s, None, rest)
  BY <1>1, <1>2, <1>5, <1>7, <1>9 DEF BatchStored
<1>13. Linked(s)
  BY <1>1, <1>6, <1>9, StoredLinked DEF IInv
<1> QED
  BY <1>1, <1>8, <1>10, <1>11, <1>12, <1>13, PerformKeeps

\* A report takes the kernel onward.
LEMMA ReportGoesOnward ==
  ASSUME IInv,
         Hooked \/ RequestEnded \/ TimeUp \/ Guarded \/ Returned \/ ToolAsked,
         NEW k, k = kernel
  PROVE  \E s : Onward(k, s) /\ Linked(s) /\ Reported(s)
<1>1. Sound(k) /\ Linked(k)
  BY DEF IInv
<1>2. CASE Hooked
  <2>1. PICK turn, injected : Reported(TurnStartHooked(k, turn, injected))
    BY <1>2 DEF Hooked
  <2> QED
    BY <1>1, <2>1, TurnStartHookedOnward, TurnStartHookedLinked
<1>3. CASE RequestEnded
  <2>1. PICK seen, ending :
          ending \in Scene.endings /\ Reported(ModelEnded(k, seen, ending))
    BY <1>3 DEF RequestEnded
  <2>2. IsSeq(ending.calls)
    BY <2>1, ScenesAsk DEF IInv
  <2> QED
    BY <1>1, <2>1, <2>2, ModelEndedOnward, ModelEndedLinked
<1>4. CASE TimeUp
  <2>1. PICK seen : Reported(Woke(k, seen))
    BY <1>4 DEF TimeUp
  <2> QED
    BY <1>1, <2>1, WokeOnward, WokeLinked
<1>5. CASE Guarded
  <2>1. PICK call, verdict : Reported(ToolGuarded(k, call, verdict))
    BY <1>5 DEF Guarded
  <2> QED
    BY <1>1, <2>1, ToolGuardedOnward, ToolGuardedLinked
<1>6. CASE Returned
  <2>1. PICK call, stopped : Reported(ToolDone(k, call, stopped))
    BY <1>6 DEF Returned
  <2> QED
    BY <1>1, <2>1, ToolDoneOnward, ToolDoneLinked
<1>7. CASE ToolAsked
  <2>1. PICK call : Reported(ToolAsks(k, call))
    BY <1>7 DEF ToolAsked
  <2> QED
    BY <1>1, <2>1, ToolAsksOnward, ToolAsksLinked
<1> QED
  BY <1>2, <1>3, <1>4, <1>5, <1>6, <1>7

LEMMA ReportKeeps ==
  ASSUME IInv,
         Hooked \/ RequestEnded \/ TimeUp \/ Guarded \/ Returned \/ ToolAsked
  PROVE  IInv' /\ Steps /\ Obeys
<1>1. PICK k : k = kernel
  OBVIOUS
<1>2. PICK s : Onward(k, s) /\ Linked(s) /\ Reported(s)
  BY <1>1, ReportGoesOnward
<1> QED
  BY <1>1, <1>2, ReportedKeeps

LEMMA PrepareRestartKeeps ==
  ASSUME IInv, PrepareRestart
  PROVE  IInv' /\ Steps /\ Obeys
<1>1. PICK k : k = kernel
  OBVIOUS
<1>2. PICK half \in Scene.halves : Perform(Restart(k, half), None, ends)
  BY <1>1 DEF PrepareRestart
<1>3. IsSeq(half.calls) /\ Sound(k) /\ Talking(k) /\ Linked(k)
  BY <1>1, <1>2, ScenesAsk DEF IInv
<1>4. PICK s : s = Restart(k, half)
  OBVIOUS
<1>5. Goes(k, s) /\ Linked(s)
  BY <1>3, <1>4, RestartOnward, OnwardGoes, RestartLinked
<1>6. Perform(s, None, ends) /\ Pending(ends, Len(kernel.log))
  BY <1>2, <1>4 DEF IInv
<1> QED
  BY <1>1, <1>5, <1>6, PerformKeeps DEF Goes

\* A crash, or a start after a stop, cuts the log behind what is on disk.
LEMMA ReloadingKeeps ==
  ASSUME IInv, Crash \/ StartAgain
  PROVE  /\ IInv' /\ Obeys
         /\ \E keep \in kernel.stored..Len(kernel.log) :
              /\ IsLog(SubSeq(kernel.log, 1, keep))
              /\ Len(SubSeq(kernel.log, 1, keep)) = keep
              /\ Longer(SubSeq(kernel.log, 1, keep), kernel'.log)
              /\ kernel'.stored = keep
<1>1. PICK k : k = kernel
  OBVIOUS
<1>2. SUFFICES \E keep \in kernel.stored..Len(kernel.log) :
                 \E log : log = SubSeq(kernel.log, 1, keep) /\ Reload(log)
  <2>0. PICK keep \in kernel.stored..Len(kernel.log) :
          \E log : log = SubSeq(kernel.log, 1, keep) /\ Reload(log)
    BY <1>2
  <2>1. PICK log : log = SubSeq(kernel.log, 1, keep) /\ Reload(log)
    BY <2>0
  <2>2. /\ IInv'
        /\ IsLog(log) /\ Len(log) = keep
        /\ Longer(log, kernel'.log) /\ kernel'.stored = keep
        /\ Obeys
    BY <2>1, ReloadKeeps
  <2> QED
    BY <2>1, <2>2
<1>3. CASE Crash
  BY <1>3 DEF Crash
<1>4. CASE StartAgain
  <2>1. Sound(k) /\ Len(k.log) \in Nat /\ k.stored \in 0..Len(k.log)
    BY <1>1, LogLength DEF IInv, Sound
  <2>2. PICK n : n = Len(k.log)
    OBVIOUS
  <2>3. n \in 0..n /\ n \in k.stored..Len(k.log)
    BY <2>1, <2>2
  <2>4. SubSeq(k.log, 1, n) = k.log
    <3>1. IsSeq(k.log)
      BY <2>1 DEF Sound, IsLog
    <3>2. /\ IsSeq(SubSeq(k.log, 1, n)) /\ Len(SubSeq(k.log, 1, n)) = n
          /\ \A i \in 1..n : SubSeq(k.log, 1, n)[i] = k.log[i]
      BY <2>2, <2>3, <3>1, BeginningIsSeq
    <3> QED
      BY <2>2, <3>1, <3>2, SameSeq
  <2> QED
    BY <1>1, <1>4, <2>3, <2>4 DEF StartAgain
<1> QED
  BY <1>3, <1>4

LEMMA StepKeeps ==
  ASSUME IInv, [Next]_vars
  PROVE  /\ IInv' /\ Obeys
         /\ \/ Steps
            \/ \E keep \in kernel.stored..Len(kernel.log) :
                 /\ IsLog(SubSeq(kernel.log, 1, keep))
                 /\ Len(SubSeq(kernel.log, 1, keep)) = keep
                 /\ Longer(SubSeq(kernel.log, 1, keep), kernel'.log)
                 /\ kernel'.stored = keep
<1>1. ASSUME NEW id \in Ids, Command(id) PROVE IInv' /\ Steps /\ Obeys
  BY <1>1, CommandKeeps
<1>2. CASE BatchStored
  BY <1>2, BatchStoredKeeps
<1>3. CASE Hooked \/ RequestEnded \/ TimeUp \/ Guarded \/ Returned \/ ToolAsked
  BY <1>3, ReportKeeps
<1>4. CASE Crash \/ StartAgain
  BY <1>4, ReloadingKeeps
<1>5. CASE PrepareRestart
  BY <1>5, PrepareRestartKeeps
<1>6. CASE UNCHANGED vars
  <2>1. Steps
    BY <1>6, LogLength, LongerIsReflexive DEF vars, Steps, IInv, Sound
  <2>2. Obeys
    BY <1>6 DEF vars, history, Obeys
  <2> QED
    BY <1>6, <2>1, <2>2 DEF vars, history, IInv, Ids, Script, Scene
<1> QED
  BY <1>1, <1>2, <1>3, <1>4, <1>5, <1>6 DEF Next

LEMMA InvariantHolds == Spec => []IInv
<1>1. Init => IInv
  BY InitHolds
<1>2. IInv /\ [Next]_vars => IInv'
  BY StepKeeps
<1> QED
  BY <1>1, <1>2, PTL DEF Spec

----------------------------------------------------------------------------
(***************************************************************************)
(* What waits for an answer.                                               *)
(***************************************************************************)
\* Nothing that waits is on disk, and each command waits in as many places as it
\* is owed answers.
AllWaiting(k, debts) ==
  /\ Recalled(k.recent, Len(k.log))
  /\ \A i \in 1..Len(k.waiting) : Later(k.waiting[i], k.stored, Len(k.log))
  /\ \A id \in Ids : debts[id] = CountOf(k.waiting, id)

\* An input that leaves what waits in order, and tells as many as no longer wait.
LEMMA PerformAnswers ==
  ASSUME IInv, AllWaiting(kernel, owed), NEW s, Sound(s), Recalled(s.recent, Len(s.log)),
         \A i \in 1..Len(s.waiting) : Later(s.waiting[i], s.stored, Len(s.log)),
         NEW received, NEW left, Perform(s, received, left),
         \A id \in Ids :
           CountOf(s.waiting, id) = CountOf(kernel.waiting, id)
                                    + (IF id = received THEN 1 ELSE 0)
                                    - CountOf(s.replies, id)
  PROVE  AllWaiting(kernel, owed)'
<1>1. PICK t, debts : t = kernel' /\ debts = owed'
  OBVIOUS
<1>2. t = [s EXCEPT !.out = {}, !.replies = << >>]
  BY <1>1 DEF Perform
<1>3. t.log = s.log /\ t.stored = s.stored /\ t.waiting = s.waiting /\ t.recent = s.recent
  BY <1>2 DEF Sound, Shapely, KernelFields
<1>4. Ids' = Ids
  BY DEF Perform, Ids, Script, Scene
<1>5. ASSUME NEW id \in Ids PROVE debts[id] = CountOf(t.waiting, id)
  <2>1. RepliesTo(s, id) = PlacesAbout(s.replies, id)
    BY DEF RepliesTo, PlacesAbout
  <2>2. debts[id] = owed[id] + (IF id = received THEN 1 ELSE 0) - CountOf(s.replies, id)
    BY <1>1, <1>5, <2>1 DEF Perform, CountOf
  <2>3. owed[id] = CountOf(kernel.waiting, id)
    BY <1>5 DEF AllWaiting
  <2> QED
    BY <1>3, <1>5, <2>2, <2>3
<1> QED
  BY <1>1, <1>3, <1>4, <1>5 DEF AllWaiting

\* An input that is no command and stores nothing.
LEMMA ReportAnswers ==
  ASSUME IInv, AllWaiting(kernel, owed), NEW s, Onward(kernel, s),
         NEW left, Perform(s, None, left)
  PROVE  AllWaiting(kernel, owed)'
<1>1. PICK k : k = kernel
  OBVIOUS
<1>2. /\ Sound(k) /\ Sound(s) /\ Onward(k, s) /\ k.replies = << >>
      /\ AllWaiting(k, owed) /\ IsSeq(k.waiting)
  BY <1>1 DEF IInv, Onward, Talking, Entries
<1>3. /\ s.waiting = k.waiting /\ s.replies = << >> /\ s.recent = k.recent
      /\ s.stored = k.stored
  BY <1>2 DEF Onward
<1>4. Len(k.log) \in Nat /\ Len(s.log) \in Nat /\ Len(k.log) <= Len(s.log) /\ k.stored \in Nat
  BY <1>2, OnwardLengths
<1>5. Recalled(s.recent, Len(s.log))
  BY <1>2, <1>3, <1>4, RecalledMore DEF AllWaiting
<1>6. \A i \in 1..Len(s.waiting) : Later(s.waiting[i], s.stored, Len(s.log))
  BY <1>2, <1>3, <1>4 DEF AllWaiting, Later
<1>7. ASSUME NEW id \in Ids
      PROVE  CountOf(s.waiting, id) = CountOf(kernel.waiting, id)
                                      + (IF id = None THEN 1 ELSE 0)
                                      - CountOf(s.replies, id)
  <2>1. id # None
    BY <1>7, ScenesAreWellFormed DEF IInv, Ids, Script, Scene
  <2>2. CountOf(s.replies, id) = 0
    BY <1>3, CountNone
  <2>3. PICK at : at = PlacesAbout(k.waiting, id)
    OBVIOUS
  <2>4. at \in SUBSET (DOMAIN k.waiting)
    BY <2>3 DEF PlacesAbout
  <2>5. CountOf(k.waiting, id) \in Nat
    BY <1>2, <2>3, <2>4, CountIsFinite DEF CountOf
  <2> QED
    BY <1>1, <1>3, <2>1, <2>2, <2>5
<1> QED
  BY <1>2, <1>5, <1>6, <1>7, PerformAnswers

\* A command is told at once, or waits in one more place.
LEMMA CommandAnswers ==
  ASSUME IInv, AllWaiting(kernel, owed), NEW id \in Ids, Command(id)
  PROVE  AllWaiting(kernel, owed)'
<1>1. PICK op : op = Script[id]
  OBVIOUS
<1>2. PICK call, half :
        half \in Scene.halves /\ Perform(Receive(kernel, id, op, call, half), id, ends)
  BY <1>1 DEF Command
<1>3. Asks(op) /\ IsSeq(half.calls)
  BY <1>1, <1>2, ScenesAsk DEF IInv
<1>4. PICK k : k = kernel
  OBVIOUS
<1>5. /\ Sound(k) /\ Linked(k) /\ Talking(k) /\ k.replies = << >> /\ AllWaiting(k, owed)
      /\ IsSeq(k.waiting) /\ Recalled(k.recent, Len(k.log))
  BY <1>4 DEF IInv, Talking, Entries, AllWaiting
<1>6. PICK s : s = Receive(k, id, op, call, half)
  OBVIOUS
<1>7. Goes(k, s) /\ Hears(k, s, id)
  BY <1>3, <1>5, <1>6, ReceiveGoes, ReceiveHears
<1>8. /\ Sound(s) /\ Recalled(s.recent, Len(s.log)) /\ s.stored = k.stored
      /\ Longer(k.log, s.log)
  BY <1>7 DEF Goes, Hears
<1>9. Len(k.log) \in Nat /\ Len(s.log) \in Nat /\ Len(k.log) <= Len(s.log) /\ k.stored \in Nat
  BY <1>5, <1>8, LogLength DEF Longer, Sound
<1>10. \A i \in 1..Len(k.waiting) : Later(k.waiting[i], s.stored, Len(s.log))
  BY <1>5, <1>8, <1>9 DEF AllWaiting, Later
<1>11. /\ \A i \in 1..Len(s.waiting) : Later(s.waiting[i], s.stored, Len(s.log))
       /\ \A other \in Ids :
            CountOf(s.waiting, other) = CountOf(k.waiting, other)
                                        + (IF other = id THEN 1 ELSE 0)
                                        - CountOf(s.replies, other)
  <2>1. CASE AnsweredNow(k, s, id)
    <3>1. s.waiting = k.waiting
      BY <2>1 DEF AnsweredNow
    <3>2. PICK x : x.id = id /\ s.replies = Append(<< >>, x)
      BY <1>5, <2>1 DEF AnsweredNow
    <3>3. PICK none : none = << >>
      OBVIOUS
    <3>4. IsSeq(none) /\ s.replies = Append(none, x)
      BY <3>2, <3>3, EmptyIsSeq
    <3>5. ASSUME NEW other \in Ids
          PROVE  CountOf(s.waiting, other) = CountOf(k.waiting, other)
                                             + (IF other = id THEN 1 ELSE 0)
                                             - CountOf(s.replies, other)
      <4>1. CountOf(s.replies, other) = CountOf(none, other) + (IF x.id = other THEN 1 ELSE 0)
        BY <3>4, CountAppended
      <4>2. CountOf(none, other) = 0
        BY <3>3, CountNone
      <4>3. CountOf(k.waiting, other) \in Nat
        BY <1>5, CountAppended
      <4>4. CASE other = id
        BY <3>1, <3>2, <4>1, <4>2, <4>3, <4>4
      <4>5. CASE other # id
        BY <3>1, <3>2, <4>1, <4>2, <4>3, <4>5
      <4> QED
        BY <4>4, <4>5
    <3> QED
      BY <1>10, <3>1, <3>5
  <2>2. CASE AnsweredLater(k, s, id)
    <3>1. PICK x : /\ x.id = id /\ Later(x, k.stored, Len(s.log))
                   /\ s.waiting = Append(k.waiting, x)
      BY <2>2 DEF AnsweredLater
    <3>2. s.replies = << >>
      BY <1>5, <2>2 DEF AnsweredLater
    <3>3. \A i \in 1..Len(s.waiting) : Later(s.waiting[i], s.stored, Len(s.log))
      <4>1. PICK l, w : l = k.waiting /\ w = s.waiting
        OBVIOUS
      <4>2. IsSeq(l) /\ w = Append(l, x)
        BY <1>5, <3>1, <4>1
      <4>3. \A i \in 1..Len(w) : w[i] = x \/ \E j \in 1..Len(l) : w[i] = l[j]
        BY <4>2, AppendHolds
      <4> QED
        BY <1>8, <1>10, <3>1, <4>1, <4>3
    <3>4. ASSUME NEW other \in Ids
          PROVE  CountOf(s.waiting, other) = CountOf(k.waiting, other)
                                             + (IF other = id THEN 1 ELSE 0)
                                             - CountOf(s.replies, other)
      <4>1. /\ CountOf(k.waiting, other) \in Nat
            /\ CountOf(s.waiting, other) =
                 CountOf(k.waiting, other) + (IF x.id = other THEN 1 ELSE 0)
        BY <1>5, <3>1, CountAppended
      <4>2. CountOf(s.replies, other) = 0
        BY <3>2, CountNone
      <4>3. CASE other = id
        BY <3>1, <4>1, <4>2, <4>3
      <4>4. CASE other # id
        BY <3>1, <4>1, <4>2, <4>4
      <4> QED
        BY <4>3, <4>4
    <3> QED
      BY <3>3, <3>4
  <2> QED
    BY <1>7, <2>1, <2>2 DEF Hears
<1>12. Perform(s, id, ends)
  BY <1>2, <1>4, <1>6
<1> QED
  BY <1>4, <1>8, <1>11, <1>12, PerformAnswers

\* Nobody who waits does so for events that are on disk.
NothingReady(s) == \A i \in 1..Len(s.waiting) : Later(s.waiting[i], s.stored, Len(s.log))

\* Who waited is told or goes on waiting, once each.
Shares(k, s) ==
  \A id : /\ CountOf(s.waiting, id) \in Nat /\ CountOf(s.replies, id) \in Nat
          /\ CountOf(k.waiting, id) = CountOf(s.waiting, id) + CountOf(s.replies, id)

\* Who is told no longer waits, and who still waits does so for more.
LEMMA StoredAnswers ==
  ASSUME NEW k, Sound(k), Talking(k), k.replies = << >>, NEW upto \in Nat,
         upto <= Len(k.log),
         NothingReady(k), NEW s, s = Stored(k, upto)
  PROVE  NothingReady(s) /\ Shares(k, s)
<1>1. /\ s.log = k.log
      /\ s.stored = IF upto <= k.stored THEN k.stored ELSE upto
      /\ upto <= k.stored => s.waiting = k.waiting /\ s.replies = k.replies
      /\ upto > k.stored => NowTold(k, s, upto)
  BY StoredGoes
<1>2. PICK list : list = k.waiting
  OBVIOUS
<1>3. IsSeq(list) /\ k.stored \in Nat /\ Len(k.log) \in Nat
  BY <1>2, LogLength DEF Talking, Entries, Sound
<1>4. CASE upto <= k.stored
  <2>1. s.waiting = list /\ s.replies = << >> /\ s.stored = k.stored
    BY <1>1, <1>2, <1>4
  <2>2. ASSUME NEW id
        PROVE  /\ CountOf(list, id) \in Nat /\ CountOf(<< >>, id) = 0
    BY <1>3, CountAppended, CountNone
  <2>3. ASSUME NEW id
        PROVE  /\ CountOf(s.waiting, id) \in Nat /\ CountOf(s.replies, id) \in Nat
               /\ CountOf(list, id) = CountOf(s.waiting, id) + CountOf(s.replies, id)
    BY <2>1, <2>2
  <2> QED
    BY <1>1, <1>2, <2>1, <2>3 DEF NothingReady, Shares
<1>5. CASE upto > k.stored
  <2>1. PICK ready, answers :
             /\ ready = {i \in DOMAIN list :
                           IsStored([k EXCEPT !.stored = upto], list[i].events)}
             /\ answers = [i \in DOMAIN list |->
                             [id |-> list[i].id, ok |-> TRUE, events |-> list[i].events]]
             /\ s.waiting = Picked(list, DOMAIN list \ ready)
             /\ s.replies = k.replies \o Picked(answers, ready)
    BY <1>1, <1>2, <1>5 DEF NowTold
  <2>2. s.stored = upto
    BY <1>1, <1>3, <1>5
  <2>3. ready \in SUBSET (DOMAIN list) /\ (DOMAIN list \ ready) \in SUBSET (DOMAIN list)
    BY <2>1
  <2>4. PICK rest : rest = DOMAIN list \ ready
    OBVIOUS
  <2>5. ASSUME NEW i \in rest PROVE Later(list[i], upto, Len(k.log))
    <3>1. i \in 1..Len(list) /\ i \in DOMAIN list /\ i \notin ready
      BY <1>3, <2>4, SeqIsFunction
    <3>2. ~IsStored([k EXCEPT !.stored = upto], list[i].events)
      BY <2>1, <3>1
    <3>3. [k EXCEPT !.stored = upto].stored = upto
      BY DEF Sound, Shapely, KernelFields
    <3>4. ~(Last(list[i].events) <= upto)
      BY <3>2, <3>3 DEF IsStored
    <3>5. Last(list[i].events) \in (k.stored + 1)..Len(k.log)
      BY <1>2, <3>1 DEF NothingReady, Later
    <3>6. Last(list[i].events) \in (upto + 1)..Len(k.log)
      BY <1>3, <3>4, <3>5
    <3> QED
      BY <3>6 DEF Later
  <2>6. \A i \in 1..Len(s.waiting) : Later(s.waiting[i], s.stored, Len(s.log))
    <3>1. PICK w : w = s.waiting
      OBVIOUS
    <3>2. \A i \in 1..Len(w) : \E j \in rest : w[i] = list[j]
      <4>1. w = Picked(list, rest) /\ rest \in SUBSET (DOMAIN list)
        BY <2>1, <2>3, <2>4, <3>1
      <4> QED
        BY <1>3, <4>1, PickedHolds
    <3> QED
      BY <1>1, <2>2, <2>5, <3>1, <3>2
  <2>7. IsSeq(answers) /\ DOMAIN answers = DOMAIN list
        /\ \A i \in DOMAIN list : answers[i].id = list[i].id
    <3>1. answers = [i \in DOMAIN list |-> answers[i]]
          /\ \A i \in DOMAIN list : answers[i].id = list[i].id
      BY <2>1
    <3> QED
      BY <1>3, <3>1, EachOf
  <2>8. PICK told : told = Picked(answers, ready)
    OBVIOUS
  <2>9. s.replies = told
    <3>1. IsSeq(told)
      BY <2>3, <2>7, <2>8, PickedHolds
    <3>2. << >> \o told = told
      BY <3>1, ConcatEmptySeq DEF IsSeq
    <3> QED
      BY <2>1, <2>8, <3>2
  <2>10. ASSUME NEW id
         PROVE  /\ CountOf(s.waiting, id) \in Nat /\ CountOf(s.replies, id) \in Nat
                /\ CountOf(list, id) = CountOf(s.waiting, id) + CountOf(s.replies, id)
    <3>1. PlacesAbout(answers, id) = PlacesAbout(list, id)
      BY <2>7 DEF PlacesAbout
    <3>2. CountOf(told, id) = Cardinality(PlacesAbout(answers, id) \intersect ready)
      BY <2>3, <2>7, <2>8, CountPicked
    <3>3. CountOf(Picked(list, ready), id) = Cardinality(PlacesAbout(list, id) \intersect ready)
      BY <1>3, <2>3, CountPicked
    <3>4. CountOf(told, id) = CountOf(Picked(list, ready), id)
      BY <3>1, <3>2, <3>3
    <3>5. /\ CountOf(Picked(list, ready), id) \in Nat
          /\ CountOf(Picked(list, DOMAIN list \ ready), id) \in Nat
          /\ CountOf(list, id) =
               CountOf(Picked(list, ready), id) + CountOf(Picked(list, DOMAIN list \ ready), id)
      BY <1>3, <2>3, CountSplit
    <3>6. s.waiting = Picked(list, DOMAIN list \ ready)
      BY <2>1
    <3> QED
      BY <2>9, <3>4, <3>5, <3>6
  <2> QED
    BY <1>2, <2>6, <2>10 DEF NothingReady, Shares
<1>6. upto <= k.stored \/ upto > k.stored
  BY <1>3
<1> QED
  BY <1>4, <1>5, <1>6

LEMMA BatchStoredAnswers ==
  ASSUME IInv, AllWaiting(kernel, owed), BatchStored
  PROVE  AllWaiting(kernel, owed)'
<1>1. PICK k : k = kernel
  OBVIOUS
<1>2. PICK upto, rest : upto = Head(ends) /\ rest = Tail(ends)
  OBVIOUS
<1>3. upto \in Nat /\ upto <= Len(k.log)
  <2>1. PICK f : f = ends
    OBVIOUS
  <2>2. Pending(f, Len(k.log)) /\ Len(k.log) \in Nat
    BY <1>1, <2>1, LogLength DEF IInv
  <2>3. Len(f) \in Nat /\ Len(f) > 0 /\ upto = f[1]
    BY <1>2, <2>1, <2>2, SeqIsFunction DEF BatchStored, Pending
  <2>4. upto \in 0..Len(k.log)
    BY <2>2, <2>3 DEF Pending
  <2> QED
    BY <2>2, <2>4
<1>4. PICK s : s = Stored(k, upto)
  OBVIOUS
<1>5. /\ Sound(k) /\ Talking(k) /\ k.replies = << >> /\ AllWaiting(k, owed)
  BY <1>1 DEF IInv
<1>6. Sound(s) /\ s.log = k.log /\ s.recent = k.recent
  BY <1>3, <1>4, <1>5, StoredGoes
<1>7. NothingReady(s) /\ Shares(k, s)
  <2>1. NothingReady(k)
    BY <1>5 DEF AllWaiting, NothingReady
  <2> QED
    BY <1>3, <1>4, <1>5, <2>1, StoredAnswers
<1>8. ASSUME NEW id \in Ids
      PROVE  CountOf(s.waiting, id) = CountOf(kernel.waiting, id)
                                      + (IF id = None THEN 1 ELSE 0)
                                      - CountOf(s.replies, id)
  <2>1. id # None
    BY <1>8, ScenesAreWellFormed DEF IInv, Ids, Script, Scene
  <2> QED
    BY <1>1, <1>7, <2>1 DEF Shares
<1>9. Perform(s, None, rest)
  BY <1>1, <1>2, <1>4 DEF BatchStored
<1> QED
  <2>1. \A i \in 1..Len(s.waiting) : Later(s.waiting[i], s.stored, Len(s.log))
    BY <1>7 DEF NothingReady
  <2>2. Recalled(s.recent, Len(s.log))
    BY <1>5, <1>6 DEF AllWaiting
  <2>3. IInv /\ AllWaiting(kernel, owed)
    OBVIOUS
  <2> QED
    BY <1>6, <1>8, <1>9, <2>1, <2>2, <2>3, PerformAnswers

\* Nobody waits for a session that was loaded again.
LEMMA ReloadAnswers ==
  ASSUME IInv, Crash \/ StartAgain
  PROVE  AllWaiting(kernel, owed)'
<1>1. PICK k : k = kernel
  OBVIOUS
<1>2. Sound(k) /\ Len(k.log) \in Nat /\ k.stored \in 0..Len(k.log)
  BY <1>1, LogLength DEF IInv, Sound
<1>3. PICK log : IsLog(log) /\ Reload(log)
  <2>1. CASE Crash
    <3>1. PICK keep \in k.stored..Len(k.log) : Reload(SubSeq(k.log, 1, keep))
      BY <1>1, <2>1 DEF Crash
    <3>2. keep \in 0..Len(k.log)
      BY <1>2, <3>1
    <3>3. PICK log : log = SubSeq(k.log, 1, keep)
      OBVIOUS
    <3>4. /\ IsSeq(log) /\ Len(log) = keep /\ \A i \in 1..keep : log[i] = k.log[i]
      BY <1>2, <3>2, <3>3, BeginningIsSeq DEF Sound, IsLog
    <3>5. IsLog(log)
      BY <1>2, <3>2, <3>4 DEF Sound, IsLog
    <3> QED
      BY <3>1, <3>3, <3>5
  <2>2. CASE StartAgain
    BY <1>1, <1>2, <2>2 DEF StartAgain, Sound
  <2> QED
    BY <2>1, <2>2
<1>4. PICK policy : policy = Scene.policy
  OBVIOUS
<1>5. PICK s : s = Load(log, policy)
  OBVIOUS
<1>6. Sound(s) /\ Longer(log, s.log) /\ s.waiting = << >> /\ Recalled(s.recent, Len(log))
  <2>1. LET t == Load(log, policy) IN
        /\ Sound(t) /\ Talking(t) /\ Longer(log, t.log) /\ t.stored = Len(log)
        /\ t.waiting = << >> /\ t.replies = << >> /\ Recalled(t.recent, Len(log))
    BY <1>3, LoadGoes
  <2> QED
    BY <1>5, <2>1
<1>7. Recalled(s.recent, Len(s.log))
  <2>1. Len(log) \in Nat /\ Len(s.log) \in Nat /\ Len(log) <= Len(s.log)
    BY <1>3, <1>6, SeqIsFunction DEF IsLog, Sound, Longer
  <2> QED
    BY <1>6, <2>1, RecalledMore
<1>8. PICK t, debts : t = kernel' /\ debts = owed'
  OBVIOUS
<1>9. t = [s EXCEPT !.out = {}]
  BY <1>3, <1>4, <1>5, <1>8 DEF Reload
<1>10. t.log = s.log /\ t.waiting = << >> /\ t.recent = s.recent
  BY <1>6, <1>9 DEF Sound, Shapely, KernelFields
<1>11. Ids' = Ids /\ debts = [id \in Ids |-> 0]
  BY <1>3, <1>8 DEF Reload, Ids, Script, Scene
<1>12. \A id \in Ids : debts[id] = CountOf(t.waiting, id)
  BY <1>10, <1>11, CountNone
<1>13. \A i \in 1..Len(t.waiting) : Later(t.waiting[i], t.stored, Len(t.log))
  BY <1>10, EmptyIsSeq
<1> QED
  BY <1>7, <1>8, <1>10, <1>11, <1>12, <1>13 DEF AllWaiting

LEMMA InitAnswers ==
  ASSUME Init
  PROVE  AllWaiting(kernel, owed)
<1>1. PICK l : l = <<Created(Permission)>>
  OBVIOUS
<1>2. IsLog(l) /\ kernel.log = l
  BY <1>1, CreatedIsLog, InitHolds
<1>3. PICK policy : policy = Scene.policy
  OBVIOUS
<1>4. kernel = Load(l, policy)
  BY <1>1, <1>3 DEF Init, Created
<1>5. kernel.waiting = << >> /\ Recalled(kernel.recent, Len(l))
  <2>1. LET t == Load(l, policy) IN
        /\ Sound(t) /\ Talking(t) /\ Longer(l, t.log) /\ t.stored = Len(l)
        /\ t.waiting = << >> /\ t.replies = << >> /\ Recalled(t.recent, Len(l))
    BY <1>2, LoadGoes
  <2> QED
    BY <1>4, <2>1
<1>6. \A id \in Ids : owed[id] = CountOf(kernel.waiting, id)
  BY <1>5, CountNone DEF Init
<1>7. \A i \in 1..Len(kernel.waiting) : Later(kernel.waiting[i], kernel.stored, Len(kernel.log))
  BY <1>5, EmptyIsSeq
<1> QED
  BY <1>2, <1>5, <1>6, <1>7 DEF AllWaiting

LEMMA StepAnswers ==
  ASSUME IInv, AllWaiting(kernel, owed), [Next]_vars
  PROVE  AllWaiting(kernel, owed)'
<1>1. ASSUME NEW id \in Ids, Command(id) PROVE AllWaiting(kernel, owed)'
  BY <1>1, CommandAnswers
<1>2. CASE BatchStored
  BY <1>2, BatchStoredAnswers
<1>3. CASE Hooked \/ RequestEnded \/ TimeUp \/ Guarded \/ Returned \/ ToolAsked
  <2>1. PICK k : k = kernel
    OBVIOUS
  <2>2. PICK s : Onward(k, s) /\ Linked(s) /\ Reported(s)
    BY <1>3, <2>1, ReportGoesOnward
  <2> QED
    BY <2>1, <2>2, ReportAnswers DEF Reported
<1>4. CASE Crash \/ StartAgain
  BY <1>4, ReloadAnswers
<1>5. CASE PrepareRestart
  <2>1. PICK k : k = kernel
    OBVIOUS
  <2>2. PICK half \in Scene.halves : Perform(Restart(k, half), None, ends)
    BY <1>5, <2>1 DEF PrepareRestart
  <2>3. IsSeq(half.calls) /\ Sound(k)
    BY <2>1, <2>2, ScenesAsk DEF IInv
  <2>4. PICK s : s = Restart(k, half)
    OBVIOUS
  <2>5. Onward(k, s)
    BY <2>3, <2>4, RestartOnward
  <2> QED
    BY <2>1, <2>2, <2>4, <2>5, ReportAnswers
<1>6. CASE UNCHANGED vars
  BY <1>6 DEF vars, AllWaiting, Ids, Script, Scene
<1> QED
  BY <1>1, <1>2, <1>3, <1>4, <1>5, <1>6 DEF Next

----------------------------------------------------------------------------
(***************************************************************************)
(* What is on record about the calls a tool was started for, and what the  *)
(* running step says of its calls.  B are the calls started so far.        *)
(***************************************************************************)
\* The result of a call does not lie about whether it was started.
Honest(B, x, why) ==
  /\ why \in {"before", "skipped", "denied", "unknown"} => x \notin B
  /\ why \in {"done", "running", "voided", "interrupted", "unanswered"} => x \in B

ApprovalKinds == {"approval.requested", "approval.decided"}

\* An event that says nothing of approvals and is honest.
Modest(B, e) ==
  /\ e.k \notin ApprovalKinds
  /\ e.k = "tool.result" => Honest(B, e.call, e.why)

\* Whoever was asked about a call was asked, and answered, by event n.
NotesUpTo(l, x, n) ==
  \A i \in 1..Len(l) : l[i].k \in ApprovalKinds /\ l[i].call = x => i <= n

\* The first n events tell all of why a call could be started.
Documented(l, n, x) ==
  /\ x[1] \in 1..n /\ l[x[1]].k = "message.assistant" /\ x \in Range(l[x[1]].calls)
  /\ NotesUpTo(l, x, n)
  /\ Cardinality(NotesOn(l, n, "approval.decided", x))
       = Cardinality(NotesOn(l, n, "approval.requested", x))

OnRecord(l, n, B) ==
  /\ \A x \in B : Documented(l, n, x)
  /\ \A i \in 1..Len(l) : l[i].k = "tool.result" => Honest(B, l[i].call, l[i].why)

\* The state of a call says whether it was started, and what is on disk of it.
Steady(c, mark, l, n, B) ==
  /\ DOMAIN c = CallFields
  /\ c.state # "done" => (Executing(c) <=> c.id \in B)
  /\ c.state = "waiting" => mark \in Nat /\ c.id[1] \in 1..mark /\ NotesUpTo(l, c.id, 0)
  /\ c.state = "guarding" => c.id[1] \in 1..n /\ NotesUpTo(l, c.id, 0)
  /\ c.state = "asking" => c.id[1] \in 1..n
  /\ c.state = "approved" => /\ c.id[1] \in 1..n
                             /\ c.at \in Nat /\ NotesUpTo(l, c.id, c.at)

\* The calls started before this input and those it starts.
Begun(s, R) == R \union {a.call : a \in Runs(s.out)}

Faithful(s, R) ==
  /\ Sound(s)
  /\ OnRecord(s.log, s.stored, Begun(s, R))
  /\ \A i \in DOMAIN s.turn.calls :
       Steady(s.turn.calls[i], s.turn.mark, s.log, s.stored, Begun(s, R))

----------------------------------------------------------------------------
(***************************************************************************)
(* Modest events change none of it.                                        *)
(***************************************************************************)
Modestly(l, m, B) ==
  /\ Len(l) <= Len(m)
  /\ \A i \in 1..Len(l) : m[i] = l[i]
  /\ \A i \in (Len(l) + 1)..Len(m) : Modest(B, m[i])

LEMMA NotesKept ==
  ASSUME NEW l, NEW m, NEW B, Len(l) \in Nat, Len(m) \in Nat, Modestly(l, m, B),
         NEW x, NEW n, NotesUpTo(l, x, n)
  PROVE  NotesUpTo(m, x, n)
<1>1. ASSUME NEW i \in 1..Len(m), m[i].k \in ApprovalKinds, m[i].call = x
      PROVE  i <= n
  <2>1. i \in 1..Len(l) \/ i \in (Len(l) + 1)..Len(m)
    BY <1>1
  <2>2. i \notin (Len(l) + 1)..Len(m)
    BY <1>1 DEF Modestly, Modest
  <2>3. m[i] = l[i] /\ i \in 1..Len(l)
    BY <2>1, <2>2 DEF Modestly
  <2> QED
    BY <1>1, <2>3 DEF NotesUpTo
<1> QED
  BY <1>1 DEF NotesUpTo

LEMMA SteadyKept ==
  ASSUME NEW l, NEW m, NEW B, Len(l) \in Nat, Len(m) \in Nat, Modestly(l, m, B),
         NEW c, NEW mark, NEW n, Steady(c, mark, l, n, B)
  PROVE  Steady(c, mark, m, n, B)
<1>1. \A k : NotesUpTo(l, c.id, k) => NotesUpTo(m, c.id, k)
  BY NotesKept
<1> QED
  BY <1>1 DEF Steady

\* The same events are about a call in two logs that begin alike.
LEMMA SameNotes ==
  ASSUME NEW l, NEW m, NEW n, \A i \in 1..n : m[i] = l[i], NEW kind, NEW x
  PROVE  NotesOn(m, n, kind, x) = NotesOn(l, n, kind, x)
BY DEF NotesOn

LEMMA DocumentedKept ==
  ASSUME NEW l, NEW m, NEW B, Len(l) \in Nat, Len(m) \in Nat, Modestly(l, m, B),
         NEW n \in 0..Len(l), NEW x, Documented(l, n, x)
  PROVE  Documented(m, n, x)
<1>1. \A i \in 1..n : m[i] = l[i]
  BY DEF Modestly
<1>2. NotesUpTo(m, x, n)
  BY NotesKept DEF Documented
<1>3. m[x[1]] = l[x[1]]
  BY <1>1 DEF Documented
<1>4. /\ NotesOn(m, n, "approval.decided", x) = NotesOn(l, n, "approval.decided", x)
      /\ NotesOn(m, n, "approval.requested", x) = NotesOn(l, n, "approval.requested", x)
  BY <1>1, SameNotes
<1> QED
  BY <1>2, <1>3, <1>4 DEF Documented

LEMMA RecordKept ==
  ASSUME NEW l, NEW m, NEW B, Len(l) \in Nat, Len(m) \in Nat, Modestly(l, m, B),
         NEW n \in 0..Len(l), OnRecord(l, n, B)
  PROVE  OnRecord(m, n, B)
<1>1. \A x \in B : Documented(m, n, x)
  BY DocumentedKept DEF OnRecord
<1>2. ASSUME NEW i \in 1..Len(m), m[i].k = "tool.result"
      PROVE  Honest(B, m[i].call, m[i].why)
  <2>1. CASE i \in 1..Len(l)
    BY <1>2, <2>1 DEF Modestly, OnRecord
  <2>2. CASE i \in (Len(l) + 1)..Len(m)
    BY <1>2, <2>2 DEF Modestly, Modest
  <2> QED
    BY <2>1, <2>2
<1> QED
  BY <1>1, <1>2 DEF OnRecord

LEMMA ModestlyThenMore ==
  ASSUME NEW l, NEW m, NEW k, NEW B, Len(l) \in Nat, Len(m) \in Nat, Len(k) \in Nat,
         Modestly(l, m, B), Modestly(m, k, B)
  PROVE  Modestly(l, k, B)
<1>1. \A i \in 1..Len(l) : i \in 1..Len(m)
  BY DEF Modestly
<1>2. \A i \in 1..Len(l) : k[i] = l[i]
  BY <1>1 DEF Modestly
<1>3. ASSUME NEW i \in (Len(l) + 1)..Len(k) PROVE Modest(B, k[i])
  <2>1. CASE i \in 1..Len(m)
    <3>1. k[i] = m[i] /\ i \in (Len(l) + 1)..Len(m)
      BY <1>3, <2>1 DEF Modestly
    <3> QED
      BY <3>1 DEF Modestly
  <2>2. CASE i \in (Len(m) + 1)..Len(k)
    BY <2>2 DEF Modestly
  <2> QED
    BY <1>3, <2>1, <2>2
<1> QED
  BY <1>2, <1>3 DEF Modestly

----------------------------------------------------------------------------
(***************************************************************************)
(* Steps that start nothing, decide nothing and keep the calls or drop     *)
(* them.                                                                   *)
(***************************************************************************)
Tame(s, t, B) ==
  /\ Sound(t) /\ Modestly(s.log, t.log, B)
  /\ t.stored = s.stored /\ Runs(t.out) = Runs(s.out)
  /\ t.turn.calls = << >> \/ (t.turn.calls = s.turn.calls /\ t.turn.mark = s.turn.mark)

LEMMA TameIsReflexive ==
  ASSUME NEW s, Sound(s), NEW B
  PROVE  Tame(s, s, B)
<1>1. Len(s.log) \in Nat
  BY LogLength
<1> QED
  BY <1>1 DEF Tame, Modestly

LEMMA TameIsTransitive ==
  ASSUME NEW s, Sound(s), NEW t, NEW u, NEW B, Tame(s, t, B), Tame(t, u, B)
  PROVE  Tame(s, u, B)
<1>1. Sound(t) /\ Sound(u)
  BY DEF Tame
<1>2. Len(s.log) \in Nat /\ Len(t.log) \in Nat /\ Len(u.log) \in Nat
  BY <1>1, LogLength
<1>3. Modestly(s.log, u.log, B)
  BY <1>2, ModestlyThenMore DEF Tame
<1> QED
  BY <1>3 DEF Tame

LEMMA TameFaithful ==
  ASSUME NEW s, NEW R, Faithful(s, R), NEW t, Tame(s, t, Begun(s, R))
  PROVE  Faithful(t, R) /\ Begun(t, R) = Begun(s, R)
<1>1. PICK B : B = Begun(s, R)
  OBVIOUS
<1>2. Sound(s) /\ Sound(t) /\ s.stored \in 0..Len(s.log)
  BY DEF Faithful, Tame, Sound
<1>3. Len(s.log) \in Nat /\ Len(t.log) \in Nat
  BY <1>2, LogLength
<1>4. Begun(t, R) = B
  BY <1>1 DEF Tame, Begun
<1>5. Modestly(s.log, t.log, B) /\ t.stored = s.stored
  BY <1>1 DEF Tame
<1>6. OnRecord(t.log, t.stored, B)
  BY <1>1, <1>2, <1>3, <1>5, RecordKept DEF Faithful
<1>7. ASSUME NEW i \in DOMAIN t.turn.calls
      PROVE  Steady(t.turn.calls[i], t.turn.mark, t.log, t.stored, B)
  <2>1. CASE t.turn.calls = << >>
    BY <1>7, <2>1, EmptyIsSeq
  <2>2. CASE t.turn.calls = s.turn.calls /\ t.turn.mark = s.turn.mark
    <3>1. Steady(t.turn.calls[i], t.turn.mark, s.log, s.stored, B)
      BY <1>1, <1>7, <2>2 DEF Faithful
    <3> QED
      BY <1>3, <1>5, <3>1, SteadyKept
  <2> QED
    BY <2>1, <2>2 DEF Tame
<1> QED
  BY <1>1, <1>2, <1>4, <1>6, <1>7 DEF Faithful

\* The log, the disk and what was started stay.
LEMMA TameAside ==
  ASSUME NEW s, Sound(s), NEW t, Shapely(t), t.log = s.log, t.book = s.book,
         t.stored = s.stored, Runs(t.out) = Runs(s.out),
         t.turn.calls = << >> \/ (t.turn.calls = s.turn.calls /\ t.turn.mark = s.turn.mark),
         NEW B
  PROVE  Tame(s, t, B) /\ Sound(t)
<1>1. Sound(t)
  BY DEF Sound
<1>2. Modestly(s.log, t.log, B)
  BY LogLength DEF Modestly
<1> QED
  BY <1>1, <1>2 DEF Tame

----------------------------------------------------------------------------
(***************************************************************************)
(* Recording modest events.                                                *)
(***************************************************************************)
\* What makes a modest event.
Noteworthy(B, body) ==
  /\ Fine(body) /\ Modest(B, body)
  /\ body.k = "tool.result" => {"call", "why"} \subseteq DOMAIN body

Noted(s, t, B) ==
  /\ Sound(t) /\ Modestly(s.log, t.log, B)
  /\ t.stored = s.stored /\ t.out = s.out /\ t.turn = s.turn

LEMMA NotedIsTame ==
  ASSUME NEW s, NEW t, NEW B, Noted(s, t, B)
  PROVE  Tame(s, t, B) /\ Sound(t)
BY DEF Noted, Tame

Notes(B, list) == IsSeq(list) /\ \A i \in 1..Len(list) : Noteworthy(B, list[i])

LEMMA PutNoted ==
  ASSUME NEW s, Sound(s), NEW B, NEW cause, NEW body, Noteworthy(B, body)
  PROVE  Noted(s, Put(s, cause, body), B)
<1>1. PICK t : t = Put(s, cause, body)
  OBVIOUS
<1>2. Sound(t) /\ t.turn = s.turn
  BY <1>1, PutOnward, PutKeepsTurn DEF Noteworthy
<1>3. PICK turn : turn = IF body.k = "turn.started" THEN s.book.next ELSE s.turn.id
  OBVIOUS
<1>4. PICK e : e = Event(s.book.next, turn, cause, body)
  OBVIOUS
<1>5. t = IF Legal(s.book, e) THEN [s EXCEPT !.log = Append(@, e), !.book = Record(@, e)]
                              ELSE [s EXCEPT !.refused = TRUE]
  BY <1>1, <1>3, <1>4 DEF Put, Commit
<1>6. t.stored = s.stored /\ t.out = s.out /\ t.log \in {s.log, Append(s.log, e)}
  BY <1>5 DEF Sound, Shapely, KernelFields
<1>7. Modest(B, e)
  <2>1. \A f \in DOMAIN body \ {"seq", "turn", "cause"} : e[f] = body[f]
    BY <1>4, EventIs
  <2>2. e.k = body.k
    BY <2>1 DEF Noteworthy, Fine
  <2>3. body.k = "tool.result" => e.call = body.call /\ e.why = body.why
    BY <2>1 DEF Noteworthy
  <2> QED
    BY <2>2, <2>3 DEF Noteworthy, Modest
<1>8. Modestly(s.log, t.log, B)
  <2>1. Len(s.log) \in Nat /\ IsSeq(s.log)
    BY LogLength DEF Sound, IsLog
  <2>2. CASE t.log = s.log
    BY <2>1, <2>2 DEF Modestly
  <2>3. CASE t.log = Append(s.log, e)
    <3>1. /\ Len(t.log) = Len(s.log) + 1 /\ t.log[Len(s.log) + 1] = e
          /\ \A i \in 1..Len(s.log) : t.log[i] = s.log[i]
      BY <2>1, <2>3, AppendIsSeq
    <3>2. \A i \in (Len(s.log) + 1)..Len(t.log) : i = Len(s.log) + 1
      BY <2>1, <3>1
    <3> QED
      BY <1>7, <2>1, <3>1, <3>2 DEF Modestly
  <2> QED
    BY <1>6, <2>2, <2>3
<1> QED
  BY <1>1, <1>2, <1>6, <1>8 DEF Noted

PutsInTurn(s, cause, list) ==
  \E v : /\ v[0] = s /\ PutEach(s, cause, list) = v[Len(list)]
         /\ \A k \in 1..Len(list) : v[k] = Put(v[k - 1], cause, list[k])

LEMMA PutEachInTurn ==
  ASSUME NEW s, NEW cause, NEW list, IsSeq(list)
  PROVE  PutsInTurn(s, cause, list)
BY PutEachChain DEF PutsInTurn

LEMMA PutEachNoted ==
  ASSUME NEW s, Sound(s), NEW B, NEW cause, NEW list, Notes(B, list)
  PROVE  Noted(s, PutEach(s, cause, list), B)
<1>0. IsSeq(list)
  BY DEF Notes
<1>a. PutsInTurn(s, cause, list)
  BY <1>0, PutEachInTurn
<1>1. PICK v : /\ v[0] = s /\ PutEach(s, cause, list) = v[Len(list)]
               /\ \A k \in 1..Len(list) : v[k] = Put(v[k - 1], cause, list[k])
  BY <1>a, Zenon DEF PutsInTurn
<1> DEFINE n == Len(list)
           A == {k \in 0..n : Noted(s, v[k], B)}
<1>2. n \in Nat
  BY <1>0, SeqIsFunction
<1>3. Len(s.log) \in Nat
  BY LogLength
<1>4. 0 \in A
  <2>1. Noted(s, s, B)
    BY <1>3 DEF Noted, Modestly
  <2> QED
    BY <1>1, <1>2, <2>1
<1>5. ASSUME NEW k \in 1..n, k - 1 \in A PROVE k \in A
  <2>1. PICK p, t : p = v[k - 1] /\ t = v[k]
    OBVIOUS
  <2>2. Noted(s, p, B) /\ Sound(p)
    BY <1>5, <2>1 DEF Noted
  <2>3. Noteworthy(B, list[k]) /\ t = Put(p, cause, list[k])
    BY <1>1, <2>1 DEF Notes
  <2>4. Noted(p, t, B)
    BY <2>2, <2>3, PutNoted
  <2>5. Len(p.log) \in Nat /\ Len(t.log) \in Nat
    BY <2>2, <2>4, LogLength DEF Noted
  <2>6. Modestly(s.log, t.log, B)
    BY <1>3, <2>2, <2>4, <2>5, ModestlyThenMore DEF Noted
  <2>7. Noted(s, t, B)
    BY <2>2, <2>4, <2>6 DEF Noted
  <2>8. k \in 0..n
    BY <1>2
  <2> QED
    BY <2>1, <2>7, <2>8
<1>6. n \in A
  <2> HIDE DEF A, n
  <2>1. 0..n \subseteq A
    BY <1>2, <1>4, <1>5, Upwards
  <2> QED
    BY <1>2, <2>1
<1> QED
  BY <1>1, <1>6

\* An event that is about no call.
LEMMA NoteIsNoteworthy ==
  ASSUME NEW B, NEW body, Fine(body), body.k \notin OfACall
  PROVE  Noteworthy(B, body)
BY DEF Noteworthy, Modest, ApprovalKinds, OfACall

LEMMA ResultIsNoteworthy ==
  ASSUME NEW B, NEW call, NEW why, Honest(B, call, why)
  PROVE  Noteworthy(B, Result(call, why))
<1>1. PICK body : body = Result(call, why)
  OBVIOUS
<1>2. /\ body.k = "tool.result" /\ body.call = call /\ body.why = why
      /\ DOMAIN body = {"k", "call", "why"}
  BY <1>1 DEF Result
<1> QED
  BY <1>1, <1>2, ResultIsFine DEF Noteworthy, Modest, ApprovalKinds

\* The results of some calls.
LEMMA ResultsAreNoteworthy ==
  ASSUME NEW B, NEW calls, IsSeq(calls), NEW at \in SUBSET (DOMAIN calls),
         NEW why, \A i \in at : Honest(B, calls[i].id, why[i]),
         NEW list, list = Picked([i \in DOMAIN calls |-> Result(calls[i].id, why[i])], at)
  PROVE  Notes(B, list)
<1>1. PICK f : f = [i \in DOMAIN calls |-> Result(calls[i].id, why[i])]
  OBVIOUS
<1>2. IsSeq(f) /\ DOMAIN f = DOMAIN calls
  <2>1. f = [i \in DOMAIN calls |-> f[i]]
    BY <1>1
  <2> QED
    BY <2>1, EachOf
<1>3. IsSeq(list) /\ \A i \in 1..Len(list) : \E j \in at : list[i] = f[j]
  <2>1. LET t == Picked(f, at) IN
        IsSeq(t) /\ \A i \in 1..Len(t) : \E j \in at : t[i] = f[j]
    BY <1>2, PickedHolds
  <2> QED
    BY <1>1, <2>1
<1>4. ASSUME NEW i \in 1..Len(list) PROVE Noteworthy(B, list[i])
  <2>1. PICK j \in at : list[i] = f[j]
    BY <1>3
  <2>2. list[i] = Result(calls[j].id, why[j])
    BY <1>1, <2>1
  <2> QED
    BY <2>1, <2>2, ResultIsNoteworthy
<1> QED
  BY <1>3, <1>4 DEF Notes

----------------------------------------------------------------------------
(***************************************************************************)
(* Handlers that are tame.                                                 *)
(***************************************************************************)
\* One tame step after another, and one event more.
LEMMA TameThen ==
  ASSUME NEW s, Sound(s), NEW t, NEW u, NEW B, Tame(s, t, B), Tame(t, u, B)
  PROVE  Tame(s, u, B) /\ Sound(u)
BY TameIsTransitive DEF Tame

LEMMA TamePut ==
  ASSUME NEW s, Sound(s), NEW t, NEW B, Tame(s, t, B), NEW cause,
         NEW body, Noteworthy(B, body)
  PROVE  Tame(s, Put(t, cause, body), B) /\ Sound(Put(t, cause, body))
<1>1. PICK u : u = Put(t, cause, body)
  OBVIOUS
<1>2. Sound(t)
  BY DEF Tame
<1>3. Tame(t, u, B)
  BY <1>1, <1>2, PutNoted, NotedIsTame
<1> QED
  BY <1>1, <1>3, TameThen

LEMMA DoTame ==
  ASSUME NEW s, Sound(s), NEW actions, Runs(actions) = {}, NEW B
  PROVE  Tame(s, Do(s, actions), B) /\ Sound(Do(s, actions))
<1>1. PICK t : t = Do(s, actions)
  OBVIOUS
<1>2. /\ t.log = s.log /\ t.book = s.book /\ t.stored = s.stored /\ t.turn = s.turn
      /\ t.out = s.out \union actions /\ Shapely(t)
  BY <1>1 DEF Sound, Shapely, KernelFields, Do
<1>3. Runs(t.out) = Runs(s.out)
  BY <1>2 DEF Runs
<1> QED
  BY <1>1, <1>2, <1>3, TameAside

LEMMA BoundaryIsNoted ==
  ASSUME NEW s, NEW B
  PROVE  Notes(B, Boundary(s))
<1>1. PICK body : body = [k |-> "context.injected", fact |-> "permission", perm |-> s.perm]
  OBVIOUS
<1>2. Noteworthy(B, body)
  BY <1>1, NoteIsNoteworthy DEF Fine, OfACall
<1>3. Boundary(s) = << >> \/ Boundary(s) = <<body>>
  BY <1>1 DEF Boundary
<1>4. Notes(B, << >>)
  BY EmptyIsSeq DEF Notes
<1>5. Notes(B, <<body>>)
  BY <1>2, LonelyIsSeq DEF Notes
<1> QED
  BY <1>3, <1>4, <1>5

LEMMA PutEachTame ==
  ASSUME NEW s, Sound(s), NEW t, NEW B, Tame(s, t, B), NEW cause, NEW list, Notes(B, list)
  PROVE  Tame(s, PutEach(t, cause, list), B) /\ Sound(PutEach(t, cause, list))
<1>1. PICK u : u = PutEach(t, cause, list)
  OBVIOUS
<1>2. Sound(t)
  BY DEF Tame
<1>3. Tame(t, u, B)
  BY <1>1, <1>2, PutEachNoted, NotedIsTame
<1> QED
  BY <1>1, <1>3, TameThen

LEMMA RefreshFactsTame ==
  ASSUME NEW s, Sound(s), NEW B
  PROVE  Tame(s, RefreshFacts(s), B) /\ Sound(RefreshFacts(s))
<1>1. CASE ~s.turn.refresh
  BY <1>1, TameIsReflexive DEF RefreshFacts
<1>2. CASE s.turn.refresh
  <2>1. PICK t : t = [s EXCEPT !.turn.refresh = FALSE, !.eff = s.perm]
    OBVIOUS
  <2>2. Tame(s, t, B)
    <3>1. /\ t.log = s.log /\ t.book = s.book /\ t.stored = s.stored /\ t.out = s.out
          /\ t.turn.calls = s.turn.calls /\ t.turn.mark = s.turn.mark
          /\ Shapely(t)
      BY <2>1 DEF Sound, Shapely, KernelFields, TurnFields
    <3> QED
      BY <3>1, TameAside
  <2>3. PICK u : u = PutEach(t, s.turn.cause, Boundary(t))
    OBVIOUS
  <2>4. Tame(s, u, B) /\ Sound(u)
    BY <2>2, <2>3, BoundaryIsNoted, PutEachTame
  <2>5. RefreshFacts(s) = u
    BY <1>2, <2>1, <2>3 DEF RefreshFacts
  <2> QED
    BY <2>4, <2>5
<1> QED
  BY <1>1, <1>2

LEMMA OpenTurnTame ==
  ASSUME NEW s, Sound(s), NEW trigger, NEW cause, NEW B
  PROVE  Tame(s, OpenTurn(s, trigger, cause), B) /\ Sound(OpenTurn(s, trigger, cause))
<1>1. PICK body : body = [k |-> "turn.started", trigger |-> trigger, triggers |-> << >>]
  OBVIOUS
<1>2. PICK t : t = Put(s, cause, body)
  OBVIOUS
<1>3. Tame(s, t, B) /\ Sound(t)
  <2>1. Noteworthy(B, body)
    BY <1>1, NoteIsNoteworthy DEF Fine, OfACall
  <2> QED
    BY <1>2, <2>1, TameIsReflexive, TamePut
<1>4. PICK u : u = [t EXCEPT !.turn = NewTurn(s.book.next, cause, "opening", s.book.next),
                             !.eff = s.perm]
  OBVIOUS
<1>5. Tame(t, u, B)
  <2>1. /\ u.log = t.log /\ u.book = t.book /\ u.stored = t.stored /\ u.out = t.out
        /\ u.turn.calls = << >>
        /\ Shapely(u)
    BY <1>3, <1>4, EmptyIsSeq
       DEF Sound, Shapely, KernelFields, TurnFields, NewTurn, NotInterrupting, Queueings
  <2> QED
    BY <1>3, <2>1, TameAside
<1>6. PICK v : v = PutEach(u, cause, Boundary(u))
  OBVIOUS
<1>7. Noted(u, v, B) /\ Tame(u, v, B) /\ Sound(v)
  BY <1>5, <1>6, BoundaryIsNoted, PutEachNoted, NotedIsTame DEF Tame
<1>8. PICK w : w = [v EXCEPT !.turn.mark = Len(v.log)]
  OBVIOUS
<1>9. Tame(v, w, B)
  <2>1. u.turn.calls = << >>
    BY <1>3, <1>4 DEF Sound, Shapely, KernelFields, TurnFields, NewTurn
  <2>2. v.turn.calls = << >>
    BY <1>7, <2>1 DEF Noted
  <2>3. /\ w.log = v.log /\ w.book = v.book /\ w.stored = v.stored /\ w.out = v.out
        /\ w.turn.calls = v.turn.calls
        /\ Shapely(w)
    BY <1>7, <1>8 DEF Sound, Shapely, KernelFields, TurnFields
  <2> QED
    BY <1>7, <2>2, <2>3, TameAside
<1>10. Tame(s, u, B)
  BY <1>3, <1>5, TameThen
<1>11. Tame(s, v, B)
  BY <1>7, <1>10, TameThen
<1>12. Tame(s, w, B) /\ Sound(w)
  BY <1>9, <1>11, TameThen
<1>13. OpenTurn(s, trigger, cause) = w
  BY <1>1, <1>2, <1>4, <1>6, <1>8 DEF OpenTurn
<1> QED
  BY <1>12, <1>13

LEMMA EndTurnTame ==
  ASSUME NEW s, Sound(s), NEW cause, NEW reason, NEW B
  PROVE  Tame(s, EndTurn(s, cause, reason), B) /\ Sound(EndTurn(s, cause, reason))
<1>1. PICK body : body = [k |-> "turn.ended", reason |-> reason]
  OBVIOUS
<1>2. PICK t : t = Put(s, cause, body)
  OBVIOUS
<1>3. Tame(s, t, B) /\ Sound(t)
  <2>1. Noteworthy(B, body)
    BY <1>1, NoteIsNoteworthy DEF Fine, OfACall
  <2> QED
    BY <1>2, <2>1, TameIsReflexive, TamePut
<1>4. PICK x : x = [turn |-> s.turn.id, ended |-> s.book.next]
  OBVIOUS
<1>5. PICK u : u = [t EXCEPT !.turn = NoTurn, !.closing = Append(@, x)]
  OBVIOUS
<1>6. Tame(t, u, B)
  <2>1. /\ u.log = t.log /\ u.book = t.book /\ u.stored = t.stored /\ u.out = t.out
        /\ u.turn.calls = << >>
        /\ Shapely(u)
    BY <1>3, <1>5, EmptyIsSeq
       DEF Sound, Shapely, KernelFields, TurnFields, NoTurn, NewTurn, NotInterrupting,
           Queueings
  <2> QED
    BY <1>3, <2>1, TameAside
<1>7. EndTurn(s, cause, reason) = u
  BY <1>1, <1>2, <1>4, <1>5 DEF EndTurn
<1> QED
  BY <1>3, <1>6, <1>7, TameThen

LEMMA FinishTurnTame ==
  ASSUME NEW s, Sound(s), NEW cause, NEW reason, NEW B
  PROVE  Tame(s, FinishTurn(s, cause, reason), B) /\ Sound(FinishTurn(s, cause, reason))
<1>1. PICK t : t = EndTurn(s, cause, reason)
  OBVIOUS
<1>2. Tame(s, t, B) /\ Sound(t)
  BY <1>1, EndTurnTame
<1>3. CASE s.turn.queued = << >>
  BY <1>1, <1>2, <1>3 DEF FinishTurn
<1>4. CASE s.turn.queued # << >>
  <2>1. PICK u : u = OpenTurn(t, Last(s.turn.queued).seq, Last(s.turn.queued).cause)
    OBVIOUS
  <2>2. Tame(t, u, B)
    BY <1>2, <2>1, OpenTurnTame
  <2>3. FinishTurn(s, cause, reason) = u
    BY <1>1, <1>4, <2>1 DEF FinishTurn
  <2> QED
    BY <1>2, <2>2, <2>3, TameThen
<1> QED
  BY <1>3, <1>4

LEMMA WithdrawQueuedTame ==
  ASSUME NEW s, Sound(s), NEW cause, NEW B
  PROVE  Tame(s, WithdrawQueued(s, cause), B) /\ Sound(WithdrawQueued(s, cause))
<1>1. CASE s.turn.queued = << >>
  BY <1>1, TameIsReflexive DEF WithdrawQueued
<1>2. CASE s.turn.queued # << >>
  <2>1. PICK t : t = [s EXCEPT !.turn.queued = << >>]
    OBVIOUS
  <2>2. Tame(s, t, B)
    <3>1. /\ t.log = s.log /\ t.book = s.book /\ t.stored = s.stored /\ t.out = s.out
          /\ t.turn.calls = s.turn.calls /\ t.turn.mark = s.turn.mark
          /\ Shapely(t)
      BY <2>1 DEF Sound, Shapely, KernelFields, TurnFields
    <3> QED
      BY <3>1, TameAside
  <2>3. PICK body : body = [k |-> "message.withdrawn",
                            msgs |-> [i \in DOMAIN s.turn.queued |-> s.turn.queued[i].seq]]
    OBVIOUS
  <2>4. PICK u : u = Put(t, cause, body)
    OBVIOUS
  <2>5. Tame(s, u, B) /\ Sound(u)
    <3>1. Noteworthy(B, body)
      BY <2>3, NoteIsNoteworthy DEF Fine, OfACall
    <3> QED
      BY <2>2, <2>4, <3>1, TamePut
  <2>6. WithdrawQueued(s, cause) = u
    BY <1>2, <2>1, <2>3, <2>4 DEF WithdrawQueued
  <2> QED
    BY <2>5, <2>6
<1> QED
  BY <1>1, <1>2

LEMMA CloseInterruptedTame ==
  ASSUME NEW s, Sound(s), NEW cause, NEW queued \in Queueings, NEW B
  PROVE  Tame(s, CloseInterrupted(s, cause, queued), B)
         /\ Sound(CloseInterrupted(s, cause, queued))
<1>1. PICK left : left = CASE queued = "return" -> WithdrawQueued(s, cause)
                           [] queued = "keep"   -> [s EXCEPT !.turn.queued = << >>]
                           [] queued = "send"   -> s
  OBVIOUS
<1>2. Tame(s, left, B) /\ Sound(left)
  <2>1. CASE queued = "return"
    BY <1>1, <2>1, WithdrawQueuedTame
  <2>2. CASE queued = "keep"
    <3>1. left = [s EXCEPT !.turn.queued = << >>]
      BY <1>1, <2>2
    <3>2. /\ left.log = s.log /\ left.book = s.book /\ left.stored = s.stored
          /\ left.out = s.out
          /\ left.turn.calls = s.turn.calls /\ left.turn.mark = s.turn.mark
          /\ Shapely(left)
      BY <3>1 DEF Sound, Shapely, KernelFields, TurnFields
    <3> QED
      BY <3>2, TameAside
  <2>3. CASE queued = "send"
    BY <1>1, <2>3, TameIsReflexive
  <2> QED
    BY <2>1, <2>2, <2>3 DEF Queueings
<1>3. PICK t : t = FinishTurn(left, cause, "interrupted")
  OBVIOUS
<1>4. Tame(left, t, B)
  BY <1>2, <1>3, FinishTurnTame
<1>5. CloseInterrupted(s, cause, queued) = t
  BY <1>1, <1>3 DEF CloseInterrupted
<1> QED
  BY <1>2, <1>4, <1>5, TameThen

LEMMA FinishStepTame ==
  ASSUME NEW s, Sound(s), NEW cause, NEW B
  PROVE  Tame(s, FinishStep(s, cause), B) /\ Sound(FinishStep(s, cause))
<1>1. CASE s.turn.requests >= s.policy.stepLimit
  BY <1>1, FinishTurnTame DEF FinishStep
<1>2. CASE ~(s.turn.requests >= s.policy.stepLimit)
  <2>1. PICK t : t = [s EXCEPT !.turn.stage = "ready", !.turn.mark = 0,
                               !.turn.calls = << >>]
    OBVIOUS
  <2>2. Tame(s, t, B) /\ Sound(t)
    <3>1. /\ t.log = s.log /\ t.book = s.book /\ t.stored = s.stored /\ t.out = s.out
          /\ t.turn.calls = << >>
          /\ Shapely(t)
      BY <2>1, EmptyIsSeq DEF Sound, Shapely, KernelFields, TurnFields
    <3> QED
      BY <3>1, TameAside
  <2>3. PICK u : u = RefreshFacts(t)
    OBVIOUS
  <2>4. Tame(t, u, B)
    BY <2>2, <2>3, RefreshFactsTame
  <2>5. FinishStep(s, cause) = u
    BY <1>2, <2>1, <2>3 DEF FinishStep
  <2> QED
    BY <2>2, <2>4, <2>5, TameThen
<1> QED
  BY <1>1, <1>2

----------------------------------------------------------------------------
(***************************************************************************)
(* Calls that change while nothing is recorded.                            *)
(***************************************************************************)
\* What was on record stays so, and nothing more was started.
Keeps(s, t, R) == Faithful(t, R) /\ Begun(t, R) = Begun(s, R)

LEMMA KeepsThen ==
  ASSUME NEW s, NEW t, NEW u, NEW R, Keeps(s, t, R), Keeps(t, u, R)
  PROVE  Keeps(s, u, R)
BY DEF Keeps

LEMMA KeepsTame ==
  ASSUME NEW s, NEW R, Faithful(s, R), NEW t, Tame(s, t, Begun(s, R))
  PROVE  Keeps(s, t, R)
BY TameFaithful DEF Keeps

\* A call is settled, stays what it is, or goes on running.
Follows(c, d) ==
  /\ DOMAIN d = DOMAIN c /\ d.id = c.id
  /\ \/ d.state = "done"
     \/ d.state = c.state /\ d.at = c.at
     \/ Executing(c) /\ Executing(d)

LEMMA FollowsSteady ==
  ASSUME NEW c, NEW d, Follows(c, d), NEW mark, NEW l, NEW n, NEW B,
         Steady(c, mark, l, n, B)
  PROVE  Steady(d, mark, l, n, B)
<1>1. CASE d.state = "done"
  BY <1>1 DEF Steady, Follows
<1>2. CASE d.state = c.state /\ d.at = c.at
  BY <1>2 DEF Steady, Follows, Executing
<1>3. CASE Executing(c) /\ Executing(d)
  BY <1>3 DEF Steady, Follows, Executing
<1> QED
  BY <1>1, <1>2, <1>3 DEF Follows

\* The log, the disk and what was started stay; the calls are steady again.
LEMMA CallsKeep ==
  ASSUME NEW s, NEW R, Faithful(s, R), NEW t, Shapely(t),
         t.log = s.log, t.book = s.book, t.stored = s.stored,
         Runs(t.out) = Runs(s.out),
         \A i \in DOMAIN t.turn.calls :
           Steady(t.turn.calls[i], t.turn.mark, s.log, s.stored, Begun(s, R))
  PROVE  Keeps(s, t, R) /\ Sound(t)
<1>1. Sound(s)
  BY DEF Faithful
<1>2. Sound(t)
  BY <1>1 DEF Sound
<1>3. Begun(t, R) = Begun(s, R)
  BY DEF Begun
<1> QED
  BY <1>2, <1>3 DEF Keeps, Faithful

LEMMA CallsFollow ==
  ASSUME NEW s, NEW R, Faithful(s, R), NEW t, Shapely(t),
         t.log = s.log, t.book = s.book, t.stored = s.stored,
         Runs(t.out) = Runs(s.out), t.turn.mark = s.turn.mark,
         DOMAIN t.turn.calls = DOMAIN s.turn.calls,
         \A i \in DOMAIN s.turn.calls : Follows(s.turn.calls[i], t.turn.calls[i])
  PROVE  Keeps(s, t, R) /\ Sound(t)
<1>1. PICK B : B = Begun(s, R)
  OBVIOUS
<1>2. ASSUME NEW i \in DOMAIN t.turn.calls
      PROVE  Steady(t.turn.calls[i], t.turn.mark, s.log, s.stored, B)
  <2>1. Steady(s.turn.calls[i], s.turn.mark, s.log, s.stored, B)
    BY <1>1 DEF Faithful
  <2>2. Follows(s.turn.calls[i], t.turn.calls[i])
    OBVIOUS
  <2> QED
    BY <2>1, <2>2, FollowsSteady
<1> QED
  BY <1>1, <1>2, CallsKeep

\* A state that says why a call has not been started, or that it has.
LEMMA SteadyHonest ==
  ASSUME NEW s, NEW R, Faithful(s, R), NEW i \in DOMAIN s.turn.calls,
         NEW c, c = s.turn.calls[i], c.state # "done"
  PROVE  Executing(c) <=> c.id \in Begun(s, R)
BY DEF Faithful, Steady

\* A command is answered, or a handler asks for something else than a tool.
LEMMA AnsweringFaithful ==
  ASSUME NEW s, NEW R, Faithful(s, R), NEW id, NEW events, NEW t,
         Answering(s, t, id, events)
  PROVE  Keeps(s, t, R)
<1>1. Sound(s) /\ Shapely(s)
  BY DEF Faithful, Sound
<1>2. Apart(s, t) /\ t.stored = s.stored /\ t.out = s.out
  <2>1. CASE t = Accept(s, id, events)
    BY <1>1, <2>1, AnsweringIsApart, AnsweringKeeps
  <2>2. CASE t = Reply(s, id, events)
    BY <1>1, <2>2, AnsweringIsApart, AnsweringKeeps
  <2>3. CASE t = Reject(s, id)
    BY <1>1, <2>3, AnsweringIsApart, AnsweringKeeps
  <2>4. CASE t = AcceptEmpty(s, id)
    BY <1>1, <2>4, AnsweringIsApart, AnsweringKeeps
  <2>5. CASE t = ReplyWhenStored(s, id, events)
    BY <1>1, <2>5, AnsweringIsApart, AnsweringKeeps
  <2> QED
    BY <2>1, <2>2, <2>3, <2>4, <2>5 DEF Answering
<1>3. Shapely(t)
  BY <1>1, <1>2 DEF Apart, Shapely
<1>4. Tame(s, t, Begun(s, R))
  BY <1>1, <1>2, <1>3, TameAside DEF Apart
<1> QED
  BY <1>4, KeepsTame

LEMMA AnswersFaithful ==
  ASSUME NEW s, NEW R, Faithful(s, R), NEW id, NEW events
  PROVE  /\ Keeps(s, Accept(s, id, events), R)
         /\ Keeps(s, Reject(s, id), R)
         /\ Keeps(s, AcceptEmpty(s, id), R)
         /\ Keeps(s, ReplyWhenStored(s, id, events), R)
<1>1. /\ Answering(s, Accept(s, id, events), id, events)
      /\ Answering(s, Reject(s, id), id, events)
      /\ Answering(s, AcceptEmpty(s, id), id, events)
      /\ Answering(s, ReplyWhenStored(s, id, events), id, events)
  BY DEF Answering
<1> QED
  BY <1>1, AnsweringFaithful

LEMMA DoFaithful ==
  ASSUME NEW s, NEW R, Faithful(s, R), NEW actions, Runs(actions) = {}
  PROVE  Keeps(s, Do(s, actions), R)
<1>1. Sound(s)
  BY DEF Faithful
<1> QED
  BY <1>1, DoTame, KeepsTame

\* A reply that is not on disk has no call that was started.
LEMMA FreshNotBegun ==
  ASSUME NEW l, NEW n, NEW B, OnRecord(l, n, B), NEW x, x[1] \notin 1..n
  PROVE  x \notin B
BY DEF OnRecord, Documented

----------------------------------------------------------------------------
(***************************************************************************)
(* Calls that are settled.                                                 *)
(***************************************************************************)
LEMMA SettleCallsFaithful ==
  ASSUME NEW s, NEW R, Faithful(s, R), NEW at \in SUBSET (DOMAIN s.turn.calls), NEW cause,
         NEW why, \A i \in at : Honest(Begun(s, R), s.turn.calls[i].id, why[i])
  PROVE  Keeps(s, SettleCalls(s, at, cause, why), R)
<1>0. Sound(s) /\ Shapely(s) /\ IsSeq(s.turn.calls)
  BY DEF Faithful, Sound, Shapely
<1>1. CASE s.turn.stage # "tools"
  BY <1>1 DEF SettleCalls, Keeps
<1>2. CASE s.turn.stage = "tools"
  <2>1. PICK B, calls : B = Begun(s, R) /\ calls = s.turn.calls
    OBVIOUS
  <2>2. PICK g : g = [i \in DOMAIN calls |-> IF i \in at THEN [calls[i] EXCEPT !.state = "done"]
                                                         ELSE calls[i]]
    OBVIOUS
  <2>3. PICK done : done = [s EXCEPT !.turn.calls = g]
    OBVIOUS
  <2>4. Keeps(s, done, R) /\ Sound(done)
    <3>1. IsSeq(g) /\ DOMAIN g = DOMAIN calls
      <4>1. g = [i \in DOMAIN calls |-> g[i]]
        BY <2>2
      <4> QED
        BY <1>0, <2>1, <4>1, EachOf
    <3>2. /\ done.log = s.log /\ done.book = s.book /\ done.stored = s.stored
          /\ done.out = s.out /\ done.turn.calls = g /\ done.turn.mark = s.turn.mark
          /\ Shapely(done)
      BY <1>0, <2>3, <3>1 DEF Shapely, KernelFields, TurnFields
    <3>3. ASSUME NEW i \in DOMAIN calls PROVE Follows(calls[i], g[i])
      <4>0. DOMAIN calls[i] = CallFields
        BY <2>1 DEF Faithful, Steady
      <4>1. CASE i \in at
        BY <2>2, <4>0, <4>1 DEF Follows, CallFields
      <4>2. CASE i \notin at
        BY <2>2, <4>2 DEF Follows
      <4> QED
        BY <4>1, <4>2
    <3> QED
      BY <2>1, <3>1, <3>2, <3>3, CallsFollow
  <2>5. PICK list : list = Picked([i \in DOMAIN calls |-> Result(calls[i].id, why[i])], at)
    OBVIOUS
  <2>6. Notes(B, list)
    BY <1>0, <2>1, <2>5, ResultsAreNoteworthy
  <2>7. PICK put : put = PutEach(done, cause, list)
    OBVIOUS
  <2>8. Keeps(done, put, R) /\ Sound(put)
    <3>1. Faithful(done, R) /\ Begun(done, R) = B
      BY <2>1, <2>4 DEF Keeps
    <3>2. Tame(done, put, B) /\ Sound(put)
      BY <2>4, <2>6, <2>7, TameIsReflexive, PutEachTame
    <3> QED
      BY <3>1, <3>2, KeepsTame
  <2>9. PICK last : last = FinishStep(put, s.turn.cause)
    OBVIOUS
  <2>10. Keeps(put, last, R)
    <3>1. Faithful(put, R)
      BY <2>8 DEF Keeps
    <3>2. Tame(put, last, Begun(put, R))
      BY <2>8, <2>9, FinishStepTame
    <3> QED
      BY <3>1, <3>2, KeepsTame
  <2>11. SettleCalls(s, at, cause, why)
           = IF at # {} /\ Finished(done.turn.calls) THEN last ELSE put
    BY <1>2, <2>1, <2>2, <2>3, <2>5, <2>7, <2>9 DEF SettleCalls
  <2>12. Keeps(s, put, R) /\ Keeps(s, last, R)
    BY <2>4, <2>8, <2>10, KeepsThen
  <2> QED
    BY <2>11, <2>12
<1> QED
  BY <1>1, <1>2

----------------------------------------------------------------------------
(***************************************************************************)
(* The commands that start no tool.                                        *)
(***************************************************************************)
LEMMA KeepsItself ==
  ASSUME NEW s, NEW R, Faithful(s, R)
  PROVE  Keeps(s, s, R)
BY DEF Keeps

LEMMA AsideFaithful ==
  ASSUME NEW s, NEW R, Faithful(s, R), NEW t, Shapely(t), t.log = s.log, t.book = s.book,
         t.stored = s.stored, Runs(t.out) = Runs(s.out),
         t.turn.calls = << >> \/ (t.turn.calls = s.turn.calls /\ t.turn.mark = s.turn.mark)
  PROVE  Keeps(s, t, R) /\ Sound(t)
<1>1. Sound(s)
  BY DEF Faithful
<1>2. Tame(s, t, Begun(s, R)) /\ Sound(t)
  BY <1>1, TameAside
<1> QED
  BY <1>2, KeepsTame

LEMMA PutFaithful ==
  ASSUME NEW s, NEW R, Faithful(s, R), NEW cause, NEW body, Noteworthy(Begun(s, R), body)
  PROVE  Keeps(s, Put(s, cause, body), R)
<1>1. PICK t, B : t = Put(s, cause, body) /\ B = Begun(s, R)
  OBVIOUS
<1>2. Tame(s, t, B)
  BY <1>1, TameIsReflexive, TamePut DEF Faithful
<1> QED
  BY <1>1, <1>2, KeepsTame

\* An event that is about no call.
LEMMA NoteFaithful ==
  ASSUME NEW s, NEW R, Faithful(s, R), NEW cause, NEW body, Fine(body), body.k \notin OfACall
  PROVE  Keeps(s, Put(s, cause, body), R)
BY NoteIsNoteworthy, PutFaithful

LEMMA VoidWaitingFaithful ==
  ASSUME NEW s, NEW R, Faithful(s, R), NEW cause
  PROVE  Keeps(s, VoidWaiting(s, cause), R)
<1>1. PICK at : at = {i \in DOMAIN s.turn.calls : AwaitingPerson(s.turn.calls[i])}
  OBVIOUS
<1>2. PICK why : why = [i \in DOMAIN s.turn.calls |->
          IF i \in {j \in DOMAIN s.turn.calls : s.turn.calls[j].state = "questioning"}
            THEN "voided" ELSE "skipped"]
  OBVIOUS
<1>3. PICK actions : actions =
          {[a |-> "CancelTool", call |-> s.turn.calls[i].id] :
             i \in {j \in {k \in DOMAIN s.turn.calls : s.turn.calls[k].state = "questioning"} :
                      s.turn.stage = "tools"}}
  OBVIOUS
<1>4. PICK t : t = SettleCalls(s, at, cause, why)
  OBVIOUS
<1>5. VoidWaiting(s, cause) = Do(t, actions)
  BY <1>1, <1>2, <1>3, <1>4 DEF VoidWaiting
<1>6. Keeps(s, t, R)
  <2>1. at \in SUBSET (DOMAIN s.turn.calls)
    BY <1>1
  <2>2. ASSUME NEW i \in at PROVE Honest(Begun(s, R), s.turn.calls[i].id, why[i])
    <3>1. PICK c : c = s.turn.calls[i]
      OBVIOUS
    <3>2. c.state \in {"asking", "questioning"} /\ i \in DOMAIN s.turn.calls
      BY <1>1, <2>2, <3>1 DEF AwaitingPerson
    <3>3. Executing(c) <=> c.id \in Begun(s, R)
      BY <3>1, <3>2, SteadyHonest
    <3>4. CASE c.state = "questioning"
      <4>1. why[i] = "voided"
        BY <1>2, <3>1, <3>2, <3>4
      <4> QED
        BY <3>1, <3>3, <3>4, <4>1 DEF Honest, Executing
    <3>5. CASE c.state = "asking"
      <4>1. why[i] = "skipped"
        BY <1>2, <3>1, <3>2, <3>5
      <4> QED
        BY <3>1, <3>3, <3>5, <4>1 DEF Honest, Executing
    <3> QED
      BY <3>2, <3>4, <3>5
  <2> QED
    BY <1>4, <2>1, <2>2, SettleCallsFaithful
<1>7. Runs(actions) = {}
  BY <1>3 DEF Runs
<1>8. Keeps(t, Do(t, actions), R)
  BY <1>6, <1>7, DoFaithful DEF Keeps
<1> QED
  BY <1>5, <1>6, <1>8, KeepsThen

LEMMA InterjectFaithful ==
  ASSUME NEW s, NEW R, Faithful(s, R), NEW cause
  PROVE  Keeps(s, Interject(s, cause), R)
<1>1. CASE Idle(s)
  BY <1>1, KeepsItself DEF Interject
<1>2. CASE ~Idle(s)
  <2>1. PICK t : t = [s EXCEPT !.turn.interjected = cause]
    OBVIOUS
  <2>2. PICK at : at = {i \in DOMAIN s.turn.calls : NotRun(s.turn.calls[i])}
    OBVIOUS
  <2>3. PICK why : why = [i \in DOMAIN s.turn.calls |-> "skipped"]
    OBVIOUS
  <2>4. Interject(s, cause) = SettleCalls(t, at, cause, why)
    BY <1>2, <2>1, <2>2, <2>3 DEF Interject
  <2>5. Shapely(s)
    BY DEF Faithful, Sound
  <2>6. /\ Shapely(t) /\ t.log = s.log /\ t.book = s.book /\ t.stored = s.stored
        /\ t.out = s.out /\ t.turn.calls = s.turn.calls /\ t.turn.mark = s.turn.mark
    BY <2>1, <2>5 DEF Shapely, KernelFields, TurnFields
  <2>7. Keeps(s, t, R)
    BY <2>6, AsideFaithful
  <2>8. at \in SUBSET (DOMAIN t.turn.calls)
    BY <2>2, <2>6
  <2>9. ASSUME NEW i \in at PROVE Honest(Begun(t, R), t.turn.calls[i].id, why[i])
    <3>1. PICK c : c = t.turn.calls[i]
      OBVIOUS
    <3>2. NotRun(c) /\ i \in DOMAIN t.turn.calls /\ why[i] = "skipped"
      BY <2>2, <2>3, <2>6, <2>9, <3>1
    <3>3. c.state # "done" /\ ~Executing(c)
      BY <3>2 DEF NotRun, Executing
    <3>4. c.id \notin Begun(t, R)
      BY <2>7, <3>1, <3>2, <3>3, SteadyHonest DEF Keeps
    <3> QED
      BY <3>1, <3>2, <3>4 DEF Honest
  <2>10. Keeps(t, SettleCalls(t, at, cause, why), R)
    BY <2>7, <2>8, <2>9, SettleCallsFaithful DEF Keeps
  <2> QED
    BY <2>4, <2>7, <2>10, KeepsThen
<1> QED
  BY <1>1, <1>2

LEMMA TakeEffectFaithful ==
  ASSUME NEW s, NEW R, Faithful(s, R), NEW new
  PROVE  Keeps(s, TakeEffect(s, new), R)
<1>1. CASE ~(Rank(new) < Rank(s.eff))
  BY <1>1, KeepsItself DEF TakeEffect
<1>2. CASE Rank(new) < Rank(s.eff)
  <2>1. PICK t : t = [s EXCEPT !.eff = new]
    OBVIOUS
  <2>2. TakeEffect(s, new) = DenyWaitingWrites(t)
    BY <1>2, <2>1 DEF TakeEffect
  <2>3. Shapely(s)
    BY DEF Faithful, Sound
  <2>4. /\ Shapely(t) /\ t.log = s.log /\ t.book = s.book /\ t.stored = s.stored
        /\ t.out = s.out /\ t.turn = s.turn
    BY <2>1, <2>3 DEF Shapely, KernelFields, TurnFields
  <2>5. Keeps(s, t, R)
    BY <2>4, AsideFaithful
  <2>6. CASE ~ReadOnlyNow(t)
    BY <2>2, <2>5, <2>6 DEF DenyWaitingWrites
  <2>7. CASE ReadOnlyNow(t)
    <3>1. PICK at : at = {i \in DOMAIN t.turn.calls :
                            NotRun(t.turn.calls[i]) /\ Writes(t.turn.calls[i])}
      OBVIOUS
    <3>2. PICK why, cause : /\ why = [i \in DOMAIN t.turn.calls |-> "denied"]
                            /\ cause = t.turn.cause
      OBVIOUS
    <3>3. TakeEffect(s, new) = SettleCalls(t, at, cause, why)
      BY <2>2, <2>7, <3>1, <3>2 DEF DenyWaitingWrites
    <3>4. at \in SUBSET (DOMAIN t.turn.calls)
      BY <3>1
    <3>5. ASSUME NEW i \in at PROVE Honest(Begun(t, R), t.turn.calls[i].id, why[i])
      <4>1. PICK c : c = t.turn.calls[i]
        OBVIOUS
      <4>2. NotRun(c) /\ i \in DOMAIN t.turn.calls /\ why[i] = "denied"
        BY <3>1, <3>2, <3>5, <4>1
      <4>3. c.state # "done" /\ ~Executing(c)
        BY <4>2 DEF NotRun, Executing
      <4>4. c.id \notin Begun(t, R)
        BY <2>5, <4>1, <4>2, <4>3, SteadyHonest DEF Keeps
      <4> QED
        BY <4>1, <4>2, <4>4 DEF Honest
    <3>6. Keeps(t, SettleCalls(t, at, cause, why), R)
      BY <2>5, <3>4, <3>5, SettleCallsFaithful DEF Keeps
    <3> QED
      BY <2>5, <3>3, <3>6, KeepsThen
  <2> QED
    BY <2>6, <2>7
<1> QED
  BY <1>1, <1>2

LEMMA SendFaithful ==
  ASSUME NEW s, NEW R, Faithful(s, R), NEW id, NEW urgent
  PROVE  Keeps(s, Send(s, id, urgent), R)
<1>1. PICK seq : seq = s.book.next
  OBVIOUS
<1>2. PICK body : body = [k |-> "message.user", ambient |-> FALSE]
  OBVIOUS
<1>3. PICK said : said = Put(s, id, body)
  OBVIOUS
<1>4. PICK events : events = <<seq>>
  OBVIOUS
<1>5. PICK put : put = Accept(said, id, events)
  OBVIOUS
<1>6. Fine(body) /\ body.k \notin OfACall
  BY <1>2 DEF Fine, OfACall
<1>7. Keeps(s, said, R)
  BY <1>3, <1>6, NoteFaithful
<1>8. Keeps(said, put, R)
  BY <1>5, <1>7, AnswersFaithful DEF Keeps
<1>9. Keeps(s, put, R) /\ Faithful(put, R)
  BY <1>7, <1>8, KeepsThen DEF Keeps
<1>10. CASE Idle(s)
  <2>1. PICK t : t = OpenTurn(put, seq, id)
    OBVIOUS
  <2>2. Send(s, id, urgent) = t
    BY <1>1, <1>2, <1>3, <1>4, <1>5, <1>10, <2>1 DEF Send
  <2>3. Tame(put, t, Begun(put, R))
    BY <1>9, <2>1, OpenTurnTame DEF Faithful
  <2>4. Keeps(put, t, R)
    BY <1>9, <2>3, KeepsTame
  <2> QED
    BY <1>9, <2>2, <2>4, KeepsThen
<1>11. CASE ~Idle(s)
  <2>1. PICK queued : queued = [put EXCEPT !.turn.queued = Append(@, [seq |-> seq, cause |-> id])]
    OBVIOUS
  <2>2. PICK voided : voided = VoidWaiting(queued, id)
    OBVIOUS
  <2>3. Send(s, id, urgent) = IF urgent THEN Interject(voided, id) ELSE voided
    BY <1>1, <1>2, <1>3, <1>4, <1>5, <1>11, <2>1, <2>2 DEF Send
  <2>4. Keeps(put, queued, R)
    <3>1. Shapely(put)
      BY <1>9 DEF Faithful, Sound
    <3>2. /\ Shapely(queued) /\ queued.log = put.log /\ queued.book = put.book
          /\ queued.stored = put.stored /\ queued.out = put.out
          /\ queued.turn.calls = put.turn.calls /\ queued.turn.mark = put.turn.mark
      BY <2>1, <3>1 DEF Shapely, KernelFields, TurnFields
    <3> QED
      BY <1>9, <3>2, AsideFaithful
  <2>5. Keeps(queued, voided, R)
    BY <2>2, <2>4, VoidWaitingFaithful DEF Keeps
  <2>6. Keeps(put, voided, R)
    BY <2>4, <2>5, KeepsThen
  <2>7. Keeps(s, voided, R)
    BY <1>9, <2>6, KeepsThen
  <2>8. Keeps(voided, Interject(voided, id), R)
    BY <2>7, InterjectFaithful DEF Keeps
  <2>9. Keeps(s, Interject(voided, id), R)
    BY <2>7, <2>8, KeepsThen
  <2> QED
    BY <2>3, <2>7, <2>9
<1> QED
  BY <1>10, <1>11

LEMMA SetPermissionFaithful ==
  ASSUME NEW s, NEW R, Faithful(s, R), NEW id, NEW change
  PROVE  Keeps(s, SetPermission(s, id, change), R)
<1>1. PICK new : new = [f \in DOMAIN s.perm |->
                          IF f \in DOMAIN change THEN change[f] ELSE s.perm[f]]
  OBVIOUS
<1>2. PICK body : body = [k |-> "policy.changed", perm |-> new]
  OBVIOUS
<1>3. PICK said : said = Put(s, id, body)
  OBVIOUS
<1>4. PICK events : events = <<s.book.next>>
  OBVIOUS
<1>5. PICK put : put = Accept(said, id, events)
  OBVIOUS
<1>6. PICK changed : changed = [put EXCEPT !.perm = new, !.turn.refresh = ~Idle(s)]
  OBVIOUS
<1>7. PICK tighter : tighter = TakeEffect(changed, new)
  OBVIOUS
<1>8. PICK fresh : fresh = RefreshFacts(tighter)
  OBVIOUS
<1>9. SetPermission(s, id, change) =
        IF new = s.perm THEN AcceptEmpty(s, id)
        ELSE IF tighter.turn.stage = "ready" THEN fresh ELSE tighter
  BY <1>1, <1>2, <1>3, <1>4, <1>5, <1>6, <1>7, <1>8 DEF SetPermission
<1>10. Keeps(s, AcceptEmpty(s, id), R)
  BY AnswersFaithful
<1>11. Keeps(s, put, R) /\ Faithful(put, R)
  <2>1. Fine(body) /\ body.k \notin OfACall
    BY <1>2 DEF Fine, OfACall
  <2>2. Keeps(s, said, R)
    BY <1>3, <2>1, NoteFaithful
  <2>3. Keeps(said, put, R)
    BY <1>5, <2>2, AnswersFaithful DEF Keeps
  <2> QED
    BY <2>2, <2>3, KeepsThen DEF Keeps
<1>12. Keeps(put, changed, R)
  <2>1. Shapely(put)
    BY <1>11 DEF Faithful, Sound
  <2>2. /\ Shapely(changed) /\ changed.log = put.log /\ changed.book = put.book
        /\ changed.stored = put.stored /\ changed.out = put.out
        /\ changed.turn.calls = put.turn.calls /\ changed.turn.mark = put.turn.mark
    BY <1>6, <2>1 DEF Shapely, KernelFields, TurnFields
  <2> QED
    BY <1>11, <2>2, AsideFaithful
<1>13. Keeps(changed, tighter, R)
  BY <1>7, <1>12, TakeEffectFaithful DEF Keeps
<1>14. Keeps(s, changed, R)
  BY <1>11, <1>12, KeepsThen
<1>15. Keeps(s, tighter, R) /\ Faithful(tighter, R)
  BY <1>13, <1>14, KeepsThen DEF Keeps
<1>16. Keeps(s, fresh, R)
  <2>1. Tame(tighter, fresh, Begun(tighter, R))
    BY <1>8, <1>15, RefreshFactsTame DEF Faithful
  <2>2. Keeps(tighter, fresh, R)
    BY <1>15, <2>1, KeepsTame
  <2> QED
    BY <1>15, <2>2, KeepsThen
<1> QED
  BY <1>9, <1>10, <1>15, <1>16

----------------------------------------------------------------------------
(***************************************************************************)
(* A reply, whole or cut off, and the calls that get a result at once.     *)
(***************************************************************************)
\* The calls of a reply carry its number, which no event had before.
FreshCalls(s, calls) ==
  /\ IsSeq(calls)
  /\ \A i \in DOMAIN calls : calls[i].id = <<s.book.next, i>>

RepliedIfCalls(s, r) == r.calls # << >> => r.reply = s.book.next

LEMMA SettleTame ==
  ASSUME NEW s, Sound(s), NEW seen, NEW cause, NEW ending, IsSeq(ending.calls), NEW cut,
         NEW B, NEW r, r = Settle(s, seen, cause, ending, cut)
  PROVE  /\ Tame(s, r.s, B) /\ Sound(r.s) /\ FreshCalls(s, r.calls)
         /\ r.reply \in {0, s.book.next} /\ r.s.turn = s.turn
         /\ RepliedIfCalls(s, r)
<1> DEFINE failed == ending.error # "none"
           kept == IF ending.sent /\ (cut \/ ~failed) THEN ending.calls ELSE << >>
           replied == ending.sent /\ (ending.text \/ kept # << >>)
           error == IF ~cut /\ ~failed /\ ~replied THEN "retry" ELSE ending.error
           calls == NumberedCalls(s.book.next, kept)
           said == [k |-> "message.assistant", seen |-> seen,
                    calls |-> [i \in DOMAIN calls |-> calls[i].id]]
           put == IF replied THEN Put(s, cause, said) ELSE s
           called == [k |-> "model.called", seen |-> seen, aside |-> FALSE,
                      result |-> IF cut THEN "interrupted"
                                 ELSE IF error = "none" THEN "ok" ELSE "error"]
<1>1. /\ r.s = Put(put, cause, called) /\ r.calls = calls
      /\ r.reply = IF replied THEN s.book.next ELSE 0
  BY DEF Settle
<1>2. IsSeq(kept)
  BY EmptyIsSeq
<1>3. ~replied => kept = << >>
  OBVIOUS
<1> HIDE DEF kept
<1>4. /\ IsSeq(calls) /\ DOMAIN calls = DOMAIN kept
      /\ \A i \in DOMAIN calls : calls[i].id = <<s.book.next, i>>
  <2>1. \A i \in DOMAIN kept : calls[i].id = <<s.book.next, i>>
    BY DEF NumberedCalls
  <2>2. DOMAIN calls = DOMAIN kept
    BY DEF NumberedCalls
  <2> QED
    BY <1>2, <2>1, <2>2, NumberedCallsAreSeq
<1>5. kept = << >> => calls = << >>
  BY <1>4, EmptyIsSeq DEF NumberedCalls
<1> HIDE DEF replied, calls
<1>6. Fine(said) /\ said.k \notin OfACall
  <2>1. PICK g : g = [i \in DOMAIN calls |-> calls[i].id]
    OBVIOUS
  <2>2. g = [i \in DOMAIN calls |-> g[i]]
    BY <2>1
  <2>3. IsSeq(g)
    BY <1>4, <2>2, EachOf
  <2> QED
    BY <2>1, <2>3 DEF Fine, OfACall
<1>7. Fine(called) /\ called.k \notin OfACall
  BY DEF Fine, OfACall
<1> HIDE DEF said, called
<1>8. Noteworthy(B, said) /\ Noteworthy(B, called)
  BY <1>6, <1>7, NoteIsNoteworthy
<1>9. Tame(s, put, B) /\ Sound(put) /\ put.turn = s.turn
  <2>1. Tame(s, s, B)
    BY TameIsReflexive
  <2>2. Tame(s, Put(s, cause, said), B) /\ Sound(Put(s, cause, said))
    BY <1>8, <2>1, TamePut
  <2>3. Put(s, cause, said).turn = s.turn
    BY <1>6, PutKeepsTurn
  <2> QED
    BY <2>1, <2>2, <2>3
<1> HIDE DEF put
<1>10. Tame(s, Put(put, cause, called), B) /\ Sound(Put(put, cause, called))
  BY <1>8, <1>9, TamePut
<1>11. Put(put, cause, called).turn = s.turn
  BY <1>7, <1>9, PutKeepsTurn
<1> QED
  BY <1>1, <1>3, <1>4, <1>5, <1>10, <1>11 DEF FreshCalls, RepliedIfCalls

\* No call of it was started.
LEMMA FreshCallsNotBegun ==
  ASSUME NEW s, NEW R, Faithful(s, R), NEW calls, FreshCalls(s, calls)
  PROVE  \A i \in DOMAIN calls : calls[i].id \notin Begun(s, R)
<1>1. Sound(s) /\ OnRecord(s.log, s.stored, Begun(s, R))
  BY DEF Faithful
<1>2. s.book.next = Len(s.log) + 1 /\ Len(s.log) \in Nat /\ s.stored \in 0..Len(s.log)
  BY <1>1, BookOfLog, LogLength DEF Sound
<1>3. ASSUME NEW i \in DOMAIN calls PROVE calls[i].id \notin Begun(s, R)
  <2>1. PICK x : x = calls[i].id
    OBVIOUS
  <2>2. x = <<s.book.next, i>>
    BY <2>1 DEF FreshCalls
  <2>3. x[1] \notin 1..s.stored
    BY <1>2, <2>2
  <2> QED
    BY <1>1, <2>1, <2>3, FreshNotBegun
<1> QED
  BY <1>3

\* Every call of a list gets the same result.
LEMMA AllResultsFaithful ==
  ASSUME NEW s, NEW R, Faithful(s, R), NEW calls, IsSeq(calls), NEW why,
         \A i \in DOMAIN calls : Honest(Begun(s, R), calls[i].id, why), NEW by
  PROVE  Keeps(s, PutEach(s, by, [i \in DOMAIN calls |-> Result(calls[i].id, why)]), R)
<1>1. PICK list : list = [i \in DOMAIN calls |-> Result(calls[i].id, why)]
  OBVIOUS
<1>2. IsSeq(list) /\ DOMAIN list = DOMAIN calls
  <2>1. list = [i \in DOMAIN calls |-> list[i]]
    BY <1>1
  <2> QED
    BY <2>1, EachOf
<1>3. Notes(Begun(s, R), list)
  <2>1. ASSUME NEW i \in 1..Len(list) PROVE Noteworthy(Begun(s, R), list[i])
    <3>1. i \in DOMAIN calls
      BY <1>2, SeqIsFunction
    <3>2. list[i] = Result(calls[i].id, why)
      BY <1>1, <3>1
    <3> QED
      BY <3>1, <3>2, ResultIsNoteworthy
  <2> QED
    BY <1>2, <2>1 DEF Notes
<1>4. Tame(s, PutEach(s, by, list), Begun(s, R))
  BY <1>3, TameIsReflexive, PutEachTame DEF Faithful
<1> QED
  BY <1>1, <1>4, KeepsTame

LEMMA CutFaithful ==
  ASSUME NEW s, NEW R, Faithful(s, R), NEW received, IsSeq(received.calls), NEW by,
         NEW why, why \in {"before", "restarted"}
  PROVE  Keeps(s, Cut(s, received, by, why), R)
<1>1. PICK taken : taken = [s EXCEPT !.turn.stage = "settling", !.turn.calls = << >>]
  OBVIOUS
<1>2. Keeps(s, taken, R) /\ Sound(taken)
  <2>1. Shapely(s)
    BY DEF Faithful, Sound
  <2>2. /\ Shapely(taken) /\ taken.log = s.log /\ taken.book = s.book
        /\ taken.stored = s.stored /\ taken.out = s.out /\ taken.turn.calls = << >>
    BY <1>1, <2>1, EmptyIsSeq DEF Shapely, KernelFields, TurnFields
  <2> QED
    BY <2>2, AsideFaithful
<1>3. PICK seen, cause : seen = s.turn.mark /\ cause = s.turn.cause
  OBVIOUS
<1>4. PICK r : r = Settle(taken, seen, cause, received, TRUE)
  OBVIOUS
<1>5. PICK base, calls : base = r.s /\ calls = r.calls
  OBVIOUS
<1>6. Tame(taken, base, Begun(taken, R)) /\ FreshCalls(taken, calls)
  BY <1>2, <1>4, <1>5, SettleTame
<1>7. Keeps(taken, base, R)
  BY <1>2, <1>6, KeepsTame DEF Keeps
<1>8. \A i \in DOMAIN calls : calls[i].id \notin Begun(taken, R)
  BY <1>2, <1>6, FreshCallsNotBegun DEF Keeps
<1>9. PICK p : p = PutEach(base, by, [i \in DOMAIN calls |-> Result(calls[i].id, why)])
  OBVIOUS
<1>10. Keeps(base, p, R)
  <2>1. Begun(base, R) = Begun(taken, R) /\ Faithful(base, R)
    BY <1>7 DEF Keeps
  <2>2. \A i \in DOMAIN calls : Honest(Begun(base, R), calls[i].id, why)
    BY <1>8, <2>1 DEF Honest
  <2>3. IsSeq(calls)
    BY <1>6 DEF FreshCalls
  <2> QED
    BY <1>9, <2>1, <2>2, <2>3, AllResultsFaithful
<1>11. Cut(s, received, by, why) = p
  BY <1>1, <1>3, <1>4, <1>5, <1>9 DEF Cut
<1>12. Keeps(s, base, R)
  BY <1>2, <1>7, KeepsThen
<1> QED
  BY <1>10, <1>11, <1>12, KeepsThen

----------------------------------------------------------------------------
(***************************************************************************)
(* One call changes.                                                       *)
(***************************************************************************)
LEMMA WithCallFaithful ==
  ASSUME NEW s, NEW R, Faithful(s, R), NEW i \in DOMAIN s.turn.calls,
         NEW c, Follows(s.turn.calls[i], c)
  PROVE  Keeps(s, WithCall(s, i, c), R) /\ Sound(WithCall(s, i, c))
<1>1. PICK calls, g : calls = s.turn.calls /\ g = [calls EXCEPT ![i] = c]
  OBVIOUS
<1>2. Shapely(s) /\ IsSeq(calls)
  BY <1>1 DEF Faithful, Sound, Shapely
<1>3. IsSeq(g) /\ DOMAIN g = DOMAIN calls
  <2>1. g = [j \in DOMAIN calls |-> g[j]]
    BY <1>1
  <2> QED
    BY <1>2, <2>1, EachOf
<1>4. PICK t : t = [s EXCEPT !.turn.calls = g]
  OBVIOUS
<1>5. /\ Shapely(t) /\ t.log = s.log /\ t.book = s.book /\ t.stored = s.stored
      /\ t.out = s.out /\ t.turn.calls = g /\ t.turn.mark = s.turn.mark
  BY <1>2, <1>3, <1>4 DEF Shapely, KernelFields, TurnFields
<1>6. ASSUME NEW j \in DOMAIN calls PROVE Follows(calls[j], g[j])
  <2>1. CASE j = i
    BY <1>1, <2>1
  <2>2. CASE j # i
    BY <1>1, <2>2 DEF Follows
  <2> QED
    BY <2>1, <2>2
<1>7. Keeps(s, t, R) /\ Sound(t)
  BY <1>1, <1>3, <1>5, <1>6, CallsFollow
<1>8. WithCall(s, i, c) = t
  BY <1>1, <1>4 DEF WithCall
<1> QED
  BY <1>7, <1>8

\* A call goes on running, or is done.
LEMMA StateSetFaithful ==
  ASSUME NEW s, NEW R, Faithful(s, R), NEW i \in DOMAIN s.turn.calls, NEW state,
         state = "done" \/ (Executing(s.turn.calls[i])
                              /\ state \in {"running", "questioning", "answered", "stopping"})
  PROVE  Keeps(s, SetState(s, i, state), R) /\ Sound(SetState(s, i, state))
<1>1. PICK c, d : c = s.turn.calls[i] /\ d = [c EXCEPT !.state = state]
  OBVIOUS
<1>2. DOMAIN c = CallFields /\ Shapely(s)
  BY <1>1 DEF Faithful, Steady, Sound
<1>3. Follows(c, d)
  BY <1>1, <1>2 DEF Follows, CallFields, Executing
<1>4. SetState(s, i, state) = WithCall(s, i, d)
  BY <1>1, <1>2, StateSet
<1> QED
  BY <1>1, <1>3, <1>4, WithCallFaithful

LEMMA OneDoneFaithful ==
  ASSUME NEW s, NEW R, Faithful(s, R), NEW i \in DOMAIN s.turn.calls,
         NEW call, NEW why, Honest(Begun(s, R), call, why), NEW cause
  PROVE  Keeps(s, Put(SetState(s, i, "done"), cause, Result(call, why)), R)
<1>1. PICK t : t = SetState(s, i, "done")
  OBVIOUS
<1>2. Keeps(s, t, R)
  BY <1>1, StateSetFaithful
<1>3. PICK body : body = Result(call, why)
  OBVIOUS
<1>4. Noteworthy(Begun(t, R), body)
  BY <1>2, <1>3, ResultIsNoteworthy DEF Keeps
<1>5. Keeps(t, Put(t, cause, body), R)
  BY <1>2, <1>4, PutFaithful DEF Keeps
<1> QED
  BY <1>1, <1>2, <1>3, <1>5, KeepsThen

----------------------------------------------------------------------------
(***************************************************************************)
(* Interrupting, and stopping on purpose, start nothing.                   *)
(***************************************************************************)
\* The tame helpers, as steps that keep the account.
LEMMA PutEachFaithful ==
  ASSUME NEW s, NEW R, Faithful(s, R), NEW cause, NEW list, Notes(Begun(s, R), list)
  PROVE  Keeps(s, PutEach(s, cause, list), R)
<1>1. Sound(s)
  BY DEF Faithful
<1>2. Tame(s, PutEach(s, cause, list), Begun(s, R))
  BY <1>1, TameIsReflexive, PutEachTame
<1> QED
  BY <1>2, KeepsTame

LEMMA EndingFaithful ==
  ASSUME NEW s, NEW R, Faithful(s, R), NEW cause
  PROVE  /\ \A queued \in Queueings : Keeps(s, CloseInterrupted(s, cause, queued), R)
         /\ Keeps(s, FinishStep(s, cause), R)
<1>1. PICK B : B = Begun(s, R)
  OBVIOUS
<1>2. Sound(s)
  BY DEF Faithful
<1>3. ASSUME NEW queued \in Queueings PROVE Keeps(s, CloseInterrupted(s, cause, queued), R)
  <2>1. Tame(s, CloseInterrupted(s, cause, queued), B)
    BY <1>2, CloseInterruptedTame
  <2> QED
    BY <1>1, <2>1, KeepsTame
<1>4. Keeps(s, FinishStep(s, cause), R)
  <2>1. Tame(s, FinishStep(s, cause), B)
    BY <1>2, FinishStepTame
  <2> QED
    BY <1>1, <2>1, KeepsTame
<1> QED
  BY <1>3, <1>4

LEMMA FinishTurnFaithful ==
  ASSUME NEW s, NEW R, Faithful(s, R), NEW cause, NEW reason
  PROVE  Keeps(s, FinishTurn(s, cause, reason), R)
<1>1. Sound(s)
  BY DEF Faithful
<1>2. Tame(s, FinishTurn(s, cause, reason), Begun(s, R))
  BY <1>1, FinishTurnTame
<1> QED
  BY <1>2, KeepsTame

LEMMA EndTurnFaithful ==
  ASSUME NEW s, NEW R, Faithful(s, R), NEW cause, NEW reason
  PROVE  Keeps(s, EndTurn(s, cause, reason), R)
<1>1. Sound(s)
  BY DEF Faithful
<1>2. Tame(s, EndTurn(s, cause, reason), Begun(s, R))
  BY <1>1, EndTurnTame
<1> QED
  BY <1>2, KeepsTame

LEMMA OpeningFaithful ==
  ASSUME NEW s, NEW R, Faithful(s, R), NEW cause
  PROVE  /\ Keeps(s, RefreshFacts(s), R)
         /\ \A trigger : Keeps(s, OpenTurn(s, trigger, cause), R)
<1>1. PICK B : B = Begun(s, R)
  OBVIOUS
<1>2. Sound(s)
  BY DEF Faithful
<1>3. Keeps(s, RefreshFacts(s), R)
  <2>1. Tame(s, RefreshFacts(s), B)
    BY <1>2, RefreshFactsTame
  <2> QED
    BY <1>1, <2>1, KeepsTame
<1>4. ASSUME NEW trigger PROVE Keeps(s, OpenTurn(s, trigger, cause), R)
  <2>1. Tame(s, OpenTurn(s, trigger, cause), B)
    BY <1>2, OpenTurnTame
  <2> QED
    BY <1>1, <2>1, KeepsTame
<1> QED
  BY <1>3, <1>4

\* Every reason a cancelled call is given is true of it.
LEMMA CancelStepFaithful ==
  ASSUME NEW s, NEW R, Faithful(s, R), NEW cause
  PROVE  Keeps(s, CancelStep(s, cause), R)
<1>1. PICK calls, B : calls = s.turn.calls /\ B = Begun(s, R)
  OBVIOUS
<1>2. Shapely(s) /\ IsSeq(calls)
  BY <1>1 DEF Faithful, Sound, Shapely
<1>3. PICK left : left = {i \in DOMAIN calls : calls[i].state # "done" /\ ~Stops(calls[i])}
  OBVIOUS
<1>4. PICK g : g = MadeToStop(calls)
  OBVIOUS
<1>5. IsSeq(g) /\ DOMAIN g = DOMAIN calls
  <2>1. g = [i \in DOMAIN calls |-> g[i]]
    BY <1>4 DEF MadeToStop
  <2> QED
    BY <1>2, <2>1, EachOf
<1>6. PICK marked : marked = [s EXCEPT !.turn.calls = g]
  OBVIOUS
<1>7. Keeps(s, marked, R)
  <2>1. /\ Shapely(marked) /\ marked.log = s.log /\ marked.book = s.book
        /\ marked.stored = s.stored /\ marked.out = s.out /\ marked.turn.calls = g
        /\ marked.turn.mark = s.turn.mark
    BY <1>2, <1>5, <1>6 DEF Shapely, KernelFields, TurnFields
  <2>2. ASSUME NEW i \in DOMAIN calls PROVE Follows(calls[i], g[i])
    <3>1. PICK c, d : c = calls[i] /\ d = g[i]
      OBVIOUS
    <3>2. DOMAIN c = CallFields
      BY <1>1, <3>1 DEF Faithful, Steady
    <3>3. d = [c EXCEPT !.state = IF Stops(c) THEN "stopping" ELSE "done"]
      BY <1>4, <3>1 DEF MadeToStop
    <3>4. /\ DOMAIN d = CallFields /\ d.id = c.id
          /\ d.state = IF Stops(c) THEN "stopping" ELSE "done"
      BY <3>2, <3>3 DEF CallFields
    <3> QED
      BY <3>1, <3>2, <3>4 DEF Follows, Stops, Executing
  <2> QED
    BY <1>1, <1>5, <2>1, <2>2, CallsFollow
<1>8. PICK why : why = [i \in DOMAIN calls |-> CutReason(calls[i])]
  OBVIOUS
<1>9. ASSUME NEW i \in left PROVE Honest(B, calls[i].id, why[i])
  <2>1. PICK c : c = calls[i]
    OBVIOUS
  <2>2. c.state # "done" /\ c.state # "stopping" /\ i \in DOMAIN calls
    BY <1>3, <2>1 DEF Stops
  <2>3. why[i] = CutReason(c)
    BY <1>8, <2>1, <2>2
  <2>4. Executing(c) <=> c.id \in B
    BY <1>1, <2>1, <2>2, SteadyHonest
  <2>5. CASE c.state = "questioning"
    <3>1. CutReason(c) = "interrupted"
      BY <2>5 DEF CutReason
    <3> QED
      BY <2>1, <2>3, <2>4, <2>5, <3>1 DEF Honest, Executing
  <2>6. CASE c.state \in {"running", "answered"}
    <3>1. CutReason(c) = "running"
      BY <2>6 DEF CutReason
    <3> QED
      BY <2>1, <2>3, <2>4, <2>6, <3>1 DEF Honest, Executing
  <2>7. CASE c.state \notin {"questioning", "running", "answered"}
    <3>1. CutReason(c) = "before"
      BY <2>7 DEF CutReason
    <3> QED
      BY <2>1, <2>2, <2>3, <2>4, <2>7, <3>1 DEF Honest, Executing
  <2> QED
    BY <2>5, <2>6, <2>7
<1>10. PICK h : h = [i \in DOMAIN calls |-> Result(calls[i].id, CutReason(calls[i]))]
  OBVIOUS
<1>11. h = [i \in DOMAIN calls |-> Result(calls[i].id, why[i])]
  BY <1>8, <1>10
<1>12. PICK list : list = Picked(h, left)
  OBVIOUS
<1>13. Notes(B, list)
  <2>1. left \in SUBSET (DOMAIN calls)
    BY <1>3
  <2>2. list = Picked([i \in DOMAIN calls |-> Result(calls[i].id, why[i])], left)
    BY <1>11, <1>12
  <2> QED
    BY <1>2, <1>9, <2>1, <2>2, ResultsAreNoteworthy
<1>14. PICK p : p = PutEach(marked, cause, list)
  OBVIOUS
<1>15. Keeps(marked, p, R)
  <2>1. Faithful(marked, R) /\ Begun(marked, R) = B
    BY <1>1, <1>7 DEF Keeps
  <2> QED
    BY <1>13, <1>14, <2>1, PutEachFaithful
<1>16. PICK actions : actions =
         {[a |-> "StopTool", call |-> calls[i].id] :
            i \in {j \in DOMAIN calls : calls[j].state = "running" /\ Stops(calls[j])}}
           \union {[a |-> "CancelTool", call |-> calls[i].id] :
            i \in {j \in DOMAIN calls : Executing(calls[j]) /\ ~Stops(calls[j])}}
  OBVIOUS
<1>17. Runs(actions) = {}
  BY <1>16 DEF Runs
<1>18. Keeps(p, Do(p, actions), R)
  BY <1>15, <1>17, DoFaithful DEF Keeps
<1>19. CancelStep(s, cause) = Do(p, actions)
  BY <1>1, <1>3, <1>4, <1>6, <1>10, <1>12, <1>14, <1>16 DEF CancelStep, MadeToStop, Stops
<1> QED
  BY <1>7, <1>15, <1>18, <1>19, KeepsThen

\* A call that stops was started.
LEMMA ForceStopFaithful ==
  ASSUME NEW s, NEW R, Faithful(s, R), NEW cause, NEW queued \in Queueings
  PROVE  Keeps(s, ForceStop(s, cause, queued), R)
<1>1. CASE s.turn.intr.wake = 0
  BY <1>1, KeepsItself DEF ForceStop
<1>2. CASE s.turn.intr.wake # 0
  <2>1. PICK calls, at : /\ calls = s.turn.calls
                         /\ at = {i \in DOMAIN calls : calls[i].state = "stopping"}
    OBVIOUS
  <2>2. Shapely(s) /\ IsSeq(calls) /\ at \in SUBSET (DOMAIN calls)
    BY <2>1 DEF Faithful, Sound, Shapely
  <2>3. PICK left : left = Picked(calls, at)
    OBVIOUS
  <2>4. IsSeq(left) /\ \A i \in 1..Len(left) : \E j \in at : left[i] = calls[j]
    BY <2>2, <2>3, PickedHolds
  <2>5. PICK d : d = NoStepLeft(s)
    OBVIOUS
  <2>6. Keeps(s, d, R)
    <3>1. /\ Shapely(d) /\ d.log = s.log /\ d.book = s.book /\ d.stored = s.stored
          /\ d.out = s.out /\ d.turn.calls = << >>
      BY <2>2, <2>5, EmptyIsSeq DEF NoStepLeft, Shapely, KernelFields, TurnFields,
                                    NotInterrupting, Queueings
    <3> QED
      BY <3>1, AsideFaithful
  <2>7. PICK why : why = "running"
    OBVIOUS
  <2>8. ASSUME NEW i \in DOMAIN left PROVE Honest(Begun(d, R), left[i].id, why)
    <3>1. i \in 1..Len(left)
      BY <2>4, SeqIsFunction
    <3>2. PICK j \in at : left[i] = calls[j]
      BY <2>4, <3>1
    <3>3. PICK c : c = calls[j]
      OBVIOUS
    <3>4. c.state = "stopping" /\ j \in DOMAIN calls
      BY <2>1, <3>2, <3>3
    <3>5. c.id \in Begun(s, R)
      BY <2>1, <3>3, <3>4, SteadyHonest DEF Executing
    <3> QED
      BY <2>6, <2>7, <3>2, <3>3, <3>5 DEF Honest, Keeps
  <2>9. PICK p : p = PutEach(d, cause, [i \in DOMAIN left |-> Result(left[i].id, why)])
    OBVIOUS
  <2>10. Keeps(d, p, R)
    BY <2>4, <2>6, <2>8, <2>9, AllResultsFaithful DEF Keeps
  <2>11. PICK t : t = CloseInterrupted(p, cause, queued)
    OBVIOUS
  <2>12. Keeps(p, t, R)
    BY <2>10, <2>11, EndingFaithful DEF Keeps
  <2>13. PICK actions : actions = {[a |-> "CancelTool", call |-> left[i].id] : i \in DOMAIN left}
    OBVIOUS
  <2>14. Runs(actions) = {}
    BY <2>13 DEF Runs
  <2>15. Keeps(t, Do(t, actions), R)
    BY <2>12, <2>14, DoFaithful DEF Keeps
  <2>16. ForceStop(s, cause, queued) = Do(t, actions)
    BY <1>2, <2>1, <2>3, <2>5, <2>7, <2>9, <2>11, <2>13
       DEF ForceStop, StillStopping, NoStepLeft
  <2> QED
    BY <2>6, <2>10, <2>12, <2>15, <2>16, KeepsThen
<1> QED
  BY <1>1, <1>2

LEMMA ForceStopAsBeforeFaithful ==
  ASSUME NEW s, NEW R, Faithful(s, R)
  PROVE  Keeps(s, ForceStopAsBefore(s), R)
<1>1. PICK cause, queued : cause = s.turn.intr.cause /\ queued = s.turn.intr.queued
  OBVIOUS
<1>2. queued \in Queueings
  BY <1>1 DEF Faithful, Sound, Shapely
<1>3. ForceStopAsBefore(s) = ForceStop(s, cause, queued)
  BY <1>1 DEF ForceStopAsBefore
<1> QED
  BY <1>2, <1>3, ForceStopFaithful

LEMMA NoCallsFaithful ==
  ASSUME NEW s, NEW R, Faithful(s, R), NEW stage
  PROVE  Keeps(s, [s EXCEPT !.turn.stage = stage, !.turn.calls = << >>], R)
<1>1. PICK t : t = [s EXCEPT !.turn.stage = stage, !.turn.calls = << >>]
  OBVIOUS
<1>2. Shapely(s)
  BY DEF Faithful, Sound
<1>3. /\ Shapely(t) /\ t.log = s.log /\ t.book = s.book /\ t.stored = s.stored
      /\ t.out = s.out /\ t.turn.calls = << >>
  BY <1>1, <1>2, EmptyIsSeq DEF Shapely, KernelFields, TurnFields
<1> QED
  BY <1>1, <1>3, AsideFaithful

\* Accepting a command after a step that keeps the account.
LEMMA ThenAccept ==
  ASSUME NEW s, NEW R, NEW t, Keeps(s, t, R), NEW id, NEW events
  PROVE  Keeps(s, Accept(t, id, events), R)
<1>1. Keeps(t, Accept(t, id, events), R)
  BY AnswersFaithful DEF Keeps
<1> QED
  BY <1>1, KeepsThen

LEMMA WaitForStoppingFaithful ==
  ASSUME NEW t, NEW R, Faithful(t, R), NEW s0, NEW id, NEW queued \in Queueings
  PROVE  Keeps(t, WaitForStopping(s0, t, id, queued), R)
<1>1. PICK intr : intr = [cause |-> id, queued |-> queued, wake |-> t.turn.mark]
  OBVIOUS
<1>2. PICK w : w = [t EXCEPT !.turn.intr = intr]
  OBVIOUS
<1>3. Shapely(t)
  BY DEF Faithful, Sound
<1>4. /\ Shapely(w) /\ w.log = t.log /\ w.book = t.book /\ w.stored = t.stored
      /\ w.out = t.out /\ w.turn.calls = t.turn.calls /\ w.turn.mark = t.turn.mark
  BY <1>1, <1>2, <1>3 DEF Shapely, KernelFields, TurnFields
<1>5. Keeps(t, w, R)
  BY <1>4, AsideFaithful
<1>6. PICK events : events = Since(s0, t)
  OBVIOUS
<1>7. PICK u : u = IF events = << >> THEN AcceptEmpty(w, id) ELSE Accept(w, id, events)
  OBVIOUS
<1>8. Keeps(w, u, R)
  <2>1. Keeps(w, AcceptEmpty(w, id), R) /\ Keeps(w, Accept(w, id, events), R)
    BY <1>5, AnswersFaithful DEF Keeps
  <2> QED
    BY <1>7, <2>1
<1>9. PICK actions : actions = {[a |-> "Wake", seen |-> t.turn.mark]}
  OBVIOUS
<1>10. Runs(actions) = {}
  BY <1>9 DEF Runs
<1>11. Keeps(u, Do(u, actions), R)
  BY <1>8, <1>10, DoFaithful DEF Keeps
<1>12. WaitForStopping(s0, t, id, queued) = Do(u, actions)
  <2>1. Since(s0, w) = events
    BY <1>4, <1>6 DEF Since
  <2>2. w = [t EXCEPT !.turn.intr = [cause |-> id, queued |-> queued, wake |-> t.turn.mark]]
    BY <1>1, <1>2
  <2>3. CASE events = << >>
    BY <1>6, <1>7, <1>9, <2>1, <2>2, <2>3 DEF WaitForStopping
  <2>4. CASE events # << >>
    BY <1>6, <1>7, <1>9, <2>1, <2>2, <2>4 DEF WaitForStopping
  <2> QED
    BY <2>3, <2>4
<1> QED
  BY <1>5, <1>8, <1>11, <1>12, KeepsThen

LEMMA InterruptFaithful ==
  ASSUME NEW s, NEW R, Faithful(s, R), NEW id, NEW queued \in Queueings,
         NEW received, IsSeq(received.calls)
  PROVE  Keeps(s, Interrupt(s, id, queued, received), R)
<1>1. CASE Idle(s)
  BY <1>1, AnswersFaithful DEF Interrupt
<1>2. CASE ~Idle(s) /\ s.turn.intr.wake # 0
  <2>1. PICK t : t = ForceStop(s, id, queued)
    OBVIOUS
  <2>2. Keeps(s, t, R)
    BY <2>1, ForceStopFaithful
  <2>3. Interrupt(s, id, queued, received) = Accept(t, id, Since(s, t))
    BY <1>2, <2>1 DEF Interrupt
  <2> QED
    BY <2>2, <2>3, ThenAccept
<1>3. CASE ~Idle(s) /\ s.turn.intr.wake = 0 /\ s.turn.stage = "asking"
  <2>1. PICK why : why = "before"
    OBVIOUS
  <2>2. PICK p : p = Cut(s, received, id, why)
    OBVIOUS
  <2>3. Keeps(s, p, R)
    BY <2>1, <2>2, CutFaithful
  <2>4. PICK t : t = CloseInterrupted(p, id, queued)
    OBVIOUS
  <2>5. Keeps(p, t, R)
    BY <2>3, <2>4, EndingFaithful DEF Keeps
  <2>6. PICK u : u = Accept(t, id, Since(s, t))
    OBVIOUS
  <2>7. Keeps(s, u, R)
    BY <2>3, <2>5, <2>6, KeepsThen, ThenAccept
  <2>8. PICK actions : actions = {[a |-> "CancelModel", seen |-> s.turn.mark]}
    OBVIOUS
  <2>9. Runs(actions) = {}
    BY <2>8 DEF Runs
  <2>10. Interrupt(s, id, queued, received) = Do(u, actions)
    <3>1. PICK taken : taken = [s EXCEPT !.turn.stage = "settling", !.turn.calls = << >>]
      OBVIOUS
    <3>2. PICK cut : cut = Settle(taken, s.turn.mark, s.turn.cause, received, TRUE)
      OBVIOUS
    <3>3. p = PutEach(cut.s, id, [i \in DOMAIN cut.calls |-> Result(cut.calls[i].id, why)])
      BY <2>2, <3>1, <3>2 DEF Cut
    <3>4. p = PutEach(cut.s, id, [i \in DOMAIN cut.calls |->
                                   Result(cut.calls[i].id, "before")])
      BY <2>1, <3>3
    <3>5. Interrupt(s, id, queued, received) =
            Do(Accept(t, id, Since(s, t)), {[a |-> "CancelModel", seen |-> s.turn.mark]})
      BY <1>3, <2>4, <3>1, <3>2, <3>4 DEF Interrupt
    <3> QED
      BY <2>6, <2>8, <3>5
  <2>11. Keeps(u, Do(u, actions), R)
    BY <2>7, <2>9, DoFaithful DEF Keeps
  <2> QED
    BY <2>7, <2>10, <2>11, KeepsThen
<1>4. CASE ~Idle(s) /\ s.turn.intr.wake = 0 /\ s.turn.stage = "tools"
  <2>1. PICK step : step = CancelStep(s, id)
    OBVIOUS
  <2>2. Keeps(s, step, R)
    BY <2>1, CancelStepFaithful
  <2>3. CASE \E i \in DOMAIN step.turn.calls : step.turn.calls[i].state = "stopping"
    <3>1. Interrupt(s, id, queued, received) = WaitForStopping(s, step, id, queued)
      BY <1>4, <2>1, <2>3 DEF Interrupt
    <3>2. Keeps(step, WaitForStopping(s, step, id, queued), R)
      BY <2>2, WaitForStoppingFaithful DEF Keeps
    <3> QED
      BY <2>2, <3>1, <3>2, KeepsThen
  <2>4. CASE ~\E i \in DOMAIN step.turn.calls : step.turn.calls[i].state = "stopping"
    <3>1. PICK t : t = CloseInterrupted(step, id, queued)
      OBVIOUS
    <3>2. Keeps(step, t, R)
      BY <2>2, <3>1, EndingFaithful DEF Keeps
    <3>3. Interrupt(s, id, queued, received) = Accept(t, id, Since(s, t))
      BY <1>4, <2>1, <2>4, <3>1 DEF Interrupt
    <3>4. Keeps(s, t, R)
      BY <2>2, <3>2, KeepsThen
    <3> QED
      BY <3>3, <3>4, ThenAccept
  <2> QED
    BY <2>3, <2>4
<1>5. CASE /\ ~Idle(s) /\ s.turn.intr.wake = 0
           /\ s.turn.stage # "asking" /\ s.turn.stage # "tools"
  <2>1. PICK stage : stage = "settling"
    OBVIOUS
  <2>2. PICK taken : taken = [s EXCEPT !.turn.stage = stage, !.turn.calls = << >>]
    OBVIOUS
  <2>3. Keeps(s, taken, R)
    BY <2>2, NoCallsFaithful
  <2>4. PICK t : t = CloseInterrupted(taken, id, queued)
    OBVIOUS
  <2>5. Keeps(taken, t, R)
    BY <2>3, <2>4, EndingFaithful DEF Keeps
  <2>6. Interrupt(s, id, queued, received) = Accept(t, id, Since(s, t))
    BY <1>5, <2>1, <2>2, <2>4 DEF Interrupt
  <2>7. Keeps(s, t, R)
    BY <2>3, <2>5, KeepsThen
  <2> QED
    BY <2>6, <2>7, ThenAccept
<1> QED
  BY <1>1, <1>2, <1>3, <1>4, <1>5

\* A request that is made again later starts nothing.
LEMMA WaitToRetryFaithful ==
  ASSUME NEW s, NEW R, Faithful(s, R), s.turn.calls = << >>, NEW seen, NEW cause, NEW cut
  PROVE  Keeps(s, WaitToRetry(s, seen, cause, cut), R)
<1>1. PICK body : body = [k |-> "context.injected", fact |-> "cut"]
  OBVIOUS
<1>2. Fine(body) /\ body.k \notin OfACall
  BY <1>1 DEF Fine, OfACall
<1>3. PICK p : p = IF cut THEN Put(s, cause, body) ELSE s
  OBVIOUS
<1>4. Keeps(s, p, R) /\ p.turn = s.turn
  <2>1. Keeps(s, Put(s, cause, body), R)
    BY <1>2, NoteFaithful
  <2>2. Put(s, cause, body).turn = s.turn
    BY <1>2, PutKeepsTurn DEF Faithful
  <2> QED
    BY <1>3, <2>1, <2>2, KeepsItself
<1>5. PICK t : t = [p EXCEPT !.turn.retries = @ + 1, !.turn.retrying = TRUE,
                             !.turn.stage = "waiting", !.turn.mark = seen]
  OBVIOUS
<1>6. Keeps(p, t, R)
  <2>1. Shapely(p)
    BY <1>4 DEF Keeps, Faithful, Sound
  <2>2. /\ Shapely(t) /\ t.log = p.log /\ t.book = p.book /\ t.stored = p.stored
        /\ t.out = p.out /\ t.turn.calls = << >>
    BY <1>4, <1>5, <2>1 DEF Shapely, KernelFields, TurnFields
  <2> QED
    BY <1>4, <2>2, AsideFaithful DEF Keeps
<1>7. PICK actions : actions = {[a |-> "Wake", seen |-> seen]}
  OBVIOUS
<1>8. Runs(actions) = {}
  BY <1>7 DEF Runs
<1>9. Keeps(t, Do(t, actions), R)
  BY <1>6, <1>8, DoFaithful DEF Keeps
<1>10. WaitToRetry(s, seen, cause, cut) = Do(t, actions)
  <2>1. CASE cut
    BY <1>1, <1>3, <1>5, <1>7, <2>1 DEF WaitToRetry
  <2>2. CASE ~cut
    BY <1>1, <1>3, <1>5, <1>7, <2>2 DEF WaitToRetry
  <2> QED
    BY <2>1, <2>2
<1> QED
  BY <1>4, <1>6, <1>9, <1>10, KeepsThen

LEMMA RestartFaithful ==
  ASSUME NEW s, NEW R, Faithful(s, R), NEW received, IsSeq(received.calls)
  PROVE  Keeps(s, Restart(s, received), R)
<1>1. PICK noted : noted = [s EXCEPT !.restarting = TRUE]
  OBVIOUS
<1>2. Keeps(s, noted, R)
  <2>1. Shapely(s)
    BY DEF Faithful, Sound
  <2>2. /\ Shapely(noted) /\ noted.log = s.log /\ noted.book = s.book
        /\ noted.stored = s.stored /\ noted.out = s.out /\ noted.turn = s.turn
    BY <1>1, <2>1 DEF Shapely, KernelFields
  <2> QED
    BY <2>2, AsideFaithful
<1>3. PICK u : u = ForceStopAsBefore(noted)
  OBVIOUS
<1>4. Keeps(s, u, R)
  BY <1>2, <1>3, ForceStopAsBeforeFaithful, KeepsThen DEF Keeps
<1>5. CASE Idle(u)
  <2>1. Restart(s, received) = u
    BY <1>1, <1>3, <1>5 DEF Restart
  <2> QED
    BY <1>4, <2>1
<1>6. CASE ~Idle(u)
  <2>1. PICK by, why : by = u.turn.cause /\ why = "restarted"
    OBVIOUS
  <2>2. CASE u.turn.stage = "asking"
    <3>1. PICK p : p = Cut(u, received, by, why)
      OBVIOUS
    <3>2. Keeps(u, p, R)
      BY <1>4, <2>1, <3>1, CutFaithful DEF Keeps
    <3>3. PICK t : t = EndTurn(p, by, why)
      OBVIOUS
    <3>4. Keeps(p, t, R)
      BY <3>2, <3>3, EndTurnFaithful DEF Keeps
    <3>5. PICK actions : actions = {[a |-> "CancelModel", seen |-> u.turn.mark]}
      OBVIOUS
    <3>6. Runs(actions) = {}
      BY <3>5 DEF Runs
    <3>7. Keeps(t, Do(t, actions), R)
      BY <3>4, <3>6, DoFaithful DEF Keeps
    <3>8. Restart(s, received) = Do(t, actions)
      <4>1. u = ForceStopAsBefore(Noticed(s))
        BY <1>1, <1>3 DEF Noticed
      <4>2. Restart(s, received) = WoundUpAsking(u, received)
        BY <1>6, <2>2, <4>1, RestartWhileAsking
      <4>3. WoundUpAsking(u, received) = Do(t, actions)
        BY <2>1, <3>1, <3>3, <3>5 DEF WoundUpAsking
      <4> QED
        BY <4>2, <4>3
    <3> QED
      BY <1>4, <3>2, <3>4, <3>7, <3>8, KeepsThen
  <2>3. CASE u.turn.stage # "asking"
    <3>1. PICK calls, at : /\ calls = u.turn.calls
                           /\ at = {i \in DOMAIN calls : calls[i].state # "done"}
      OBVIOUS
    <3>2. IsSeq(calls) /\ at \in SUBSET (DOMAIN calls)
      BY <1>4, <3>1 DEF Keeps, Faithful, Sound, Shapely
    <3>3. PICK left : left = Picked(calls, at)
      OBVIOUS
    <3>4. IsSeq(left)
      BY <3>2, <3>3, PickedHolds
    <3>5. PICK stage : stage = "settling"
      OBVIOUS
    <3>6. PICK taken : taken = [u EXCEPT !.turn.stage = stage, !.turn.calls = << >>]
      OBVIOUS
    <3>7. Keeps(u, taken, R)
      BY <1>4, <3>6, NoCallsFaithful DEF Keeps
    <3>8. PICK p : p = PutEach(taken, by, [i \in DOMAIN left |-> Result(left[i].id, why)])
      OBVIOUS
    <3>9. Keeps(taken, p, R)
      <4>1. \A i \in DOMAIN left : Honest(Begun(taken, R), left[i].id, why)
        BY <2>1 DEF Honest
      <4> QED
        BY <3>4, <3>7, <3>8, <4>1, AllResultsFaithful DEF Keeps
    <3>10. PICK t : t = EndTurn(p, by, why)
      OBVIOUS
    <3>11. Keeps(p, t, R)
      BY <3>9, <3>10, EndTurnFaithful DEF Keeps
    <3>12. PICK actions : actions =
             {[a |-> "CancelTool", call |-> calls[i].id] :
                i \in {j \in DOMAIN calls : Executing(calls[j])}}
      OBVIOUS
    <3>13. Runs(actions) = {}
      BY <3>12 DEF Runs
    <3>14. Keeps(t, Do(t, actions), R)
      BY <3>11, <3>13, DoFaithful DEF Keeps
    <3>15. Restart(s, received) = Do(t, actions)
      <4>1. taken = [u EXCEPT !.turn.stage = "settling", !.turn.calls = << >>]
        BY <3>5, <3>6
      <4>2. p = PutEach(taken, u.turn.cause,
                        [i \in DOMAIN left |-> Result(left[i].id, "restarted")])
        BY <2>1, <3>8
      <4>3. t = EndTurn(p, u.turn.cause, "restarted")
        BY <2>1, <3>10
      <4> QED
        BY <1>1, <1>3, <1>6, <2>3, <3>1, <3>3, <3>12, <4>1, <4>2, <4>3 DEF Restart
    <3> QED
      BY <1>4, <3>7, <3>9, <3>11, <3>14, <3>15, KeepsThen
  <2> QED
    BY <2>2, <2>3
<1> QED
  BY <1>5, <1>6

\* A stopping call was started, whatever it says when it comes back.
LEMMA StoppedDoneFaithful ==
  ASSUME NEW s, NEW R, Faithful(s, R), NEW call, NEW stopped
  PROVE  Keeps(s, StoppedDone(s, call, stopped), R)
<1>1. CASE At(s, call, {"stopping"}) = {}
  BY <1>1, KeepsItself DEF StoppedDone
<1>2. CASE At(s, call, {"stopping"}) # {}
  <2>1. PICK i : i = CHOOSE j \in At(s, call, {"stopping"}) : TRUE
    OBVIOUS
  <2>2. /\ i \in DOMAIN s.turn.calls
        /\ s.turn.calls[i].id = call /\ s.turn.calls[i].state \in {"stopping"}
    BY <1>2, <2>1, Found
  <2>3. PICK done : done = SetState(s, i, "done")
    OBVIOUS
  <2>4. PICK cause, why :
          /\ cause = IF stopped THEN s.turn.intr.cause ELSE s.turn.cause
          /\ why = IF stopped THEN "running" ELSE "done"
    OBVIOUS
  <2>5. PICK put : put = Put(done, cause, Result(call, why))
    OBVIOUS
  <2>6. PICK closing : closing = [put EXCEPT !.turn.intr = NotInterrupting,
                                        !.turn.stage = "settling",
                                        !.turn.calls = << >>]
    OBVIOUS
  <2>7. PICK by, queued : by = s.turn.intr.cause /\ queued = s.turn.intr.queued
    OBVIOUS
  <2>8. StoppedDone(s, call, stopped) =
           IF \E j \in DOMAIN done.turn.calls : done.turn.calls[j].state = "stopping"
             THEN put ELSE CloseInterrupted(closing, by, queued)
    <3>1. CASE stopped
      <4>1. put = Put(done, s.turn.intr.cause, Result(call, "running"))
        BY <2>4, <2>5, <3>1
      <4>2. PICK left : left = \E j \in DOMAIN done.turn.calls :
                                 done.turn.calls[j].state = "stopping"
        OBVIOUS
      <4>3. CASE left
        BY <1>2, <2>1, <2>3, <3>1, <4>1, <4>2, <4>3 DEF StoppedDone
      <4>4. CASE ~left
        BY <1>2, <2>1, <2>3, <2>6, <2>7, <3>1, <4>1, <4>2, <4>4 DEF StoppedDone
      <4> QED
        BY <4>2, <4>3, <4>4
    <3>2. CASE ~stopped
      <4>1. put = Put(done, s.turn.cause, Result(call, "done"))
        BY <2>4, <2>5, <3>2
      <4> QED
        BY <1>2, <2>1, <2>3, <2>6, <2>7, <3>2, <4>1 DEF StoppedDone
    <3> QED
      BY <3>1, <3>2
  <2>9. Keeps(s, put, R)
    <3>1. PICK c : c = s.turn.calls[i]
      OBVIOUS
    <3>2. c.id \in Begun(s, R)
      BY <2>2, <3>1, SteadyHonest DEF Executing
    <3>3. Honest(Begun(s, R), call, why)
      BY <2>2, <2>4, <3>1, <3>2 DEF Honest
    <3> QED
      BY <2>2, <2>3, <2>5, <3>3, OneDoneFaithful
  <2>10. Keeps(put, closing, R)
    <3>1. Shapely(put)
      BY <2>9 DEF Keeps, Faithful, Sound
    <3>2. /\ Shapely(closing) /\ closing.log = put.log /\ closing.book = put.book
          /\ closing.stored = put.stored /\ closing.out = put.out
          /\ closing.turn.calls = << >>
      BY <2>6, <3>1, EmptyIsSeq DEF Shapely, KernelFields, TurnFields, NotInterrupting,
                                    Queueings
    <3> QED
      BY <2>9, <3>2, AsideFaithful DEF Keeps
  <2>11. PICK t : t = CloseInterrupted(closing, by, queued)
    OBVIOUS
  <2>12. queued \in Queueings
    BY <2>7 DEF Faithful, Sound, Shapely
  <2>13. Keeps(closing, t, R)
    BY <2>10, <2>11, <2>12, EndingFaithful DEF Keeps
  <2>14. Keeps(s, t, R)
    BY <2>9, <2>10, <2>13, KeepsThen
  <2> QED
    BY <2>8, <2>9, <2>11, <2>14
<1> QED
  BY <1>1, <1>2

----------------------------------------------------------------------------
(***************************************************************************)
(* Calls that are started.  A pending call whose reply and whose notes are *)
(* on disk has all its notes there, and no result anywhere.                *)
(***************************************************************************)
NoResultYet(l, x) == \A i \in 1..Len(l) : ~(l[i].k = "tool.result" /\ l[i].call = x)

LEMMA PendingDocumented ==
  ASSUME NEW s, Linked(s), NEW x \in s.book.pending, x \notin s.book.asking,
         x[1] \in 1..s.stored, NotesUpTo(s.log, x, s.stored)
  PROVE  Documented(s.log, s.stored, x) /\ NoResultYet(s.log, x)
<1>1. PICK l, b, n : l = s.log /\ b = s.book /\ n = s.stored
  OBVIOUS
<1>2. Whole(s) /\ Sound(s)
  BY DEF Linked, InOrder, Rooted, Whole
<1>3. /\ IsLog(l) /\ Clean(l) /\ b = BookOf(l) /\ n \in 0..Len(l) /\ Len(l) \in Nat
  BY <1>1, <1>2, LogLength DEF Whole, Sound
<1>4. Tidy(b, l) /\ Accounts(l, Len(l), b)
  BY <1>3, CleanIsTidy, CleanAccounts
<1>5. /\ b.lastReply \in 0..Len(l) /\ b.lastReply # 0
      /\ l[b.lastReply].k = "message.assistant"
      /\ x \in Range(l[b.lastReply].calls)
      /\ \A i \in DOMAIN l[b.lastReply].calls : l[b.lastReply].calls[i] = <<b.lastReply, i>>
  BY <1>1, <1>4 DEF Tidy
<1>6. x[1] = b.lastReply
  <2>1. PICK i \in DOMAIN l[b.lastReply].calls : x = l[b.lastReply].calls[i]
    BY <1>5 DEF Range
  <2>2. x = <<b.lastReply, i>>
    BY <1>5, <2>1
  <2> QED
    BY <2>2
<1>7. /\ NotesOn(l, Len(l), "tool.result", x) = {}
      /\ Balances(l, Len(l), x, FALSE)
  <2>1. NotesOn(l, Len(l), "tool.result", x) = {} /\ Balances(l, Len(l), x, x \in b.asking)
    BY <1>1, <1>4 DEF Accounts
  <2>2. (x \in b.asking) = FALSE
    BY <1>1
  <2> QED
    BY <2>1, <2>2
<1>8. ASSUME NEW kind \in ApprovalKinds
      PROVE  NotesOn(l, n, kind, x) = NotesOn(l, Len(l), kind, x)
  <2>1. \A i \in 1..Len(l) : l[i].k = kind /\ l[i].call = x => i <= n
    BY <1>1 DEF NotesUpTo
  <2>2. \A i \in 1..Len(l) : i <= n => i \in 1..n
    BY <1>3
  <2>3. \A i \in 1..n : i \in 1..Len(l)
    BY <1>3
  <2> QED
    BY <2>1, <2>2, <2>3 DEF NotesOn
<1>9. Cardinality(NotesOn(l, n, "approval.decided", x))
        = Cardinality(NotesOn(l, n, "approval.requested", x))
  <2>1. PICK p, q : /\ p = Cardinality(NotesOn(l, Len(l), "approval.requested", x))
                    /\ q = Cardinality(NotesOn(l, Len(l), "approval.decided", x))
    OBVIOUS
  <2>2. q \in Nat
    BY <1>3, <2>1, NotesGrow
  <2>3. p = q + 0
    BY <1>7, <2>1 DEF Balances
  <2>4. p = q
    BY <2>2, <2>3
  <2>5. /\ NotesOn(l, n, "approval.requested", x) = NotesOn(l, Len(l), "approval.requested", x)
        /\ NotesOn(l, n, "approval.decided", x) = NotesOn(l, Len(l), "approval.decided", x)
    BY <1>8 DEF ApprovalKinds
  <2> QED
    BY <2>1, <2>4, <2>5
<1>10. Documented(l, n, x)
  BY <1>1, <1>5, <1>6, <1>9 DEF Documented
<1>11. NoResultYet(l, x)
  BY <1>7 DEF NoResultYet, NotesOn
<1> QED
  BY <1>1, <1>10, <1>11

\* What becomes of a call that is not started now: its reply being on disk, a
\* waiting call goes to the guard.
Moves(c, d, mark, n) ==
  \/ Follows(c, d)
  \/ /\ c.state = "waiting" /\ d.state = "guarding" /\ d.id = c.id /\ DOMAIN d = DOMAIN c
     /\ mark <= n

\* The calls at these places are started.
Starts(s, t, at) ==
  /\ Shapely(t) /\ t.log = s.log /\ t.book = s.book /\ t.stored = s.stored
  /\ t.turn.mark = s.turn.mark /\ DOMAIN t.turn.calls = DOMAIN s.turn.calls
  /\ {a.call : a \in Runs(t.out)}
       = {a.call : a \in Runs(s.out)} \union IdsAt(s.turn.calls, at)
  /\ \A i \in at : LET c == s.turn.calls[i]
                       d == t.turn.calls[i]
                   IN  /\ c.state \in {"approved", "guarding"} /\ Executing(d)
                       /\ d.id = c.id /\ DOMAIN d = CallFields
                       /\ c.id[1] \in 1..s.stored /\ NotesUpTo(s.log, c.id, s.stored)
  /\ \A i \in DOMAIN s.turn.calls \ at :
       Moves(s.turn.calls[i], t.turn.calls[i], s.turn.mark, s.stored)

LEMMA StartsFaithful ==
  ASSUME NEW s, NEW R, Faithful(s, R), Linked(s),
         NEW at \in SUBSET (DOMAIN s.turn.calls), NEW t, Starts(s, t, at)
  PROVE  Faithful(t, R)
<1>1. PICK l, n, calls, mark, B, new :
        /\ l = s.log /\ n = s.stored /\ calls = s.turn.calls /\ mark = s.turn.mark
        /\ B = Begun(s, R) /\ new = IdsAt(calls, at)
  OBVIOUS
<1>2. PICK C : C = Begun(t, R)
  OBVIOUS
<1>3. C = B \union new
  BY <1>1, <1>2 DEF Begun, Starts
<1>4. Sound(s) /\ OnRecord(l, n, B) /\ n \in 0..Len(l) /\ Len(l) \in Nat
  BY <1>1, LogLength DEF Faithful, Sound
<1>5. Sound(t) /\ t.log = l /\ t.stored = n /\ t.turn.mark = mark
  BY <1>1, <1>4 DEF Starts, Sound
<1>6. ASSUME NEW x \in new
      PROVE  Documented(l, n, x) /\ NoResultYet(l, x)
  <2>1. PICK i \in at : x = calls[i].id
    BY <1>1 DEF IdsAt
  <2>2. PICK c : c = calls[i]
    OBVIOUS
  <2>3. i \in DOMAIN s.turn.calls /\ c = s.turn.calls[i]
    BY <1>1, <2>2
  <2>4. /\ c.state \in {"approved", "guarding"}
        /\ c.id[1] \in 1..s.stored /\ NotesUpTo(s.log, c.id, s.stored)
    BY <2>1, <2>3 DEF Starts
  <2>5. c.id \in s.book.pending /\ c.id \notin s.book.asking
    BY <2>3, <2>4, FoundInBook
  <2> QED
    BY <1>1, <2>1, <2>2, <2>4, <2>5, PendingDocumented
<1>7. OnRecord(l, n, C)
  <2>1. \A x \in C : Documented(l, n, x)
    BY <1>3, <1>4, <1>6 DEF OnRecord
  <2>2. ASSUME NEW i \in 1..Len(l), l[i].k = "tool.result"
        PROVE  Honest(C, l[i].call, l[i].why)
    <3>1. l[i].call \notin new
      BY <1>6, <2>2 DEF NoResultYet
    <3>2. Honest(B, l[i].call, l[i].why)
      BY <1>4, <2>2 DEF OnRecord
    <3> QED
      BY <1>3, <3>1, <3>2 DEF Honest
  <2> QED
    BY <2>1, <2>2 DEF OnRecord
<1>8. ASSUME NEW i \in DOMAIN calls
      PROVE  Steady(t.turn.calls[i], mark, l, n, C)
  <2>1. PICK c, d : c = calls[i] /\ d = t.turn.calls[i]
    OBVIOUS
  <2>2. Steady(c, mark, l, n, B)
    BY <1>1, <2>1 DEF Faithful
  <2>3. CASE i \in at
    <3>1. Executing(d) /\ d.id = c.id /\ DOMAIN d = CallFields
      BY <1>1, <2>1, <2>3 DEF Starts
    <3>2. d.id \in C
      BY <1>1, <1>3, <2>1, <2>3, <3>1 DEF IdsAt
    <3>3. d.state \in {"running", "questioning", "answered", "stopping"}
      BY <3>1 DEF Executing
    <3> QED
      BY <2>1, <3>1, <3>2, <3>3 DEF Steady
  <2>4. CASE i \notin at
    <3>1. Moves(c, d, mark, n)
      BY <1>1, <2>1, <2>4 DEF Starts
    <3>2. c.id \notin new
      <4>1. AreCalls(calls)
        BY <1>1 DEF Linked, InOrder, Matched
      <4> QED
        BY <1>1, <2>1, <2>4, <4>1 DEF AreCalls, IdsAt
    <3>3. c.id \in B <=> c.id \in C
      BY <1>3, <3>2
    <3>4. Steady(c, mark, l, n, C)
      BY <2>2, <3>3 DEF Steady
    <3>5. CASE Follows(c, d)
      BY <2>1, <3>4, <3>5, FollowsSteady
    <3>6. CASE ~Follows(c, d)
      <4>1. /\ c.state = "waiting" /\ d.state = "guarding" /\ d.id = c.id
            /\ DOMAIN d = DOMAIN c /\ mark <= n
        BY <3>1, <3>6 DEF Moves
      <4>2. mark \in Nat /\ c.id[1] \in 1..mark /\ NotesUpTo(l, c.id, 0)
            /\ DOMAIN c = CallFields /\ c.id \notin C
        BY <3>4, <4>1 DEF Steady, Executing
      <4>3. c.id[1] \in 1..n
        BY <1>4, <4>1, <4>2
      <4> QED
        BY <2>1, <4>1, <4>2, <4>3 DEF Steady, Executing
    <3> QED
      BY <3>5, <3>6
  <2> QED
    BY <2>3, <2>4
<1>9. DOMAIN t.turn.calls = DOMAIN calls
  BY <1>1 DEF Starts
<1> QED
  BY <1>2, <1>5, <1>7, <1>8, <1>9 DEF Faithful

\* What is handed to the executor now.
LEMMA DispatchFaithful ==
  ASSUME NEW s, NEW R, Faithful(s, R), Linked(s)
  PROVE  Faithful(Dispatch(s), R)
<1>1. CASE s.turn.stage # "tools" \/ s.stored < s.turn.mark
  BY <1>1 DEF Dispatch
<1>2. CASE ~(s.turn.stage # "tools" \/ s.stored < s.turn.mark)
  <2> DEFINE calls == s.turn.calls
             approved == {i \in DOMAIN calls : calls[i].state = "approved"
                                                /\ Landed(s, calls[i])}
             answered == {i \in DOMAIN calls : calls[i].state = "answered"
                                                /\ Landed(s, calls[i])}
             going == [i \in DOMAIN calls |->
                         IF i \in approved \union answered
                           THEN [calls[i] EXCEPT !.state = "running"]
                           ELSE calls[i]]
             next == Ready(going)
             g == [i \in DOMAIN going |-> IF i \in next
                      THEN [going[i] EXCEPT !.state = "guarding"] ELSE going[i]]
             a == {RunTool(s, calls[i]) : i \in approved}
                  \union {[a |-> "AnswerTool", call |-> calls[i].id] : i \in answered}
                  \union {[a |-> "GuardTool", call |-> calls[i].id] : i \in next}
             t == [s EXCEPT !.turn.calls = g]
  <2>1. Dispatch(s) = Do(t, a)
    BY <1>2 DEF Dispatch
  <2>2. Sound(s) /\ Shapely(s) /\ IsSeq(calls) /\ s.stored \in Nat
    BY LogLength DEF Faithful, Sound, Shapely
  <2>3. DOMAIN going = DOMAIN calls /\ DOMAIN g = DOMAIN calls
    OBVIOUS
  <2>4. ASSUME NEW i \in DOMAIN calls
        PROVE  /\ i \in next => going[i].state = "waiting"
               /\ g[i] = IF i \in next THEN [going[i] EXCEPT !.state = "guarding"]
                                       ELSE going[i]
               /\ going[i] = IF i \in approved \union answered
                               THEN [calls[i] EXCEPT !.state = "running"]
                               ELSE calls[i]
    BY <2>3 DEF Ready
  <2>5. IsSeq(g)
    <3>1. g = [i \in DOMAIN calls |-> g[i]]
      BY <2>3
    <3> HIDE DEF g
    <3> QED
      BY <2>2, <3>1, EachOf
  <2>6. next \subseteq DOMAIN calls
    BY <2>3 DEF Ready
  <2> HIDE DEF next, g
  <2>7. \A i \in DOMAIN calls : Steady(calls[i], s.turn.mark, s.log, s.stored, Begun(s, R))
    BY DEF Faithful
  <2>8. ASSUME NEW i \in approved
        PROVE  /\ calls[i].state = "approved" /\ Executing(g[i])
               /\ g[i].id = calls[i].id /\ DOMAIN g[i] = CallFields
               /\ calls[i].id[1] \in 1..s.stored
               /\ NotesUpTo(s.log, calls[i].id, s.stored)
    <3>1. i \in DOMAIN calls /\ calls[i].state = "approved" /\ calls[i].at <= s.stored
      BY DEF Landed
    <3>2. /\ DOMAIN calls[i] = CallFields /\ calls[i].id[1] \in 1..s.stored
          /\ calls[i].at \in Nat /\ NotesUpTo(s.log, calls[i].id, calls[i].at)
      BY <2>7, <3>1 DEF Steady
    <3>3. going[i] = [calls[i] EXCEPT !.state = "running"]
      BY <2>4, <3>1
    <3> HIDE DEF going
    <3>4. /\ going[i].state = "running" /\ going[i].id = calls[i].id
          /\ DOMAIN going[i] = CallFields
      BY <3>2, <3>3 DEF CallFields
    <3>5. i \notin next
      BY <2>4, <3>1, <3>4
    <3>6. g[i] = going[i]
      BY <2>4, <3>1, <3>5
    <3>7. NotesUpTo(s.log, calls[i].id, s.stored)
      <4>1. PICK l, x, at, n : l = s.log /\ x = calls[i].id /\ at = calls[i].at /\ n = s.stored
        OBVIOUS
      <4>2. at \in Nat /\ n \in Nat /\ at <= n /\ NotesUpTo(l, x, at)
        BY <2>2, <3>1, <3>2, <4>1
      <4>3. Len(l) \in Nat
        BY <2>2, <4>1, LogLength
      <4>4. NotesUpTo(l, x, n)
        BY <4>2, <4>3 DEF NotesUpTo
      <4> QED
        BY <4>1, <4>4
    <3> QED
      BY <3>1, <3>2, <3>4, <3>6, <3>7 DEF Executing
  <2>9. ASSUME NEW i \in DOMAIN calls \ approved
        PROVE  Moves(calls[i], g[i], s.turn.mark, s.stored)
    <3>1. DOMAIN calls[i] = CallFields
      BY <2>7 DEF Steady
    <3>2. CASE i \in answered
      <4>1. going[i] = [calls[i] EXCEPT !.state = "running"] /\ calls[i].state = "answered"
        BY <2>4, <3>2
      <4> HIDE DEF going
      <4>2. going[i].state = "running" /\ going[i].id = calls[i].id
            /\ DOMAIN going[i] = CallFields
        BY <3>1, <4>1 DEF CallFields
      <4>3. g[i] = going[i]
        BY <2>4, <4>2
      <4> QED
        BY <3>1, <4>1, <4>2, <4>3 DEF Moves, Follows, Executing
    <3>3. CASE i \notin answered
      <4>1. going[i] = calls[i]
        BY <2>4, <3>3
      <4> HIDE DEF going, approved, answered
      <4>2. CASE i \in next
        <5>1. calls[i].state = "waiting" /\ g[i] = [calls[i] EXCEPT !.state = "guarding"]
          BY <2>4, <4>1, <4>2
        <5>2. s.turn.mark \in Nat
          BY <2>7, <5>1 DEF Steady
        <5>3. s.turn.mark <= s.stored
          BY <1>2, <2>2, <5>2
        <5> QED
          BY <3>1, <5>1, <5>3 DEF Moves, CallFields
      <4>3. CASE i \notin next
        BY <2>4, <4>1, <4>3 DEF Moves, Follows
      <4> QED
        BY <4>2, <4>3
    <3> QED
      BY <3>2, <3>3
  <2>10. approved \in SUBSET (DOMAIN s.turn.calls)
    OBVIOUS
  <2>11. {x.call : x \in Runs(a)} = IdsAt(calls, approved)
    <3>1. Runs(a) = {RunTool(s, calls[i]) : i \in approved}
      BY DEF Runs, RunTool
    <3>2. \A i \in approved : RunTool(s, calls[i]).call = calls[i].id
      BY DEF RunTool
    <3> HIDE DEF approved, a
    <3> QED
      BY <3>1, <3>2 DEF IdsAt
  <2> HIDE DEF approved, a
  <2>12. PICK at, acts, h, p : at = approved /\ acts = a /\ h = g /\ p = t
    OBVIOUS
  <2>13. PICK u : u = Do(p, acts)
    OBVIOUS
  <2>14. /\ Shapely(u) /\ u.log = s.log /\ u.book = s.book /\ u.stored = s.stored
         /\ u.turn.mark = s.turn.mark /\ u.turn.calls = h
         /\ u.out = s.out \union acts
    <3>1. p = [s EXCEPT !.turn.calls = h]
      BY <2>12
    <3> QED
      BY <2>2, <2>5, <2>12, <2>13, <3>1 DEF Do, Shapely, KernelFields, TurnFields
  <2>15. {x.call : x \in Runs(u.out)}
           = {x.call : x \in Runs(s.out)} \union IdsAt(s.turn.calls, at)
    <3>1. Runs(u.out) = Runs(s.out) \union Runs(acts)
      BY <2>14 DEF Runs
    <3> QED
      BY <2>11, <2>12, <3>1
  <2>16. Starts(s, u, at)
    BY <2>3, <2>8, <2>9, <2>12, <2>14, <2>15 DEF Starts
  <2>17. Faithful(u, R)
    BY <2>10, <2>12, <2>16, StartsFaithful
  <2> QED
    BY <2>1, <2>12, <2>13, <2>17
<1> QED
  BY <1>1, <1>2

\* A guarded call that is allowed.
LEMMA OneStartFaithful ==
  ASSUME NEW s, NEW R, Faithful(s, R), Linked(s), NEW i \in DOMAIN s.turn.calls,
         NEW c, c = s.turn.calls[i], c.state = "guarding",
         NEW t, t = SetState(s, i, "running")
  PROVE  Faithful(Do(t, {RunTool(s, c)}), R)
<1>1. PICK calls, d : calls = s.turn.calls /\ d = [c EXCEPT !.state = "running"]
  OBVIOUS
<1>2. Shapely(s) /\ IsSeq(calls) /\ s.stored \in Nat
  BY <1>1, LogLength DEF Faithful, Sound, Shapely
<1>3. Steady(c, s.turn.mark, s.log, s.stored, Begun(s, R))
  BY DEF Faithful
<1>4. DOMAIN c = CallFields /\ c.id[1] \in 1..s.stored /\ NotesUpTo(s.log, c.id, 0)
  BY <1>3 DEF Steady
<1>5. NotesUpTo(s.log, c.id, s.stored)
  <2>1. PICK l, x, n : l = s.log /\ x = c.id /\ n = s.stored
    OBVIOUS
  <2>2. n \in Nat /\ NotesUpTo(l, x, 0) /\ Len(l) \in Nat
    BY <1>2, <1>4, <2>1, LogLength DEF Faithful
  <2>3. NotesUpTo(l, x, n)
    BY <2>2 DEF NotesUpTo
  <2> QED
    BY <2>1, <2>3
<1>6. d.state = "running" /\ d.id = c.id /\ DOMAIN d = CallFields
  BY <1>1, <1>4 DEF CallFields
<1>7. PICK g : g = [calls EXCEPT ![i] = d]
  OBVIOUS
<1>8. IsSeq(g) /\ DOMAIN g = DOMAIN calls
  <2>1. g = [j \in DOMAIN calls |-> g[j]]
    BY <1>7
  <2> QED
    BY <1>2, <2>1, EachOf
<1>9. t = [s EXCEPT !.turn.calls = g]
  <2>1. t = WithCall(s, i, d)
    BY <1>1, <1>2, StateSet
  <2> QED
    BY <1>1, <1>7, <2>1 DEF WithCall
<1>10. PICK acts, at : acts = {RunTool(s, c)} /\ at = {i}
  OBVIOUS
<1>11. PICK u : u = Do(t, acts)
  OBVIOUS
<1>12. /\ Shapely(u) /\ u.log = s.log /\ u.book = s.book /\ u.stored = s.stored
       /\ u.turn.mark = s.turn.mark /\ u.turn.calls = g
       /\ u.out = s.out \union acts
  BY <1>2, <1>8, <1>9, <1>11 DEF Do, Shapely, KernelFields, TurnFields
<1>13. {x.call : x \in Runs(u.out)} = {x.call : x \in Runs(s.out)} \union IdsAt(s.turn.calls, at)
  <2>1. Runs(acts) = {RunTool(s, c)} /\ RunTool(s, c).call = c.id
    BY <1>10 DEF Runs, RunTool
  <2>2. Runs(u.out) = Runs(s.out) \union Runs(acts)
    BY <1>12 DEF Runs
  <2>3. IdsAt(s.turn.calls, at) = {c.id}
    BY <1>10 DEF IdsAt
  <2> QED
    BY <2>1, <2>2, <2>3
<1>14. ASSUME NEW j \in DOMAIN calls \ at
       PROVE  Moves(calls[j], g[j], s.turn.mark, s.stored)
  BY <1>7, <1>10 DEF Moves, Follows
<1>15. Starts(s, u, at)
  <2>1. g[i] = d
    BY <1>1, <1>7
  <2> QED
    BY <1>1, <1>4, <1>5, <1>6, <1>8, <1>10, <1>12, <1>13, <1>14, <2>1 DEF Starts, Executing
<1>16. at \in SUBSET (DOMAIN s.turn.calls)
  BY <1>10
<1> QED
  BY <1>10, <1>11, <1>15, <1>16, StartsFaithful

----------------------------------------------------------------------------
(***************************************************************************)
(* A person decides about a call.                                          *)
(***************************************************************************)
Decision(s, i, id, call, allow) ==
  LET decided == Put(s, id, About("approval.decided", call))
      denied == Put(SetState(decided, i, "done"), id, Result(call, "denied"))
  IN  IF allow THEN Stated(decided, i, "approved", s.book.next)
      ELSE IF Finished(denied.turn.calls) THEN FinishStep(denied, s.turn.cause)
      ELSE denied

LEMMA AnswerApprovalIs ==
  ASSUME NEW s, NEW id, NEW call, NEW allow, At(s, call, {"asking"}) # {},
         NEW i, i = CHOOSE j \in At(s, call, {"asking"}) : TRUE,
         NEW u, u = Decision(s, i, id, call, allow)
  PROVE  AnswerApproval(s, id, call, allow) = Dispatch(Accept(u, id, Since(s, u)))
<1>1. PICK p, seq : /\ p = Put(s, id, About("approval.decided", call))
                    /\ seq = s.book.next
  OBVIOUS
<1>2. p = Put(s, id, [k |-> "approval.decided", call |-> call])
  BY <1>1 DEF About
<1>3. CASE allow
  <2>1. u = [SetState(p, i, "approved") EXCEPT !.turn.calls[i].at = seq]
    BY <1>1, <1>3 DEF Decision, Stated
  <2> QED
    BY <1>1, <1>2, <1>3, <2>1 DEF AnswerApproval
<1>4. CASE ~allow
  <2>1. PICK put : put = Put(SetState(p, i, "done"), id, Result(call, "denied"))
    OBVIOUS
  <2>2. u = IF Finished(put.turn.calls) THEN FinishStep(put, s.turn.cause) ELSE put
    BY <1>1, <1>4, <2>1 DEF Decision
  <2> QED
    BY <1>2, <1>4, <2>1, <2>2 DEF AnswerApproval
<1> QED
  BY <1>3, <1>4

LEMMA DecisionLinked ==
  ASSUME NEW s, Linked(s), NEW id, NEW call, NEW allow,
         NEW i \in DOMAIN s.turn.calls, s.turn.stage = "tools",
         s.turn.calls[i].id = call, s.turn.calls[i].state = "asking"
  PROVE  Linked(Decision(s, i, id, call, allow))
<1>3. PICK old, by, seq : old = s.turn.calls[i] /\ by = s.turn.cause /\ seq = s.book.next
  OBVIOUS
<1>4. DOMAIN old = CallFields /\ old.state = "asking" /\ old.id = call
  BY <1>3, FoundInBook
<1>5. s.turn.intr.wake = 0
  BY WaitingIsStill
<1>6. Rank(s.eff) = 0 => ~Writes(old)
  BY <1>3, <1>4 DEF Linked, Permits, NotRun
<1>7. PICK state, kind : state = "approved" /\ kind = "approval.decided"
  OBVIOUS
<1>8. Shapely(s) /\ Sound(s)
  BY RootedBook DEF Linked, InOrder
<1>9. PICK body, p : body = About(kind, call) /\ p = Put(s, id, body)
  OBVIOUS
<1>10. p.turn = s.turn /\ Shapely(p)
  <2>1. Fine(body)
    BY <1>7, <1>9 DEF Fine, About
  <2> QED
    BY <1>8, <1>9, <2>1, PutKeepsTurn
<1>11. ASSUME NEW c, DOMAIN c = CallFields, c.id = call, c.access = old.access,
              c.state = "approved", c.asksWrite = old.asksWrite
       PROVE  Linked(WithCall(p, i, c))
  <2>1. Rank(s.eff) = 0 => ~Writes(c)
    BY <1>6, <1>11 DEF Writes
  <2>2. Linked(WithCall(Put(s, id, About(kind, c.id)), i, c))
    BY <1>3, <1>4, <1>7, <1>11, <2>1, MovesAndPuts
  <2> QED
    BY <1>9, <1>11, <2>2
<1>12. p = Put(s, id, About("approval.decided", call))
  BY <1>7, <1>9
<1>13. CASE allow
  <2>1. PICK u : u = Stated(p, i, state, seq)
    OBVIOUS
  <2>2. PICK c : c = CallAt(old, state, seq)
    OBVIOUS
  <2>3. /\ DOMAIN c = CallFields /\ c.id = call /\ c.access = old.access
        /\ c.state = "approved" /\ c.asksWrite = old.asksWrite
    BY <1>4, <1>7, <2>2 DEF CallFields, CallAt
  <2>4. u = WithCall(p, i, c)
    BY <1>3, <1>4, <1>10, <2>1, <2>2, StateSetAt
  <2>5. Linked(u)
    BY <1>11, <2>3, <2>4
  <2>6. Decision(s, i, id, call, allow) = u
    BY <1>3, <1>7, <1>12, <1>13, <2>1 DEF Decision
  <2> QED
    BY <2>5, <2>6
<1>14. CASE ~allow
  <2>1. PICK why, over : why = "denied" /\ over = "done"
    OBVIOUS
  <2>2. PICK put : put = Put(SetState(p, i, over), id, Result(call, why))
    OBVIOUS
  <2>3. PICK u : u = IF Finished(put.turn.calls) THEN FinishStep(put, by) ELSE put
    OBVIOUS
  <2>4. Decision(s, i, id, call, allow) = u
    BY <1>3, <1>12, <1>14, <2>1, <2>2, <2>3 DEF Decision
  <2>5. PICK c, t : c = [old EXCEPT !.state = state] /\ t = WithCall(p, i, c)
    OBVIOUS
  <2>6. /\ DOMAIN c = CallFields /\ c.id = call /\ c.access = old.access
        /\ c.state = "approved" /\ c.asksWrite = old.asksWrite
    BY <1>4, <1>7, <2>5 DEF CallFields
  <2>7. Linked(t)
    BY <1>11, <2>5, <2>6
  <2>8. /\ SetState(t, i, over) = SetState(p, i, over)
        /\ t.turn.stage = p.turn.stage /\ t.turn.intr = p.turn.intr
        /\ i \in DOMAIN t.turn.calls /\ t.turn.calls[i] = c
    BY <1>3, <1>4, <1>10, <2>5, DoneAnyway
  <2>9. /\ t.turn.stage = "tools" /\ t.turn.intr.wake = 0
        /\ t.turn.calls[i].state # "done" /\ t.turn.calls[i].id = call
    BY <1>5, <1>10, <2>6, <2>8
  <2>10. put = Put(SetState(t, i, "done"), id, Result(call, why))
    BY <2>1, <2>2, <2>8
  <2>11. Linked(u)
    BY <2>3, <2>7, <2>8, <2>9, <2>10, DoneThenDispatch
  <2> QED
    BY <2>4, <2>11
<1> QED
  BY <1>13, <1>14

\* A note about an approval of one call says nothing about another.
LEMMA OtherNotes ==
  ASSUME NEW l, IsSeq(l), NEW e, NEW m, m \in {l, Append(l, e)},
         NEW x, e.call # x, NEW n, NotesUpTo(l, x, n)
  PROVE  NotesUpTo(m, x, n)
<1>1. CASE m = l
  BY <1>1
<1>2. CASE m = Append(l, e)
  <2>1. /\ Len(l) \in Nat /\ Len(m) = Len(l) + 1 /\ m[Len(l) + 1] = e
        /\ \A i \in 1..Len(l) : m[i] = l[i]
    BY <1>2, AppendIsSeq, SeqIsFunction
  <2>2. ASSUME NEW i \in 1..Len(m), m[i].k \in ApprovalKinds, m[i].call = x
        PROVE  i <= n
    <3>1. i # Len(l) + 1
      BY <2>1, <2>2
    <3>2. i \in 1..Len(l)
      BY <2>1, <3>1
    <3> QED
      BY <2>1, <2>2, <3>2 DEF NotesUpTo
  <2> QED
    BY <2>2 DEF NotesUpTo
<1> QED
  BY <1>1, <1>2

\* A call that a person is asked about was not started, so a note about it leaves
\* what is said of the started ones as it is.
LEMMA ApprovalNoteFaithful ==
  ASSUME NEW s, NEW R, Faithful(s, R), AreCalls(s.turn.calls),
         NEW i \in DOMAIN s.turn.calls, s.turn.calls[i].state = "asking",
         NEW x, x = s.turn.calls[i].id, NEW kind \in ApprovalKinds, NEW cause
  PROVE  Keeps(s, Put(s, cause, About(kind, x)), R)
<1>1. PICK body, t, B : /\ body = About(kind, x) /\ t = Put(s, cause, body)
                        /\ B = Begun(s, R)
  OBVIOUS
<1>2. Sound(s) /\ OnRecord(s.log, s.stored, B)
  BY <1>1 DEF Faithful
<1>3. body.k = kind /\ body.call = x /\ DOMAIN body = {"k", "call"} /\ Fine(body)
  BY <1>1 DEF About, ApprovalKinds, Fine
<1>4. Sound(t) /\ t.turn = s.turn
  BY <1>1, <1>2, <1>3, PutKeepsTurn
<1>5. PICK turn : turn = IF body.k = "turn.started" THEN s.book.next ELSE s.turn.id
  OBVIOUS
<1>6. PICK e : e = Event(s.book.next, turn, cause, body)
  OBVIOUS
<1>7. t = IF Legal(s.book, e) THEN [s EXCEPT !.log = Append(@, e), !.book = Record(@, e)]
                              ELSE [s EXCEPT !.refused = TRUE]
  BY <1>1, <1>5, <1>6 DEF Put, Commit
<1>8. PICK l, m, n : l = s.log /\ m = t.log /\ n = s.stored
  OBVIOUS
<1>9. t.stored = n /\ t.out = s.out /\ m \in {l, Append(l, e)}
  BY <1>2, <1>7, <1>8 DEF Sound, Shapely, KernelFields
<1>10. e.k = kind /\ e.call = x
  <2>1. \A f \in DOMAIN body \ {"seq", "turn", "cause"} : e[f] = body[f]
    BY <1>6, EventIs
  <2> QED
    BY <1>3, <2>1
<1>11. IsSeq(l) /\ Len(l) \in Nat /\ n \in 0..Len(l)
  BY <1>2, <1>8, LogLength DEF Sound, IsLog
<1>12. x \notin B
  BY <1>1, SteadyHonest DEF Executing
<1>13. /\ \A j \in 1..Len(l) : m[j] = l[j]
       /\ \A j \in 1..Len(m) : j \in 1..Len(l) \/ m[j] = e
  <2>1. CASE m = l
    BY <2>1
  <2>2. CASE m = Append(l, e)
    <3>1. /\ Len(m) = Len(l) + 1 /\ m[Len(l) + 1] = e
          /\ \A j \in 1..Len(l) : m[j] = l[j]
      BY <1>11, <2>2, AppendIsSeq
    <3>2. \A j \in 1..(Len(l) + 1) : j \in 1..Len(l) \/ j = Len(l) + 1
      BY <1>11
    <3> QED
      BY <3>1, <3>2
  <2> QED
    BY <1>9, <2>1, <2>2
<1>14. OnRecord(m, n, B)
  <2>1. ASSUME NEW y \in B PROVE Documented(m, n, y)
    <3>1. Documented(l, n, y) /\ y # x
      BY <1>2, <1>8, <1>12 DEF OnRecord
    <3>2. NotesUpTo(m, y, n)
      BY <1>9, <1>10, <1>11, <3>1, OtherNotes DEF Documented
    <3>3. \A j \in 1..n : m[j] = l[j]
      BY <1>11, <1>13
    <3>4. m[y[1]] = l[y[1]]
      BY <3>1, <3>3 DEF Documented
    <3>5. /\ NotesOn(m, n, "approval.decided", y) = NotesOn(l, n, "approval.decided", y)
          /\ NotesOn(m, n, "approval.requested", y) = NotesOn(l, n, "approval.requested", y)
      BY <3>3, SameNotes
    <3> QED
      BY <3>1, <3>2, <3>4, <3>5 DEF Documented
  <2>2. ASSUME NEW j \in 1..Len(m), m[j].k = "tool.result"
        PROVE  Honest(B, m[j].call, m[j].why)
    <3>1. m[j] # e
      BY <1>10, <2>2 DEF ApprovalKinds
    <3>2. j \in 1..Len(l) /\ m[j] = l[j]
      BY <1>13, <3>1
    <3> QED
      BY <1>2, <1>8, <2>2, <3>2 DEF OnRecord
  <2> QED
    BY <2>1, <2>2 DEF OnRecord
<1>15. ASSUME NEW j \in DOMAIN s.turn.calls
       PROVE  Steady(s.turn.calls[j], s.turn.mark, m, n, B)
  <2>1. PICK c, mark : c = s.turn.calls[j] /\ mark = s.turn.mark
    OBVIOUS
  <2>2. Steady(c, mark, l, n, B)
    BY <1>1, <1>8, <2>1 DEF Faithful
  <2>3. CASE j = i
    BY <2>1, <2>2, <2>3 DEF Steady
  <2>4. CASE j # i
    <3>1. c.id # x
      BY <2>1, <2>4 DEF AreCalls
    <3>2. \A k : NotesUpTo(l, c.id, k) => NotesUpTo(m, c.id, k)
      BY <1>9, <1>10, <1>11, <3>1, OtherNotes
    <3> QED
      BY <2>1, <2>2, <3>2 DEF Steady
  <2> QED
    BY <2>3, <2>4
<1>16. Begun(t, R) = B
  BY <1>1, <1>9 DEF Begun
<1>17. Faithful(t, R)
  BY <1>4, <1>8, <1>9, <1>14, <1>15, <1>16 DEF Faithful
<1> QED
  BY <1>1, <1>16, <1>17 DEF Keeps

\* One call changes into one that is accounted for.
LEMMA SteadyCallFaithful ==
  ASSUME NEW s, NEW R, Faithful(s, R), NEW i \in DOMAIN s.turn.calls,
         NEW c, Steady(c, s.turn.mark, s.log, s.stored, Begun(s, R))
  PROVE  Keeps(s, WithCall(s, i, c), R) /\ Sound(WithCall(s, i, c))
<1>1. PICK calls, g : calls = s.turn.calls /\ g = [calls EXCEPT ![i] = c]
  OBVIOUS
<1>2. Shapely(s) /\ IsSeq(calls)
  BY <1>1 DEF Faithful, Sound, Shapely
<1>3. IsSeq(g) /\ DOMAIN g = DOMAIN calls
  <2>1. g = [j \in DOMAIN calls |-> g[j]]
    BY <1>1
  <2> QED
    BY <1>2, <2>1, EachOf
<1>4. PICK t : t = [s EXCEPT !.turn.calls = g]
  OBVIOUS
<1>5. /\ Shapely(t) /\ t.log = s.log /\ t.book = s.book /\ t.stored = s.stored
      /\ t.out = s.out /\ t.turn.calls = g /\ t.turn.mark = s.turn.mark
  BY <1>2, <1>3, <1>4 DEF Shapely, KernelFields, TurnFields
<1>6. ASSUME NEW j \in DOMAIN calls
      PROVE  Steady(g[j], s.turn.mark, s.log, s.stored, Begun(s, R))
  <2>1. CASE j = i
    BY <1>1, <2>1
  <2>2. CASE j # i
    BY <1>1, <2>2 DEF Faithful
  <2> QED
    BY <2>1, <2>2
<1>7. Keeps(s, t, R) /\ Sound(t)
  BY <1>1, <1>3, <1>5, <1>6, CallsKeep
<1>8. WithCall(s, i, c) = t
  BY <1>1, <1>4 DEF WithCall
<1> QED
  BY <1>7, <1>8

\* A call is done, and the step with it when it was the last.
LEMMA DoneThenFaithful ==
  ASSUME NEW s, NEW R, Faithful(s, R), NEW i \in DOMAIN s.turn.calls,
         NEW call, NEW why, Honest(Begun(s, R), call, why), NEW cause, NEW by,
         NEW put, put = Put(SetState(s, i, "done"), cause, Result(call, why)),
         NEW t, t = IF Finished(put.turn.calls) THEN FinishStep(put, by) ELSE put
  PROVE  Keeps(s, t, R)
<1>1. Keeps(s, put, R)
  BY OneDoneFaithful
<1>2. PICK f : f = FinishStep(put, by)
  OBVIOUS
<1>3. Keeps(put, f, R)
  BY <1>1, <1>2, EndingFaithful DEF Keeps
<1>4. Keeps(s, f, R)
  BY <1>1, <1>3, KeepsThen
<1> QED
  BY <1>1, <1>2, <1>4

LEMMA ToolDoneFaithful ==
  ASSUME NEW s, NEW R, Faithful(s, R), Linked(s), NEW call, NEW stopped
  PROVE  Faithful(ToolDone(s, call, stopped), R)
<1>1. PICK states : states = {"running", "questioning", "answered", "stopping"}
  OBVIOUS
<1>2. CASE s.turn.intr.wake # 0
  BY <1>2, StoppedDoneFaithful DEF ToolDone, Keeps
<1>3. CASE s.turn.intr.wake = 0 /\ At(s, call, states) = {}
  BY <1>1, <1>3 DEF ToolDone
<1>4. CASE s.turn.intr.wake = 0 /\ At(s, call, states) # {}
  <2>1. PICK i : i = CHOOSE j \in At(s, call, states) : TRUE
    OBVIOUS
  <2>2. /\ i \in DOMAIN s.turn.calls /\ s.turn.stage = "tools"
        /\ s.turn.calls[i].id = call /\ s.turn.calls[i].state \in states
    BY <1>4, <2>1, Found
  <2>3. PICK why, cause : why = (IF stopped THEN "running" ELSE "done") /\ cause = s.turn.cause
    OBVIOUS
  <2>4. PICK put : put = Put(SetState(s, i, "done"), cause, Result(call, why))
    OBVIOUS
  <2>5. PICK t : t = IF Finished(put.turn.calls) THEN FinishStep(put, cause) ELSE put
    OBVIOUS
  <2>6. ToolDone(s, call, stopped) = Dispatch(t)
    BY <1>1, <1>4, <2>1, <2>3, <2>4, <2>5 DEF ToolDone
  <2>7. s.turn.calls[i].state # "done"
    BY <1>1, <2>2
  <2>8. Linked(t)
    BY <1>4, <2>2, <2>4, <2>5, <2>7, DoneThenDispatch
  <2>9. Honest(Begun(s, R), call, why)
    <3>1. PICK c : c = s.turn.calls[i]
      OBVIOUS
    <3>2. c.id \in Begun(s, R)
      BY <1>1, <2>2, <3>1, SteadyHonest DEF Executing
    <3> QED
      BY <2>2, <2>3, <3>1, <3>2 DEF Honest
  <2>10. Keeps(s, t, R)
    BY <2>2, <2>4, <2>5, <2>9, DoneThenFaithful
  <2> QED
    BY <2>6, <2>8, <2>10, DispatchFaithful DEF Keeps
<1> QED
  BY <1>2, <1>3, <1>4

\* The guard wants a person asked about a call.
AskedAbout(s, i, call, verdict) ==
  Put(StatedAsking(s, i, "asking", verdict = "askWrite"), s.turn.cause,
      About("approval.requested", call))

LEMMA AskedLinked ==
  ASSUME NEW s, Linked(s), NEW call, NEW verdict, verdict # "allow", ~Refuses(s, verdict),
         NEW i \in DOMAIN s.turn.calls, s.turn.stage = "tools",
         s.turn.calls[i].id = call, s.turn.calls[i].state = "guarding"
  PROVE  Linked(AskedAbout(s, i, call, verdict))
<1>1. PICK old, cause : old = s.turn.calls[i] /\ cause = s.turn.cause
  OBVIOUS
<1>2. DOMAIN old = CallFields /\ old.state = "guarding" /\ old.id = call
  BY <1>1, FoundInBook
<1>3. Rooted(s) /\ Shapely(s)
  BY RootedBook DEF Linked, InOrder, Rooted
<1>4. Rank(s.eff) = 0 => ~Writes(old)
  BY <1>1, <1>2 DEF Linked, Permits, NotRun
<1>5. PICK asks, state, kind : /\ asks = (verdict = "askWrite") /\ state = "asking"
                               /\ kind = "approval.requested"
  OBVIOUS
<1>6. PICK c : c = CallAsking(old, state, asks)
  OBVIOUS
<1>7. StatedAsking(s, i, state, asks) = WithCall(s, i, c)
  BY <1>1, <1>2, <1>3, <1>6, StateSetAsks
<1>8. /\ DOMAIN c = CallFields /\ c.id = call /\ c.access = old.access
      /\ c.state = "asking" /\ c.asksWrite = asks
  BY <1>2, <1>5, <1>6 DEF CallFields, CallAsking
<1>9. Rank(s.eff) = 0 => ~Writes(c)
  <2>1. Rank(s.eff) = 0 => verdict # "askWrite"
    BY DEF Refuses, ReadOnlyNow
  <2> QED
    BY <1>4, <1>5, <1>8, <2>1 DEF Writes
<1>10. Linked(Put(WithCall(s, i, c), cause, About(kind, c.id)))
  BY <1>1, <1>2, <1>5, <1>8, <1>9, MovesAndPuts
<1>11. AskedAbout(s, i, call, verdict) = Put(WithCall(s, i, c), cause, About(kind, call))
  BY <1>1, <1>5, <1>7 DEF AskedAbout
<1> QED
  BY <1>8, <1>10, <1>11

LEMMA AskedFaithful ==
  ASSUME NEW s, NEW R, Faithful(s, R), Linked(s), NEW call, NEW verdict,
         NEW i \in DOMAIN s.turn.calls,
         s.turn.calls[i].id = call, s.turn.calls[i].state = "guarding"
  PROVE  Keeps(s, AskedAbout(s, i, call, verdict), R)
<1>1. PICK old, cause : old = s.turn.calls[i] /\ cause = s.turn.cause
  OBVIOUS
<1>2. DOMAIN old = CallFields /\ old.state = "guarding" /\ old.id = call
  BY <1>1, FoundInBook
<1>3. Shapely(s) /\ AreCalls(s.turn.calls)
  BY RootedBook DEF Linked, InOrder, Matched
<1>5. PICK asks, state, kind : /\ asks = (verdict = "askWrite") /\ state = "asking"
                               /\ kind = "approval.requested"
  OBVIOUS
<1>6. PICK c : c = CallAsking(old, state, asks)
  OBVIOUS
<1>7. StatedAsking(s, i, state, asks) = WithCall(s, i, c)
  BY <1>1, <1>2, <1>3, <1>6, StateSetAsks
<1>8. DOMAIN c = CallFields /\ c.id = call /\ c.state = "asking"
  BY <1>2, <1>5, <1>6 DEF CallFields, CallAsking
<1>9. Steady(c, s.turn.mark, s.log, s.stored, Begun(s, R))
  <2>1. Steady(old, s.turn.mark, s.log, s.stored, Begun(s, R))
    BY <1>1 DEF Faithful
  <2> QED
    BY <1>2, <1>8, <2>1 DEF Steady, Executing
<1>10. PICK d : d = WithCall(s, i, c)
  OBVIOUS
<1>11. Keeps(s, d, R)
  BY <1>9, <1>10, SteadyCallFaithful
<1>12. /\ d.turn.calls = [s.turn.calls EXCEPT ![i] = c]
  BY <1>3, <1>10 DEF WithCall, Shapely, KernelFields, TurnFields
<1>13. i \in DOMAIN d.turn.calls /\ d.turn.calls[i] = c
  BY <1>12
<1>14. AreCalls(d.turn.calls)
  <2>1. PICK calls, g : calls = s.turn.calls /\ g = d.turn.calls
    OBVIOUS
  <2>2. g = [calls EXCEPT ![i] = c] /\ AreCalls(calls) /\ i \in DOMAIN calls
    BY <1>3, <1>12, <2>1
  <2>3. IsSeq(g) /\ DOMAIN g = DOMAIN calls
    <3>1. g = [j \in DOMAIN calls |-> g[j]] /\ DOMAIN g = DOMAIN calls
      BY <2>2
    <3> QED
      BY <2>2, <3>1, EachOf DEF AreCalls
  <2>4. \A j \in DOMAIN calls : g[j].id = calls[j].id /\ DOMAIN g[j] = CallFields
    BY <1>1, <1>2, <1>8, <2>1, <2>2 DEF AreCalls
  <2>5. AreCalls(g)
    BY <2>2, <2>3, <2>4 DEF AreCalls
  <2> QED
    BY <2>1, <2>5
<1>15. PICK t : t = Put(d, cause, About(kind, call))
  OBVIOUS
<1>16. Keeps(d, t, R)
  <2>1. kind \in ApprovalKinds
    BY <1>5 DEF ApprovalKinds
  <2> QED
    BY <1>8, <1>11, <1>13, <1>14, <1>15, <2>1, ApprovalNoteFaithful DEF Keeps
<1>17. AskedAbout(s, i, call, verdict) = t
  BY <1>1, <1>5, <1>7, <1>10, <1>15 DEF AskedAbout
<1> QED
  BY <1>11, <1>16, <1>17, KeepsThen

LEMMA ToolGuardedFaithful ==
  ASSUME NEW s, NEW R, Faithful(s, R), Linked(s), NEW call, NEW verdict
  PROVE  Faithful(ToolGuarded(s, call, verdict), R)
<1>1. CASE At(s, call, {"guarding"}) = {}
  BY <1>1 DEF ToolGuarded
<1>2. CASE At(s, call, {"guarding"}) # {}
  <2>1. PICK i : i = CHOOSE j \in At(s, call, {"guarding"}) : TRUE
    OBVIOUS
  <2>2. /\ i \in DOMAIN s.turn.calls /\ s.turn.stage = "tools"
        /\ s.turn.calls[i].id = call /\ s.turn.calls[i].state \in {"guarding"}
    BY <1>2, <2>1, Found
  <2>3. PICK old, cause : old = s.turn.calls[i] /\ cause = s.turn.cause
    OBVIOUS
  <2>4. old.state = "guarding" /\ old.id = call
    BY <2>2, <2>3
  <2>5. s.turn.intr.wake = 0
    BY <2>2, WaitingIsStill
  <2>6. CASE verdict = "allow"
    <3>1. PICK d : d = SetState(s, i, "running")
      OBVIOUS
    <3>2. ToolGuarded(s, call, verdict) = Do(d, {RunTool(s, old)})
      BY <1>2, <2>1, <2>3, <2>6, <3>1 DEF ToolGuarded
    <3>3. Faithful(Do(d, {RunTool(s, old)}), R)
      BY <2>2, <2>3, <2>4, <3>1, OneStartFaithful
    <3> QED
      BY <3>2, <3>3
  <2>7. CASE verdict # "allow" /\ Refuses(s, verdict)
    <3>1. PICK why : why = "denied"
      OBVIOUS
    <3>2. PICK put : put = Put(SetState(s, i, "done"), cause, Result(call, why))
      OBVIOUS
    <3>3. PICK t : t = IF Finished(put.turn.calls) THEN FinishStep(put, cause) ELSE put
      OBVIOUS
    <3>4. ToolGuarded(s, call, verdict) = Dispatch(t)
      BY <1>2, <2>1, <2>3, <2>7, <3>1, <3>2, <3>3 DEF ToolGuarded
    <3>5. s.turn.calls[i].state # "done"
      BY <2>2
    <3>6. Linked(t)
      BY <2>2, <2>5, <3>2, <3>3, <3>5, DoneThenDispatch
    <3>7. Honest(Begun(s, R), call, why)
      <4>1. old.id \notin Begun(s, R)
        BY <2>2, <2>3, <2>4, SteadyHonest DEF Executing
      <4> QED
        BY <2>4, <3>1, <4>1 DEF Honest
    <3>8. Keeps(s, t, R)
      BY <2>2, <3>2, <3>3, <3>7, DoneThenFaithful
    <3> QED
      BY <3>4, <3>6, <3>8, DispatchFaithful DEF Keeps
  <2>8. CASE verdict # "allow" /\ ~Refuses(s, verdict)
    <3>1. PICK t : t = AskedAbout(s, i, call, verdict)
      OBVIOUS
    <3>2. ToolGuarded(s, call, verdict) = Dispatch(t)
      BY <1>2, <2>1, <2>8, <3>1 DEF ToolGuarded, AskedAbout, About, StatedAsking
    <3>3. Linked(t) /\ Keeps(s, t, R)
      BY <2>2, <2>8, <3>1, AskedLinked, AskedFaithful
    <3> QED
      BY <3>2, <3>3, DispatchFaithful DEF Keeps
  <2> QED
    BY <2>6, <2>7, <2>8
<1> QED
  BY <1>1, <1>2

\* One event at most is recorded at a time.
LEMMA PutLength ==
  ASSUME NEW s, Sound(s), NEW cause, NEW body, NEW p, p = Put(s, cause, body), Sound(p)
  PROVE  Len(p.log) \in Nat /\ Len(p.log) <= s.book.next /\ s.book.next \in Nat
<1>1. PICK turn : turn = IF body.k = "turn.started" THEN s.book.next ELSE s.turn.id
  OBVIOUS
<1>2. PICK e : e = Event(s.book.next, turn, cause, body)
  OBVIOUS
<1>3. p = IF Legal(s.book, e) THEN [s EXCEPT !.log = Append(@, e), !.book = Record(@, e)]
                              ELSE [s EXCEPT !.refused = TRUE]
  BY <1>1, <1>2 DEF Put, Commit
<1>4. PICK l, m : l = s.log /\ m = p.log
  OBVIOUS
<1>5. m \in {l, Append(l, e)}
  BY <1>3, <1>4 DEF Sound, Shapely, KernelFields
<1>6. s.book.next = Len(l) + 1 /\ Len(l) \in Nat /\ IsSeq(l)
  BY <1>4, BookOfLog, LogLength DEF Sound, IsLog
<1>7. m = Append(l, e) => Len(m) = Len(l) + 1
  BY <1>6, AppendIsSeq
<1>8. Len(m) = Len(l) \/ Len(m) = Len(l) + 1
  BY <1>5, <1>7
<1> QED
  BY <1>4, <1>6, <1>8

\* What a person decides about a call is on record before it can be started; a
\* call that is denied is answered without having been.
LEMMA DecisionFaithful ==
  ASSUME NEW s, NEW R, Faithful(s, R), Linked(s), NEW id, NEW call, NEW allow,
         NEW i \in DOMAIN s.turn.calls,
         s.turn.calls[i].id = call, s.turn.calls[i].state = "asking"
  PROVE  Keeps(s, Decision(s, i, id, call, allow), R)
<1>1. PICK old, by, seq : old = s.turn.calls[i] /\ by = s.turn.cause /\ seq = s.book.next
  OBVIOUS
<1>2. DOMAIN old = CallFields /\ old.state = "asking" /\ old.id = call
  BY <1>1, FoundInBook
<1>3. Sound(s) /\ AreCalls(s.turn.calls)
  BY DEF Linked, InOrder, Matched, Faithful
<1>4. PICK kind, body : kind = "approval.decided" /\ body = About(kind, call)
  OBVIOUS
<1>5. PICK p : p = Put(s, id, body)
  OBVIOUS
<1>6. Keeps(s, p, R)
  <2>1. kind \in ApprovalKinds
    BY <1>4 DEF ApprovalKinds
  <2> QED
    BY <1>3, <1>4, <1>5, <2>1, ApprovalNoteFaithful
<1>7. p.turn = s.turn /\ Shapely(p) /\ Sound(p)
  <2>1. Fine(body)
    BY <1>4 DEF Fine, About
  <2> QED
    BY <1>3, <1>5, <2>1, PutKeepsTurn
<1>8. Faithful(p, R) /\ i \in DOMAIN p.turn.calls /\ p.turn.calls[i] = old
  BY <1>1, <1>6, <1>7 DEF Keeps
<1>9. p = Put(s, id, About("approval.decided", call))
  BY <1>4, <1>5
<1>10. call \notin Begun(p, R)
  BY <1>2, <1>8, SteadyHonest DEF Executing
<1>11. CASE allow
  <2>1. PICK state : state = "approved"
    OBVIOUS
  <2>2. PICK u : u = Stated(p, i, state, seq)
    OBVIOUS
  <2>3. PICK c : c = CallAt(old, state, seq)
    OBVIOUS
  <2>4. DOMAIN c = CallFields /\ c.id = call /\ c.state = "approved" /\ c.at = seq
    BY <1>2, <2>1, <2>3 DEF CallFields, CallAt
  <2>5. u = WithCall(p, i, c)
    BY <1>2, <1>7, <1>8, <2>2, <2>3, StateSetAt
  <2>6. Len(p.log) \in Nat /\ Len(p.log) <= seq /\ seq \in Nat
    BY <1>1, <1>3, <1>5, <1>7, PutLength
  <2>7. PICK l : l = p.log
    OBVIOUS
  <2>8. NotesUpTo(l, call, seq)
    <3>1. \A j \in 1..Len(l) : j <= seq
      BY <2>6, <2>7
    <3> QED
      BY <3>1 DEF NotesUpTo
  <2>9. call[1] \in 1..p.stored
    <3>1. Steady(old, p.turn.mark, p.log, p.stored, Begun(p, R))
      BY <1>8 DEF Faithful
    <3> QED
      BY <1>2, <3>1 DEF Steady
  <2>10. Steady(c, p.turn.mark, p.log, p.stored, Begun(p, R))
    <3>1. PICK mark, n, B : mark = p.turn.mark /\ n = p.stored /\ B = Begun(p, R)
      OBVIOUS
    <3>2. NotesUpTo(l, c.id, c.at) /\ c.at \in Nat
      BY <2>4, <2>6, <2>8
    <3>3. c.id[1] \in 1..n /\ c.id \notin B
      BY <1>10, <2>4, <2>9, <3>1
    <3>4. Steady(c, mark, l, n, B)
      BY <2>4, <3>2, <3>3 DEF Steady, Executing
    <3> QED
      BY <2>7, <3>1, <3>4
  <2>11. Keeps(p, u, R)
    BY <1>8, <2>5, <2>10, SteadyCallFaithful
  <2>12. Decision(s, i, id, call, allow) = u
    BY <1>1, <1>9, <1>11, <2>1, <2>2 DEF Decision
  <2> QED
    BY <1>6, <2>11, <2>12, KeepsThen
<1>12. CASE ~allow
  <2>1. PICK why : why = "denied"
    OBVIOUS
  <2>2. PICK put : put = Put(SetState(p, i, "done"), id, Result(call, why))
    OBVIOUS
  <2>3. PICK u : u = IF Finished(put.turn.calls) THEN FinishStep(put, by) ELSE put
    OBVIOUS
  <2>4. Decision(s, i, id, call, allow) = u
    BY <1>1, <1>9, <1>12, <2>1, <2>2, <2>3 DEF Decision
  <2>5. Honest(Begun(p, R), call, why)
    BY <1>10, <2>1 DEF Honest
  <2>6. Keeps(p, u, R)
    BY <1>8, <2>2, <2>3, <2>5, DoneThenFaithful
  <2> QED
    BY <1>6, <2>4, <2>6, KeepsThen
<1> QED
  BY <1>11, <1>12

LEMMA AnswerApprovalFaithful ==
  ASSUME NEW s, NEW R, Faithful(s, R), Linked(s), NEW id, NEW call, NEW allow
  PROVE  Faithful(AnswerApproval(s, id, call, allow), R)
<1>1. CASE At(s, call, {"asking"}) = {}
  <2>1. AnswerApproval(s, id, call, allow) = Reject(s, id)
    BY <1>1 DEF AnswerApproval
  <2>2. PICK events : events = << >>
    OBVIOUS
  <2>3. Keeps(s, Reject(s, id), R)
    BY <2>2, AnswersFaithful
  <2> QED
    BY <2>1, <2>3 DEF Keeps
<1>2. CASE At(s, call, {"asking"}) # {}
  <2>1. PICK i : i = CHOOSE j \in At(s, call, {"asking"}) : TRUE
    OBVIOUS
  <2>2. /\ i \in DOMAIN s.turn.calls /\ s.turn.stage = "tools"
        /\ s.turn.calls[i].id = call /\ s.turn.calls[i].state \in {"asking"}
    BY <1>2, <2>1, Found
  <2>3. PICK u : u = Decision(s, i, id, call, allow)
    OBVIOUS
  <2>4. Linked(u) /\ Keeps(s, u, R)
    BY <2>2, <2>3, DecisionLinked, DecisionFaithful
  <2>5. PICK events : events = Since(s, u)
    OBVIOUS
  <2>6. PICK t : t = Accept(u, id, events)
    OBVIOUS
  <2>7. Linked(t) /\ Keeps(s, t, R)
    BY <2>4, <2>6, AcceptLinked, ThenAccept
  <2>8. AnswerApproval(s, id, call, allow) = Dispatch(t)
    BY <1>2, <2>1, <2>3, <2>5, <2>6, AnswerApprovalIs
  <2> QED
    BY <2>7, <2>8, DispatchFaithful DEF Keeps
<1> QED
  BY <1>1, <1>2

LEMMA AnswerQuestionFaithful ==
  ASSUME NEW s, NEW R, Faithful(s, R), Linked(s), NEW id, NEW call
  PROVE  Faithful(AnswerQuestion(s, id, call), R)
<1>1. CASE At(s, call, {"questioning"}) = {}
  <2>1. AnswerQuestion(s, id, call) = Reject(s, id)
    BY <1>1 DEF AnswerQuestion
  <2>2. PICK events : events = << >>
    OBVIOUS
  <2>3. Keeps(s, Reject(s, id), R)
    BY <2>2, AnswersFaithful
  <2> QED
    BY <2>1, <2>3 DEF Keeps
<1>2. CASE At(s, call, {"questioning"}) # {}
  <2>1. PICK i : i = CHOOSE j \in At(s, call, {"questioning"}) : TRUE
    OBVIOUS
  <2>2. /\ i \in DOMAIN s.turn.calls /\ s.turn.stage = "tools"
        /\ s.turn.calls[i].id = call /\ s.turn.calls[i].state \in {"questioning"}
    BY <1>2, <2>1, Found
  <2>3. PICK old, seq : old = s.turn.calls[i] /\ seq = s.book.next
    OBVIOUS
  <2>4. DOMAIN old = CallFields /\ old.state = "questioning" /\ old.id = call
    BY <2>2, <2>3, FoundInBook
  <2>5. PICK state, kind : state = "answered" /\ kind = "question.answered"
    OBVIOUS
  <2>6. PICK body, p : body = About(kind, call) /\ p = Put(s, id, body)
    OBVIOUS
  <2>7. Fine(body) /\ body.k \notin OfACall
    BY <2>5, <2>6 DEF Fine, About, OfACall
  <2>8. Sound(s)
    BY DEF Faithful
  <2>9. p.turn = s.turn /\ Shapely(p)
    BY <2>6, <2>7, <2>8, PutKeepsTurn
  <2>10. Keeps(s, p, R)
    BY <2>6, <2>7, NoteFaithful
  <2>11. i \in DOMAIN p.turn.calls /\ p.turn.calls[i] = old
    BY <2>2, <2>3, <2>9
  <2>12. PICK c : c = CallAt(old, state, seq)
    OBVIOUS
  <2>13. DOMAIN c = CallFields /\ c.id = call /\ c.state = "answered"
    BY <2>4, <2>5, <2>12 DEF CallFields, CallAt
  <2>14. PICK u : u = Stated(p, i, state, seq)
    OBVIOUS
  <2>15. u = WithCall(p, i, c)
    BY <2>4, <2>9, <2>11, <2>12, <2>14, StateSetAt
  <2>16. Keeps(p, u, R)
    <3>1. Follows(old, c)
      BY <2>4, <2>13 DEF Follows, Executing
    <3> QED
      BY <2>10, <2>11, <2>15, <3>1, WithCallFaithful DEF Keeps
  <2>17. Keeps(s, u, R)
    BY <2>10, <2>16, KeepsThen
  <2>18. PICK events : events = <<seq>>
    OBVIOUS
  <2>19. AnswerQuestion(s, id, call) = Accept(u, id, events)
    BY <1>2, <2>1, <2>3, <2>5, <2>6, <2>14, <2>18 DEF AnswerQuestion, Stated, About
  <2>20. Keeps(s, Accept(u, id, events), R)
    BY <2>17, ThenAccept
  <2> QED
    BY <2>19, <2>20 DEF Keeps
<1> QED
  BY <1>1, <1>2

LEMMA ToolAsksFaithful ==
  ASSUME NEW s, NEW R, Faithful(s, R), Linked(s), NEW call
  PROVE  Faithful(ToolAsks(s, call), R)
<1>1. CASE At(s, call, {"running"}) = {}
  BY <1>1 DEF ToolAsks
<1>2. CASE At(s, call, {"running"}) # {}
  <2>1. PICK i : i = CHOOSE j \in At(s, call, {"running"}) : TRUE
    OBVIOUS
  <2>2. /\ i \in DOMAIN s.turn.calls /\ s.turn.stage = "tools"
        /\ s.turn.calls[i].id = call /\ s.turn.calls[i].state \in {"running"}
    BY <1>2, <2>1, Found
  <2>3. PICK old, cause : old = s.turn.calls[i] /\ cause = s.turn.cause
    OBVIOUS
  <2>4. old.state = "running" /\ old.id = call
    BY <2>2, <2>3
  <2>5. s.turn.intr.wake = 0
    BY <2>2, WaitingIsStill
  <2>6. CASE s.policy.attended
    <3>1. PICK d : d = SetState(s, i, "questioning")
      OBVIOUS
    <3>2. Keeps(s, d, R)
      BY <2>2, <2>3, <2>4, <3>1, StateSetFaithful DEF Executing
    <3>3. PICK kind, body : kind = "question.asked" /\ body = About(kind, call)
      OBVIOUS
    <3>4. Fine(body) /\ body.k \notin OfACall
      BY <3>3 DEF Fine, About, OfACall
    <3>5. Keeps(d, Put(d, cause, body), R)
      BY <3>2, <3>4, NoteFaithful DEF Keeps
    <3>6. ToolAsks(s, call) = Put(d, cause, body)
      BY <1>2, <2>1, <2>3, <2>6, <3>1, <3>3 DEF ToolAsks, About
    <3> QED
      BY <3>5, <3>6 DEF Keeps
  <2>7. CASE ~s.policy.attended
    <3>1. PICK why : why = "unanswered"
      OBVIOUS
    <3>2. PICK put : put = Put(SetState(s, i, "done"), cause, Result(call, why))
      OBVIOUS
    <3>3. PICK t : t = IF Finished(put.turn.calls) THEN FinishStep(put, cause) ELSE put
      OBVIOUS
    <3>4. PICK actions : actions = {[a |-> "CancelTool", call |-> call]}
      OBVIOUS
    <3>5. ToolAsks(s, call) = Dispatch(Do(t, actions))
      BY <1>2, <2>1, <2>3, <2>7, <3>1, <3>2, <3>3, <3>4 DEF ToolAsks
    <3>6. s.turn.calls[i].state # "done"
      BY <2>2
    <3>7. Linked(t)
      BY <2>2, <2>5, <3>2, <3>3, <3>6, DoneThenDispatch
    <3>8. \A a \in actions : a.a # "RunTool"
      BY <3>4
    <3>9. PICK u : u = Do(t, actions)
      OBVIOUS
    <3>10. Linked(u)
      BY <3>7, <3>8, <3>9, DoLinked
    <3>11. Honest(Begun(s, R), call, why)
      <4>1. old.id \in Begun(s, R)
        BY <2>2, <2>3, <2>4, SteadyHonest DEF Executing
      <4> QED
        BY <2>4, <3>1, <4>1 DEF Honest
    <3>12. Keeps(s, t, R)
      BY <2>2, <3>2, <3>3, <3>11, DoneThenFaithful
    <3>13. Runs(actions) = {}
      BY <3>8 DEF Runs
    <3>14. Faithful(u, R)
      BY <3>9, <3>12, <3>13, DoFaithful DEF Keeps
    <3> QED
      BY <3>5, <3>9, <3>10, <3>14, DispatchFaithful
  <2> QED
    BY <2>6, <2>7
<1> QED
  BY <1>1, <1>2

----------------------------------------------------------------------------
(***************************************************************************)
(* The calls of a reply.                                                   *)
(***************************************************************************)
\* Calls of a reply nobody has decided about, and none of them started.
Untouched(s, R, calls, reply) ==
  /\ reply \in Nat
  /\ \A i \in DOMAIN calls : /\ calls[i].id[1] \in 1..reply
                             /\ calls[i].id \notin Begun(s, R)
                             /\ NotesUpTo(s.log, calls[i].id, 0)

LEMMA SettledUntouched ==
  ASSUME NEW s, NEW R, Faithful(s, R), Clean(s.log), NEW seen, NEW cause, NEW ending,
         IsSeq(ending.calls), NEW cut, NEW r, r = Settle(s, seen, cause, ending, cut)
  PROVE  Keeps(s, r.s, R) /\ Untouched(r.s, R, r.calls, r.reply)
<1>1. Sound(s)
  BY DEF Faithful
<1>2. PICK B, l : B = Begun(s, R) /\ l = s.log
  OBVIOUS
<1>3. /\ Tame(s, r.s, B) /\ Sound(r.s) /\ FreshCalls(s, r.calls)
      /\ r.reply \in {0, s.book.next} /\ RepliedIfCalls(s, r)
  BY <1>1, SettleTame
<1>4. Keeps(s, r.s, R)
  BY <1>2, <1>3, KeepsTame
<1>5. \A i \in DOMAIN r.calls : r.calls[i].id \notin Begun(s, R)
  BY <1>3, FreshCallsNotBegun
<1>6. PICK n : n = s.book.next
  OBVIOUS
<1>7. n = Len(l) + 1 /\ Len(l) \in Nat
  BY <1>1, <1>2, <1>6, BookOfLog, LogLength DEF Sound
<1>8. Accounts(l, Len(l), BookOf(l))
  BY <1>1, <1>2, CleanAccounts DEF Sound
<1>9. PICK m : m = r.s.log
  OBVIOUS
<1>10. Modestly(l, m, B) /\ Len(m) \in Nat
  BY <1>2, <1>3, <1>9, LogLength DEF Tame
<1>11. ASSUME NEW i \in DOMAIN r.calls
       PROVE  /\ r.calls[i].id[1] \in 1..r.reply
              /\ r.calls[i].id \notin Begun(r.s, R)
              /\ NotesUpTo(m, r.calls[i].id, 0)
  <2>1. PICK x : x = r.calls[i].id
    OBVIOUS
  <2>2. x = <<n, i>>
    BY <1>3, <1>6, <2>1 DEF FreshCalls
  <2>3. r.reply = n
    BY <1>3, <1>6, EmptyIsSeq DEF RepliedIfCalls
  <2>4. x[1] \in 1..r.reply
    BY <1>7, <2>2, <2>3
  <2>5. x \notin Begun(r.s, R)
    BY <1>4, <1>5, <2>1 DEF Keeps
  <2>6. NotesUpTo(l, x, 0)
    <3>1. ASSUME NEW j \in 1..Len(l), l[j].k \in ApprovalKinds, l[j].call = x
          PROVE  FALSE
      <4>1. l[j].k \in OfACall
        BY <3>1 DEF ApprovalKinds, OfACall
      <4>2. x[1] \in 1..(j - 1)
        BY <1>8, <3>1, <4>1 DEF Accounts
      <4>3. x[1] = Len(l) + 1
        BY <1>7, <2>2
      <4> QED
        BY <1>7, <4>2, <4>3
    <3> QED
      BY <3>1 DEF NotesUpTo
  <2>7. NotesUpTo(m, x, 0)
    <3>1. PICK z : z = 0
      OBVIOUS
    <3>2. NotesUpTo(l, x, z)
      BY <2>6, <3>1
    <3>3. NotesUpTo(m, x, z)
      BY <1>7, <1>10, <3>2, NotesKept
    <3> QED
      BY <3>1, <3>3
  <2> QED
    BY <2>1, <2>4, <2>5, <2>7
<1>12. r.reply \in Nat
  BY <1>3, <1>6, <1>7
<1> QED
  BY <1>4, <1>9, <1>11, <1>12 DEF Untouched

LEMMA StartToolsFaithful ==
  ASSUME NEW s, NEW R, Faithful(s, R), NEW calls, Fresh(calls), NEW reply,
         Untouched(s, R, calls, reply), NEW cause
  PROVE  Faithful(StartTools(s, reply, calls, cause), R)
<1> DEFINE skipping == s.turn.interjected # None
           why(c) == IF skipping THEN "skipped"
                     ELSE IF c.access = "bad" THEN "unknown" ELSE "denied"
           blockedNow == {i \in DOMAIN calls :
                            skipping \/ calls[i].access = "bad"
                              \/ (calls[i].access = "write" /\ ReadOnlyNow(s))}
           hNow == [i \in DOMAIN calls |-> Result(calls[i].id, why(calls[i]))]
           wNow == [i \in DOMAIN calls |-> why(calls[i])]
           byNow == IF skipping THEN s.turn.interjected ELSE cause
<1>1. PICK blocked, h, by, w : blocked = blockedNow /\ h = hNow /\ by = byNow /\ w = wNow
  OBVIOUS
<1>2. PICK pending : pending = Picked(calls, DOMAIN calls \ blocked)
  OBVIOUS
<1>3. PICK list : list = Picked(h, blocked)
  OBVIOUS
<1>4. PICK put : put = PutEach(s, by, list)
  OBVIOUS
<1>5. PICK step : step = [put EXCEPT !.turn.stage = "tools", !.turn.mark = reply,
                                     !.turn.calls = pending]
  OBVIOUS
<1>6. StartTools(s, reply, calls, cause) =
        IF pending = << >> THEN FinishStep(step, cause) ELSE step
  BY <1>1, <1>2, <1>3, <1>4, <1>5 DEF StartTools
<1>7. blocked \in SUBSET (DOMAIN calls)
  BY <1>1
<1>8. /\ h = [i \in DOMAIN calls |-> Result(calls[i].id, w[i])]
      /\ \A i \in DOMAIN calls : w[i] \in {"skipped", "unknown", "denied"}
  BY <1>1
<1> HIDE DEF skipping, why, blockedNow, hNow, wNow, byNow
<1>9. AreCalls(calls) /\ \A i \in DOMAIN calls : calls[i].state = "waiting"
  BY DEF Fresh
<1>10. PICK B : B = Begun(s, R)
  OBVIOUS
<1>11. \A i \in blocked : Honest(B, calls[i].id, w[i])
  BY <1>7, <1>8, <1>10 DEF Honest, Untouched
<1>12. list = Picked([i \in DOMAIN calls |-> Result(calls[i].id, w[i])], blocked)
  BY <1>3, <1>8
<1>13. Notes(B, list)
  BY <1>7, <1>9, <1>11, <1>12, ResultsAreNoteworthy DEF AreCalls
<1>14. Keeps(s, put, R)
  BY <1>4, <1>10, <1>13, PutEachFaithful
<1>15. Sound(s)
  BY DEF Faithful
<1>16. Noted(s, put, B)
  BY <1>4, <1>13, <1>15, PutEachNoted
<1>17. AreCalls(pending) /\ \A j \in DOMAIN pending : \E i \in DOMAIN calls : pending[j] = calls[i]
  <2>1. PICK rest : rest = DOMAIN calls \ blocked
    OBVIOUS
  <2>2. rest \in SUBSET (DOMAIN calls) /\ pending = Picked(calls, rest)
    BY <1>2, <2>1
  <2>3. LET p == Picked(calls, rest) IN
        /\ AreCalls(p)
        /\ IdsAt(p, DOMAIN p) = IdsAt(calls, rest)
        /\ \A j \in DOMAIN p : \E i \in rest : p[j] = calls[i]
        /\ p = << >> <=> rest = {}
    BY <1>9, <2>2, PickedCalls
  <2> QED
    BY <2>2, <2>3
<1>18. Sound(put) /\ Shapely(put)
  BY <1>16 DEF Noted, Sound
<1>19. /\ Shapely(step) /\ step.log = put.log /\ step.book = put.book
       /\ step.stored = put.stored /\ step.out = put.out
       /\ step.turn.mark = reply /\ step.turn.calls = pending
  BY <1>5, <1>17, <1>18 DEF AreCalls, Shapely, KernelFields, TurnFields
<1>20. ASSUME NEW j \in DOMAIN pending
       PROVE  Steady(pending[j], reply, put.log, put.stored, Begun(put, R))
  <2>1. PICK i \in DOMAIN calls : pending[j] = calls[i]
    BY <1>17, <1>20
  <2>2. PICK c, l, m, n : c = calls[i] /\ l = s.log /\ m = put.log /\ n = put.stored
    OBVIOUS
  <2>3. /\ reply \in Nat /\ c.id[1] \in 1..reply /\ c.id \notin B /\ NotesUpTo(l, c.id, 0)
        /\ c.state = "waiting" /\ DOMAIN c = CallFields
    BY <1>9, <1>10, <2>2 DEF Untouched, AreCalls
  <2>4. NotesUpTo(m, c.id, 0)
    <3>1. Modestly(l, m, B) /\ Len(l) \in Nat /\ Len(m) \in Nat
      BY <1>15, <1>16, <1>18, <2>2, LogLength DEF Noted
    <3>2. PICK z, x : z = 0 /\ x = c.id
      OBVIOUS
    <3>3. NotesUpTo(l, x, z)
      BY <2>3, <3>2
    <3>4. NotesUpTo(m, x, z)
      BY <3>1, <3>3, NotesKept
    <3> QED
      BY <3>2, <3>4
  <2>5. Steady(c, reply, m, n, B)
    BY <2>3, <2>4 DEF Steady, Executing
  <2>6. Begun(put, R) = B
    BY <1>10, <1>14 DEF Keeps
  <2> QED
    BY <2>1, <2>2, <2>5, <2>6
<1>21. Keeps(put, step, R)
  BY <1>14, <1>19, <1>20, CallsKeep DEF Keeps
<1>22. Keeps(s, step, R)
  BY <1>14, <1>21, KeepsThen
<1>23. Keeps(step, FinishStep(step, cause), R)
  BY <1>22, EndingFaithful DEF Keeps
<1> QED
  BY <1>6, <1>22, <1>23 DEF Keeps

LEMMA ModelEndedFaithful ==
  ASSUME NEW s, NEW R, Faithful(s, R), Linked(s), NEW seen, NEW ending, IsSeq(ending.calls)
  PROVE  Faithful(ModelEnded(s, seen, ending), R)
<1>1. CASE s.turn.stage # "asking" \/ s.turn.mark # seen
  BY <1>1 DEF ModelEnded
<1>2. CASE s.turn.stage = "asking" /\ s.turn.mark = seen
  <2>1. PICK cause : cause = s.turn.cause
    OBVIOUS
  <2>2. PICK taken : taken = [s EXCEPT !.turn.stage = "settling", !.turn.mark = 0]
    OBVIOUS
  <2>3. PICK settled : settled = Settle(taken, seen, cause, ending, FALSE)
    OBVIOUS
  <2>4. PICK calm : calm = [settled.s EXCEPT !.turn.retries = 0]
    OBVIOUS
  <2>5. /\ Rooted(s) /\ s.turn.id # 0 /\ s.turn.calls = << >> /\ s.turn.intr.wake = 0
        /\ s.book.pending = {}
        /\ seen \in s.book.lastReply..Len(s.log)
        /\ \A i \in 1..Len(s.turn.queued) : s.turn.queued[i].seq > seen
    BY <1>2, AskingFacts
  <2>6. OnlyStage(s, taken) /\ taken.turn.stage = "settling" /\ taken.turn.calls = << >>
    <3>1. taken = MovedTo(s, "settling", 0)
      BY <2>2 DEF MovedTo
    <3> QED
      BY <2>5, <3>1, StageChanges
  <2>7. Rooted(taken) /\ SettledBy(taken, settled)
    <3>1. /\ taken.turn.id # 0 /\ taken.book.pending = {}
          /\ seen \in taken.book.lastReply..Len(taken.log)
          /\ \A i \in 1..Len(taken.turn.queued) : taken.turn.queued[i].seq > seen
          /\ Rooted(taken)
      BY <2>5, <2>6 DEF OnlyStage
    <3>2. LET r == Settle(taken, seen, cause, ending, FALSE) IN
          /\ SettledBy(taken, r)
          /\ ~FALSE /\ r.error # "none" => r.calls = << >>
      BY <3>1, SettleSettles
    <3> QED
      BY <2>3, <3>1, <3>2
  <2>8. PICK u : u = settled.s
    OBVIOUS
  <2>9. u.turn = taken.turn /\ Fresh(settled.calls) /\ u.turn.calls = << >>
    BY <2>6, <2>7, <2>8 DEF SettledBy, Beside
  <2>10. Keeps(s, taken, R)
    <3>1. /\ Shapely(taken) /\ taken.log = s.log /\ taken.book = s.book
          /\ taken.stored = s.stored /\ taken.out = s.out
      BY <2>2 DEF Faithful, Sound, Shapely, KernelFields, TurnFields
    <3> QED
      BY <2>6, <3>1, AsideFaithful
  <2>11. Keeps(taken, u, R) /\ Untouched(u, R, settled.calls, settled.reply)
    <3>1. Clean(taken.log) /\ Faithful(taken, R)
      BY <2>7, <2>10 DEF Rooted, Whole, Keeps
    <3>2. PICK cut : cut = FALSE
      OBVIOUS
    <3>3. settled = Settle(taken, seen, cause, ending, cut)
      BY <2>3, <3>2
    <3> QED
      BY <2>8, <3>1, <3>3, SettledUntouched
  <2>12. Faithful(u, R)
    BY <2>11 DEF Keeps
  <2>13. /\ Shapely(calm) /\ calm.log = u.log /\ calm.book = u.book
         /\ calm.stored = u.stored /\ calm.out = u.out
         /\ calm.turn.calls = << >>
    BY <2>4, <2>8, <2>9, <2>12 DEF Faithful, Sound, Shapely, KernelFields, TurnFields
  <2>14. Keeps(u, calm, R)
    BY <2>12, <2>13, AsideFaithful
  <2>15. ModelEnded(s, seen, ending) =
           IF settled.error = "retry" /\ s.turn.retries < RetryLimit
             THEN WaitToRetry(u, seen, cause, settled.reply # 0)
           ELSE IF settled.error # "none"
             THEN FinishTurn(u, cause, "error")
           ELSE IF settled.calls # << >>
             THEN StartTools(calm, settled.reply, settled.calls, cause)
           ELSE FinishTurn(calm, cause, "completed")
    BY <1>2, <2>1, <2>2, <2>3, <2>4, <2>8 DEF ModelEnded
  <2>16. Faithful(WaitToRetry(u, seen, cause, settled.reply # 0), R)
    <3>1. PICK c : c = (settled.reply # 0)
      OBVIOUS
    <3>2. Keeps(u, WaitToRetry(u, seen, cause, c), R)
      BY <2>9, <2>12, WaitToRetryFaithful
    <3> QED
      BY <3>1, <3>2 DEF Keeps
  <2>17. Faithful(FinishTurn(u, cause, "error"), R)
    <3>1. PICK reason : reason = "error"
      OBVIOUS
    <3>2. Keeps(u, FinishTurn(u, cause, reason), R)
      BY <2>12, FinishTurnFaithful
    <3> QED
      BY <3>1, <3>2 DEF Keeps
  <2>18. Faithful(FinishTurn(calm, cause, "completed"), R)
    <3>1. PICK reason : reason = "completed"
      OBVIOUS
    <3>2. Keeps(calm, FinishTurn(calm, cause, reason), R)
      BY <2>14, FinishTurnFaithful DEF Keeps
    <3> QED
      BY <3>1, <3>2 DEF Keeps
  <2>19. Faithful(StartTools(calm, settled.reply, settled.calls, cause), R)
    <3>1. PICK reply, calls : reply = settled.reply /\ calls = settled.calls
      OBVIOUS
    <3>2. Begun(calm, R) = Begun(u, R) /\ calm.log = u.log
      BY <2>13, <2>14 DEF Keeps
    <3>3. Untouched(calm, R, calls, reply)
      BY <2>11, <3>1, <3>2 DEF Untouched
    <3>4. Faithful(StartTools(calm, reply, calls, cause), R)
      BY <2>9, <2>14, <3>1, <3>3, StartToolsFaithful DEF Keeps
    <3> QED
      BY <3>1, <3>4
  <2> QED
    BY <2>15, <2>16, <2>17, <2>18, <2>19
<1> QED
  BY <1>1, <1>2

----------------------------------------------------------------------------
(***************************************************************************)
(* The turn goes on.                                                       *)
(***************************************************************************)
\* Between the steps no call is kept, and the stage may change.
LEMMA BetweenStepsFaithful ==
  ASSUME NEW s, NEW R, Faithful(s, R), s.turn.calls = << >>, NEW stage, NEW mark,
         NEW t, t = [s EXCEPT !.turn.stage = stage, !.turn.mark = mark]
  PROVE  Keeps(s, t, R)
<1>1. /\ Shapely(t) /\ t.log = s.log /\ t.book = s.book /\ t.stored = s.stored
      /\ t.out = s.out /\ t.turn.calls = << >>
  BY DEF Faithful, Sound, Shapely, KernelFields, TurnFields
<1> QED
  BY <1>1, AsideFaithful

LEMMA AskFaithful ==
  ASSUME NEW s, NEW R, Faithful(s, R), s.turn.calls = << >>
  PROVE  Keeps(s, Ask(s), R)
<1>1. PICK t : t = [s EXCEPT !.turn.requests = IF s.turn.retrying THEN @ ELSE @ + 1,
               !.turn.retrying = FALSE,
               !.turn.interjected = None,
               !.turn.queued = << >>,
               !.turn.stage = "asking",
               !.turn.mark = s.stored]
  OBVIOUS
<1>2. PICK actions : actions = {[a |-> "CallModel", seen |-> s.stored]}
  OBVIOUS
<1>3. Ask(s) = Do(t, actions)
  BY <1>1, <1>2 DEF Ask
<1>4. /\ Shapely(t) /\ t.log = s.log /\ t.book = s.book /\ t.stored = s.stored
      /\ t.out = s.out /\ t.turn.calls = << >>
  BY <1>1 DEF Faithful, Sound, Shapely, KernelFields, TurnFields
<1>5. Keeps(s, t, R)
  BY <1>4, AsideFaithful
<1>6. Runs(actions) = {}
  BY <1>2 DEF Runs
<1>7. Keeps(t, Do(t, actions), R)
  BY <1>5, <1>6, DoFaithful DEF Keeps
<1> QED
  BY <1>3, <1>5, <1>7, KeepsThen

LEMMA AdvanceFaithful ==
  ASSUME NEW s, NEW R, Faithful(s, R), Linked(s)
  PROVE  Faithful(Advance(s), R)
<1>1. PICK d : d = Dispatch(s)
  OBVIOUS
<1>2. Faithful(d, R)
  BY <1>1, DispatchFaithful
<1>3. CASE d.out # s.out
  BY <1>1, <1>2, <1>3 DEF Advance
<1>4. CASE d.out = s.out /\ s.turn.stage = "opening" /\ s.stored >= s.turn.mark
  <2>1. PICK stage : stage = "hooking"
    OBVIOUS
  <2>2. PICK t, actions : /\ t = [s EXCEPT !.turn.stage = stage]
                          /\ actions = {[a |-> "RunTurnStartHooks", turn |-> s.turn.id]}
    OBVIOUS
  <2>3. Advance(s) = Do(t, actions)
    BY <1>1, <1>4, <2>1, <2>2 DEF Advance
  <2>4. /\ Shapely(t) /\ t.log = s.log /\ t.book = s.book /\ t.stored = s.stored
        /\ t.out = s.out /\ t.turn.calls = s.turn.calls /\ t.turn.mark = s.turn.mark
    BY <2>2 DEF Faithful, Sound, Shapely, KernelFields, TurnFields
  <2>5. Keeps(s, t, R)
    BY <2>4, AsideFaithful
  <2>6. Runs(actions) = {}
    BY <2>2 DEF Runs
  <2>7. Keeps(t, Do(t, actions), R)
    BY <2>5, <2>6, DoFaithful DEF Keeps
  <2> QED
    BY <2>3, <2>7 DEF Keeps
<1>5. CASE /\ d.out = s.out /\ ~(s.turn.stage = "opening" /\ s.stored >= s.turn.mark)
           /\ s.turn.stage = "ready" /\ s.stored = Len(s.log)
  <2>1. Advance(s) = Ask(s)
    BY <1>1, <1>5 DEF Advance
  <2>2. s.turn.calls = << >>
    BY <1>5 DEF Linked, InOrder, Staged
  <2> QED
    BY <2>1, <2>2, AskFaithful DEF Keeps
<1>6. CASE /\ d.out = s.out /\ ~(s.turn.stage = "opening" /\ s.stored >= s.turn.mark)
           /\ ~(s.turn.stage = "ready" /\ s.stored = Len(s.log))
  BY <1>1, <1>6 DEF Advance
<1> QED
  BY <1>3, <1>4, <1>5, <1>6

\* What the start of a turn waits for: its facts, and what a hook adds.
LEMMA ReadyFaithful ==
  ASSUME NEW s, NEW R, Faithful(s, R), Linked(s), s.turn.stage \in {"hooking", "waiting"},
         NEW ready, ready = [s EXCEPT !.turn.stage = "ready", !.turn.mark = 0]
  PROVE  Keeps(s, ready, R)
<1>1. s.turn.calls = << >>
  BY DEF Linked, InOrder, Staged
<1>2. PICK stage, mark : stage = "ready" /\ mark = 0
  OBVIOUS
<1>3. ready = [s EXCEPT !.turn.stage = stage, !.turn.mark = mark]
  BY <1>2
<1> QED
  BY <1>1, <1>3, BetweenStepsFaithful

LEMMA TurnStartHookedFaithful ==
  ASSUME NEW s, NEW R, Faithful(s, R), Linked(s), NEW turn, NEW injected
  PROVE  Faithful(TurnStartHooked(s, turn, injected), R)
<1>1. CASE s.turn.id # turn \/ s.turn.stage # "hooking"
  BY <1>1 DEF TurnStartHooked
<1>2. CASE s.turn.id = turn /\ s.turn.stage = "hooking"
  <2>1. PICK ready : ready = [s EXCEPT !.turn.stage = "ready", !.turn.mark = 0]
    OBVIOUS
  <2>2. PICK body : body = [k |-> "context.injected", fact |-> "hook"]
    OBVIOUS
  <2>3. PICK cause : cause = s.turn.cause
    OBVIOUS
  <2>4. PICK put : put = IF injected THEN Put(ready, cause, body) ELSE ready
    OBVIOUS
  <2>5. TurnStartHooked(s, turn, injected) = Advance(RefreshFacts(put))
    BY <1>2, <2>1, <2>2, <2>3, <2>4 DEF TurnStartHooked
  <2>6. Calm(s) /\ s.turn.id # 0
    BY <1>2, RestingIsCalm DEF Linked, InOrder, Staged
  <2>7. Calm(ready) /\ ready.turn.id # 0
    <3>1. /\ OnlyStage(s, ready) /\ ready.turn.stage = "ready"
          /\ ready.turn.calls = s.turn.calls
      <4>1. Rooted(s)
        BY <2>6 DEF Calm
      <4>2. ready = MovedTo(s, "ready", 0)
        BY <2>1 DEF MovedTo
      <4> QED
        BY <4>1, <4>2, StageChanges
    <3> QED
      BY <2>1, <2>6, <3>1 DEF OnlyStage, Calm
  <2>8. Fine(body) /\ body.k = "context.injected"
    BY <2>2 DEF Fine
  <2>9. Calm(put)
    <3>1. CASE injected
      <4>2. Puts(ready, put) /\ AsOpen(ready.book, put.book)
            /\ put.book.queued = ready.book.queued
        BY <2>4, <2>7, <2>8, <3>1, PutAside DEF Calm, Rooted
      <4>3. Rooted(put)
        BY <2>7, <4>2, PutsRooted DEF Calm, AsOpen, Rooted, QueueFits
      <4> QED
        BY <2>7, <4>2, <4>3 DEF Calm, Puts, Beside, AsOpen
    <3>2. CASE ~injected
      BY <2>4, <2>7, <3>2
    <3> QED
      BY <3>1, <3>2
  <2>10. PICK f : f = RefreshFacts(put)
    OBVIOUS
  <2>11. Linked(f)
    BY <2>9, <2>10, RefreshFactsCalm, CalmIsLinked
  <2>12. Faithful(ready, R)
    BY <1>2, <2>1, ReadyFaithful DEF Keeps
  <2>13. Faithful(put, R)
    <3>1. body.k \notin OfACall
      BY <2>8 DEF OfACall
    <3>2. Keeps(ready, Put(ready, cause, body), R)
      BY <2>8, <2>12, <3>1, NoteFaithful
    <3> QED
      BY <2>4, <2>12, <3>2 DEF Keeps
  <2>14. Faithful(f, R)
    BY <2>10, <2>13, OpeningFaithful DEF Keeps
  <2> QED
    BY <2>5, <2>10, <2>11, <2>14, AdvanceFaithful
<1> QED
  BY <1>1, <1>2

LEMMA WokeFaithful ==
  ASSUME NEW s, NEW R, Faithful(s, R), Linked(s), NEW seen
  PROVE  Faithful(Woke(s, seen), R)
<1>1. CASE s.turn.intr.wake # 0 /\ s.turn.intr.wake = seen
  BY <1>1, ForceStopAsBeforeFaithful DEF Woke, Keeps
<1>2. CASE ~(s.turn.intr.wake # 0 /\ s.turn.intr.wake = seen)
           /\ s.turn.stage = "waiting" /\ s.turn.mark = seen
  <2>1. PICK t : t = [s EXCEPT !.turn.stage = "ready", !.turn.mark = 0]
    OBVIOUS
  <2>2. Calm(s) /\ s.turn.id # 0
    BY <1>2, RestingIsCalm DEF Linked, InOrder, Staged
  <2>3. OnlyStage(s, t) /\ t.turn.stage = "ready" /\ t.turn.calls = s.turn.calls
    <3>1. Rooted(s)
      BY <2>2 DEF Calm
    <3>2. t = MovedTo(s, "ready", 0)
      BY <2>1 DEF MovedTo
    <3> QED
      BY <3>1, <3>2, StageChanges
  <2>4. Calm(t)
    BY <2>2, <2>3 DEF Calm, OnlyStage
  <2>5. PICK f : f = RefreshFacts(t)
    OBVIOUS
  <2>6. Linked(f)
    BY <2>4, <2>5, RefreshFactsCalm, CalmIsLinked
  <2>7. Faithful(t, R)
    BY <1>2, <2>1, ReadyFaithful DEF Keeps
  <2>8. Faithful(f, R)
    BY <2>5, <2>7, OpeningFaithful DEF Keeps
  <2>9. Woke(s, seen) = Advance(f)
    BY <1>2, <2>1, <2>5 DEF Woke
  <2> QED
    BY <2>6, <2>8, <2>9, AdvanceFaithful
<1>3. CASE /\ ~(s.turn.intr.wake # 0 /\ s.turn.intr.wake = seen)
           /\ ~(s.turn.stage = "waiting" /\ s.turn.mark = seen)
  BY <1>3 DEF Woke
<1> QED
  BY <1>1, <1>2, <1>3

----------------------------------------------------------------------------
(***************************************************************************)
(* More is on disk.                                                        *)
(***************************************************************************)
LEMMA DocumentedLater ==
  ASSUME NEW l, NEW n \in Nat, NEW m \in Nat, n <= m, m <= Len(l), Len(l) \in Nat,
         NEW x, Documented(l, n, x)
  PROVE  Documented(l, m, x)
<1>1. ASSUME NEW kind \in ApprovalKinds
      PROVE  NotesOn(l, m, kind, x) = NotesOn(l, n, kind, x)
  <2>1. \A i \in 1..m : l[i].k = kind /\ l[i].call = x => i \in 1..n
    BY DEF Documented, NotesUpTo
  <2>2. \A i \in 1..n : i \in 1..m
    OBVIOUS
  <2> QED
    BY <2>1, <2>2 DEF NotesOn
<1>2. /\ NotesOn(l, m, "approval.decided", x) = NotesOn(l, n, "approval.decided", x)
      /\ NotesOn(l, m, "approval.requested", x) = NotesOn(l, n, "approval.requested", x)
  BY <1>1 DEF ApprovalKinds
<1>3. NotesUpTo(l, x, m)
  BY DEF Documented, NotesUpTo
<1>4. x[1] \in 1..m
  BY DEF Documented
<1> QED
  BY <1>2, <1>3, <1>4 DEF Documented

LEMMA MoreStoredFaithful ==
  ASSUME NEW s, NEW R, Faithful(s, R), NEW t, Shapely(t), t.log = s.log, t.book = s.book,
         t.turn = s.turn, Runs(t.out) = Runs(s.out),
         t.stored \in s.stored..Len(s.log)
  PROVE  Keeps(s, t, R)
<1>1. PICK l, n, m, B : l = s.log /\ n = s.stored /\ m = t.stored /\ B = Begun(s, R)
  OBVIOUS
<1>2. Sound(s) /\ Len(l) \in Nat /\ n \in 0..Len(l)
  BY <1>1, LogLength DEF Faithful, Sound
<1>3. n \in Nat /\ m \in Nat /\ n <= m /\ m <= Len(l)
  BY <1>1, <1>2
<1>4. Sound(t)
  BY <1>1, <1>2, <1>3 DEF Sound
<1>5. Begun(t, R) = B
  BY <1>1 DEF Begun
<1>6. OnRecord(l, n, B)
  BY <1>1 DEF Faithful
<1>7. OnRecord(l, m, B)
  <2>1. \A x \in B : Documented(l, m, x)
    BY <1>2, <1>3, <1>6, DocumentedLater DEF OnRecord
  <2> QED
    BY <1>6, <2>1 DEF OnRecord
<1>8. ASSUME NEW i \in DOMAIN s.turn.calls
      PROVE  Steady(s.turn.calls[i], s.turn.mark, l, m, B)
  <2>1. PICK c, mark : c = s.turn.calls[i] /\ mark = s.turn.mark
    OBVIOUS
  <2>2. Steady(c, mark, l, n, B)
    BY <1>1, <2>1 DEF Faithful
  <2>3. \A y : y \in 1..n => y \in 1..m
    BY <1>3
  <2>4. Steady(c, mark, l, m, B)
    BY <2>2, <2>3 DEF Steady
  <2> QED
    BY <2>1, <2>4
<1> QED
  BY <1>1, <1>4, <1>5, <1>7, <1>8 DEF Keeps, Faithful

LEMMA StoredFaithful ==
  ASSUME NEW s, NEW R, Faithful(s, R), Linked(s), NEW upto \in Nat, upto <= Len(s.log)
  PROVE  Faithful(Stored(s, upto), R)
<1>1. CASE upto <= s.stored
  BY <1>1 DEF Stored
<1>2. CASE ~(upto <= s.stored)
  <2> DEFINE landed == [s EXCEPT !.stored = upto]
             ready == {i \in DOMAIN s.waiting : IsStored(landed, s.waiting[i].events)}
             answers == [i \in DOMAIN s.waiting |->
                           [id |-> s.waiting[i].id, ok |-> TRUE,
                            events |-> s.waiting[i].events]]
             closed == {i \in DOMAIN s.closing : s.closing[i].ended <= upto}
  <2>1. PICK said : said = [landed EXCEPT
                        !.waiting = Picked(@, DOMAIN @ \ ready),
                        !.replies = @ \o Picked(answers, ready),
                        !.closing = Picked(@, DOMAIN @ \ closed)]
    OBVIOUS
  <2>2. PICK actions : actions = {[a |-> "Push", from |-> s.stored + 1, upto |-> upto]}
               \union {[a |-> "RunTurnEndHooks", turn |-> s.closing[i].turn] : i \in closed}
    OBVIOUS
  <2>3. Stored(s, upto) = Advance(Do(said, actions))
    BY <1>2, <2>1, <2>2 DEF Stored
  <2>4. Rooted(s) /\ Shapely(s) /\ Len(s.log) \in Nat
    BY RootedBook DEF Linked, InOrder
  <2>5. DOMAIN landed = KernelFields
    BY <2>4 DEF Shapely
  <2>6. /\ Apart(s, said) /\ said.stored = upto /\ said.out = s.out
    <3> HIDE DEF ready, answers, closed
    <3> QED
      BY <2>1, <2>4, <2>5 DEF Shapely, KernelFields, Apart
  <2>7. OutFits(said)
    BY <2>4, <2>6 DEF OutFits, Apart, Rooted
  <2>8. Linked(said)
    BY <2>4, <2>6, <2>7, ApartLinked
  <2>9. \A a \in actions : a.a # "RunTool"
    <3> HIDE DEF closed
    <3> QED
      BY <2>2
  <2>10. PICK t : t = Do(said, actions)
    OBVIOUS
  <2>11. Linked(t)
    BY <2>8, <2>9, <2>10, DoLinked
  <2>12. s.stored \in Nat
    BY <2>4 DEF Faithful, Sound
  <2>13. Keeps(s, said, R)
    <3>1. upto \in s.stored..Len(s.log)
      BY <1>2, <2>4, <2>12
    <3>2. Shapely(said)
      BY <2>4, <2>6 DEF Shapely, Apart
    <3>3. /\ said.log = s.log /\ said.book = s.book /\ said.turn = s.turn
          /\ Runs(said.out) = Runs(s.out) /\ said.stored \in s.stored..Len(s.log)
      BY <2>6, <3>1 DEF Apart
    <3> QED
      BY <3>2, <3>3, MoreStoredFaithful
  <2>14. Runs(actions) = {}
    BY <2>9 DEF Runs
  <2>15. Faithful(t, R)
    BY <2>10, <2>13, <2>14, DoFaithful DEF Keeps
  <2> QED
    BY <2>3, <2>10, <2>11, <2>15, AdvanceFaithful
<1> QED
  BY <1>1, <1>2

\* What a person asks for.
LEMMA ReceiveFaithful ==
  ASSUME NEW s, NEW R, Faithful(s, R), Linked(s), NEW id, NEW op, Asks(op), NEW call,
         NEW received, IsSeq(received.calls)
  PROVE  Faithful(Receive(s, id, op, call, received), R)
<1>1. PICK known : known = {i \in DOMAIN s.recent : s.recent[i].id = id}
  OBVIOUS
<1>2. CASE known # {}
  <2>1. PICK events : events = s.recent[CHOOSE i \in known : TRUE].events
    OBVIOUS
  <2>2. Keeps(s, ReplyWhenStored(s, id, events), R)
    BY AnswersFaithful
  <2>3. Receive(s, id, op, call, received) = ReplyWhenStored(s, id, events)
    BY <1>1, <1>2, <2>1 DEF Receive
  <2> QED
    BY <2>2, <2>3 DEF Keeps
<1>3. CASE known = {}
  <2>1. CASE op.op = "send"
    <3>1. PICK urgent : urgent = op.urgent
      OBVIOUS
    <3>2. Receive(s, id, op, call, received) = Send(s, id, urgent)
      BY <1>1, <1>3, <2>1, <3>1 DEF Receive
    <3> QED
      BY <3>2, SendFaithful DEF Keeps
  <2>2. CASE op.op = "interrupt"
    <3>1. PICK queued : queued = op.queued
      OBVIOUS
    <3>2. Receive(s, id, op, call, received) = Interrupt(s, id, queued, received)
      BY <1>1, <1>3, <2>2, <3>1 DEF Receive
    <3>3. queued \in Queueings
      BY <2>2, <3>1 DEF Asks
    <3> QED
      BY <3>2, <3>3, InterruptFaithful DEF Keeps
  <2>3. CASE op.op = "permission"
    <3>1. PICK change : change = op.change
      OBVIOUS
    <3>2. Receive(s, id, op, call, received) = SetPermission(s, id, change)
      BY <1>1, <1>3, <2>3, <3>1 DEF Receive
    <3> QED
      BY <3>2, SetPermissionFaithful DEF Keeps
  <2>4. CASE op.op = "approve"
    <3>1. PICK allow : allow = op.allow
      OBVIOUS
    <3>2. Receive(s, id, op, call, received) = AnswerApproval(s, id, call, allow)
      BY <1>1, <1>3, <2>4, <3>1 DEF Receive
    <3> QED
      BY <3>2, AnswerApprovalFaithful
  <2>5. CASE op.op = "answer"
    <3>1. Receive(s, id, op, call, received) = AnswerQuestion(s, id, call)
      BY <1>1, <1>3, <2>5 DEF Receive
    <3> QED
      BY <3>1, AnswerQuestionFaithful
  <2> QED
    BY <2>1, <2>2, <2>3, <2>4, <2>5 DEF Asks
<1> QED
  BY <1>2, <1>3

----------------------------------------------------------------------------
(***************************************************************************)
(* Loading.                                                                *)
(***************************************************************************)
LEMMA RecoverFaithful ==
  ASSUME NEW s, Whole(s), s.turn = NoTurn, s.out = {}, NEW R, OnRecord(s.log, s.stored, R),
         NEW replay
  PROVE  Keeps(s, Recover(s, replay), R) /\ Begun(s, R) = R
<1>1. Sound(s) /\ Shapely(s) /\ NoTurn.calls = << >>
  BY DEF Whole, Sound, NoTurn, NewTurn
<1>2. Begun(s, R) = R
  BY DEF Begun, Runs
<1>3. Faithful(s, R)
  BY <1>1, <1>2, EmptyIsSeq DEF Faithful
<1>4. PICK start, p : start = s.book.open /\ p = Unresolved(s)
  OBVIOUS
<1>5. CASE start # 0
  <2>1. PICK by, why, reason : /\ by = s.log[start].cause
                               /\ why = "restarted" /\ reason = "aborted"
    OBVIOUS
  <2>2. PICK n : n = NewTurn(start, by, "settling", 0)
    OBVIOUS
  <2>3. n.calls = << >> /\ DOMAIN n = TurnFields /\ n.intr = NotInterrupting
    BY <2>2 DEF NewTurn, TurnFields
  <2>4. PICK r : r = [s EXCEPT !.turn = n]
    OBVIOUS
  <2>5. /\ r.log = s.log /\ r.book = s.book /\ r.stored = s.stored /\ r.out = s.out
        /\ r.turn = n /\ DOMAIN r = KernelFields
    BY <1>1, <2>4 DEF Shapely, KernelFields
  <2>6. Shapely(r) /\ r.turn.calls = << >>
    BY <2>3, <2>5, EmptyIsSeq DEF Shapely, NotInterrupting, Queueings
  <2>7. Keeps(s, r, R)
    BY <1>3, <2>5, <2>6, AsideFaithful
  <2>8. PICK list : list = [i \in DOMAIN p |-> Result(p[i], why)]
    OBVIOUS
  <2>9. ResultsOf(list, s.book.pending)
    BY <1>4, <2>8, UnresolvedResults
  <2>10. Notes(R, list)
    <3>1. ASSUME NEW i \in 1..Len(list) PROVE Noteworthy(R, list[i])
      <4>1. DOMAIN list = 1..Len(list)
        BY <2>9, SeqIsFunction DEF ResultsOf
      <4>2. list[i] = Result(p[i], why)
        BY <2>8, <4>1
      <4>3. PICK x : x = p[i]
        OBVIOUS
      <4>4. Honest(R, x, why)
        BY <2>1 DEF Honest
      <4> QED
        BY <4>2, <4>3, <4>4, ResultIsNoteworthy
    <3> QED
      BY <2>9, <3>1 DEF Notes, ResultsOf
  <2>11. PICK q : q = PutEach(r, by, list)
    OBVIOUS
  <2>12. Begun(r, R) = R /\ Faithful(r, R)
    BY <1>2, <2>7 DEF Keeps
  <2>13. Keeps(r, q, R)
    BY <2>10, <2>11, <2>12, PutEachFaithful
  <2>14. PICK t : t = EndTurn(q, by, reason)
    OBVIOUS
  <2>15. Keeps(q, t, R)
    BY <2>13, <2>14, EndTurnFaithful DEF Keeps
  <2>16. Keeps(s, t, R)
    BY <2>7, <2>13, <2>15, KeepsThen
  <2>17. Recover(s, replay) = t
    <3>1. q = PutEach(r, s.log[start].cause, [i \in DOMAIN p |-> Result(p[i], "restarted")])
      BY <2>1, <2>8, <2>11
    <3>2. t = EndTurn(q, s.log[start].cause, "aborted")
      BY <2>1, <2>14
    <3>3. r = [s EXCEPT !.turn = NewTurn(start, s.log[start].cause, "settling", 0)]
      BY <2>1, <2>2, <2>4
    <3> QED
      BY <1>4, <1>5, <3>1, <3>2, <3>3 DEF Recover
  <2> QED
    BY <1>2, <2>16, <2>17
<1>6. CASE start = 0
  <2>1. CASE MayResume(s, replay)
    <3>1. PICK trigger, by :
            /\ trigger = replay.ended.trigger
            /\ by = IF trigger = replay.ended.seq THEN replay.ended.cause
                                                  ELSE s.log[trigger].cause
      OBVIOUS
    <3>2. Keeps(s, OpenTurn(s, trigger, by), R)
      BY <1>3, OpeningFaithful
    <3>3. Recover(s, replay) = OpenTurn(s, trigger, by)
      BY <1>4, <1>6, <2>1, <3>1 DEF Recover
    <3> QED
      BY <1>2, <3>2, <3>3
  <2>2. CASE ~MayResume(s, replay)
    <3>1. Recover(s, replay) = s
      BY <1>4, <1>6, <2>2 DEF Recover
    <3> QED
      BY <1>2, <1>3, <3>1, KeepsItself
  <2> QED
    BY <2>1, <2>2
<1> QED
  BY <1>5, <1>6

LEMMA LoadFaithful ==
  ASSUME NEW log, IsLog(log), Clean(log), Len(log) >= 1, NEW policy,
         NEW R, OnRecord(log, Len(log), R)
  PROVE  Faithful(Load(log, policy), R) /\ Begun(Load(log, policy), R) = R
<1>1. PICK replay, ok : replay = Replay(log) /\ ok = replay.ok
  OBVIOUS
<1>2. PICK perm : perm = PermissionOf(log)
  OBVIOUS
<1>3. PICK s : s = [ log |-> log, book |-> replay.book, stored |-> Len(log), turn |-> NoTurn,
             waiting |-> << >>, recent |-> RecentOf(log),
             policy |-> policy, perm |-> perm, eff |-> perm, closing |-> << >>,
             restarting |-> FALSE, refused |-> ~ok,
             out |-> {}, replies |-> << >> ]
  OBVIOUS
<1>4. Load(log, policy) = Recover(s, replay)
  BY <1>1, <1>2, <1>3 DEF Load
<1>5. IsSeq(log) /\ Len(log) \in Nat
  BY SeqIsFunction DEF IsLog
<1>6. /\ s.log = log /\ s.book = replay.book /\ s.stored = Len(log) /\ s.turn = NoTurn
      /\ s.out = {} /\ DOMAIN s = KernelFields
  BY <1>3 DEF KernelFields
<1>7. s.refused = FALSE
  <2>1. ok = TRUE
    BY <1>1, CleanReplays
  <2> QED
    BY <1>3, <2>1
<1>8. Whole(s)
  <2>1. Shapely(s)
    BY <1>6, EmptyIsSeq
       DEF Shapely, NoTurn, NewTurn, TurnFields, NotInterrupting, Queueings
  <2>2. s.book = BookOf(log)
    BY <1>1, <1>5, <1>6, ReplayBook
  <2>3. Sound(s)
    BY <1>5, <1>6, <2>1, <2>2 DEF Sound
  <2> QED
    BY <1>6, <1>7, <2>3 DEF Whole
<1>9. Keeps(s, Recover(s, replay), R) /\ Begun(s, R) = R
  BY <1>6, <1>8, RecoverFaithful
<1> QED
  BY <1>4, <1>9 DEF Keeps

\* What a crash leaves of the log still documents every call that was started.
LEMMA OnRecordLeft ==
  ASSUME NEW l, NEW n \in Nat, NEW B, OnRecord(l, n, B), NEW m, NEW keep \in Nat,
         n <= keep, Len(m) = keep, keep <= Len(l), Len(l) \in Nat,
         \A i \in 1..keep : m[i] = l[i]
  PROVE  OnRecord(m, keep, B)
<1>1. \A i : i \in 1..n => i \in 1..keep
  OBVIOUS
<1>2. \A i : i \in 1..keep => i \in 1..Len(l)
  OBVIOUS
<1>3. ASSUME NEW x \in B PROVE Documented(m, keep, x)
  <2>1. Documented(l, n, x)
    BY DEF OnRecord
  <2>2. NotesUpTo(m, x, n)
    BY <1>2, <2>1 DEF Documented, NotesUpTo
  <2>3. \A i \in 1..n : m[i] = l[i]
    BY <1>1
  <2>4. /\ NotesOn(m, n, "approval.decided", x) = NotesOn(l, n, "approval.decided", x)
        /\ NotesOn(m, n, "approval.requested", x) = NotesOn(l, n, "approval.requested", x)
    BY <2>3, SameNotes
  <2>5. m[x[1]] = l[x[1]]
    BY <2>1, <2>3 DEF Documented
  <2>6. Documented(m, n, x)
    BY <2>1, <2>2, <2>4, <2>5 DEF Documented
  <2>7. keep <= Len(m) /\ Len(m) \in Nat
    OBVIOUS
  <2> QED
    BY <2>6, <2>7, DocumentedLater
<1>4. ASSUME NEW i \in 1..Len(m), m[i].k = "tool.result"
      PROVE  Honest(B, m[i].call, m[i].why)
  BY <1>2, <1>4 DEF OnRecord
<1> QED
  BY <1>3, <1>4 DEF OnRecord

----------------------------------------------------------------------------
(***************************************************************************)
(* Every step keeps the record of the calls that were started.             *)
(***************************************************************************)
\* The calls a tool was started for, over all loads.
Started == {r.call : r \in ran}

\* What the kernel made of an input becomes the state of the session, and the
\* tools it starts are started.
LEMMA PerformFaithful ==
  ASSUME NEW s, Faithful(s, Started), NEW received, NEW left, Perform(s, received, left)
  PROVE  Faithful(kernel, Started)'
<1>1. PICK R, Q : R = Started /\ Q = Started'
  OBVIOUS
<1>2. PICK t : t = kernel'
  OBVIOUS
<1>3. t = [s EXCEPT !.out = {}, !.replies = << >>] /\ ran' = ran \union Runs(s.out)
  BY <1>2 DEF Perform
<1>4. Sound(s) /\ Faithful(s, R)
  BY <1>1 DEF Faithful
<1>5. /\ t.log = s.log /\ t.book = s.book /\ t.stored = s.stored /\ t.turn = s.turn
      /\ t.out = {} /\ DOMAIN t = DOMAIN s
  BY <1>3, <1>4 DEF Sound, Shapely, KernelFields
<1>6. Sound(t)
  BY <1>4, <1>5 DEF Sound, Shapely
<1>7. Q = Begun(s, R)
  BY <1>1, <1>3 DEF Begun, Started
<1>8. Begun(t, Q) = Begun(s, R)
  <2>1. Runs(t.out) = {}
    BY <1>5 DEF Runs
  <2> QED
    BY <1>7, <2>1 DEF Begun
<1>9. PICK B : B = Begun(s, R)
  OBVIOUS
<1>10. /\ OnRecord(t.log, t.stored, B)
       /\ \A i \in DOMAIN t.turn.calls :
            Steady(t.turn.calls[i], t.turn.mark, t.log, t.stored, B)
  BY <1>4, <1>5, <1>9 DEF Faithful
<1>11. Faithful(t, Q)
  BY <1>6, <1>8, <1>9, <1>10 DEF Faithful
<1> QED
  BY <1>1, <1>2, <1>11

LEMMA CommandFaithful ==
  ASSUME IInv, Faithful(kernel, Started), NEW id \in Ids, Command(id)
  PROVE  Faithful(kernel, Started)'
<1>1. PICK op : op = Script[id]
  OBVIOUS
<1>2. PICK call, half :
        half \in Scene.halves /\ Perform(Receive(kernel, id, op, call, half), id, ends)
  BY <1>1 DEF Command
<1>3. Asks(op) /\ IsSeq(half.calls)
  BY <1>1, <1>2, ScenesAsk DEF IInv
<1>4. PICK k, R : k = kernel /\ R = Started
  OBVIOUS
<1>5. PICK s : s = Receive(k, id, op, call, half)
  OBVIOUS
<1>6. Faithful(k, R) /\ Linked(k)
  BY <1>4 DEF IInv
<1>7. Faithful(s, R)
  BY <1>3, <1>5, <1>6, ReceiveFaithful
<1>8. Perform(s, id, ends)
  BY <1>2, <1>4, <1>5
<1> QED
  BY <1>4, <1>7, <1>8, PerformFaithful

LEMMA BatchStoredFaithful ==
  ASSUME IInv, Faithful(kernel, Started), BatchStored
  PROVE  Faithful(kernel, Started)'
<1>1. PICK k, R : k = kernel /\ R = Started
  OBVIOUS
<1>2. PICK upto, rest : upto = Head(ends) /\ rest = Tail(ends)
  OBVIOUS
<1>3. upto \in Nat /\ upto <= Len(k.log)
  <2>1. PICK f : f = ends
    OBVIOUS
  <2>2. Pending(f, Len(k.log)) /\ Len(k.log) \in Nat
    BY <1>1, <2>1, LogLength DEF IInv
  <2>3. Len(f) \in Nat /\ Len(f) > 0 /\ upto = f[1]
    BY <1>2, <2>1, <2>2, SeqIsFunction DEF BatchStored, Pending
  <2>4. upto \in 0..Len(k.log)
    BY <2>2, <2>3 DEF Pending
  <2> QED
    BY <2>2, <2>4
<1>4. PICK s : s = Stored(k, upto)
  OBVIOUS
<1>5. Faithful(k, R) /\ Linked(k)
  BY <1>1 DEF IInv
<1>6. Faithful(s, R)
  BY <1>3, <1>4, <1>5, StoredFaithful
<1>7. Perform(s, None, rest)
  BY <1>1, <1>2, <1>4 DEF BatchStored
<1> QED
  BY <1>1, <1>6, <1>7, PerformFaithful

LEMMA ReportFaithful ==
  ASSUME IInv, Faithful(kernel, Started),
         Hooked \/ RequestEnded \/ TimeUp \/ Guarded \/ Returned \/ ToolAsked
  PROVE  Faithful(kernel, Started)'
<1>1. PICK k, R : k = kernel /\ R = Started
  OBVIOUS
<1>2. Faithful(k, R) /\ Linked(k)
  BY <1>1 DEF IInv
<1>3. SUFFICES \E s : Faithful(s, R) /\ Reported(s)
  <2>1. PICK s : Faithful(s, R) /\ Reported(s)
    BY <1>3
  <2>2. Perform(s, None, ends)
    BY <2>1 DEF Reported
  <2> QED
    BY <1>1, <2>1, <2>2, PerformFaithful
<1>4. CASE Hooked
  <2>1. PICK turn, injected : Reported(TurnStartHooked(k, turn, injected))
    BY <1>1, <1>4 DEF Hooked
  <2> QED
    BY <1>2, <2>1, TurnStartHookedFaithful
<1>5. CASE RequestEnded
  <2>1. PICK seen, ending :
          ending \in Scene.endings /\ Reported(ModelEnded(k, seen, ending))
    BY <1>1, <1>5 DEF RequestEnded
  <2>2. IsSeq(ending.calls)
    BY <2>1, ScenesAsk DEF IInv
  <2> QED
    BY <1>2, <2>1, <2>2, ModelEndedFaithful
<1>6. CASE TimeUp
  <2>1. PICK seen : Reported(Woke(k, seen))
    BY <1>1, <1>6 DEF TimeUp
  <2> QED
    BY <1>2, <2>1, WokeFaithful
<1>7. CASE Guarded
  <2>1. PICK call, verdict : Reported(ToolGuarded(k, call, verdict))
    BY <1>1, <1>7 DEF Guarded
  <2> QED
    BY <1>2, <2>1, ToolGuardedFaithful
<1>8. CASE Returned
  <2>1. PICK call, stopped : Reported(ToolDone(k, call, stopped))
    BY <1>1, <1>8 DEF Returned
  <2> QED
    BY <1>2, <2>1, ToolDoneFaithful
<1>9. CASE ToolAsked
  <2>1. PICK call : Reported(ToolAsks(k, call))
    BY <1>1, <1>9 DEF ToolAsked
  <2> QED
    BY <1>2, <2>1, ToolAsksFaithful
<1> QED
  BY <1>4, <1>5, <1>6, <1>7, <1>8, <1>9

LEMMA PrepareRestartFaithful ==
  ASSUME IInv, Faithful(kernel, Started), PrepareRestart
  PROVE  Faithful(kernel, Started)'
<1>1. PICK k, R : k = kernel /\ R = Started
  OBVIOUS
<1>2. PICK half \in Scene.halves : Perform(Restart(k, half), None, ends)
  BY <1>1 DEF PrepareRestart
<1>3. IsSeq(half.calls)
  BY <1>2, ScenesAsk DEF IInv
<1>4. PICK s : s = Restart(k, half)
  OBVIOUS
<1>5. Faithful(s, R)
  BY <1>1, <1>3, <1>4, RestartFaithful DEF Keeps
<1> QED
  BY <1>1, <1>2, <1>4, <1>5, PerformFaithful

\* After a crash or a stop the log still documents every call that was started,
\* and what the load starts again was started before.
LEMMA ReloadFaithful ==
  ASSUME IInv, Faithful(kernel, Started), Crash \/ StartAgain
  PROVE  Faithful(kernel, Started)'
<1>1. PICK k, R : k = kernel /\ R = Started
  OBVIOUS
<1>2. /\ Sound(k) /\ IsLog(k.log) /\ Len(k.log) \in Nat /\ k.stored \in 0..Len(k.log)
      /\ k.stored # 0 /\ k.out = {} /\ Clean(k.log)
  BY <1>1, LogLength DEF IInv, Sound, Linked, InOrder, Rooted, Whole
<1>3. OnRecord(k.log, k.stored, R)
  <2>1. Begun(k, R) = R
    BY <1>2 DEF Begun, Runs
  <2> QED
    BY <1>1, <2>1 DEF Faithful
<1>4. PICK log : /\ Reload(log)
                 /\ IsLog(log) /\ Clean(log) /\ Len(log) >= 1 /\ OnRecord(log, Len(log), R)
  <2>1. CASE Crash
    <3>1. PICK keep \in k.stored..Len(k.log) : Reload(SubSeq(k.log, 1, keep))
      BY <1>1, <2>1 DEF Crash
    <3>2. keep \in 0..Len(k.log) /\ keep \in Nat /\ keep >= 1 /\ k.stored <= keep
          /\ keep <= Len(k.log) /\ k.stored \in Nat
      BY <1>2, <3>1
    <3>3. PICK log : log = SubSeq(k.log, 1, keep)
      OBVIOUS
    <3>4. /\ IsSeq(log) /\ Len(log) = keep /\ \A i \in 1..keep : log[i] = k.log[i]
      BY <1>2, <3>2, <3>3, BeginningIsSeq DEF IsLog
    <3>5. IsLog(log)
      BY <1>2, <3>2, <3>4 DEF IsLog
    <3>6. Clean(log)
      BY <1>2, <3>2, <3>3, CleanBeginning
    <3>7. OnRecord(log, keep, R)
      BY <1>2, <1>3, <3>2, <3>4, OnRecordLeft
    <3> QED
      BY <3>1, <3>2, <3>3, <3>4, <3>5, <3>6, <3>7
  <2>2. CASE StartAgain
    <3>1. Reload(k.log)
      BY <1>1, <2>2 DEF StartAgain
    <3>2. PICK n : n = Len(k.log)
      OBVIOUS
    <3>3. n \in Nat /\ n >= 1 /\ k.stored \in Nat /\ k.stored <= n
      BY <1>2, <3>2
    <3>4. OnRecord(k.log, n, R)
      BY <1>3, <3>2, <3>3, OnRecordLeft
    <3> QED
      BY <1>2, <3>1, <3>2, <3>3, <3>4
  <2> QED
    BY <2>1, <2>2
<1>5. PICK policy : policy = Scene.policy
  OBVIOUS
<1>6. PICK s : s = Load(log, policy)
  OBVIOUS
<1>7. Faithful(s, R) /\ Begun(s, R) = R
  BY <1>4, <1>6, LoadFaithful
<1>8. PICK t, Q : t = kernel' /\ Q = Started'
  OBVIOUS
<1>9. t = [s EXCEPT !.out = {}]
  BY <1>4, <1>5, <1>6, <1>8 DEF Reload
<1>10. Sound(s) /\ Shapely(s)
  BY <1>7 DEF Faithful, Sound
<1>11. /\ t.log = s.log /\ t.book = s.book /\ t.stored = s.stored /\ t.turn = s.turn
       /\ t.out = {} /\ DOMAIN t = DOMAIN s
  BY <1>9, <1>10 DEF Shapely, KernelFields
<1>12. Sound(t)
  BY <1>10, <1>11 DEF Sound, Shapely
<1>13. Q = R
  BY <1>1, <1>4, <1>8 DEF Reload, history, Started
<1>14. Begun(t, R) = R
  BY <1>11 DEF Begun, Runs
<1>15. Faithful(t, R)
  BY <1>7, <1>11, <1>12, <1>14 DEF Faithful
<1> QED
  BY <1>8, <1>13, <1>15

LEMMA InitFaithful ==
  ASSUME Init
  PROVE  Faithful(kernel, Started)
<1>1. PICK l, e : e = Created(Permission) /\ l = <<e>>
  OBVIOUS
<1>2. IsLog(l) /\ Clean(l)
  BY <1>1, CreatedIsLog
<1>3. PICK R : R = Started
  OBVIOUS
<1>4. R = {}
  BY <1>3 DEF Init, Started
<1>5. Len(l) = 1 /\ l[1] = e /\ e.k = "session.created"
  BY <1>1, LonelyIsSeq DEF Created
<1>6. OnRecord(l, Len(l), R)
  <2>1. \A i \in 1..Len(l) : l[i].k # "tool.result"
    BY <1>5
  <2> QED
    BY <1>4, <2>1 DEF OnRecord
<1>7. PICK policy : policy = Scene.policy
  OBVIOUS
<1>8. kernel = Load(l, policy)
  BY <1>1, <1>7 DEF Init, Created
<1>9. Len(l) >= 1
  BY <1>5
<1>10. Faithful(Load(l, policy), R)
  BY <1>2, <1>6, <1>9, LoadFaithful
<1> QED
  BY <1>3, <1>8, <1>10

LEMMA StepFaithful ==
  ASSUME IInv, Faithful(kernel, Started), [Next]_vars
  PROVE  Faithful(kernel, Started)'
<1>1. ASSUME NEW id \in Ids, Command(id) PROVE Faithful(kernel, Started)'
  BY <1>1, CommandFaithful
<1>2. CASE BatchStored
  BY <1>2, BatchStoredFaithful
<1>3. CASE Hooked \/ RequestEnded \/ TimeUp \/ Guarded \/ Returned \/ ToolAsked
  BY <1>3, ReportFaithful
<1>4. CASE Crash \/ StartAgain
  BY <1>4, ReloadFaithful
<1>5. CASE PrepareRestart
  BY <1>5, PrepareRestartFaithful
<1>6. CASE UNCHANGED vars
  <2>1. kernel' = kernel /\ Started' = Started
    BY <1>6 DEF vars, history, Started
  <2> QED
    BY <2>1
<1> QED
  BY <1>1, <1>2, <1>3, <1>4, <1>5, <1>6 DEF Next

LEMMA RecordHolds == Spec => []Faithful(kernel, Started)
<1>1. Init => IInv /\ Faithful(kernel, Started)
  BY InitHolds, InitFaithful
<1>2. IInv /\ Faithful(kernel, Started) /\ [Next]_vars => IInv' /\ Faithful(kernel, Started)'
  BY StepKeeps, StepFaithful
<1> QED
  BY <1>1, <1>2, PTL DEF Spec

\* What is on record between two inputs.
LEMMA RecordBetween ==
  ASSUME IInv, Faithful(kernel, Started), NEW k, k = kernel, NEW R, R = Started
  PROVE  /\ OnRecord(k.log, k.stored, R)
         /\ DOMAIN k.log = 1..Len(k.log) /\ Len(k.log) \in Nat
         /\ \A i : i \in 1..k.stored => i \in 1..Len(k.log)
<1>1. Sound(k) /\ k.out = {} /\ Faithful(k, R)
  BY DEF IInv
<1>2. Begun(k, R) = R
  BY <1>1 DEF Begun, Runs
<1>3. Len(k.log) \in Nat /\ k.stored \in 0..Len(k.log) /\ IsSeq(k.log)
  BY <1>1, LogLength DEF Sound, IsLog
<1>4. DOMAIN k.log = 1..Len(k.log)
  BY <1>3, SeqIsFunction
<1> QED
  BY <1>1, <1>2, <1>3, <1>4 DEF Faithful

----------------------------------------------------------------------------
(***************************************************************************)
(* Nobody is left unheard, and nobody opens a turn who may not.            *)
(***************************************************************************)
\* The commands that interrupt and send what is queued.
Sending == {id \in Ids : Script[id].op = "interrupt" /\ Script[id].queued = "send"}

\* The circumstances of this session.
Around(z, c) == [w |-> Sending, n |-> Scene.policy.resumes, z |-> z, c |-> c]

\* The kernel is attentive, and it rests once it was told to stop.
HeedInv ==
  /\ crashes \in Nat
  /\ Attentive(kernel, Around(kernel.restarting, crashes = 0))
  /\ kernel.restarting = TRUE => Idle(kernel)

\* Every batch on disk is news only to a turn that runs.
LEMMA StoredRests ==
  ASSUME NEW s, Sound(s), Linked(s), Idle(s), NEW upto, NEW t, t = Stored(s, upto)
  PROVE  Idle(t)
<1>1. CASE upto <= s.stored
  BY <1>1 DEF Stored
<1>2. CASE ~(upto <= s.stored)
  <2> DEFINE landed == [s EXCEPT !.stored = upto]
             ready == {i \in DOMAIN s.waiting : IsStored(landed, s.waiting[i].events)}
             answers == [i \in DOMAIN s.waiting |->
                           [id |-> s.waiting[i].id, ok |-> TRUE,
                            events |-> s.waiting[i].events]]
             closed == {i \in DOMAIN s.closing : s.closing[i].ended <= upto}
             said == [landed EXCEPT
                        !.waiting = Picked(@, DOMAIN @ \ ready),
                        !.replies = @ \o Picked(answers, ready),
                        !.closing = Picked(@, DOMAIN @ \ closed)]
             actions == {[a |-> "Push", from |-> s.stored + 1, upto |-> upto]}
                \union {[a |-> "RunTurnEndHooks", turn |-> s.closing[i].turn] : i \in closed}
  <2>1. t = Advance(Do(said, actions))
    BY <1>2 DEF Stored
  <2>2. DOMAIN s = KernelFields
    BY DEF Sound, Shapely
  <2>3. DOMAIN landed = KernelFields /\ landed.turn = s.turn
    BY <2>2 DEF KernelFields
  <2>4. DOMAIN said = KernelFields /\ said.turn = s.turn
    BY <2>3 DEF KernelFields
  <2> HIDE DEF landed, ready, answers, closed, said, actions
  <2>5. PICK u : u = Do(said, actions)
    OBVIOUS
  <2>6. u.turn = s.turn
    BY <2>4, <2>5 DEF Do, KernelFields
  <2>7. u.turn.stage = "idle" /\ u.turn.id = 0
    BY <2>6 DEF Idle, Linked, InOrder, Staged
  <2>8. Dispatch(u) = u
    BY <2>7 DEF Dispatch
  <2>9. Advance(u) = u
    BY <2>7, <2>8 DEF Advance
  <2> QED
    BY <2>1, <2>5, <2>7, <2>9 DEF Idle
<1> QED
  BY <1>1, <1>2

LEMMA InitHeeds ==
  ASSUME Init, IInv
  PROVE  HeedInv
<1>1. PICK l, p : l = <<Created(Permission)>> /\ p = Scene.policy
  OBVIOUS
<1>2. IsLog(l) /\ Clean(l) /\ Len(l) = 1 /\ l[1] = Created(Permission)
  BY <1>1, CreatedIsLog, LonelyIsSeq
<1>3. kernel = Load(l, p)
  BY <1>1 DEF Init, Created
<1>4. PICK g : g = Around(FALSE, TRUE)
  OBVIOUS
<1>5. g.z = FALSE /\ g.n = p.resumes
  BY <1>1, <1>4 DEF Around
<1>6. l[1].k = "session.created"
  BY <1>2 DEF Created
<1>7. Founded(l, g)
  BY <1>2, <1>6 DEF Founded, FoundedAt
<1>8. NobodyWaits(l)
  BY <1>2, <1>6 DEF NobodyWaits, StillUnheard
<1>9. Attentive(kernel, g)
  <2>1. PICK t : t = Load(l, p)
    OBVIOUS
  <2>2. Attentive(t, g)
    BY <1>2, <1>5, <1>7, <1>8, <2>1, LoadHeeds
  <2> QED
    BY <1>3, <2>1, <2>2
<1>10. crashes = 0
  BY DEF Init
<1>11. kernel.restarting = FALSE
  BY <1>5, <1>9 DEF Attentive
<1> QED
  BY <1>4, <1>9, <1>10, <1>11 DEF HeedInv

\* What is told to stop rests.
RestsWhen(z, s) == z = TRUE => Idle(s)

\* What the kernel made of an input becomes the state of the session.
LEMMA PerformHeeds ==
  ASSUME NEW g, NEW z, NEW c, c = (crashes = 0), g = Around(z, c), crashes \in Nat,
         NEW s, Attentive(s, g), NEW received, NEW left, Perform(s, received, left),
         crashes' = crashes, RestsWhen(z, s)
  PROVE  HeedInv'
<1>1. PICK t : t = kernel'
  OBVIOUS
<1>2. t = [s EXCEPT !.out = {}, !.replies = << >>]
  BY <1>1 DEF Perform
<1>3. DOMAIN s = KernelFields
  BY DEF Attentive, Sound, Shapely
<1>4. Telling(s, t)
  BY <1>2, <1>3 DEF Telling, KernelFields
<1>5. Heeds(s, t, g)
  BY <1>4, TellingHeeds
<1>6. Attentive(t, g) /\ t.turn = s.turn
  BY <1>5 DEF Heeds
<1>7. g.z = z /\ t.restarting = z
  BY <1>6 DEF Around, Attentive
<1>9. Around(kernel.restarting, crashes = 0)' = g
  BY <1>1, <1>7 DEF Around, Sending, Ids, Script, Scene, Perform
<1>10. (Attentive(kernel, Around(kernel.restarting, crashes = 0)))'
  BY <1>1, <1>6, <1>9
<1>11. (kernel.restarting = TRUE => Idle(kernel))'
  BY <1>1, <1>6, <1>7 DEF Idle, RestsWhen
<1> QED
  BY <1>10, <1>11 DEF HeedInv

\* An input, while the session is not told to stop.
LEMMA QuietHeeds ==
  ASSUME HeedInv, NEW g, g = Around(kernel.restarting, crashes = 0),
         NEW s, Attentive(s, g), NEW received, Quiet, Perform(s, received, ends),
         crashes' = crashes
  PROVE  HeedInv'
<1>1. PICK z, c : z = kernel.restarting /\ c = (crashes = 0)
  OBVIOUS
<1>2. RestsWhen(z, s)
  BY <1>1 DEF Quiet, RestsWhen
<1>3. g = Around(z, c) /\ crashes \in Nat
  BY <1>1 DEF HeedInv
<1> QED
  BY <1>1, <1>2, <1>3, PerformHeeds

LEMMA ReportHeeds ==
  ASSUME IInv, HeedInv,
         Hooked \/ RequestEnded \/ TimeUp \/ Guarded \/ Returned \/ ToolAsked
  PROVE  HeedInv'
<1>1. PICK k, g : k = kernel /\ g = Around(kernel.restarting, crashes = 0)
  OBVIOUS
<1>2. Attentive(k, g)
  BY <1>1 DEF HeedInv
<1>3. ASSUME NEW s, Attentive(s, g), Reported(s) PROVE HeedInv'
  <2>1. Quiet /\ Perform(s, None, ends) /\ crashes' = crashes
    BY <1>3 DEF Reported, bounds
  <2> QED
    BY <1>1, <1>3, <2>1, QuietHeeds
<1>4. CASE Hooked
  <2>1. PICK turn, injected : Reported(TurnStartHooked(k, turn, injected))
    BY <1>1, <1>4 DEF Hooked
  <2> QED
    BY <1>2, <1>3, <2>1, TurnStartHookedHeeds
<1>5. CASE RequestEnded
  <2>1. PICK seen, ending : ending \in Scene.endings /\ Reported(ModelEnded(k, seen, ending))
    BY <1>1, <1>5 DEF RequestEnded
  <2>2. IsSeq(ending.calls)
    BY <2>1, ScenesAsk DEF IInv
  <2> QED
    BY <1>2, <1>3, <2>1, <2>2, ModelEndedHeeds
<1>6. CASE TimeUp
  <2>1. PICK seen : Reported(Woke(k, seen))
    BY <1>1, <1>6 DEF TimeUp
  <2> QED
    BY <1>2, <1>3, <2>1, WokeHeeds
<1>7. CASE Guarded
  <2>1. PICK call, verdict : Reported(ToolGuarded(k, call, verdict))
    BY <1>1, <1>7 DEF Guarded
  <2> QED
    BY <1>2, <1>3, <2>1, ToolGuardedHeeds
<1>8. CASE Returned
  <2>1. PICK call, stopped : Reported(ToolDone(k, call, stopped))
    BY <1>1, <1>8 DEF Returned
  <2> QED
    BY <1>2, <1>3, <2>1, ToolDoneHeeds
<1>9. CASE ToolAsked
  <2>1. PICK call : Reported(ToolAsks(k, call))
    BY <1>1, <1>9 DEF ToolAsked
  <2> QED
    BY <1>2, <1>3, <2>1, ToolAsksHeeds
<1> QED
  BY <1>4, <1>5, <1>6, <1>7, <1>8, <1>9

LEMMA CommandHeeds ==
  ASSUME IInv, HeedInv, NEW id \in Ids, Command(id)
  PROVE  HeedInv'
<1>1. PICK k, g, op : k = kernel /\ g = Around(kernel.restarting, crashes = 0) /\ op = Script[id]
  OBVIOUS
<1>2. PICK call, half :
        half \in Scene.halves /\ Perform(Receive(kernel, id, op, call, half), id, ends)
  BY <1>1 DEF Command
<1>3. Asks(op) /\ IsSeq(half.calls)
  BY <1>1, <1>2, ScenesAsk DEF IInv
<1>4. op.op = "interrupt" /\ op.queued = "send" => id \in g.w
  BY <1>1 DEF Around, Sending
<1>5. Attentive(k, g)
  BY <1>1 DEF HeedInv
<1>6. PICK s : s = Receive(k, id, op, call, half)
  OBVIOUS
<1>7. Attentive(s, g)
  BY <1>3, <1>4, <1>5, <1>6, ReceiveHeeds
<1>8. Perform(s, id, ends) /\ Quiet /\ crashes' = crashes
  BY <1>1, <1>2, <1>6 DEF Command
<1> QED
  BY <1>1, <1>7, <1>8, QuietHeeds

LEMMA BatchHeeds ==
  ASSUME IInv, HeedInv, BatchStored
  PROVE  HeedInv'
<1>1. PICK k, g, z, c, f : /\ k = kernel /\ z = kernel.restarting /\ f = ends
                           /\ c = (crashes = 0) /\ g = Around(z, c)
  OBVIOUS
<1>2. Attentive(k, g) /\ crashes \in Nat /\ (z = TRUE => Idle(k))
  BY <1>1 DEF HeedInv
<1>3. Pending(f, Len(k.log)) /\ Len(k.log) \in Nat /\ Sound(k) /\ Linked(k)
  BY <1>1, LogLength DEF IInv
<1>4. Len(f) > 0
  BY <1>1, <1>3, SeqIsFunction DEF BatchStored, Pending
<1>5. PICK upto : upto = Head(f)
  OBVIOUS
<1>6. upto \in Nat /\ upto <= Len(k.log)
  <2>1. Len(f) \in Nat /\ upto = f[1]
    BY <1>3, <1>5, SeqIsFunction DEF Pending
  <2>2. upto \in 0..Len(k.log)
    BY <1>3, <1>4, <2>1 DEF Pending
  <2> QED
    BY <1>3, <2>2
<1>7. PICK s, rest : s = Stored(k, upto) /\ rest = Tail(f)
  OBVIOUS
<1>8. Attentive(s, g)
  BY <1>2, <1>6, <1>7, StoredHeeds
<1>9. RestsWhen(z, s)
  BY <1>2, <1>3, <1>7, StoredRests DEF RestsWhen
<1>10. Perform(s, None, rest) /\ crashes' = crashes
  BY <1>1, <1>5, <1>7 DEF BatchStored, bounds
<1> QED
  BY <1>1, <1>2, <1>8, <1>9, <1>10, PerformHeeds

LEMMA PrepareRestartHeeds ==
  ASSUME IInv, HeedInv, PrepareRestart
  PROVE  HeedInv'
<1>1. PICK k, g, h, c : /\ k = kernel /\ c = (crashes = 0) /\ g = Around(TRUE, c)
                     /\ h = Around(kernel.restarting, crashes = 0)
  OBVIOUS
<1>2. PICK half \in Scene.halves : Perform(Restart(k, half), None, ends)
  BY <1>1 DEF PrepareRestart
<1>3. IsSeq(half.calls)
  BY <1>2, ScenesAsk DEF IInv
<1>4. Attentive(k, h) /\ crashes \in Nat
  BY <1>1 DEF HeedInv
<1>5. g.w = h.w /\ g.n = h.n /\ g.c = h.c /\ g.z = TRUE
  BY <1>1 DEF Around
<1>6. PICK s : s = Restart(k, half)
  OBVIOUS
<1>7. Attentive(s, g) /\ RestsWhen(TRUE, s)
  BY <1>3, <1>4, <1>5, <1>6, RestartHeeds DEF RestsWhen
<1>8. Perform(s, None, ends) /\ crashes' = crashes
  BY <1>2, <1>6 DEF PrepareRestart
<1> QED
  BY <1>1, <1>4, <1>7, <1>8, PerformHeeds

\* A beginning of a log that had its founded turns has them still.
LEMMA ReloadHeeds ==
  ASSUME IInv, HeedInv, NEW n \in 1..Len(kernel.log), Reload(SubSeq(kernel.log, 1, n)),
         NEW c, crashes' \in Nat, c = (crashes = 0)',
         c => NobodyWaits(SubSeq(kernel.log, 1, n))
  PROVE  HeedInv'
<1>1. PICK k, h, p, l : /\ k = kernel /\ h = Around(kernel.restarting, crashes = 0)
                        /\ p = Scene.policy /\ l = SubSeq(kernel.log, 1, n)
  OBVIOUS
<1>2. /\ Attentive(k, h) /\ k.refused = FALSE /\ IsLog(k.log) /\ Clean(k.log)
      /\ Len(k.log) \in Nat
  BY <1>1, LogLength DEF HeedInv, IInv, Linked, InOrder, Rooted, Whole, Sound
<1>3. n \in 0..Len(k.log) /\ l = SubSeq(k.log, 1, n)
  BY <1>1, <1>2
<1>4. IsLog(l) /\ Clean(l)
  BY <1>2, <1>3, CleanBeginning
<1>5. Founded(k.log, h) /\ IsSeq(k.log)
  BY <1>2 DEF Attentive, IsLog
<1>6. Founded(l, h)
  BY <1>3, <1>5, FoundedBefore
<1>7. PICK g : g = Around(FALSE, c)
  OBVIOUS
<1>8. g.w = h.w /\ g.n = h.n /\ g.z = FALSE /\ g.c = c /\ g.n = p.resumes
  BY <1>1, <1>7 DEF Around
<1>9. Founded(l, g)
  BY <1>6, <1>8 DEF Founded, FoundedAt, FromMessage, FromRestart
<1>10. PICK s : s = Load(l, p)
  OBVIOUS
<1>11. Attentive(s, g)
  BY <1>1, <1>4, <1>8, <1>9, <1>10, LoadHeeds
<1>12. PICK t : t = kernel'
  OBVIOUS
<1>13. t = [s EXCEPT !.out = {}]
  BY <1>1, <1>10, <1>12 DEF Reload
<1>14. DOMAIN s = KernelFields
  BY <1>11 DEF Attentive, Sound, Shapely
<1>15. Telling(s, t)
  BY <1>13, <1>14 DEF Telling, KernelFields
<1>16. Heeds(s, t, g)
  BY <1>11, <1>15, TellingHeeds
<1>17. Attentive(t, g) /\ t.restarting = FALSE
  BY <1>8, <1>16 DEF Heeds, Attentive
<1>18. Around(kernel.restarting, crashes = 0)' = g
  BY <1>7, <1>12, <1>17 DEF Around, Sending, Ids, Script, Scene, Reload
<1> QED
  BY <1>12, <1>17, <1>18 DEF HeedInv

LEMMA CrashHeeds ==
  ASSUME IInv, HeedInv, Crash
  PROVE  HeedInv'
<1>1. PICK n \in kernel.stored..Len(kernel.log) : Reload(SubSeq(kernel.log, 1, n))
  BY DEF Crash
<1>2. kernel.stored \in Nat /\ kernel.stored # 0 /\ Len(kernel.log) \in Nat
  BY LogLength DEF IInv, Sound
<1>3. n \in 1..Len(kernel.log)
  BY <1>1, <1>2
<1>4. crashes \in Nat /\ crashes' = crashes + 1
  BY DEF HeedInv, Crash
<1>5. crashes' \in Nat /\ FALSE = (crashes = 0)'
  BY <1>4
<1> QED
  BY <1>1, <1>3, <1>5, ReloadHeeds

LEMMA StartAgainHeeds ==
  ASSUME IInv, HeedInv, StartAgain
  PROVE  HeedInv'
<1>1. PICK k, g, n, c : /\ k = kernel /\ g = Around(kernel.restarting, crashes = 0)
                        /\ n = Len(kernel.log) /\ c = (crashes = 0)
  OBVIOUS
<1>2. Attentive(k, g) /\ crashes \in Nat /\ (k.restarting = TRUE => Idle(k))
  BY <1>1 DEF HeedInv
<1>3. /\ IsSeq(k.log) /\ n \in Nat /\ n >= 1 /\ k.refused = FALSE
  BY <1>1, LogLength DEF IInv, Linked, InOrder, Rooted, Whole, Sound, IsLog
<1>4. SubSeq(k.log, 1, n) = k.log
  <2>1. n \in 0..Len(k.log)
    BY <1>1, <1>3
  <2>2. /\ IsSeq(SubSeq(k.log, 1, n)) /\ Len(SubSeq(k.log, 1, n)) = n
        /\ \A i \in 1..n : SubSeq(k.log, 1, n)[i] = k.log[i]
    BY <1>3, <2>1, BeginningIsSeq
  <2> QED
    BY <1>1, <1>3, <2>2, SameSeq
<1>5. Reload(SubSeq(kernel.log, 1, n)) /\ crashes' = crashes
  BY <1>1, <1>4 DEF StartAgain
<1>6. k.restarting = TRUE
  <2>1. kernel.restarting
    BY DEF StartAgain
  <2> QED
    BY <1>1, <2>1
<1>7. c => Heeding(k.log, k.turn)
  BY <1>1, <1>2, <1>3 DEF Attentive, Around
<1>8. c => NobodyWaits(k.log)
  BY <1>2, <1>6, <1>7 DEF Heeding, WillHear, NobodyWaits, Idle
<1>9. n \in 1..Len(kernel.log)
  BY <1>1, <1>3
<1>10. crashes' \in Nat /\ c = (crashes = 0)'
  BY <1>1, <1>2, <1>5
<1> QED
  BY <1>1, <1>4, <1>5, <1>8, <1>9, <1>10, ReloadHeeds

LEMMA StepHeeds ==
  ASSUME IInv, HeedInv, [Next]_vars
  PROVE  HeedInv'
<1>1. ASSUME NEW id \in Ids, Command(id) PROVE HeedInv'
  BY <1>1, CommandHeeds
<1>2. CASE BatchStored
  BY <1>2, BatchHeeds
<1>3. CASE Hooked \/ RequestEnded \/ TimeUp \/ Guarded \/ Returned \/ ToolAsked
  BY <1>3, ReportHeeds
<1>4. CASE Crash
  BY <1>4, CrashHeeds
<1>5. CASE StartAgain
  BY <1>5, StartAgainHeeds
<1>6. CASE PrepareRestart
  BY <1>6, PrepareRestartHeeds
<1>7. CASE UNCHANGED vars
  BY <1>7 DEF vars, history, bounds, HeedInv, Around, Sending, Ids, Script, Scene
<1> QED
  BY <1>1, <1>2, <1>3, <1>4, <1>5, <1>6, <1>7 DEF Next

LEMMA HeedHolds == Spec => []HeedInv
<1>1. Init => IInv /\ HeedInv
  BY InitHolds, InitHeeds
<1>2. IInv /\ HeedInv /\ [Next]_vars => HeedInv'
  BY StepHeeds
<1> QED
  BY <1>1, <1>2, InvariantHolds, PTL DEF Spec

----------------------------------------------------------------------------
(***************************************************************************)
(* What it means.                                                          *)
(***************************************************************************)
\* What a head was told was accepted (actor.rs answers once the events are on
\* disk) is in the log for ever, as it was, through crashes, torn batches and
\* restarts.
THEOREM AnsweredSurvivesAlways == Spec => []AnsweredSurvives
<1>1. IInv => AnsweredSurvives
  <2>1. SUFFICES ASSUME IInv PROVE AnsweredSurvives
    OBVIOUS
  <2>2. Sound(kernel) /\ \A id \in Ids : OnDisk(given[id].events, kernel.log, kernel.stored)
    BY <2>1 DEF IInv
  <2>3. \A i \in 1..kernel.stored : i \in DOMAIN kernel.log
    BY <2>2, LogLength, SeqIsFunction DEF Sound, IsLog
  <2> QED
    BY <2>2, <2>3 DEF AnsweredSurvives, OnDisk, Log
<1> QED
  BY <1>1, InvariantHolds, PTL

\* The kernel never makes an event its own ledger refuses (session.rs would panic),
\* and whatever a crash leaves of the log can be loaded (load.rs).
THEOREM NeverRefusedAlways == Spec => []NeverRefused
<1>1. IInv => NeverRefused
  BY DEF IInv, NeverRefused, Linked, InOrder, Rooted, Whole
<1> QED
  BY <1>1, InvariantHolds, PTL

\* Calls that do anything but read run alone and in the order of the reply
\* (Step::ready in step.rs), whatever is asked, answered, interrupted or restarted.
THEOREM OthersWaitAlways == Spec => []OthersWait
<1>1. IInv => OthersWait
  BY DEF IInv, OthersWait, Turn, Linked, InOrder, Orderly
<1> QED
  BY <1>1, InvariantHolds, PTL

\* While the session is read-only no call that writes is started: a permission that
\* gets tighter reaches the calls that wait, are guarded, asked about or approved
\* (permission.rs).
THEOREM NoWriteWhenReadOnlyAlways == Spec => NoWriteWhenReadOnly
<1>1. IInv /\ [Next]_vars => [\A r \in ran' \ ran : r.write => Rank(kernel'.perm) # 0]_vars
  <2>1. SUFFICES ASSUME IInv, [Next]_vars
                 PROVE  \A r \in ran' \ ran : r.write => Rank(kernel'.perm) # 0
    OBVIOUS
  <2> QED
    BY <2>1, StepKeeps DEF Obeys
<1> QED
  BY <1>1, InvariantHolds, PTL DEF Spec, NoWriteWhenReadOnly

\* A command is answered exactly as often as it was received, and who was not told
\* yet waits for events that are not on disk yet (Session::reply_when_stored and
\* Session::stored): no answer is lost, none is given twice, and no head waits for
\* what has already been written.
THEOREM EveryCommandAnsweredAlways == Spec => []EveryCommandAnswered
<1>1. Init => IInv /\ AllWaiting(kernel, owed)
  BY InitHolds, InitAnswers
<1>2. IInv /\ AllWaiting(kernel, owed) /\ [Next]_vars => IInv' /\ AllWaiting(kernel, owed)'
  BY StepKeeps, StepAnswers
<1>3. IInv /\ AllWaiting(kernel, owed) => EveryCommandAnswered
  <2>1. SUFFICES ASSUME IInv, AllWaiting(kernel, owed) PROVE EveryCommandAnswered
    OBVIOUS
  <2>2. DOMAIN kernel.waiting = 1..Len(kernel.waiting)
    BY <2>1, SeqIsFunction DEF IInv, Talking, Entries
  <2> QED
    BY <2>1, <2>2 DEF AllWaiting, CountOf, PlacesAbout, Later, EveryCommandAnswered, Log
<1> QED
  BY <1>1, <1>2, <1>3, PTL DEF Spec

\* A tool is started only for a call whose reply is on disk, with every permission a
\* person had to give for it on disk too (Step::start_tools and Session::stored), and
\* it stays so through crashes, torn batches and restarts: no tool's work is
\* unaccounted for.
THEOREM RunsAreOnRecordAlways == Spec => []RunsAreOnRecord
<1>1. IInv /\ Faithful(kernel, Started) => RunsAreOnRecord
  <2>1. SUFFICES ASSUME IInv, Faithful(kernel, Started) PROVE RunsAreOnRecord
    OBVIOUS
  <2>2. PICK k, R : k = kernel /\ R = Started
    OBVIOUS
  <2>3. /\ OnRecord(k.log, k.stored, R)
        /\ DOMAIN k.log = 1..Len(k.log) /\ Len(k.log) \in Nat
        /\ \A i : i \in 1..k.stored => i \in 1..Len(k.log)
    BY <2>1, <2>2, RecordBetween
  <2>4. ASSUME NEW x \in R
        PROVE  /\ x[1] \in DOMAIN k.log /\ k.log[x[1]].k = "message.assistant"
               /\ x \in Range(k.log[x[1]].calls)
               /\ Cardinality({i \in DOMAIN k.log : k.log[i].k = "approval.decided"
                                                    /\ k.log[i].call = x})
                    = Cardinality({i \in DOMAIN k.log : k.log[i].k = "approval.requested"
                                                        /\ k.log[i].call = x})
    <3>1. Documented(k.log, k.stored, x)
      BY <2>3, <2>4 DEF OnRecord
    <3>2. ASSUME NEW kind \in ApprovalKinds
          PROVE  {i \in DOMAIN k.log : k.log[i].k = kind /\ k.log[i].call = x}
                   = NotesOn(k.log, k.stored, kind, x)
      <4>1. \A i \in 1..Len(k.log) :
              k.log[i].k = kind /\ k.log[i].call = x => i \in 1..k.stored
        <5>1. k.stored \in Nat
          BY <2>1, <2>2, LogLength DEF IInv, Sound
        <5> QED
          BY <3>1, <5>1 DEF Documented, NotesUpTo
      <4> QED
        BY <2>3, <4>1 DEF NotesOn
    <3>3. PICK d, q : d = "approval.decided" /\ q = "approval.requested"
      OBVIOUS
    <3>4. d \in ApprovalKinds /\ q \in ApprovalKinds
      BY <3>3 DEF ApprovalKinds
    <3>5. {i \in DOMAIN k.log : k.log[i].k = d /\ k.log[i].call = x}
            = NotesOn(k.log, k.stored, d, x)
      BY <3>2, <3>4
    <3>6. {i \in DOMAIN k.log : k.log[i].k = q /\ k.log[i].call = x}
            = NotesOn(k.log, k.stored, q, x)
      BY <3>2, <3>4
    <3> QED
      BY <2>3, <3>1, <3>3, <3>5, <3>6 DEF Documented
  <2>5. ASSUME NEW r \in ran PROVE r.call \in R
    BY <2>2 DEF Started
  <2>6. ASSUME NEW r \in ran
        PROVE  /\ r.call[1] \in Events("message.assistant")
               /\ r.call \in Range(Log[r.call[1]].calls)
               /\ Cardinality(Decisions(r.call, "approval.decided"))
                    = Cardinality(Decisions(r.call, "approval.requested"))
    <3>1. PICK x : x = r.call
      OBVIOUS
    <3>2. x \in R
      BY <2>5, <3>1
    <3>3. \A kind : Decisions(x, kind)
                      = {i \in DOMAIN k.log : k.log[i].k = kind /\ k.log[i].call = x}
      BY <2>2 DEF Decisions, Events, Log
    <3> QED
      BY <2>2, <2>4, <3>1, <3>2, <3>3 DEF Events, Log
  <2> QED
    BY <2>6 DEF RunsAreOnRecord
<1> QED
  BY <1>1, InvariantHolds, RecordHolds, PTL

\* The result of a call does not lie about whether a tool ran: one that is skipped,
\* denied, unknown or interrupted before it began was never started, one that came
\* back, was voided or was interrupted at work was (Session::settle and its callers
\* in step.rs, interrupt.rs and load.rs).
THEOREM HonestResultsAlways == Spec => []HonestResults
<1>1. IInv /\ Faithful(kernel, Started) => HonestResults
  <2>1. SUFFICES ASSUME IInv, Faithful(kernel, Started) PROVE HonestResults
    OBVIOUS
  <2>2. PICK k, R : k = kernel /\ R = Started
    OBVIOUS
  <2>3. OnRecord(k.log, k.stored, R) /\ DOMAIN k.log = 1..Len(k.log)
    BY <2>1, <2>2, RecordBetween
  <2>4. ASSUME NEW i \in Events("tool.result")
        PROVE  LET started == \E r \in ran : r.call = Log[i].call IN
               /\ Log[i].why \in {"before", "skipped", "denied", "unknown"} => ~started
               /\ Log[i].why \in {"done", "running", "voided", "interrupted", "unanswered"}
                    => started
    <3>1. i \in 1..Len(k.log) /\ k.log[i].k = "tool.result"
      BY <2>2, <2>3, <2>4 DEF Events, Log
    <3>2. PICK x, why : x = k.log[i].call /\ why = k.log[i].why
      OBVIOUS
    <3>3. Honest(R, x, why)
      BY <2>3, <3>1, <3>2 DEF OnRecord
    <3>4. (x \in R) <=> \E r \in ran : r.call = x
      BY <2>2 DEF Started
    <3>5. x = Log[i].call /\ why = Log[i].why
      BY <2>2, <3>2 DEF Log
    <3> QED
      BY <3>3, <3>4, <3>5 DEF Honest
  <2> QED
    BY <2>4 DEF HonestResults
<1> QED
  BY <1>1, InvariantHolds, RecordHolds, PTL

\* Unless the process crashes, nobody who said something is left unheard when the
\* session rests: a request has seen the message, or the turn that would have heard
\* it was interrupted, given up or stopped on purpose (Session::send, end_turn and
\* its wake in session/turn.rs and interrupt.rs).
THEOREM HeardAtRestAlways == Spec => []HeardAtRest
<1>1. IInv /\ HeedInv => HeardAtRest
  <2>1. SUFFICES ASSUME IInv, HeedInv, crashes = 0, Idle(kernel),
                        NEW m \in Events("message.user")
                 PROVE  \/ \E i \in Events("model.called") : Log[i].seen >= m
                        \/ \E i \in Events("turn.ended") :
                             /\ i > m
                             /\ Log[i].reason \in {"interrupted", "aborted", "restarted"}
    BY DEF HeardAtRest
  <2>2. PICK k : k = kernel
    OBVIOUS
  <2>3. IsSeq(k.log) /\ k.refused = FALSE
    BY <2>1, <2>2 DEF IInv, Linked, InOrder, Rooted, Whole, Sound, IsLog
  <2>4. DOMAIN k.log = 1..Len(k.log)
    BY <2>3, SeqIsFunction
  <2>5. Heeding(k.log, k.turn)
    BY <2>1, <2>2, <2>3 DEF HeedInv, Attentive, Around
  <2>6. ~StillUnheard(k.log, m)
    BY <2>1, <2>2, <2>5 DEF Heeding, WillHear, Idle
  <2>7. m \in 1..Len(k.log) /\ k.log[m].k = "message.user"
    BY <2>1, <2>2, <2>4 DEF Events, Log
  <2>8. PICK i \in 1..Len(k.log) : HeardAt(k.log, m, i) \/ CoveredAt(k.log, m, i)
    BY <2>6, <2>7 DEF StillUnheard
  <2> QED
    BY <2>1, <2>2, <2>4, <2>7, <2>8 DEF HeardAt, CoveredAt, Covering, Events, Log
<1> QED
  BY <1>1, InvariantHolds, HeedHolds, PTL

\* An interruption that keeps or withdraws the queue is the last word on it: no turn
\* opens by anything said before it (interrupt.rs and load.rs, which takes up only
\* what a planned restart ended).
THEOREM StoppedStaysStoppedAlways == Spec => []StoppedStaysStopped
<1>1. IInv /\ HeedInv => StoppedStaysStopped
  <2>1. SUFFICES ASSUME IInv, HeedInv,
                        NEW i \in Events("turn.ended"), NEW t \in Events("turn.started"),
                        i < t, Log[i].reason = "interrupted",
                        Script[Log[i].cause].queued \in {"keep", "return"}
                 PROVE  Log[t].trigger >= i
    BY DEF StoppedStaysStopped
  <2>2. PICK k, g : k = kernel /\ g = Around(kernel.restarting, crashes = 0)
    OBVIOUS
  <2>3. IsLog(k.log) /\ IsSeq(k.log) /\ k.refused = FALSE /\ Clean(k.log)
    BY <2>1, <2>2 DEF IInv, Linked, InOrder, Rooted, Whole, Sound, IsLog
  <2>4. DOMAIN k.log = 1..Len(k.log)
    BY <2>3, SeqIsFunction
  <2>5. Founded(k.log, g)
    BY <2>1, <2>2, <2>3 DEF HeedInv, Attentive
  <2>6. k.log[i].cause \notin g.w
    BY <2>1, <2>2 DEF Around, Sending, Log
  <2>7. /\ i \in 1..Len(k.log) /\ k.log[i].k = "turn.ended" /\ k.log[i].reason = "interrupted"
        /\ t \in 1..Len(k.log) /\ k.log[t].k = "turn.started"
    BY <2>1, <2>2, <2>4 DEF Events, Log
  <2>8. k.log[t].trigger >= i
    BY <2>1, <2>3, <2>5, <2>6, <2>7, StaysStopped
  <2> QED
    BY <2>2, <2>8 DEF Log
<1> QED
  BY <1>1, InvariantHolds, HeedHolds, PTL

\* A turn is taken up again only after a planned restart, and only policy.resumes
\* times in a row (Session::recover in load.rs counts the restarts of a turn).
THEOREM ResumesBoundedAlways == Spec => []ResumesBounded
<1>1. IInv /\ HeedInv => ResumesBounded
  <2>1. SUFFICES ASSUME IInv, HeedInv PROVE ResumesBounded
    OBVIOUS
  <2>2. PICK k, g : k = kernel /\ g = Around(kernel.restarting, crashes = 0)
    OBVIOUS
  <2>3. IsLog(k.log) /\ IsSeq(k.log) /\ k.refused = FALSE /\ Clean(k.log)
    BY <2>1, <2>2 DEF IInv, Linked, InOrder, Rooted, Whole, Sound, IsLog
  <2>4. DOMAIN k.log = 1..Len(k.log)
    BY <2>3, SeqIsFunction
  <2>5. Founded(k.log, g)
    BY <2>1, <2>2, <2>3 DEF HeedInv, Attentive
  <2>6. g.n \in Nat /\ g.n = Scene.policy.resumes
    BY <2>1, <2>2, ScenesAreWellFormed DEF IInv, Around, Scene
  <2>7. Events("turn.started") = Beginnings(k.log) /\ Resumed = TakenUp(k.log)
    BY <2>2, <2>4 DEF Events, Log, Beginnings, Resumed, TakenUp
  <2>8. ASSUME NEW t \in Resumed
        PROVE  /\ Log[Log[t].trigger].reason = "restarted"
               /\ Cardinality({r \in Resumed : r <= t /\ \A u \in Events("turn.started") :
                       r < u /\ u <= t => u \in Resumed}) <= Scene.policy.resumes
    <3>1. k.log[k.log[t].trigger].reason = "restarted" /\ Cardinality(InARow(k.log, t)) <= g.n
      BY <2>3, <2>5, <2>6, <2>7, <2>8, TakenUpSoOften
    <3>2. {r \in Resumed : r <= t /\ \A u \in Events("turn.started") :
             r < u /\ u <= t => u \in Resumed} = InARow(k.log, t)
      BY <2>7 DEF InARow
    <3> QED
      BY <2>2, <2>6, <3>1, <3>2 DEF Log
  <2> QED
    BY <2>8 DEF ResumesBounded
<1> QED
  BY <1>1, InvariantHolds, HeedHolds, PTL

\* Seen from outside, the log of a session is a journal (ledger.rs checks every
\* event, log.rs appends and syncs, open.rs cuts what was torn): it grows by
\* legal events, a crash takes nothing from it that is on disk, and a load goes
\* on from what was left.
THEOREM LogIsAJournal == Spec => KeepsJournal
<1>1. Init => Outside!Init
  <2>1. SUFFICES ASSUME Init PROVE Outside!Init
    OBVIOUS
  <2>2. PICK e : e = Created(Permission)
    OBVIOUS
  <2>3. PICK l : l = kernel.log
    OBVIOUS
  <2>4. l = <<e>> /\ kernel.stored = 1
    BY <2>1, <2>2, <2>3, InitHolds
  <2>5. IsSeq(l) /\ Len(l) = 1 /\ l[1] = e
    BY <2>4, LonelyIsSeq
  <2>6. SubSeq(l, 1, 0) = << >>
    <3>1. IsSeq(SubSeq(l, 1, 0)) /\ Len(SubSeq(l, 1, 0)) = 0
      BY <2>5, BeginningIsSeq
    <3> QED
      BY <3>1, EmptyIsSeq, SameSeq
  <2>7. Legal(BookOf(<< >>), e)
    BY <2>2, CreatedIsLog
  <2>8. \A i \in 1..Len(l) : i = 1 /\ i - 1 = 0
    BY <2>5
  <2>9. Outside!LegalFrom(l, 1)
    BY <2>5, <2>6, <2>7, <2>8, SameBook, SameLegal DEF Outside!LegalFrom
  <2> QED
    BY <2>3, <2>4, <2>5, <2>9 DEF Outside!Init
<1>2. IInv /\ [Next]_vars => [Outside!Next]_(Outside!vars)
  <2>1. SUFFICES ASSUME IInv, [Next]_vars PROVE [Outside!Next]_(Outside!vars)
    OBVIOUS
  <2>2. PICK k, m : k = kernel /\ m = kernel'
    OBVIOUS
  <2>3. /\ IsLog(k.log) /\ IsLog(m.log) /\ Len(k.log) \in Nat /\ Len(m.log) \in Nat
        /\ k.stored \in Nat /\ m.stored \in Nat /\ m.stored <= Len(m.log)
    <3>1. Sound(k) /\ Sound(m)
      BY <2>1, <2>2, StepKeeps DEF IInv
    <3>2. Len(k.log) \in Nat /\ Len(m.log) \in Nat
      BY <3>1, LogLength
    <3> QED
      BY <3>1, <3>2 DEF Sound
  <2>4. CASE Longer(k.log, m.log) /\ m.stored = k.stored
    <3>1. Outside!Extends(m.log, k.log) /\ Outside!LegalFrom(m.log, Len(k.log) + 1)
      BY <2>3, <2>4, LongerIsLegal
    <3>2. CASE m.log = k.log
      BY <2>2, <2>4, <3>2 DEF Outside!vars
    <3>3. CASE m.log # k.log
      BY <2>2, <2>4, <3>1, <3>3 DEF Outside!Next, Outside!AppendBatch
    <3> QED
      BY <3>2, <3>3
  <2>5. CASE m.log = k.log /\ m.stored \in k.stored..Len(k.log)
    <3>1. CASE m.stored = k.stored
      BY <2>2, <2>5, <3>1 DEF Outside!vars
    <3>2. CASE m.stored # k.stored
      <4>1. m.stored \in (k.stored + 1)..Len(k.log)
        BY <2>3, <2>5, <3>2
      <4> QED
        BY <2>2, <2>5, <4>1 DEF Outside!Next, Outside!Sync
    <3> QED
      BY <3>1, <3>2
  <2>6. CASE \E keep \in k.stored..Len(k.log) :
               /\ IsLog(SubSeq(k.log, 1, keep))
               /\ Len(SubSeq(k.log, 1, keep)) = keep
               /\ Longer(SubSeq(k.log, 1, keep), m.log)
               /\ m.stored = keep
    <3>1. PICK keep \in k.stored..Len(k.log) :
               /\ IsLog(SubSeq(k.log, 1, keep))
               /\ Len(SubSeq(k.log, 1, keep)) = keep
               /\ Longer(SubSeq(k.log, 1, keep), m.log)
               /\ m.stored = keep
      BY <2>6
    <3>2. Outside!Extends(m.log, SubSeq(k.log, 1, keep)) /\ Outside!LegalFrom(m.log, keep + 1)
      BY <2>3, <3>1, LongerIsLegal
    <3> QED
      BY <2>2, <3>1, <3>2 DEF Outside!Next, Outside!Reopen
  <2> QED
    BY <2>1, <2>2, <2>4, <2>5, <2>6, StepKeeps DEF Steps
<1> QED
  BY <1>1, <1>2, InvariantHolds, PTL DEF Spec, KeepsJournal, Outside!Spec

=============================================================================
