----------------------------- MODULE TurnProofs -----------------------------
(***************************************************************************)
(* Lemmas about the kernel's handlers: the running turn and the book agree *)
(* about what is open, so that no handler makes an event the ledger        *)
(* refuses; what a load reads from a log; that every command is heard.     *)
(***************************************************************************)
EXTENDS KernelProofs, FiniteSetTheorems, FunctionTheorems

----------------------------------------------------------------------------
(***************************************************************************)
(* Logs of legal events, in which no reply comes while calls of another    *)
(* are open.                                                               *)
(***************************************************************************)
Clean(l) ==
  \A i \in 1..Len(l) :
    /\ Legal(BookOf(SubSeq(l, 1, i - 1)), l[i])
    /\ l[i].k = "message.assistant" => BookOf(SubSeq(l, 1, i - 1)).pending = {}

\* So is every beginning of one.
LEMMA CleanBeginning ==
  ASSUME NEW l, IsLog(l), Clean(l), NEW n \in 0..Len(l)
  PROVE  IsLog(SubSeq(l, 1, n)) /\ Clean(SubSeq(l, 1, n)) /\ Len(SubSeq(l, 1, n)) = n
<1>1. PICK m : m = SubSeq(l, 1, n)
  OBVIOUS
<1>2. IsSeq(l) /\ Len(l) \in Nat
  BY SeqIsFunction DEF IsLog
<1>3. IsSeq(m) /\ Len(m) = n /\ \A i \in 1..n : m[i] = l[i]
  BY <1>1, <1>2, BeginningIsSeq
<1>4. \A i \in 1..n : i \in 1..Len(l)
  BY <1>2
<1>5. IsLog(m)
  BY <1>3, <1>4 DEF IsLog
<1>6. ASSUME NEW i \in 1..Len(m)
      PROVE  /\ Legal(BookOf(SubSeq(m, 1, i - 1)), m[i])
             /\ m[i].k = "message.assistant" => BookOf(SubSeq(m, 1, i - 1)).pending = {}
  <2>1. i \in 1..Len(l) /\ m[i] = l[i]
    BY <1>3, <1>4
  <2>2. i - 1 \in 0..Len(m) /\ i - 1 <= Len(l) /\ \A j \in 1..(i - 1) : m[j] = l[j]
    BY <1>2, <1>3
  <2>3. SubSeq(m, 1, i - 1) = SubSeq(l, 1, i - 1)
    BY <1>2, <1>3, <2>2, SameBeginning
  <2> QED
    BY <2>1, <2>3 DEF Clean
<1> QED
  BY <1>1, <1>3, <1>5, <1>6 DEF Clean

\* And with one legal event more.
LEMMA CleanMore ==
  ASSUME NEW l, IsLog(l), Clean(l), NEW e, Legal(BookOf(l), e),
         e.k = "message.assistant" => IsSeq(e.calls) /\ BookOf(l).pending = {}
  PROVE  Clean(Append(l, e))
<1>1. PICK m : m = Append(l, e)
  OBVIOUS
<1>2. IsSeq(l) /\ Len(l) \in Nat
  BY SeqIsFunction DEF IsLog
<1>3. /\ IsSeq(m) /\ Len(m) = Len(l) + 1 /\ m[Len(l) + 1] = e
      /\ \A i \in 1..Len(l) : m[i] = l[i]
  BY <1>1, <1>2, AppendIsSeq
<1>4. ASSUME NEW i \in 1..Len(m)
      PROVE  /\ Legal(BookOf(SubSeq(m, 1, i - 1)), m[i])
             /\ m[i].k = "message.assistant" => BookOf(SubSeq(m, 1, i - 1)).pending = {}
  <2>1. i - 1 \in 0..Len(m) /\ i - 1 <= Len(l) /\ \A j \in 1..(i - 1) : m[j] = l[j]
    BY <1>2, <1>3
  <2>2. SubSeq(m, 1, i - 1) = SubSeq(l, 1, i - 1)
    BY <1>2, <1>3, <2>1, SameBeginning
  <2>3. CASE i \in 1..Len(l)
    BY <1>3, <2>2, <2>3 DEF Clean
  <2>4. CASE i = Len(l) + 1
    <3>1. SubSeq(l, 1, Len(l)) = l
      <4>1. /\ IsSeq(SubSeq(l, 1, Len(l))) /\ Len(SubSeq(l, 1, Len(l))) = Len(l)
            /\ \A j \in 1..Len(l) : SubSeq(l, 1, Len(l))[j] = l[j]
        BY <1>2, BeginningIsSeq
      <4> QED
        BY <1>2, <4>1, SameSeq
    <3>2. SubSeq(m, 1, i - 1) = l /\ m[i] = e
      BY <1>2, <1>3, <2>2, <2>4, <3>1
    <3> QED
      BY <3>2
  <2> QED
    BY <1>2, <1>3, <2>3, <2>4
<1> QED
  BY <1>1, <1>4 DEF Clean

\* What the book of such a log says of open calls and of the queue.
Tidy(b, l) ==
  /\ Shaped(b)
  /\ b.open \in 0..Len(l)
  /\ b.lastReply \in 0..Len(l)
  /\ b.asking \subseteq b.pending /\ b.questioning \subseteq b.pending
  /\ b.queued \subseteq 1..Len(l)
  /\ b.open = 0 => b.pending = {} /\ b.queued = {}
  /\ b.pending # {} =>
       /\ b.lastReply # 0 /\ l[b.lastReply].k = "message.assistant"
       /\ b.pending \subseteq Range(l[b.lastReply].calls)
       /\ \A i \in DOMAIN l[b.lastReply].calls : l[b.lastReply].calls[i] = <<b.lastReply, i>>

\* One event more.
LEMMA TidyStep ==
  ASSUME NEW n \in Nat, NEW b, NEW l, Len(l) = n, Tidy(b, l), b.next = n + 1,
         NEW m, Len(m) = n + 1, \A i \in 1..n : m[i] = l[i],
         Legal(b, m[n + 1]),
         m[n + 1].k = "message.assistant" => b.pending = {}
  PROVE  Tidy(Record(b, m[n + 1]), m)
<1>1. PICK e : e = m[n + 1]
  OBVIOUS
<1>2. PICK r : r = Record(b, e)
  OBVIOUS
<1>3. Shaped(b) /\ e.seq = n + 1 /\ LegalTurn(b, e) /\ LegalBody(b, e)
  BY <1>1 DEF Tidy, Legal
<1>4. /\ Shaped(r)
      /\ r.open = IF e.k = "turn.started" THEN n + 1
                  ELSE IF e.k = "turn.ended" THEN 0 ELSE b.open
      /\ r.lastReply = IF e.k = "message.assistant" THEN n + 1 ELSE b.lastReply
  <2>1. /\ Shaped(Record(b, e))
        /\ Record(b, e).open = IF e.k = "turn.started" THEN e.seq
                                ELSE IF e.k = "turn.ended" THEN 0 ELSE b.open
        /\ Record(b, e).lastReply = IF e.k = "message.assistant" THEN e.seq ELSE b.lastReply
    BY <1>3, RecordNumbers
  <2> QED
    BY <1>2, <1>3, <2>1
<1>5. r.pending = IF e.k = "message.assistant" THEN b.pending \union Range(e.calls)
                  ELSE IF e.k = "tool.result" THEN b.pending \ {e.call} ELSE b.pending
  <2>1. Record(b, e).pending =
           IF e.k = "message.assistant" THEN b.pending \union Range(e.calls)
           ELSE IF e.k = "tool.result" THEN b.pending \ {e.call}
           ELSE b.pending
    BY <1>3, RecordPending
  <2> QED
    BY <1>2, <2>1
<1>6. /\ r.asking =
              IF e.k = "approval.requested" THEN b.asking \union {e.call}
              ELSE IF e.k \in {"approval.decided", "tool.result"}
                THEN b.asking \ {e.call}
              ELSE b.asking
      /\ r.questioning =
              IF e.k = "question.asked" THEN b.questioning \union {e.call}
              ELSE IF e.k \in {"question.answered", "tool.result"}
                THEN b.questioning \ {e.call}
              ELSE b.questioning
  <2>1. /\ Record(b, e).asking =
              IF e.k = "approval.requested" THEN b.asking \union {e.call}
              ELSE IF e.k \in {"approval.decided", "tool.result"}
                THEN b.asking \ {e.call}
              ELSE b.asking
        /\ Record(b, e).questioning =
              IF e.k = "question.asked" THEN b.questioning \union {e.call}
              ELSE IF e.k \in {"question.answered", "tool.result"}
                THEN b.questioning \ {e.call}
              ELSE b.questioning
    BY <1>3, RecordAsking
  <2> QED
    BY <1>2, <2>1
<1>7. r.queued =
           IF e.k \in {"turn.started", "turn.ended"} THEN {}
           ELSE IF e.k = "message.user" /\ e.turn # 0 /\ e.turn = b.open
             THEN b.queued \union {n + 1}
           ELSE IF e.k = "message.withdrawn" THEN b.queued \ Range(e.msgs)
           ELSE IF e.k = "message.assistant" \/ (e.k = "model.called" /\ ~e.aside)
             THEN {q \in b.queued : q > e.seen}
           ELSE b.queued
  <2>1. Record(b, e).queued =
           IF e.k \in {"turn.started", "turn.ended"} THEN {}
           ELSE IF e.k = "message.user" /\ e.turn # 0 /\ e.turn = b.open
             THEN b.queued \union {e.seq}
           ELSE IF e.k = "message.withdrawn" THEN b.queued \ Range(e.msgs)
           ELSE IF e.k = "message.assistant" \/ (e.k = "model.called" /\ ~e.aside)
             THEN {q \in b.queued : q > e.seen}
           ELSE b.queued
    BY <1>3, RecordQueue
  <2> QED
    BY <1>2, <1>3, <2>1
<1>8. /\ b.open \in 0..n /\ b.lastReply \in 0..n
      /\ b.asking \subseteq b.pending /\ b.questioning \subseteq b.pending
      /\ b.queued \subseteq 1..n
      /\ b.open = 0 => b.pending = {} /\ b.queued = {}
      /\ b.pending # {} =>
           /\ b.lastReply # 0 /\ l[b.lastReply].k = "message.assistant"
           /\ b.pending \subseteq Range(l[b.lastReply].calls)
           /\ \A i \in DOMAIN l[b.lastReply].calls : l[b.lastReply].calls[i] = <<b.lastReply, i>>
  BY DEF Tidy
<1>9. r.open \in 0..(n + 1) /\ r.lastReply \in 0..(n + 1)
  BY <1>4, <1>8
<1>10. /\ e.k = "approval.requested" => e.call \in b.pending
       /\ e.k = "question.asked" => e.call \in b.pending
       /\ e.k = "turn.ended" => b.pending = {}
       /\ e.k = "message.assistant" => \A i \in DOMAIN e.calls : e.calls[i] = <<n + 1, i>>
  BY <1>3 DEF LegalBody
<1>11. r.asking \subseteq r.pending /\ r.questioning \subseteq r.pending
  BY <1>5, <1>6, <1>8, <1>10
<1>12. r.queued \subseteq 1..(n + 1)
  <2>1. b.queued \subseteq 1..(n + 1) /\ n + 1 \in 1..(n + 1)
    BY <1>8
  <2> QED
    BY <1>7, <2>1
<1>13. r.open = 0 => r.pending = {} /\ r.queued = {}
  <2>1. e.k \in {"message.assistant", "turn.ended"} => e.turn # 0 /\ e.turn = b.open
    BY <1>3 DEF LegalTurn, InTurnOnly
  <2>2. CASE e.k = "turn.started"
    BY <1>4, <2>2
  <2>3. CASE e.k = "turn.ended"
    BY <1>5, <1>7, <1>10, <2>3
  <2>4. CASE e.k \notin {"turn.started", "turn.ended"}
    <3>1. r.open = b.open
      BY <1>4, <2>4
    <3>2. CASE b.open # 0
      BY <3>1, <3>2
    <3>3. CASE b.open = 0
      <4>1. e.k # "message.assistant" /\ b.pending = {} /\ b.queued = {}
        BY <1>8, <2>1, <3>3
      <4>2. r.pending = {}
        BY <1>5, <4>1
      <4>3. r.queued = {}
        BY <1>7, <3>3, <4>1
      <4> QED
        BY <4>2, <4>3
    <3> QED
      BY <3>2, <3>3
  <2> QED
    BY <2>2, <2>3, <2>4
<1>14. r.pending # {} =>
         /\ r.lastReply # 0 /\ m[r.lastReply].k = "message.assistant"
         /\ r.pending \subseteq Range(m[r.lastReply].calls)
         /\ \A i \in DOMAIN m[r.lastReply].calls : m[r.lastReply].calls[i] = <<r.lastReply, i>>
  <2>1. CASE e.k = "message.assistant"
    <3>1. b.pending = {}
      BY <1>1, <2>1
    <3>2. r.pending = Range(e.calls) /\ r.lastReply = n + 1
      BY <1>4, <1>5, <2>1, <3>1
    <3> QED
      BY <1>1, <1>10, <2>1, <3>2
  <2>2. CASE e.k # "message.assistant"
    <3>1. r.pending \subseteq b.pending /\ r.lastReply = b.lastReply
      BY <1>4, <1>5, <2>2
    <3>2. CASE b.pending = {}
      BY <3>1, <3>2
    <3>3. CASE b.pending # {}
      <4>1. b.lastReply \in 1..n
        BY <1>8, <3>3
      <4>2. m[b.lastReply] = l[b.lastReply]
        BY <4>1
      <4> QED
        BY <1>8, <3>1, <3>3, <4>2
    <3> QED
      BY <3>2, <3>3
  <2> QED
    BY <2>1, <2>2
<1> QED
  BY <1>1, <1>2, <1>4, <1>9, <1>11, <1>12, <1>13, <1>14 DEF Tidy

LEMMA CleanIsTidy ==
  ASSUME NEW l, IsLog(l), Clean(l)
  PROVE  Tidy(BookOf(l), l)
<1>1. PICK v : /\ v[0] = EmptyBook /\ BookOf(l) = v[Len(l)]
               /\ \A k \in 1..Len(l) : v[k] = Record(v[k - 1], l[k])
  BY BookChain DEF IsLog
<1> DEFINE n == Len(l)
           A == {k \in 0..n : Tidy(v[k], SubSeq(l, 1, k)) /\ v[k].next = k + 1}
<1>2. n \in Nat /\ IsSeq(l)
  BY SeqIsFunction DEF IsLog
<1>3. ASSUME NEW k \in 0..n
      PROVE  /\ IsSeq(SubSeq(l, 1, k)) /\ Len(SubSeq(l, 1, k)) = k
             /\ \A i \in 1..k : SubSeq(l, 1, k)[i] = l[i]
  BY <1>2, BeginningIsSeq
<1>4. 0 \in A
  <2>1. Tidy(EmptyBook, SubSeq(l, 1, 0))
    <3>1. PICK m : m = SubSeq(l, 1, 0)
      OBVIOUS
    <3>2. Len(m) = 0
      BY <1>2, <1>3, <3>1
    <3>3. Shaped(EmptyBook)
      BY DEF EmptyBook, Shaped, Fields
    <3>4. /\ EmptyBook.open = 0 /\ EmptyBook.lastReply = 0 /\ EmptyBook.pending = {}
          /\ EmptyBook.asking = {} /\ EmptyBook.questioning = {} /\ EmptyBook.queued = {}
      BY DEF EmptyBook
    <3>5. Tidy(EmptyBook, m)
      BY <3>2, <3>3, <3>4 DEF Tidy
    <3> QED
      BY <3>1, <3>5
  <2>2. EmptyBook.next = 1
    BY DEF EmptyBook
  <2> QED
    BY <1>1, <1>2, <2>1, <2>2
<1>5. ASSUME NEW k \in 1..n, k - 1 \in A PROVE k \in A
  <2>1. PICK b, e, i : b = v[k - 1] /\ e = l[k] /\ i = k - 1
    OBVIOUS
  <2>2. PICK p, m : p = SubSeq(l, 1, i) /\ m = SubSeq(l, 1, k)
    OBVIOUS
  <2>3. i \in Nat /\ i \in 0..n /\ k \in 0..n /\ k = i + 1 /\ k \in 1..k
    BY <1>2, <2>1
  <2>4. Tidy(b, p) /\ b.next = i + 1
    BY <1>5, <2>1, <2>2
  <2>5. /\ IsSeq(p) /\ Len(p) = i /\ \A j \in 1..i : p[j] = l[j]
        /\ IsSeq(m) /\ Len(m) = k /\ \A j \in 1..k : m[j] = l[j]
    BY <1>3, <2>2, <2>3
  <2>6. b = BookOf(p)
    <3>1. BookOf(SubSeq(l, 1, i)) = v[i]
      BY <1>1, <1>2, <2>3, BookOfBeginning
    <3> QED
      BY <2>1, <2>2, <3>1
  <2>7. Legal(b, e) /\ (e.k = "message.assistant" => b.pending = {})
    BY <2>1, <2>2, <2>6 DEF Clean
  <2>8. m[i + 1] = e /\ Len(m) = i + 1 /\ \A j \in 1..i : m[j] = p[j]
    BY <2>1, <2>3, <2>5
  <2>9. Tidy(Record(b, m[i + 1]), m)
    BY <2>3, <2>4, <2>5, <2>7, <2>8, TidyStep
  <2>10. e.seq = k
    BY <2>1, <2>3 DEF IsLog, IsEvent
  <2>11. Record(b, e).next = k + 1
    BY <2>4, <2>10, RecordNumbers DEF Tidy
  <2>12. v[k] = Record(b, e)
    BY <1>1, <2>1
  <2> QED
    BY <2>2, <2>3, <2>8, <2>9, <2>11, <2>12
<1>6. n \in A
  <2> HIDE DEF A, n
  <2>1. 0..n \subseteq A
    BY <1>2, <1>4, <1>5, Upwards
  <2> QED
    BY <1>2, <2>1
<1>7. SubSeq(l, 1, n) = l
  <2>1. n \in 0..n
    BY <1>2
  <2>2. /\ IsSeq(SubSeq(l, 1, n)) /\ Len(SubSeq(l, 1, n)) = n
        /\ \A j \in 1..n : SubSeq(l, 1, n)[j] = l[j]
    BY <1>3, <2>1
  <2> QED
    BY <1>2, <2>2, SameSeq
<1> QED
  BY <1>1, <1>6, <1>7

----------------------------------------------------------------------------
(***************************************************************************)
(* Recording legal events.                                                 *)
(***************************************************************************)
Whole(s) == Sound(s) /\ s.refused = FALSE /\ Len(s.log) >= 1 /\ Clean(s.log)

\* Nothing but what is on record is changed.
Beside(s, t) ==
  /\ t.turn = s.turn /\ t.stored = s.stored
  /\ t.waiting = s.waiting /\ t.recent = s.recent /\ t.replies = s.replies
  /\ t.policy = s.policy /\ t.perm = s.perm /\ t.eff = s.eff
  /\ t.closing = s.closing /\ t.restarting = s.restarting /\ t.out = s.out

LEMMA WholeBook ==
  ASSUME NEW s, Whole(s)
  PROVE  /\ Tidy(s.book, s.log) /\ s.book.next = Len(s.log) + 1
         /\ Len(s.log) \in Nat \ {0}
<1>1. IsLog(s.log) /\ s.book = BookOf(s.log) /\ Len(s.log) \in Nat
  BY LogLength DEF Whole, Sound
<1>2. Tidy(BookOf(s.log), s.log)
  BY <1>1, CleanIsTidy DEF Whole
<1>3. BookOf(s.log).next = Len(s.log) + 1
  BY <1>1, BookOfLog
<1> QED
  BY <1>1, <1>2, <1>3 DEF Whole

LEMMA PutLegal ==
  ASSUME NEW s, Whole(s), NEW cause, NEW body, Fine(body), NEW e,
         e = Event(s.book.next,
                   IF body.k = "turn.started" THEN s.book.next ELSE s.turn.id,
                   cause, body),
         Legal(s.book, e), e.k = "message.assistant" => s.book.pending = {}
  PROVE  LET t == Put(s, cause, body) IN
         /\ Whole(t) /\ Beside(s, t)
         /\ t.log = Append(s.log, e) /\ t.book = Record(s.book, e)
         /\ Len(t.log) = Len(s.log) + 1
<1>1. PICK t : t = Put(s, cause, body)
  OBVIOUS
<1>2. t = [s EXCEPT !.log = Append(s.log, e), !.book = Record(s.book, e)]
  BY <1>1 DEF Put, Commit
<1>3. DOMAIN s = KernelFields
  BY DEF Whole, Sound, Shapely
<1>4. /\ Beside(s, t) /\ t.refused = s.refused
      /\ t.log = Append(s.log, e) /\ t.book = Record(s.book, e)
  BY <1>2, <1>3 DEF Beside, KernelFields
<1>5. Sound(t)
  BY <1>1, PutOnward DEF Whole
<1>6. PICK l : l = s.log
  OBVIOUS
<1>7. IsLog(l) /\ Clean(l) /\ s.book = BookOf(l) /\ Len(l) \in Nat /\ Len(l) >= 1
  BY <1>6, LogLength DEF Whole, Sound
<1>8. e.k = "message.assistant" => IsSeq(e.calls)
  BY DEF Fine, Event
<1>9. Clean(Append(l, e))
  BY <1>7, <1>8, CleanMore
<1>10. Len(Append(l, e)) = Len(l) + 1
  BY <1>7, AppendIsSeq DEF IsLog
<1>11. Whole(t)
  BY <1>4, <1>5, <1>6, <1>7, <1>9, <1>10 DEF Whole
<1> QED
  BY <1>1, <1>4, <1>6, <1>10, <1>11

\* No turn is opened or ended, no call opened or closed.
AsOpen(b, c) ==
  /\ c.open = b.open /\ c.lastReply = b.lastReply /\ c.pending = b.pending
  /\ c.asking = b.asking /\ c.questioning = b.questioning

\* What recording did: one legal event, and the rest stays.
Puts(s, t) == Whole(t) /\ Beside(s, t) /\ Len(t.log) = Len(s.log) + 1

\* What the book remembers of an event, field by field.
Remembers(b, e, r) ==
  /\ r.open = IF e.k = "turn.started" THEN e.seq
              ELSE IF e.k = "turn.ended" THEN 0 ELSE b.open
  /\ r.lastReply = IF e.k = "message.assistant" THEN e.seq ELSE b.lastReply
  /\ r.pending = IF e.k = "message.assistant" THEN b.pending \union Range(e.calls)
                 ELSE IF e.k = "tool.result" THEN b.pending \ {e.call} ELSE b.pending
  /\ r.asking = IF e.k = "approval.requested" THEN b.asking \union {e.call}
                ELSE IF e.k \in {"approval.decided", "tool.result"}
                  THEN b.asking \ {e.call}
                ELSE b.asking
  /\ r.questioning = IF e.k = "question.asked" THEN b.questioning \union {e.call}
                     ELSE IF e.k \in {"question.answered", "tool.result"}
                       THEN b.questioning \ {e.call}
                     ELSE b.questioning
  /\ r.queued =
       IF e.k \in {"turn.started", "turn.ended"} THEN {}
       ELSE IF e.k = "message.user" /\ e.turn # 0 /\ e.turn = b.open
         THEN b.queued \union {e.seq}
       ELSE IF e.k = "message.withdrawn" THEN b.queued \ Range(e.msgs)
       ELSE IF e.k = "message.assistant" \/ (e.k = "model.called" /\ ~e.aside)
         THEN {q \in b.queued : q > e.seen}
       ELSE b.queued

LEMMA RecordAll ==
  ASSUME NEW b, Shaped(b), NEW e
  PROVE  Remembers(b, e, Record(b, e))
BY RecordNumbers, RecordPending, RecordAsking, RecordQueue DEF Remembers

\* Facts, and changes of the permission.
LEMMA PutAside ==
  ASSUME NEW s, Whole(s), s.turn.id = s.book.open, NEW cause, NEW body, Fine(body),
         body.k \in {"context.injected", "policy.changed"}
  PROVE  LET t == Put(s, cause, body) IN
         Puts(s, t) /\ AsOpen(s.book, t.book) /\ t.book.queued = s.book.queued
<1>1. PICK e : e = Event(s.book.next,
                   IF body.k = "turn.started" THEN s.book.next ELSE s.turn.id,
                   cause, body)
  OBVIOUS
<1>2. e.seq = s.book.next /\ e.turn = s.turn.id /\ e.k = body.k
  BY <1>1, EventIs DEF Fine
<1>3. s.book.next = Len(s.log) + 1 /\ Len(s.log) \in Nat \ {0} /\ Shaped(s.book)
  BY WholeBook DEF Tidy
<1>4. Legal(s.book, e)
  BY <1>2, <1>3 DEF Legal, LegalTurn, LegalBody, InTurnOnly
<1>5. PICK t : t = Put(s, cause, body)
  OBVIOUS
<1>6. Puts(s, t) /\ t.book = Record(s.book, e)
  BY <1>1, <1>2, <1>4, <1>5, PutLegal DEF Puts
<1>7. AsOpen(s.book, Record(s.book, e)) /\ Record(s.book, e).queued = s.book.queued
  <2>1. Remembers(s.book, e, Record(s.book, e))
    BY <1>3, RecordAll
  <2> QED
    BY <1>2, <1>3, <2>1 DEF Remembers, AsOpen
<1> QED
  BY <1>5, <1>6, <1>7

\* A message: inside a turn it is queued.
LEMMA PutMessage ==
  ASSUME NEW s, Whole(s), s.turn.id = s.book.open, NEW cause, NEW body, Fine(body),
         body.k = "message.user"
  PROVE  LET t == Put(s, cause, body) IN
         /\ Puts(s, t) /\ AsOpen(s.book, t.book)
         /\ t.book.queued = IF s.turn.id # 0 THEN s.book.queued \union {s.book.next}
                                             ELSE s.book.queued
<1>1. PICK e : e = Event(s.book.next,
                   IF body.k = "turn.started" THEN s.book.next ELSE s.turn.id,
                   cause, body)
  OBVIOUS
<1>2. e.seq = s.book.next /\ e.turn = s.turn.id /\ e.k = "message.user"
  BY <1>1, EventIs DEF Fine
<1>3. s.book.next = Len(s.log) + 1 /\ Len(s.log) \in Nat \ {0} /\ Shaped(s.book)
  BY WholeBook DEF Tidy
<1>4. Legal(s.book, e)
  BY <1>2, <1>3 DEF Legal, LegalTurn, LegalBody, InTurnOnly
<1>5. PICK t : t = Put(s, cause, body)
  OBVIOUS
<1>6. Puts(s, t) /\ t.book = Record(s.book, e)
  BY <1>1, <1>2, <1>4, <1>5, PutLegal DEF Puts
<1>7. /\ AsOpen(s.book, Record(s.book, e))
      /\ Record(s.book, e).queued = IF s.turn.id # 0 THEN s.book.queued \union {s.book.next}
                                                     ELSE s.book.queued
  <2>1. Remembers(s.book, e, Record(s.book, e))
    BY <1>3, RecordAll
  <2> QED
    BY <1>2, <1>3, <2>1 DEF Remembers, AsOpen
<1> QED
  BY <1>5, <1>6, <1>7

\* A turn is opened by something before it.
LEMMA PutStarted ==
  ASSUME NEW s, Whole(s), s.book.open = 0, NEW trigger, trigger < s.book.next, NEW cause
  PROVE  LET t == Put(s, cause, [k |-> "turn.started", trigger |-> trigger,
                                 triggers |-> << >>]) IN
         /\ Puts(s, t)
         /\ t.book.open = s.book.next /\ t.book.lastReply = s.book.lastReply
         /\ t.book.pending = {} /\ t.book.asking = {} /\ t.book.questioning = {}
         /\ t.book.queued = {}
<1>0. PICK body : body = [k |-> "turn.started", trigger |-> trigger, triggers |-> << >>]
  OBVIOUS
<1>1. PICK e : e = Event(s.book.next,
                   IF body.k = "turn.started" THEN s.book.next ELSE s.turn.id,
                   cause, body)
  OBVIOUS
<1>2. /\ e.seq = s.book.next /\ e.turn = s.book.next /\ e.k = "turn.started"
      /\ e.trigger = trigger /\ e.triggers = << >>
  BY <1>0, <1>1, EventIs
<1>3. /\ s.book.next = Len(s.log) + 1 /\ Len(s.log) \in Nat \ {0} /\ Shaped(s.book)
      /\ s.book.pending = {} /\ s.book.asking = {} /\ s.book.questioning = {}
  BY WholeBook DEF Tidy
<1>4. Legal(s.book, e)
  BY <1>2, <1>3 DEF Legal, LegalTurn, LegalBody, LegalStart
<1>5. PICK t : t = Put(s, cause, body)
  OBVIOUS
<1>6. Fine(body)
  BY <1>0 DEF Fine
<1>7. Puts(s, t) /\ t.book = Record(s.book, e)
  BY <1>1, <1>2, <1>4, <1>5, <1>6, PutLegal DEF Puts
<1>8. LET r == Record(s.book, e) IN
      /\ r.open = s.book.next /\ r.lastReply = s.book.lastReply
      /\ r.pending = {} /\ r.asking = {} /\ r.questioning = {} /\ r.queued = {}
  <2>1. Remembers(s.book, e, Record(s.book, e))
    BY <1>3, RecordAll
  <2> QED
    BY <1>2, <1>3, <2>1 DEF Remembers
<1> QED
  BY <1>0, <1>5, <1>7, <1>8

\* A turn ends when no call is open.
LEMMA PutEnded ==
  ASSUME NEW s, Whole(s), s.turn.id = s.book.open, s.book.open # 0, s.book.pending = {},
         NEW cause, NEW reason
  PROVE  LET t == Put(s, cause, [k |-> "turn.ended", reason |-> reason]) IN
         /\ Puts(s, t)
         /\ t.book.open = 0 /\ t.book.lastReply = s.book.lastReply
         /\ t.book.pending = {} /\ t.book.asking = {} /\ t.book.questioning = {}
         /\ t.book.queued = {}
<1>0. PICK body : body = [k |-> "turn.ended", reason |-> reason]
  OBVIOUS
<1>1. PICK e : e = Event(s.book.next,
                   IF body.k = "turn.started" THEN s.book.next ELSE s.turn.id,
                   cause, body)
  OBVIOUS
<1>2. e.seq = s.book.next /\ e.turn = s.turn.id /\ e.k = "turn.ended"
  BY <1>0, <1>1, EventIs
<1>3. /\ s.book.next = Len(s.log) + 1 /\ Len(s.log) \in Nat \ {0} /\ Shaped(s.book)
      /\ s.book.asking = {} /\ s.book.questioning = {}
  BY WholeBook DEF Tidy
<1>4. Legal(s.book, e)
  BY <1>2, <1>3 DEF Legal, LegalTurn, LegalBody, InTurnOnly
<1>5. PICK t : t = Put(s, cause, body)
  OBVIOUS
<1>6. Fine(body)
  BY <1>0 DEF Fine
<1>7. Puts(s, t) /\ t.book = Record(s.book, e)
  BY <1>1, <1>2, <1>4, <1>5, <1>6, PutLegal DEF Puts
<1>8. LET r == Record(s.book, e) IN
      /\ r.open = 0 /\ r.lastReply = s.book.lastReply
      /\ r.pending = {} /\ r.asking = {} /\ r.questioning = {} /\ r.queued = {}
  <2>1. Remembers(s.book, e, Record(s.book, e))
    BY <1>3, RecordAll
  <2> QED
    BY <1>2, <1>3, <2>1 DEF Remembers
<1> QED
  BY <1>0, <1>5, <1>7, <1>8

\* Queued messages are withdrawn.
LEMMA PutWithdrawn ==
  ASSUME NEW s, Whole(s), s.turn.id = s.book.open, s.book.open # 0,
         NEW cause, NEW msgs, msgs # << >>,
         \A i \in DOMAIN msgs : msgs[i] \in s.book.queued,
         \A i, j \in DOMAIN msgs : msgs[i] = msgs[j] => i = j
  PROVE  LET t == Put(s, cause, [k |-> "message.withdrawn", msgs |-> msgs]) IN
         Puts(s, t) /\ AsOpen(s.book, t.book)
<1>0. PICK body : body = [k |-> "message.withdrawn", msgs |-> msgs]
  OBVIOUS
<1>1. PICK e : e = Event(s.book.next,
                   IF body.k = "turn.started" THEN s.book.next ELSE s.turn.id,
                   cause, body)
  OBVIOUS
<1>2. e.seq = s.book.next /\ e.turn = s.turn.id /\ e.k = "message.withdrawn" /\ e.msgs = msgs
  BY <1>0, <1>1, EventIs
<1>3. s.book.next = Len(s.log) + 1 /\ Len(s.log) \in Nat \ {0} /\ Shaped(s.book)
  BY WholeBook DEF Tidy
<1>4. Legal(s.book, e)
  BY <1>2, <1>3 DEF Legal, LegalTurn, LegalBody, InTurnOnly
<1>5. PICK t : t = Put(s, cause, body)
  OBVIOUS
<1>6. Fine(body)
  BY <1>0 DEF Fine
<1>7. Puts(s, t) /\ t.book = Record(s.book, e)
  BY <1>1, <1>2, <1>4, <1>5, <1>6, PutLegal DEF Puts
<1>8. AsOpen(s.book, Record(s.book, e))
  <2>1. Remembers(s.book, e, Record(s.book, e))
    BY <1>3, RecordAll
  <2> QED
    BY <1>2, <1>3, <2>1 DEF Remembers, AsOpen
<1> QED
  BY <1>0, <1>5, <1>7, <1>8

\* What is still queued behind what a request has seen.
Unheard(queued, seen) == {q \in queued : q > seen}

ReplyBody(seen, calls) ==
  [k |-> "message.assistant", seen |-> seen, calls |-> calls]

\* What recording a reply did.
Replied(s, t, seen, calls) ==
  /\ Puts(s, t)
  /\ t.book.open = s.book.open /\ t.book.lastReply = s.book.next
  /\ t.book.pending = Range(calls) /\ t.book.asking = {} /\ t.book.questioning = {}
  /\ t.book.queued = Unheard(s.book.queued, seen)

\* A reply that has seen everything before it.
LEMMA PutReply ==
  ASSUME NEW s, Whole(s), s.turn.id = s.book.open, s.book.open # 0, s.book.pending = {},
         NEW cause, NEW seen \in s.book.lastReply..Len(s.log), NEW calls, IsSeq(calls),
         \A i \in DOMAIN calls : calls[i] = <<s.book.next, i>>
  PROVE  Replied(s, Put(s, cause, ReplyBody(seen, calls)), seen, calls)
<1>0. PICK body : body = [k |-> "message.assistant", seen |-> seen, calls |-> calls]
  OBVIOUS
<1>5. PICK t : t = Put(s, cause, body)
  OBVIOUS
<1>1. PICK e : e = Event(s.book.next,
                   IF body.k = "turn.started" THEN s.book.next ELSE s.turn.id,
                   cause, body)
  OBVIOUS
<1>2. /\ e.seq = s.book.next /\ e.turn = s.turn.id /\ e.k = "message.assistant"
      /\ e.seen = seen /\ e.calls = calls
  BY <1>0, <1>1, EventIs
<1>3. /\ s.book.next = Len(s.log) + 1 /\ Len(s.log) \in Nat \ {0} /\ Shaped(s.book)
      /\ s.book.asking = {} /\ s.book.questioning = {} /\ s.book.lastReply \in 0..Len(s.log)
  BY WholeBook DEF Tidy
<1>4. Legal(s.book, e)
  BY <1>2, <1>3 DEF Legal, LegalTurn, LegalBody, InTurnOnly
<1>6. Fine(body)
  BY <1>0 DEF Fine
<1>7. Puts(s, t) /\ t.book = Record(s.book, e)
  BY <1>1, <1>2, <1>4, <1>5, <1>6, PutLegal DEF Puts
<1>8. LET r == Record(s.book, e) IN
      /\ r.open = s.book.open /\ r.lastReply = s.book.next
      /\ r.pending = Range(calls) /\ r.asking = {} /\ r.questioning = {}
      /\ r.queued = Unheard(s.book.queued, seen)
  <2>1. Remembers(s.book, e, Record(s.book, e))
    BY <1>3, RecordAll
  <2> QED
    BY <1>2, <1>3, <2>1 DEF Remembers, Unheard
<1> QED
  BY <1>0, <1>5, <1>7, <1>8 DEF Replied, ReplyBody

\* The end of a request.
LEMMA PutCalled ==
  ASSUME NEW s, Whole(s), s.turn.id = s.book.open,
         NEW cause, NEW seen \in 0..Len(s.log), NEW result
  PROVE  LET t == Put(s, cause, [k |-> "model.called", seen |-> seen, aside |-> FALSE,
                                 result |-> result]) IN
         /\ Puts(s, t) /\ AsOpen(s.book, t.book)
         /\ t.book.queued = Unheard(s.book.queued, seen)
<1>0. PICK body : body = [k |-> "model.called", seen |-> seen, aside |-> FALSE,
                          result |-> result]
  OBVIOUS
<1>1. PICK e : e = Event(s.book.next,
                   IF body.k = "turn.started" THEN s.book.next ELSE s.turn.id,
                   cause, body)
  OBVIOUS
<1>2. /\ e.seq = s.book.next /\ e.turn = s.turn.id /\ e.k = "model.called"
      /\ e.seen = seen /\ e.aside = FALSE
  BY <1>0, <1>1, EventIs
<1>3. s.book.next = Len(s.log) + 1 /\ Len(s.log) \in Nat \ {0} /\ Shaped(s.book)
  BY WholeBook DEF Tidy
<1>4. Legal(s.book, e)
  BY <1>2, <1>3 DEF Legal, LegalTurn, LegalBody, InTurnOnly
<1>5. PICK t : t = Put(s, cause, body)
  OBVIOUS
<1>6. Fine(body)
  BY <1>0 DEF Fine
<1>7. Puts(s, t) /\ t.book = Record(s.book, e)
  BY <1>1, <1>2, <1>4, <1>5, <1>6, PutLegal DEF Puts
<1>8. /\ AsOpen(s.book, Record(s.book, e))
      /\ Record(s.book, e).queued = Unheard(s.book.queued, seen)
  <2>1. Remembers(s.book, e, Record(s.book, e))
    BY <1>3, RecordAll
  <2> QED
    BY <1>2, <1>3, <2>1 DEF Remembers, Unheard, AsOpen
<1> QED
  BY <1>0, <1>5, <1>7, <1>8

\* An event about an open call: its result, a request or a decision of a person.
OfCall(b, body) ==
  \/ body.k = "tool.result" /\ body.call \in b.pending
  \/ body.k = "approval.requested" /\ body.call \in b.pending \ b.asking
  \/ body.k = "approval.decided" /\ body.call \in b.asking
  \/ body.k = "question.asked" /\ body.call \in b.pending \ b.questioning
  \/ body.k = "question.answered" /\ body.call \in b.questioning

TakesNote(s, t, body) ==
  /\ Puts(s, t)
  /\ t.book.open = s.book.open /\ t.book.lastReply = s.book.lastReply
  /\ t.book.queued = s.book.queued
  /\ t.book.pending = IF body.k = "tool.result" THEN s.book.pending \ {body.call}
                                                ELSE s.book.pending
  /\ t.book.asking =
       IF body.k = "approval.requested" THEN s.book.asking \union {body.call}
       ELSE IF body.k \in {"approval.decided", "tool.result"}
         THEN s.book.asking \ {body.call}
       ELSE s.book.asking
  /\ t.book.questioning =
       IF body.k = "question.asked" THEN s.book.questioning \union {body.call}
       ELSE IF body.k \in {"question.answered", "tool.result"}
         THEN s.book.questioning \ {body.call}
       ELSE s.book.questioning

LEMMA PutOfCall ==
  ASSUME NEW s, Whole(s), s.turn.id = s.book.open, s.book.open # 0,
         NEW cause, NEW body, Fine(body), {"k", "call"} \subseteq DOMAIN body,
         OfCall(s.book, body)
  PROVE  TakesNote(s, Put(s, cause, body), body)
<1>1. PICK e : e = Event(s.book.next,
                   IF body.k = "turn.started" THEN s.book.next ELSE s.turn.id,
                   cause, body)
  OBVIOUS
<1>2. e.seq = s.book.next /\ e.turn = s.turn.id /\ e.k = body.k /\ e.call = body.call
  BY <1>1, EventIs DEF OfCall
<1>3. s.book.next = Len(s.log) + 1 /\ Len(s.log) \in Nat \ {0} /\ Shaped(s.book)
  BY WholeBook DEF Tidy
<1>4. Legal(s.book, e)
  BY <1>2, <1>3 DEF OfCall, Legal, LegalTurn, LegalBody, InTurnOnly
<1>5. PICK t : t = Put(s, cause, body)
  OBVIOUS
<1>6. e.k # "message.assistant" /\ e.k # "turn.started"
  BY <1>2 DEF OfCall
<1>7. Puts(s, t) /\ t.book = Record(s.book, e)
  BY <1>1, <1>4, <1>5, <1>6, PutLegal DEF Puts
<1>8. PICK r : r = Record(s.book, e)
  OBVIOUS
<1>9. /\ r.open = s.book.open /\ r.lastReply = s.book.lastReply
      /\ r.queued = s.book.queued
      /\ r.pending = IF e.k = "tool.result" THEN s.book.pending \ {e.call}
                     ELSE s.book.pending
      /\ r.asking = IF e.k = "approval.requested" THEN s.book.asking \union {e.call}
                       ELSE IF e.k \in {"approval.decided", "tool.result"}
                         THEN s.book.asking \ {e.call}
                       ELSE s.book.asking
      /\ r.questioning = IF e.k = "question.asked" THEN s.book.questioning \union {e.call}
                            ELSE IF e.k \in {"question.answered", "tool.result"}
                              THEN s.book.questioning \ {e.call}
                            ELSE s.book.questioning
  <2>1. Remembers(s.book, e, Record(s.book, e))
    BY <1>3, RecordAll
  <2> QED
    BY <1>2, <1>3, <1>8, <2>1 DEF Remembers, OfCall
<1> QED
  BY <1>2, <1>5, <1>7, <1>8, <1>9 DEF TakesNote

----------------------------------------------------------------------------
(***************************************************************************)
(* A rooted kernel: the turn that runs is the one the book says is open,   *)
(* what the turn keeps queued is queued in the book, what is in effect is  *)
(* no wider than what was given, and no write is started when nothing may  *)
(* be written.                                                             *)
(***************************************************************************)
QueueFits(b, q) ==
  /\ IsSeq(q)
  /\ \A i \in 1..Len(q) : q[i].seq \in b.queued
  /\ \A i, j \in 1..Len(q) : i < j => q[i].seq < q[j].seq

OutFits(s) == \A a \in s.out : a.a = "RunTool" /\ a.write => Rank(s.perm) # 0

Rooted(s) ==
  /\ Whole(s)
  /\ s.turn.id = s.book.open
  /\ QueueFits(s.book, s.turn.queued)
  /\ Rank(s.eff) <= Rank(s.perm)
  /\ OutFits(s)

\* No call is open and none is kept.
Calm(s) ==
  /\ Rooted(s)
  /\ s.book.pending = {}
  /\ s.turn.calls = << >>
  /\ s.turn.intr.wake = 0
  /\ s.turn.stage \notin {"asking", "tools"}
  /\ s.turn.id = 0 => s.turn.stage = "idle"

LEMMA NothingQueued ==
  ASSUME NEW b
  PROVE  QueueFits(b, << >>)
BY EmptyIsSeq DEF QueueFits

LEMMA NothingFits ==
  ASSUME NEW b, NEW q, QueueFits(b, q), b.queued = {}
  PROVE  q = << >>
<1>1. IsSeq(q) /\ Len(q) \in Nat
  BY SeqIsFunction DEF QueueFits
<1>2. Len(q) = 0
  <2>1. CASE Len(q) # 0
    <3>1. 1 \in 1..Len(q)
      BY <1>1, <2>1
    <3> QED
      BY <3>1 DEF QueueFits
  <2> QED
    BY <2>1
<1> QED
  BY <1>1, <1>2, EmptyIsSeq, SameSeq

LEMMA RankIsNumber ==
  ASSUME NEW p
  PROVE  Rank(p) \in {0, 1, 2}
BY DEF Rank

LEMMA RootedBook ==
  ASSUME NEW s, Rooted(s)
  PROVE  /\ Tidy(s.book, s.log) /\ Shaped(s.book)
         /\ s.book.next = Len(s.log) + 1 /\ Len(s.log) \in Nat \ {0}
         /\ s.turn.id = s.book.open /\ s.turn.id \in Nat
         /\ s.turn.id = 0 => s.turn.queued = << >> /\ s.book.pending = {}
         /\ s.book.queued \subseteq 1..Len(s.log)
         /\ s.book.asking \subseteq s.book.pending
         /\ s.book.questioning \subseteq s.book.pending
         /\ s.book.lastReply \in 0..Len(s.log)
         /\ Shapely(s) /\ Sound(s)
<1>1. /\ Tidy(s.book, s.log) /\ s.book.next = Len(s.log) + 1
      /\ Len(s.log) \in Nat \ {0}
  BY WholeBook DEF Rooted
<1>2. s.book.open \in 0..Len(s.log) /\ (s.book.open = 0 => s.book.pending = {} /\ s.book.queued = {})
  BY <1>1 DEF Tidy
<1>3. s.turn.id = 0 => s.turn.queued = << >>
  BY <1>2, NothingFits DEF Rooted
<1>4. s.book.open \in Nat
  BY <1>1, <1>2
<1> QED
  BY <1>1, <1>2, <1>3, <1>4 DEF Rooted, Tidy, Whole, Sound

\* Nothing is recorded.
LEMMA RootedAside ==
  ASSUME NEW s, Rooted(s), NEW t, Shapely(t),
         t.log = s.log, t.book = s.book, t.stored = s.stored, t.refused = s.refused,
         t.turn.id = s.turn.id,
         t.turn.queued = s.turn.queued \/ t.turn.queued = << >>,
         Rank(t.eff) <= Rank(t.perm), OutFits(t)
  PROVE  Rooted(t)
<1>1. Whole(t)
  BY DEF Whole, Rooted, Sound
<1>2. QueueFits(t.book, t.turn.queued)
  BY NothingQueued DEF Rooted
<1> QED
  BY <1>1, <1>2 DEF Rooted

\* An event is recorded, the turn goes on.
LEMMA PutsRooted ==
  ASSUME NEW s, Rooted(s), NEW t, Puts(s, t), t.book.open = s.book.open,
         \A i \in 1..Len(s.turn.queued) : s.turn.queued[i].seq \in t.book.queued
  PROVE  Rooted(t)
BY DEF Rooted, Puts, Beside, QueueFits, OutFits

LEMMA PutEachNone ==
  ASSUME NEW s, NEW cause
  PROVE  PutEach(s, cause, << >>) = s
<1>1. PICK v : v[0] = s /\ PutEach(s, cause, << >>) = v[Len(<< >>)]
  BY EmptyIsSeq, PutEachChain
<1> QED
  BY <1>1, EmptyIsSeq

LEMMA PutEachOne ==
  ASSUME NEW s, NEW cause, NEW body
  PROVE  PutEach(s, cause, <<body>>) = Put(s, cause, body)
<1>1. PICK list : list = <<body>>
  OBVIOUS
<1>2. IsSeq(list) /\ Len(list) = 1 /\ list[1] = body
  BY <1>1, LonelyIsSeq
<1>3. PICK v : /\ v[0] = s /\ PutEach(s, cause, list) = v[Len(list)]
               /\ \A k \in 1..Len(list) : v[k] = Put(v[k - 1], cause, list[k])
  BY <1>2, PutEachChain
<1>4. v[1] = Put(v[1 - 1], cause, list[1])
  BY <1>2, <1>3
<1> QED
  BY <1>1, <1>2, <1>3, <1>4

\* The permission is told when the model was last told another one.
LEMMA PutBoundary ==
  ASSUME NEW s, Rooted(s), NEW cause
  PROVE  LET t == PutEach(s, cause, Boundary(s)) IN
         /\ Rooted(t) /\ Beside(s, t) /\ AsOpen(s.book, t.book)
         /\ t.book.queued = s.book.queued /\ Len(t.log) >= Len(s.log)
<1>1. PICK body : body = [k |-> "context.injected", fact |-> "permission", perm |-> s.perm]
  OBVIOUS
<1>2. Boundary(s) = << >> \/ Boundary(s) = <<body>>
  BY <1>1 DEF Boundary
<1>3. Len(s.log) \in Nat
  BY RootedBook
<1>4. CASE Boundary(s) = << >>
  BY <1>3, <1>4, PutEachNone DEF Beside, AsOpen
<1>5. CASE Boundary(s) = <<body>>
  <2>1. Fine(body) /\ body.k = "context.injected"
    BY <1>1 DEF Fine
  <2>2. PICK t : t = Put(s, cause, body)
    OBVIOUS
  <2>3. Puts(s, t) /\ AsOpen(s.book, t.book) /\ t.book.queued = s.book.queued
    BY <2>1, <2>2, PutAside DEF Rooted
  <2>4. Rooted(t)
    BY <2>3, PutsRooted DEF AsOpen, Rooted, QueueFits
  <2>5. Beside(s, t) /\ Len(t.log) = Len(s.log) + 1
    BY <2>3 DEF Puts
  <2>6. PutEach(s, cause, Boundary(s)) = t
    BY <1>5, <2>2, PutEachOne
  <2> QED
    BY <1>3, <2>3, <2>4, <2>5, <2>6
<1> QED
  BY <1>2, <1>4, <1>5

LEMMA RefreshFactsCalm ==
  ASSUME NEW s, Calm(s)
  PROVE  Calm(RefreshFacts(s))
<1>1. CASE ~s.turn.refresh
  BY <1>1 DEF RefreshFacts
<1>2. CASE s.turn.refresh
  <2>1. PICK f : f = [s EXCEPT !.turn.refresh = FALSE, !.eff = s.perm]
    OBVIOUS
  <2>2. PICK cause : cause = s.turn.cause
    OBVIOUS
  <2>3. PICK t : t = PutEach(f, cause, Boundary(f))
    OBVIOUS
  <2>4. RefreshFacts(s) = t
    BY <1>2, <2>1, <2>2, <2>3 DEF RefreshFacts
  <2>5. Shapely(s)
    BY RootedBook DEF Calm
  <2>6. /\ Shapely(f) /\ f.log = s.log /\ f.book = s.book /\ f.stored = s.stored
        /\ f.refused = s.refused /\ f.out = s.out /\ f.perm = s.perm /\ f.eff = s.perm
        /\ f.turn.id = s.turn.id /\ f.turn.queued = s.turn.queued
        /\ f.turn.calls = s.turn.calls /\ f.turn.intr = s.turn.intr
        /\ f.turn.stage = s.turn.stage
    BY <2>1, <2>5 DEF Shapely, KernelFields, TurnFields
  <2>7. Rank(f.eff) <= Rank(f.perm) /\ OutFits(f)
    <3>1. Rank(s.perm) \in {0, 1, 2}
      BY RankIsNumber
    <3> QED
      BY <2>6, <3>1 DEF Calm, Rooted, OutFits
  <2>8. Rooted(f)
    BY <2>6, <2>7, RootedAside DEF Calm
  <2>9. Rooted(t) /\ Beside(f, t) /\ AsOpen(f.book, t.book)
    BY <2>3, <2>8, PutBoundary
  <2> QED
    BY <2>4, <2>6, <2>9 DEF Calm, Beside, AsOpen
<1> QED
  BY <1>1, <1>2

----------------------------------------------------------------------------
(***************************************************************************)
(* Turns.                                                                  *)
(***************************************************************************)
\* A turn ends when every call has its result.
LEMMA EndTurnCalm ==
  ASSUME NEW s, Rooted(s), s.turn.id # 0, s.book.pending = {}, NEW cause, NEW reason
  PROVE  LET t == EndTurn(s, cause, reason) IN
         /\ Calm(t) /\ t.book.open = 0 /\ Len(t.log) = Len(s.log) + 1
<1>1. PICK p : p = Put(s, cause, [k |-> "turn.ended", reason |-> reason])
  OBVIOUS
<1>2. /\ Puts(s, p) /\ p.book.open = 0 /\ p.book.pending = {}
  BY <1>1, PutEnded DEF Rooted
<1>3. PICK t : t = EndTurn(s, cause, reason)
  OBVIOUS
<1>4. t = [p EXCEPT !.turn = NoTurn,
                    !.closing = Append(@, [turn |-> s.turn.id, ended |-> s.book.next])]
  BY <1>1, <1>3 DEF EndTurn
<1>5. /\ Whole(p) /\ Beside(s, p) /\ Len(p.log) = Len(s.log) + 1 /\ Shapely(p)
  BY <1>2 DEF Puts, Whole, Sound
<1>6. /\ NoTurn.id = 0 /\ NoTurn.queued = << >> /\ NoTurn.calls = << >>
      /\ NoTurn.stage = "idle" /\ NoTurn.intr = NotInterrupting /\ DOMAIN NoTurn = TurnFields
  BY DEF NoTurn, NewTurn, TurnFields
<1>7. /\ t.log = p.log /\ t.book = p.book /\ t.stored = p.stored /\ t.refused = p.refused
      /\ t.out = p.out /\ t.perm = p.perm /\ t.eff = p.eff /\ t.turn = NoTurn
      /\ DOMAIN t = KernelFields
  BY <1>4, <1>5 DEF Shapely, KernelFields
<1>8. Shapely(t)
  BY <1>6, <1>7, EmptyIsSeq DEF Shapely, NotInterrupting, Queueings
<1>9. Whole(t)
  BY <1>5, <1>7, <1>8 DEF Whole, Sound
<1>10. Rank(t.eff) <= Rank(t.perm) /\ OutFits(t)
  BY <1>5, <1>7 DEF Beside, Rooted, OutFits
<1>11. Rooted(t)
  BY <1>2, <1>6, <1>7, <1>9, <1>10, NothingQueued DEF Rooted
<1> QED
  BY <1>2, <1>3, <1>5, <1>6, <1>7, <1>11 DEF Calm, NotInterrupting

\* A turn is opened by something that is on record.
LEMMA OpenTurnCalm ==
  ASSUME NEW s, Rooted(s), s.book.open = 0, NEW trigger, trigger < s.book.next, NEW cause
  PROVE  LET t == OpenTurn(s, trigger, cause) IN Calm(t) /\ Len(t.log) > Len(s.log)
<1>1. PICK p : p = Put(s, cause, [k |-> "turn.started", trigger |-> trigger,
                                  triggers |-> << >>])
  OBVIOUS
<1>2. /\ Puts(s, p) /\ p.book.open = s.book.next /\ p.book.pending = {}
  BY <1>1, PutStarted DEF Rooted
<1>3. PICK n : n = NewTurn(s.book.next, cause, "opening", s.book.next)
  OBVIOUS
<1>4. /\ n.id = s.book.next /\ n.queued = << >> /\ n.calls = << >>
      /\ n.stage = "opening" /\ n.intr = NotInterrupting /\ DOMAIN n = TurnFields
  BY <1>3 DEF NewTurn, TurnFields
<1>5. PICK o : o = [p EXCEPT !.turn = n, !.eff = s.perm]
  OBVIOUS
<1>6. Whole(p) /\ Beside(s, p) /\ Len(p.log) = Len(s.log) + 1 /\ Shapely(p)
  BY <1>2 DEF Puts, Whole, Sound
<1>7. /\ o.log = p.log /\ o.book = p.book /\ o.stored = p.stored /\ o.refused = p.refused
      /\ o.out = s.out /\ o.perm = s.perm /\ o.eff = s.perm /\ o.turn = n
      /\ DOMAIN o = KernelFields
  BY <1>5, <1>6 DEF Shapely, KernelFields, Beside
<1>8. Shapely(o)
  BY <1>4, <1>7, EmptyIsSeq DEF Shapely, NotInterrupting, Queueings
<1>9. Whole(o)
  BY <1>6, <1>7, <1>8 DEF Whole, Sound
<1>10. Rank(o.eff) <= Rank(o.perm) /\ OutFits(o)
  <2>1. Rank(s.perm) \in {0, 1, 2}
    BY RankIsNumber
  <2> QED
    BY <1>7, <2>1 DEF Rooted, OutFits
<1>11. Rooted(o)
  BY <1>2, <1>4, <1>7, <1>9, <1>10, NothingQueued DEF Rooted
<1>12. PICK q : q = PutEach(o, cause, Boundary(o))
  OBVIOUS
<1>13. /\ Rooted(q) /\ Beside(o, q) /\ AsOpen(o.book, q.book) /\ Len(q.log) >= Len(o.log)
  BY <1>11, <1>12, PutBoundary
<1>14. PICK t : t = OpenTurn(s, trigger, cause)
  OBVIOUS
<1>15. t = [q EXCEPT !.turn.mark = Len(q.log)]
  BY <1>1, <1>3, <1>5, <1>12, <1>14 DEF OpenTurn
<1>16. Shapely(q) /\ Len(q.log) \in Nat /\ Len(s.log) \in Nat
  BY <1>13, RootedBook
<1>17. /\ Shapely(t) /\ t.log = q.log /\ t.book = q.book /\ t.stored = q.stored
       /\ t.refused = q.refused /\ t.out = q.out /\ t.perm = q.perm /\ t.eff = q.eff
       /\ t.turn.id = q.turn.id /\ t.turn.queued = q.turn.queued
       /\ t.turn.calls = q.turn.calls /\ t.turn.intr = q.turn.intr
       /\ t.turn.stage = q.turn.stage
  BY <1>15, <1>16 DEF Shapely, KernelFields, TurnFields
<1>18. Rooted(t)
  <2>1. Rank(t.eff) <= Rank(t.perm) /\ OutFits(t)
    BY <1>13, <1>17 DEF Rooted, OutFits
  <2> QED
    BY <1>13, <1>17, <2>1, RootedAside
<1>19. /\ t.book.pending = {} /\ t.turn.calls = << >> /\ t.turn.intr.wake = 0
       /\ t.turn.stage = "opening" /\ t.turn.id # 0
  <2>1. s.book.next # 0
    BY RootedBook
  <2> QED
    BY <1>2, <1>4, <1>7, <1>13, <1>17, <2>1 DEF Beside, AsOpen, NotInterrupting
<1>20. Len(t.log) > Len(s.log)
  BY <1>6, <1>7, <1>13, <1>16, <1>17
<1> QED
  BY <1>14, <1>18, <1>19, <1>20 DEF Calm

LEMMA FinishTurnCalm ==
  ASSUME NEW s, Rooted(s), s.turn.id # 0, s.book.pending = {}, NEW cause, NEW reason
  PROVE  LET t == FinishTurn(s, cause, reason) IN Calm(t) /\ Len(t.log) > Len(s.log)
<1>1. PICK e : e = EndTurn(s, cause, reason)
  OBVIOUS
<1>2. Calm(e) /\ e.book.open = 0 /\ Len(e.log) = Len(s.log) + 1
  BY <1>1, EndTurnCalm
<1>3. Len(s.log) \in Nat /\ e.book.next = Len(e.log) + 1 /\ Len(e.log) \in Nat
  BY <1>2, RootedBook DEF Calm
<1>4. CASE s.turn.queued = << >>
  BY <1>1, <1>2, <1>3, <1>4 DEF FinishTurn
<1>5. CASE s.turn.queued # << >>
  <2>1. PICK q : q = s.turn.queued
    OBVIOUS
  <2>2. IsSeq(q) /\ Len(q) \in Nat
    BY <2>1, SeqIsFunction DEF Rooted, QueueFits
  <2>3. Len(q) \in 1..Len(q)
    BY <1>5, <2>1, <2>2, EmptyIsSeq, SameSeq
  <2>4. PICK last, by : last = Last(q).seq /\ by = Last(q).cause
    OBVIOUS
  <2>5. last \in s.book.queued
    BY <2>1, <2>3, <2>4 DEF Last, Rooted, QueueFits
  <2>6. last \in 1..Len(s.log)
    BY <2>5, RootedBook
  <2>7. last < e.book.next
    BY <1>2, <1>3, <2>6
  <2>8. PICK t : t = OpenTurn(e, last, by)
    OBVIOUS
  <2>9. Calm(t) /\ Len(t.log) > Len(e.log)
    BY <1>2, <2>7, <2>8, OpenTurnCalm DEF Calm
  <2>10. FinishTurn(s, cause, reason) = t
    BY <1>1, <1>5, <2>1, <2>4, <2>8 DEF FinishTurn
  <2>11. Len(t.log) \in Nat
    BY <2>9, RootedBook DEF Calm
  <2> QED
    BY <1>2, <1>3, <2>9, <2>10, <2>11
<1> QED
  BY <1>4, <1>5

\* What is queued is withdrawn.
LEMMA WithdrawQueuedRooted ==
  ASSUME NEW s, Rooted(s), s.turn.id # 0, NEW cause
  PROVE  LET t == WithdrawQueued(s, cause) IN
         /\ Rooted(t) /\ t.turn.id = s.turn.id /\ t.book.pending = s.book.pending
         /\ Len(t.log) >= Len(s.log)
<1>1. Len(s.log) \in Nat
  BY RootedBook
<1>2. CASE s.turn.queued = << >>
  BY <1>1, <1>2 DEF WithdrawQueued
<1>3. CASE s.turn.queued # << >>
  <2>1. PICK q : q = s.turn.queued
    OBVIOUS
  <2>2. /\ IsSeq(q) /\ Len(q) \in Nat /\ DOMAIN q = 1..Len(q)
        /\ \A i \in 1..Len(q) : q[i].seq \in s.book.queued
        /\ \A i, j \in 1..Len(q) : i < j => q[i].seq < q[j].seq
    BY <2>1, SeqIsFunction DEF Rooted, QueueFits
  <2>3. PICK w : w = [s EXCEPT !.turn.queued = << >>]
    OBVIOUS
  <2>4. Shapely(s)
    BY RootedBook
  <2>5. /\ Shapely(w) /\ w.log = s.log /\ w.book = s.book /\ w.stored = s.stored
        /\ w.refused = s.refused /\ w.out = s.out /\ w.perm = s.perm /\ w.eff = s.eff
        /\ w.turn.id = s.turn.id /\ w.turn.queued = << >>
    BY <2>3, <2>4 DEF Shapely, KernelFields, TurnFields
  <2>6. Rooted(w)
    <3>1. Rank(w.eff) <= Rank(w.perm) /\ OutFits(w)
      BY <2>5 DEF Rooted, OutFits
    <3> QED
      BY <2>5, <3>1, RootedAside
  <2>7. PICK msgs : msgs = [i \in DOMAIN q |-> q[i].seq]
    OBVIOUS
  <2>8. /\ DOMAIN msgs = 1..Len(q) /\ \A i \in DOMAIN msgs : msgs[i] = q[i].seq
    BY <2>2, <2>7
  <2>9. msgs # << >>
    <3>1. Len(q) # 0
      BY <1>3, <2>1, <2>2, EmptyIsSeq, SameSeq
    <3>2. 1 \in DOMAIN msgs
      BY <2>2, <2>8, <3>1
    <3> QED
      BY <3>2, EmptyIsSeq
  <2>10. \A i \in DOMAIN msgs : msgs[i] \in w.book.queued
    BY <2>2, <2>5, <2>8
  <2>11. \A i, j \in DOMAIN msgs : msgs[i] = msgs[j] => i = j
    <3>1. s.book.queued \subseteq Nat
      BY <1>1, RootedBook
    <3>2. ASSUME NEW i \in DOMAIN msgs, NEW j \in DOMAIN msgs, msgs[i] = msgs[j], i # j
          PROVE  FALSE
      <4>1. i \in 1..Len(q) /\ j \in 1..Len(q) /\ q[i].seq = q[j].seq /\ q[i].seq \in Nat
        BY <2>2, <2>8, <3>1, <3>2
      <4>2. i < j \/ j < i
        BY <2>2, <3>2, <4>1
      <4> QED
        BY <2>2, <4>1, <4>2
    <3> QED
      BY <3>2
  <2>12. PICK t : t = Put(w, cause, [k |-> "message.withdrawn", msgs |-> msgs])
    OBVIOUS
  <2>13. w.book.open # 0 /\ Whole(w) /\ w.turn.id = w.book.open
    BY <2>5, <2>6 DEF Rooted
  <2>14. Puts(w, t) /\ AsOpen(w.book, t.book)
    BY <2>9, <2>10, <2>11, <2>12, <2>13, PutWithdrawn
  <2>15. Rooted(t)
    <3>1. \A i \in 1..Len(w.turn.queued) : w.turn.queued[i].seq \in t.book.queued
      BY <2>5, EmptyIsSeq
    <3> QED
      BY <2>6, <2>14, <3>1, PutsRooted DEF AsOpen
  <2>16. WithdrawQueued(s, cause) = t
    BY <1>3, <2>1, <2>3, <2>7, <2>12 DEF WithdrawQueued
  <2> QED
    BY <1>1, <2>5, <2>14, <2>15, <2>16 DEF Puts, Beside, AsOpen
<1> QED
  BY <1>2, <1>3

LEMMA CloseInterruptedCalm ==
  ASSUME NEW s, Rooted(s), s.turn.id # 0, s.book.pending = {}, NEW cause,
         NEW queued \in Queueings
  PROVE  LET t == CloseInterrupted(s, cause, queued) IN
         Calm(t) /\ Len(t.log) > Len(s.log)
<1>1. PICK left : left = CASE queued = "return" -> WithdrawQueued(s, cause)
                           [] queued = "keep"   -> [s EXCEPT !.turn.queued = << >>]
                           [] queued = "send"   -> s
  OBVIOUS
<1>2. Len(s.log) \in Nat /\ Shapely(s)
  BY RootedBook
<1>3. /\ Rooted(left) /\ left.turn.id # 0 /\ left.book.pending = {}
      /\ Len(left.log) >= Len(s.log)
  <2>1. CASE queued = "return"
    <3>1. left = WithdrawQueued(s, cause)
      BY <1>1, <2>1
    <3> QED
      BY <3>1, WithdrawQueuedRooted
  <2>2. CASE queued = "keep"
    <3>1. left = [s EXCEPT !.turn.queued = << >>]
      BY <1>1, <2>2
    <3>2. /\ Shapely(left) /\ left.log = s.log /\ left.book = s.book /\ left.stored = s.stored
          /\ left.refused = s.refused /\ left.out = s.out
          /\ left.perm = s.perm /\ left.eff = s.eff
          /\ left.turn.id = s.turn.id /\ left.turn.queued = << >>
      BY <1>2, <3>1 DEF Shapely, KernelFields, TurnFields
    <3>3. Rank(left.eff) <= Rank(left.perm) /\ OutFits(left)
      BY <3>2 DEF Rooted, OutFits
    <3> QED
      BY <1>2, <3>2, <3>3, RootedAside
  <2>3. CASE queued = "send"
    BY <1>1, <1>2, <2>3
  <2> QED
    BY <2>1, <2>2, <2>3 DEF Queueings
<1>4. PICK t : t = FinishTurn(left, cause, "interrupted")
  OBVIOUS
<1>5. Calm(t) /\ Len(t.log) > Len(left.log)
  BY <1>3, <1>4, FinishTurnCalm
<1>6. CloseInterrupted(s, cause, queued) = t
  BY <1>1, <1>4 DEF CloseInterrupted
<1>7. Len(t.log) \in Nat /\ Len(left.log) \in Nat
  BY <1>3, <1>5, RootedBook DEF Calm
<1> QED
  BY <1>2, <1>3, <1>5, <1>6, <1>7

\* A step is complete: the turn ends or asks again.
LEMMA FinishStepCalm ==
  ASSUME NEW s, Rooted(s), s.turn.id # 0, s.book.pending = {}, s.turn.intr.wake = 0,
         NEW cause
  PROVE  Calm(FinishStep(s, cause))
<1>1. CASE s.turn.requests >= s.policy.stepLimit
  BY <1>1, FinishTurnCalm DEF FinishStep
<1>2. CASE ~(s.turn.requests >= s.policy.stepLimit)
  <2>1. PICK t : t = [s EXCEPT !.turn.stage = "ready", !.turn.mark = 0,
                               !.turn.calls = << >>]
    OBVIOUS
  <2>2. FinishStep(s, cause) = RefreshFacts(t)
    BY <1>2, <2>1 DEF FinishStep
  <2>3. Shapely(s)
    BY RootedBook
  <2>4. /\ Shapely(t) /\ t.log = s.log /\ t.book = s.book /\ t.stored = s.stored
        /\ t.refused = s.refused /\ t.out = s.out /\ t.perm = s.perm /\ t.eff = s.eff
        /\ t.turn.id = s.turn.id /\ t.turn.queued = s.turn.queued
        /\ t.turn.calls = << >> /\ t.turn.stage = "ready" /\ t.turn.intr = s.turn.intr
    BY <2>1, <2>3, EmptyIsSeq DEF Shapely, KernelFields, TurnFields
  <2>5. Rooted(t)
    <3>1. Rank(t.eff) <= Rank(t.perm) /\ OutFits(t)
      BY <2>4 DEF Rooted, OutFits
    <3> QED
      BY <2>4, <3>1, RootedAside
  <2>6. Calm(t)
    BY <2>4, <2>5 DEF Calm
  <2> QED
    BY <2>2, <2>6, RefreshFactsCalm
<1> QED
  BY <1>1, <1>2

----------------------------------------------------------------------------
(***************************************************************************)
(* Results.                                                                *)
(***************************************************************************)
\* One result for each of some calls.
ResultsOf(list, ids) ==
  /\ IsSeq(list)
  /\ \A j \in 1..Len(list) : \E call, why : list[j] = Result(call, why)
  /\ \A i, j \in 1..Len(list) : list[i].call = list[j].call => i = j
  /\ ids = {list[j].call : j \in 1..Len(list)}

\* The calls are settled, nothing else is touched.
Settles(s, t, ids) ==
  /\ Rooted(t) /\ Beside(s, t)
  /\ t.book.lastReply = s.book.lastReply /\ t.book.queued = s.book.queued
  /\ t.book.pending = s.book.pending \ ids
  /\ t.book.asking = s.book.asking \ ids
  /\ t.book.questioning = s.book.questioning \ ids
  /\ Len(t.log) >= Len(s.log)

LEMMA OneResultSettles ==
  ASSUME NEW s, Rooted(s), s.turn.id # 0, NEW call \in s.book.pending, NEW why, NEW cause
  PROVE  Settles(s, Put(s, cause, Result(call, why)), {call})
<1>1. PICK body : body = Result(call, why)
  OBVIOUS
<1>2. /\ Fine(body) /\ {"k", "call"} \subseteq DOMAIN body
      /\ body.k = "tool.result" /\ body.call = call
  BY <1>1 DEF Result, Fine
<1>3. PICK t : t = Put(s, cause, body)
  OBVIOUS
<1>4. s.turn.id = s.book.open /\ s.book.open # 0 /\ Whole(s)
  BY DEF Rooted
<1>5. /\ Puts(s, t)
      /\ t.book.open = s.book.open /\ t.book.lastReply = s.book.lastReply
      /\ t.book.queued = s.book.queued
      /\ t.book.pending = s.book.pending \ {call}
      /\ t.book.asking = s.book.asking \ {call}
      /\ t.book.questioning = s.book.questioning \ {call}
  <2>1. OfCall(s.book, body)
    BY <1>2 DEF OfCall
  <2>2. TakesNote(s, Put(s, cause, body), body)
    BY <1>2, <1>4, <2>1, PutOfCall
  <2> QED
    BY <1>2, <1>3, <2>2 DEF TakesNote
<1>6. Rooted(t)
  BY <1>5, PutsRooted DEF Rooted, QueueFits
<1>7. Len(t.log) >= Len(s.log)
  BY <1>5, RootedBook DEF Puts
<1> QED
  BY <1>1, <1>3, <1>5, <1>6, <1>7 DEF Settles, Puts

LEMMA ResultsSettle ==
  ASSUME NEW s, Rooted(s), s.turn.id # 0, NEW list, NEW ids, ResultsOf(list, ids),
         ids \subseteq s.book.pending, NEW cause
  PROVE  Settles(s, PutEach(s, cause, list), ids)
<1> DEFINE n == Len(list)
           upto(k) == {list[j].call : j \in 1..k}
<1>1. PICK v : /\ v[0] = s /\ PutEach(s, cause, list) = v[n]
               /\ \A k \in 1..n : v[k] = Put(v[k - 1], cause, list[k])
  BY PutEachChain DEF ResultsOf
<1>2. n \in Nat
  BY SeqIsFunction DEF ResultsOf
<1> DEFINE A == {k \in 0..n : Settles(s, v[k], upto(k))}
<1>3. 0 \in A
  <2>1. PICK none : none = upto(0)
    OBVIOUS
  <2>2. none = {}
    BY <2>1
  <2>3. Settles(s, s, none)
    BY <2>2, RootedBook DEF Settles, Beside
  <2>4. Settles(s, v[0], upto(0))
    BY <1>1, <2>1, <2>3
  <2> QED
    BY <1>2, <2>4
<1>4. ASSUME NEW k \in 1..n, k - 1 \in A PROVE k \in A
  <2>1. PICK i, p : i = k - 1 /\ p = v[i]
    OBVIOUS
  <2>2. i \in 0..n /\ k = i + 1 /\ k \in 0..n
    BY <1>2, <2>1
  <2>3. Settles(s, p, upto(i))
    BY <1>4, <2>1
  <2>4. PICK call, why : list[k] = Result(call, why)
    BY DEF ResultsOf
  <2>5. list[k].call = call
    BY <2>4 DEF Result
  <2>6. call \in s.book.pending
    <3>1. call \in ids
      BY <2>5 DEF ResultsOf
    <3> QED
      BY <3>1
  <2>7. call \notin upto(i)
    <3>1. ASSUME NEW j \in 1..i, list[j].call = call PROVE FALSE
      <4>1. j \in 1..n /\ j # k
        BY <1>2, <2>2
      <4> QED
        BY <2>5, <3>1, <4>1 DEF ResultsOf
    <3> QED
      BY <3>1
  <2>8. call \in p.book.pending /\ p.turn.id # 0 /\ Rooted(p)
    BY <2>3, <2>6, <2>7 DEF Settles, Beside
  <2>9. PICK t : t = Put(p, cause, Result(call, why))
    OBVIOUS
  <2>10. Settles(p, t, {call})
    BY <2>8, <2>9, OneResultSettles
  <2>11. upto(k) = upto(i) \union {call}
    <3>1. 1..k = (1..i) \union {k}
      BY <1>2, <2>2
    <3> QED
      BY <2>5, <3>1
  <2>12. Settles(s, t, upto(k))
    <3>1. PICK before, all : before = upto(i) /\ all = upto(k)
      OBVIOUS
    <3>2. /\ Settles(s, p, before) /\ Settles(p, t, {call})
          /\ all = before \union {call}
      BY <2>3, <2>10, <2>11, <3>1
    <3>3. Len(s.log) \in Nat /\ Len(p.log) \in Nat /\ Len(t.log) \in Nat
      BY <3>2, RootedBook DEF Settles
    <3>4. Beside(s, t) /\ Len(t.log) >= Len(s.log)
      BY <3>2, <3>3 DEF Settles, Beside
    <3>5. Settles(s, t, all)
      BY <3>2, <3>4 DEF Settles
    <3> QED
      BY <3>1, <3>5
  <2>13. v[k] = t
    BY <1>1, <2>1, <2>4, <2>9
  <2> QED
    BY <2>2, <2>12, <2>13
<1>5. n \in A
  <2> HIDE DEF A, n
  <2>1. 0..n \subseteq A
    BY <1>2, <1>3, <1>4, Upwards
  <2> QED
    BY <1>2, <2>1
<1> QED
  BY <1>1, <1>5 DEF ResultsOf

----------------------------------------------------------------------------
(***************************************************************************)
(* A linked kernel: besides, the calls of the step are those the book says *)
(* are open, and each of them stands in its state as the book has it.      *)
(***************************************************************************)
CallFields == {"id", "access", "state", "at", "asksWrite"}

AreCalls(calls) ==
  /\ IsSeq(calls)
  /\ \A i \in DOMAIN calls : DOMAIN calls[i] = CallFields
  /\ \A i, j \in DOMAIN calls : calls[i].id = calls[j].id => i = j

IdsAt(calls, at) == {calls[i].id : i \in at}
OpenIds(calls) == IdsAt(calls, {i \in DOMAIN calls : calls[i].state # "done"})
IdsIn(calls, state) == IdsAt(calls, {i \in DOMAIN calls : calls[i].state = state})

Matched(b, calls) ==
  /\ AreCalls(calls)
  /\ b.pending = OpenIds(calls)
  /\ b.asking = IdsIn(calls, "asking")
  /\ b.questioning = IdsIn(calls, "questioning")

Staged(s) ==
  /\ s.turn.stage # "tools" => s.turn.calls = << >>
  /\ s.turn.id = 0 => s.turn.stage = "idle"
  /\ s.turn.intr.wake # 0 =>
       /\ s.turn.stage = "tools"
       /\ \A i \in DOMAIN s.turn.calls : s.turn.calls[i].state \in {"done", "stopping"}
  /\ s.turn.stage = "asking" =>
       /\ s.turn.mark \in s.book.lastReply..Len(s.log)
       /\ \A i \in 1..Len(s.turn.queued) : s.turn.queued[i].seq > s.turn.mark

Orderly(calls) ==
  \A i, j \in DOMAIN calls :
    i < j /\ ~(calls[i].access = "read" /\ calls[j].access = "read")
      => calls[i].state = "done" \/ calls[j].state \in {"waiting", "done"}

\* While nothing may be written, no call that has not run wants to write, those at
\* some places aside.
Permits(s, aside) ==
  Rank(s.eff) = 0 =>
    \A i \in DOMAIN s.turn.calls \ aside :
      NotRun(s.turn.calls[i]) => ~Writes(s.turn.calls[i])

InOrder(s) ==
  /\ Rooted(s)
  /\ Matched(s.book, s.turn.calls)
  /\ Staged(s)
  /\ Orderly(s.turn.calls)

Linked(s) == InOrder(s) /\ Permits(s, {})

LEMMA NoCalls ==
  /\ AreCalls(<< >>) /\ OpenIds(<< >>) = {} /\ Orderly(<< >>)
  /\ \A state : IdsIn(<< >>, state) = {}
BY EmptyIsSeq DEF AreCalls, OpenIds, IdsIn, IdsAt, Orderly

LEMMA CalmIsLinked ==
  ASSUME NEW s, Calm(s)
  PROVE  Linked(s)
<1>1. s.book.asking = {} /\ s.book.questioning = {}
  BY RootedBook DEF Calm
<1>2. Matched(s.book, s.turn.calls) /\ Orderly(s.turn.calls)
  BY <1>1, NoCalls DEF Calm, Matched
<1>3. Staged(s)
  BY DEF Calm, Staged
<1>4. Permits(s, {})
  BY EmptyIsSeq DEF Calm, Permits
<1> QED
  BY <1>2, <1>3, <1>4 DEF Linked, InOrder, Calm

\* Some calls are done now.
MadeDone(calls, at) ==
  [i \in DOMAIN calls |-> IF i \in at THEN [calls[i] EXCEPT !.state = "done"]
                                      ELSE calls[i]]

LEMMA DoneCalls ==
  ASSUME NEW calls, AreCalls(calls), NEW at \in SUBSET (DOMAIN calls)
  PROVE  LET g == MadeDone(calls, at) IN
         /\ AreCalls(g) /\ DOMAIN g = DOMAIN calls
         /\ OpenIds(g) = OpenIds(calls) \ IdsAt(calls, at)
         /\ \A state \in {"asking", "questioning"} :
              IdsIn(g, state) = IdsIn(calls, state) \ IdsAt(calls, at)
         /\ Orderly(calls) => Orderly(g)
         /\ \A i \in DOMAIN calls :
              /\ g[i].id = calls[i].id /\ g[i].access = calls[i].access
              /\ g[i].asksWrite = calls[i].asksWrite
              /\ g[i].state = IF i \in at THEN "done" ELSE calls[i].state
<1>1. PICK g : g = MadeDone(calls, at)
  OBVIOUS
<1>2. DOMAIN g = DOMAIN calls /\ g = [i \in DOMAIN calls |-> g[i]]
  BY <1>1 DEF MadeDone
<1>3. ASSUME NEW i \in DOMAIN calls
      PROVE  /\ DOMAIN g[i] = CallFields
             /\ g[i].id = calls[i].id /\ g[i].access = calls[i].access
             /\ g[i].asksWrite = calls[i].asksWrite
             /\ g[i].state = IF i \in at THEN "done" ELSE calls[i].state
  <2>1. DOMAIN calls[i] = CallFields
    BY DEF AreCalls
  <2>2. g[i] = IF i \in at THEN [calls[i] EXCEPT !.state = "done"] ELSE calls[i]
    BY <1>1 DEF MadeDone
  <2> QED
    BY <2>1, <2>2 DEF CallFields
<1>4. AreCalls(g)
  <2>1. IsSeq(g)
    BY <1>2, EachOf DEF AreCalls
  <2>2. \A i, j \in DOMAIN g : g[i].id = g[j].id => i = j
    BY <1>2, <1>3 DEF AreCalls
  <2> QED
    BY <1>2, <1>3, <2>1, <2>2 DEF AreCalls
<1>5. \A i \in DOMAIN calls : calls[i].id \in IdsAt(calls, at) <=> i \in at
  BY DEF AreCalls, IdsAt
<1>6. OpenIds(g) = OpenIds(calls) \ IdsAt(calls, at)
  <2>1. PICK ids : ids = IdsAt(calls, at)
    OBVIOUS
  <2>2. \A i \in DOMAIN calls : calls[i].id \in ids <=> i \in at
    BY <1>5, <2>1
  <2>3. OpenIds(g) = OpenIds(calls) \ ids
    BY <1>2, <1>3, <2>2 DEF OpenIds, IdsAt
  <2> QED
    BY <2>1, <2>3
<1>7. ASSUME NEW state \in {"asking", "questioning"}
      PROVE  IdsIn(g, state) = IdsIn(calls, state) \ IdsAt(calls, at)
  <2>1. PICK ids : ids = IdsAt(calls, at)
    OBVIOUS
  <2>2. \A i \in DOMAIN calls : calls[i].id \in ids <=> i \in at
    BY <1>5, <2>1
  <2>3. IdsIn(g, state) = IdsIn(calls, state) \ ids
    BY <1>2, <1>3, <2>2 DEF IdsIn, IdsAt
  <2> QED
    BY <2>1, <2>3
<1>8. Orderly(calls) => Orderly(g)
  BY <1>2, <1>3 DEF Orderly
<1> QED
  BY <1>1, <1>2, <1>3, <1>4, <1>6, <1>7, <1>8

\* The results of calls that are picked.
LEMMA PickedResults ==
  ASSUME NEW calls, AreCalls(calls), NEW at \in SUBSET (DOMAIN calls),
         NEW h, h = [i \in DOMAIN calls |-> h[i]],
         \A i \in DOMAIN calls : \E why : h[i] = Result(calls[i].id, why)
  PROVE  ResultsOf(Picked(h, at), IdsAt(calls, at))
<1>1. IsSeq(calls) /\ DOMAIN h = DOMAIN calls
  BY DEF AreCalls
<1>2. IsSeq(h)
  BY <1>1, EachOf
<1>3. PICK list : list = Picked(h, at)
  OBVIOUS
<1>4. PICK pos : /\ IsSeq(list)
                 /\ Positions(pos, Len(list), at)
                 /\ \A j \in 1..Len(list) : list[j] = h[pos[j]]
  <2>1. at \in SUBSET (DOMAIN h)
    BY <1>1
  <2>2. /\ IsSeq(Picked(h, at))
        /\ \E pos : /\ Positions(pos, Len(Picked(h, at)), at)
                    /\ \A j \in 1..Len(Picked(h, at)) : Picked(h, at)[j] = h[pos[j]]
    BY <1>2, <2>1, PickedIs
  <2> QED
    BY <1>3, <2>2
<1>5. Len(list) \in Nat
  BY <1>4, SeqIsFunction
<1>6. \A j \in 1..Len(list) : pos[j] \in at /\ pos[j] \in DOMAIN calls
  BY <1>4 DEF Positions
<1>7. ASSUME NEW j \in 1..Len(list)
      PROVE  /\ \E call, why : list[j] = Result(call, why)
             /\ list[j].call = calls[pos[j]].id
  <2>1. PICK why : list[j] = Result(calls[pos[j]].id, why)
    BY <1>4, <1>6
  <2>2. list[j].call = calls[pos[j]].id
    BY <2>1 DEF Result
  <2> QED
    BY <2>1, <2>2
<1>8. ASSUME NEW i \in 1..Len(list), NEW j \in 1..Len(list), list[i].call = list[j].call
      PROVE  i = j
  <2>1. pos[i] = pos[j]
    BY <1>6, <1>7, <1>8 DEF AreCalls
  <2>2. pos[i] \in Int
    <3>1. DOMAIN calls = 1..Len(calls)
      BY <1>1, SeqIsFunction
    <3> QED
      BY <1>6, <3>1
  <2>3. ~(i < j) /\ ~(j < i)
    BY <1>4, <2>1, <2>2 DEF Positions
  <2> QED
    BY <1>5, <2>3
<1>9. IdsAt(calls, at) = {list[j].call : j \in 1..Len(list)}
  <2>1. \A i \in at : \E j \in 1..Len(list) : pos[j] = i
    BY <1>4 DEF Positions
  <2> QED
    BY <1>6, <1>7, <2>1 DEF IdsAt
<1> QED
  BY <1>3, <1>4, <1>7, <1>8, <1>9 DEF ResultsOf

\* What is picked of calls are calls, and there is a result for each of them.
LEMMA PickedCalls ==
  ASSUME NEW calls, AreCalls(calls), NEW at \in SUBSET (DOMAIN calls)
  PROVE  LET p == Picked(calls, at) IN
         /\ AreCalls(p)
         /\ IdsAt(p, DOMAIN p) = IdsAt(calls, at)
         /\ \A j \in DOMAIN p : \E i \in at : p[j] = calls[i]
         /\ p = << >> <=> at = {}
<1>1. PICK p : p = Picked(calls, at)
  OBVIOUS
<1>2. IsSeq(calls) /\ DOMAIN calls = 1..Len(calls) /\ Len(calls) \in Nat
  BY SeqIsFunction DEF AreCalls
<1>3. PICK pos : /\ IsSeq(p)
                 /\ Positions(pos, Len(p), at)
                 /\ \A j \in 1..Len(p) : p[j] = calls[pos[j]]
  BY <1>1, <1>2, PickedIs
<1>4. Len(p) \in Nat /\ DOMAIN p = 1..Len(p)
  BY <1>3, SeqIsFunction
<1>5. \A j \in DOMAIN p : pos[j] \in at /\ pos[j] \in DOMAIN calls /\ p[j] = calls[pos[j]]
  BY <1>3, <1>4 DEF Positions
<1>6. ASSUME NEW i \in DOMAIN p, NEW j \in DOMAIN p, p[i].id = p[j].id
      PROVE  i = j
  <2>1. pos[i] = pos[j]
    BY <1>5, <1>6 DEF AreCalls
  <2>2. pos[i] \in Int
    BY <1>2, <1>5
  <2>3. ~(i < j) /\ ~(j < i)
    BY <1>3, <1>4, <2>1, <2>2 DEF Positions
  <2> QED
    BY <1>4, <2>3
<1>7. AreCalls(p)
  <2>1. \A j \in DOMAIN p : DOMAIN p[j] = CallFields
    BY <1>5 DEF AreCalls
  <2> QED
    BY <1>3, <1>6, <2>1 DEF AreCalls
<1>8. \A i \in at : \E j \in DOMAIN p : pos[j] = i
  BY <1>3, <1>4 DEF Positions
<1>9. IdsAt(p, DOMAIN p) = IdsAt(calls, at)
  BY <1>5, <1>8 DEF IdsAt
<1>10. p = << >> <=> at = {}
  <2>1. at = {} => Len(p) = 0
    <3>1. Len(p) # 0 => 1 \in DOMAIN p
      BY <1>4
    <3> QED
      BY <1>5, <3>1
  <2>2. Len(p) = 0 => p = << >>
    BY <1>3, EmptyIsSeq, SameSeq
  <2>3. p = << >> => at = {}
    BY <1>8, EmptyIsSeq
  <2> QED
    BY <2>1, <2>2, <2>3
<1> QED
  BY <1>1, <1>5, <1>7, <1>9, <1>10

LEMMA ResultsOfCalls ==
  ASSUME NEW calls, AreCalls(calls),
         NEW h, h = [i \in DOMAIN calls |-> h[i]],
         \A i \in DOMAIN calls : \E why : h[i] = Result(calls[i].id, why)
  PROVE  ResultsOf(h, IdsAt(calls, DOMAIN calls))
<1>1. IsSeq(h) /\ DOMAIN h = DOMAIN calls /\ DOMAIN h = 1..Len(h)
  BY EachOf, SeqIsFunction DEF AreCalls
<1>2. ASSUME NEW j \in DOMAIN calls
      PROVE  /\ \E call, why : h[j] = Result(call, why)
             /\ h[j].call = calls[j].id
  <2>1. PICK why : h[j] = Result(calls[j].id, why)
    OBVIOUS
  <2>2. h[j].call = calls[j].id
    BY <2>1 DEF Result
  <2> QED
    BY <2>1, <2>2
<1>3. DOMAIN calls = 1..Len(h)
  BY <1>1
<1>4. \A i, j \in 1..Len(h) : h[i].call = h[j].call => i = j
  <2>1. \A i, j \in DOMAIN calls : calls[i].id = calls[j].id => i = j
    BY DEF AreCalls
  <2>2. \A i \in 1..Len(h) : i \in DOMAIN calls /\ h[i].call = calls[i].id
    BY <1>2, <1>3
  <2> QED
    BY <2>1, <2>2
<1>5. IdsAt(calls, DOMAIN calls) = {h[j].call : j \in 1..Len(h)}
  BY <1>2, <1>3 DEF IdsAt
<1> QED
  BY <1>1, <1>2, <1>3, <1>4, <1>5 DEF ResultsOf

----------------------------------------------------------------------------
(***************************************************************************)
(* Calls get their results.                                                *)
(***************************************************************************)
\* The calls are as g says, the rest of the turn stays.
Restates(s, p, g) ==
  /\ Rooted(p) /\ Matched(p.book, g)
  /\ p.turn.calls = g
  /\ p.turn.id = s.turn.id /\ p.turn.cause = s.turn.cause
  /\ p.turn.stage = s.turn.stage /\ p.turn.mark = s.turn.mark
  /\ p.turn.queued = s.turn.queued /\ p.turn.intr = s.turn.intr
  /\ p.perm = s.perm /\ p.eff = s.eff /\ p.out = s.out /\ p.stored = s.stored
  /\ p.book.lastReply = s.book.lastReply
  /\ Len(p.log) >= Len(s.log)

LEMMA CallsChange ==
  ASSUME NEW s, Rooted(s), NEW g, IsSeq(g)
  PROVE  LET d == [s EXCEPT !.turn.calls = g] IN
         /\ Rooted(d) /\ d.turn.calls = g /\ d.book = s.book /\ d.log = s.log
         /\ d.turn.id = s.turn.id /\ d.turn.cause = s.turn.cause
         /\ d.turn.stage = s.turn.stage /\ d.turn.mark = s.turn.mark
         /\ d.turn.queued = s.turn.queued /\ d.turn.intr = s.turn.intr
         /\ d.perm = s.perm /\ d.eff = s.eff /\ d.out = s.out /\ d.stored = s.stored
<1>1. PICK d : d = [s EXCEPT !.turn.calls = g]
  OBVIOUS
<1>2. Shapely(s)
  BY RootedBook
<1>3. /\ Shapely(d) /\ d.log = s.log /\ d.book = s.book /\ d.stored = s.stored
      /\ d.refused = s.refused /\ d.out = s.out /\ d.perm = s.perm /\ d.eff = s.eff
      /\ d.turn.id = s.turn.id /\ d.turn.cause = s.turn.cause
      /\ d.turn.stage = s.turn.stage /\ d.turn.mark = s.turn.mark
      /\ d.turn.queued = s.turn.queued /\ d.turn.intr = s.turn.intr
      /\ d.turn.calls = g
  BY <1>1, <1>2 DEF Shapely, KernelFields, TurnFields
<1>4. Rank(d.eff) <= Rank(d.perm) /\ OutFits(d)
  BY <1>3 DEF Rooted, OutFits
<1>5. Rooted(d)
  BY <1>3, <1>4, RootedAside
<1> QED
  BY <1>1, <1>3, <1>5

LEMMA CallsSettle ==
  ASSUME NEW s, Rooted(s), s.turn.id # 0, Matched(s.book, s.turn.calls),
         NEW g, AreCalls(g), NEW ids, ids \subseteq OpenIds(s.turn.calls),
         OpenIds(g) = OpenIds(s.turn.calls) \ ids,
         IdsIn(g, "asking") = IdsIn(s.turn.calls, "asking") \ ids,
         IdsIn(g, "questioning") = IdsIn(s.turn.calls, "questioning") \ ids,
         NEW list, ResultsOf(list, ids), NEW cause
  PROVE  Restates(s, PutEach([s EXCEPT !.turn.calls = g], cause, list), g)
<1>1. PICK d : d = [s EXCEPT !.turn.calls = g]
  OBVIOUS
<1>2. /\ Rooted(d) /\ d.turn.calls = g /\ d.book = s.book /\ d.log = s.log
      /\ d.turn.id = s.turn.id /\ d.turn.cause = s.turn.cause
      /\ d.turn.stage = s.turn.stage /\ d.turn.mark = s.turn.mark
      /\ d.turn.queued = s.turn.queued /\ d.turn.intr = s.turn.intr
      /\ d.perm = s.perm /\ d.eff = s.eff /\ d.out = s.out /\ d.stored = s.stored
  BY <1>1, CallsChange DEF AreCalls
<1>3. PICK p : p = PutEach(d, cause, list)
  OBVIOUS
<1>4. ids \subseteq d.book.pending /\ d.turn.id # 0
  BY <1>2 DEF Matched
<1>5. Settles(d, p, ids)
  BY <1>2, <1>3, <1>4, ResultsSettle
<1>6. Matched(p.book, g)
  BY <1>2, <1>5 DEF Settles, Matched
<1> QED
  BY <1>1, <1>2, <1>3, <1>5, <1>6 DEF Settles, Beside, Restates

LEMMA SettleCallsLinked ==
  ASSUME NEW s, InOrder(s), NEW at \in SUBSET (DOMAIN s.turn.calls),
         \A i \in at : s.turn.calls[i].state # "done",
         at # {} => s.turn.intr.wake = 0,
         Permits(s, at), NEW cause, NEW why
  PROVE  Linked(SettleCalls(s, at, cause, why))
<1>1. CASE s.turn.stage # "tools"
  <2>1. s.turn.calls = << >>
    BY <1>1 DEF InOrder, Staged
  <2>2. Permits(s, {})
    BY <2>1, EmptyIsSeq DEF Permits
  <2> QED
    BY <1>1, <2>2 DEF SettleCalls, Linked
<1>2. CASE s.turn.stage = "tools"
  <2>1. PICK calls : calls = s.turn.calls
    OBVIOUS
  <2>2. AreCalls(calls) /\ at \in SUBSET (DOMAIN calls) /\ Orderly(calls)
    BY <2>1 DEF InOrder, Matched
  <2>3. s.turn.id # 0
    BY <1>2 DEF InOrder, Staged
  <2>4. PICK g : g = MadeDone(calls, at)
    OBVIOUS
  <2>5. /\ AreCalls(g) /\ DOMAIN g = DOMAIN calls
        /\ OpenIds(g) = OpenIds(calls) \ IdsAt(calls, at)
        /\ \A state \in {"asking", "questioning"} :
             IdsIn(g, state) = IdsIn(calls, state) \ IdsAt(calls, at)
        /\ Orderly(calls) => Orderly(g)
        /\ \A i \in DOMAIN calls :
             /\ g[i].id = calls[i].id /\ g[i].access = calls[i].access
             /\ g[i].asksWrite = calls[i].asksWrite
             /\ g[i].state = IF i \in at THEN "done" ELSE calls[i].state
    BY <2>2, <2>4, DoneCalls
  <2>6. PICK h : h = [i \in DOMAIN calls |-> Result(calls[i].id, why[i])]
    OBVIOUS
  <2>7. /\ h = [i \in DOMAIN calls |-> h[i]]
        /\ \A i \in DOMAIN calls : \E y : h[i] = Result(calls[i].id, y)
    BY <2>6
  <2>8. PICK list, ids : list = Picked(h, at) /\ ids = IdsAt(calls, at)
    OBVIOUS
  <2>9. ResultsOf(list, ids)
    BY <2>2, <2>7, <2>8, PickedResults
  <2>10. ids \subseteq OpenIds(calls)
    BY <2>1, <2>2, <2>8 DEF IdsAt, OpenIds
  <2>11. PICK p : p = PutEach([s EXCEPT !.turn.calls = g], cause, list)
    OBVIOUS
  <2>12. Restates(s, p, g)
    BY <2>1, <2>3, <2>5, <2>8, <2>9, <2>10, <2>11, CallsSettle DEF InOrder
  <2>13. PICK t : t = SettleCalls(s, at, cause, why)
    OBVIOUS
  <2>14. [s EXCEPT !.turn.calls =
             [i \in DOMAIN @ |-> IF i \in at
                THEN [@[i] EXCEPT !.state = "done"] ELSE @[i]]]
         = [s EXCEPT !.turn.calls = g]
    BY <2>1, <2>4 DEF MadeDone
  <2>15. PICK d : d = [s EXCEPT !.turn.calls = g]
    OBVIOUS
  <2>16. d.turn.calls = g
    BY <2>5, <2>15, CallsChange DEF InOrder, AreCalls
  <2>17. t = IF at # {} /\ Finished(g) THEN FinishStep(p, s.turn.cause) ELSE p
    BY <1>2, <2>1, <2>6, <2>8, <2>11, <2>13, <2>14, <2>15, <2>16 DEF SettleCalls
  <2>18. CASE at # {} /\ Finished(g)
    <3>1. OpenIds(g) = {}
      BY <2>18 DEF Finished, OpenIds, IdsAt
    <3>2. p.book.pending = {} /\ Rooted(p) /\ p.turn.id # 0 /\ p.turn.intr.wake = 0
      BY <2>3, <2>12, <2>18, <3>1 DEF Restates, Matched
    <3>3. Calm(FinishStep(p, s.turn.cause))
      BY <3>2, FinishStepCalm
    <3> QED
      BY <2>13, <2>17, <2>18, <3>3, CalmIsLinked
  <2>19. CASE ~(at # {} /\ Finished(g))
    <3>1. Staged(p)
      <4>1. p.turn.stage = "tools" /\ p.turn.id # 0
        BY <1>2, <2>3, <2>12 DEF Restates
      <4>2. p.turn.intr.wake # 0 =>
              \A i \in DOMAIN p.turn.calls : p.turn.calls[i].state \in {"done", "stopping"}
        BY <2>1, <2>5, <2>12 DEF Restates, InOrder, Staged
      <4> QED
        BY <4>1, <4>2 DEF Staged
    <3>2. Permits(p, {})
      BY <2>1, <2>5, <2>12 DEF Restates, Permits, NotRun, Writes
    <3>3. Orderly(g)
      BY <2>2, <2>5
    <3> QED
      BY <2>12, <2>13, <2>17, <2>19, <3>1, <3>2, <3>3 DEF Restates, Linked, InOrder
  <2> QED
    BY <2>18, <2>19
<1> QED
  BY <1>1, <1>2

----------------------------------------------------------------------------
(***************************************************************************)
(* Calls go on.                                                            *)
(***************************************************************************)
\* Calls that are neither done nor waiting for a person change their state.
LEMMA SameOpenCalls ==
  ASSUME NEW calls, AreCalls(calls), NEW g, IsSeq(g), DOMAIN g = DOMAIN calls,
         \A i \in DOMAIN calls :
           /\ DOMAIN g[i] = CallFields /\ g[i].id = calls[i].id
           /\ g[i].state = "done" <=> calls[i].state = "done"
           /\ g[i].state = "asking" <=> calls[i].state = "asking"
           /\ g[i].state = "questioning" <=> calls[i].state = "questioning"
  PROVE  /\ AreCalls(g) /\ OpenIds(g) = OpenIds(calls)
         /\ IdsIn(g, "asking") = IdsIn(calls, "asking")
         /\ IdsIn(g, "questioning") = IdsIn(calls, "questioning")
<1>1. AreCalls(g)
  BY DEF AreCalls
<1>2. OpenIds(g) = OpenIds(calls)
  BY DEF OpenIds, IdsAt
<1>3. IdsIn(g, "asking") = IdsIn(calls, "asking")
  BY DEF IdsIn, IdsAt
<1>4. IdsIn(g, "questioning") = IdsIn(calls, "questioning")
  BY DEF IdsIn, IdsAt
<1> QED
  BY <1>1, <1>2, <1>3, <1>4

\* Actions that start no write where nothing may be written.
LEMMA DoRooted ==
  ASSUME NEW s, Rooted(s), NEW actions,
         \A a \in actions : a.a = "RunTool" /\ a.write => Rank(s.perm) # 0
  PROVE  LET t == Do(s, actions) IN
         /\ Rooted(t) /\ t.turn = s.turn /\ t.book = s.book /\ t.log = s.log
         /\ t.perm = s.perm /\ t.eff = s.eff /\ t.stored = s.stored
<1>1. PICK t : t = Do(s, actions)
  OBVIOUS
<1>2. Shapely(s)
  BY RootedBook
<1>3. /\ Shapely(t) /\ t.log = s.log /\ t.book = s.book /\ t.stored = s.stored
      /\ t.refused = s.refused /\ t.perm = s.perm /\ t.eff = s.eff /\ t.turn = s.turn
      /\ t.out = s.out \union actions
  BY <1>1, <1>2 DEF Do, Shapely, KernelFields
<1>4. Rank(t.eff) <= Rank(t.perm) /\ OutFits(t)
  BY <1>3 DEF Rooted, OutFits
<1>5. Rooted(t)
  BY <1>3, <1>4, RootedAside
<1> QED
  BY <1>1, <1>3, <1>5

LEMMA DoLinked ==
  ASSUME NEW s, NEW actions,
         \A a \in actions : a.a = "RunTool" /\ a.write => Rank(s.perm) # 0
  PROVE  /\ Linked(s) => Linked(Do(s, actions))
         /\ Calm(s) => Calm(Do(s, actions))
<1>1. PICK t : t = Do(s, actions)
  OBVIOUS
<1>2. ASSUME Rooted(s)
      PROVE  /\ Rooted(t) /\ t.turn = s.turn /\ t.book = s.book /\ t.log = s.log
             /\ t.perm = s.perm /\ t.eff = s.eff /\ t.stored = s.stored
  BY <1>1, <1>2, DoRooted
<1>3. Linked(s) => Linked(t)
  BY <1>2 DEF Linked, InOrder, Staged, Permits
<1>4. Calm(s) => Calm(t)
  BY <1>2 DEF Calm
<1> QED
  BY <1>1, <1>3, <1>4

LEMMA DispatchLinked ==
  ASSUME NEW s, Linked(s)
  PROVE  Linked(Dispatch(s))
<1>1. CASE s.turn.stage # "tools" \/ s.stored < s.turn.mark
  BY <1>1 DEF Dispatch
<1>2. CASE ~(s.turn.stage # "tools" \/ s.stored < s.turn.mark)
  <2>1. PICK calls : calls = s.turn.calls
    OBVIOUS
  <2>2. PICK approved, answered :
          /\ approved = {i \in DOMAIN calls : calls[i].state = "approved"
                                               /\ Landed(s, calls[i])}
          /\ answered = {i \in DOMAIN calls : calls[i].state = "answered"
                                               /\ Landed(s, calls[i])}
    OBVIOUS
  <2>3. PICK going : going = [i \in DOMAIN calls |->
                         IF i \in approved \union answered
                           THEN [calls[i] EXCEPT !.state = "running"]
                           ELSE calls[i]]
    OBVIOUS
  <2>4. PICK next : next = Ready(going)
    OBVIOUS
  <2>5. PICK g : g = [i \in DOMAIN going |-> IF i \in next
                      THEN [going[i] EXCEPT !.state = "guarding"] ELSE going[i]]
    OBVIOUS
  <2>6. PICK a : a = {RunTool(s, calls[i]) : i \in approved}
                  \union {[a |-> "AnswerTool", call |-> calls[i].id] : i \in answered}
                  \union {[a |-> "GuardTool", call |-> calls[i].id] : i \in next}
    OBVIOUS
  <2>7. PICK d : d = [s EXCEPT !.turn.calls = g]
    OBVIOUS
  <2>8. Dispatch(s) = Do(d, a)
    <3> DEFINE cs == s.turn.calls
               due(state) == {i \in DOMAIN cs : cs[i].state = state /\ Landed(s, cs[i])}
               ap == due("approved")
               an == due("answered")
               go == [i \in DOMAIN cs |-> IF i \in ap \union an
                        THEN [cs[i] EXCEPT !.state = "running"] ELSE cs[i]]
               nx == Ready(go)
               gg == [i \in DOMAIN go |-> IF i \in nx
                        THEN [go[i] EXCEPT !.state = "guarding"] ELSE go[i]]
               aa == {RunTool(s, cs[i]) : i \in ap}
                       \union {[a |-> "AnswerTool", call |-> cs[i].id] : i \in an}
                       \union {[a |-> "GuardTool", call |-> cs[i].id] : i \in nx}
    <3>1. Dispatch(s) = Do([s EXCEPT !.turn.calls = gg], aa)
      BY <1>2 DEF Dispatch
    <3>2. approved = ap /\ answered = an
      BY <2>1, <2>2
    <3> HIDE DEF ap, an
    <3>3. going = go
      BY <2>1, <2>3, <3>2
    <3> HIDE DEF go
    <3>4. next = nx
      BY <2>4, <3>3
    <3> HIDE DEF nx
    <3>5. g = gg
      BY <2>5, <3>3, <3>4
    <3>6. a = aa
      BY <2>1, <2>6, <3>2, <3>4
    <3> HIDE DEF gg, aa
    <3> QED
      BY <2>7, <3>1, <3>5, <3>6
  <2>9. AreCalls(calls) /\ Orderly(calls) /\ DOMAIN calls = 1..Len(calls) /\ Len(calls) \in Nat
    BY <2>1, SeqIsFunction DEF Linked, InOrder, Matched, AreCalls
  <2>10. ASSUME NEW i \in DOMAIN calls
         PROVE  /\ DOMAIN going[i] = CallFields
                /\ going[i].id = calls[i].id /\ going[i].access = calls[i].access
                /\ going[i].asksWrite = calls[i].asksWrite
                /\ going[i].state = IF i \in approved \union answered THEN "running"
                                                                      ELSE calls[i].state
    <3>1. DOMAIN calls[i] = CallFields
      BY <2>9 DEF AreCalls
    <3> QED
      BY <2>3, <3>1 DEF CallFields
  <2>11. DOMAIN going = DOMAIN calls /\ DOMAIN g = DOMAIN calls /\ g = [i \in DOMAIN calls |-> g[i]]
    BY <2>3, <2>5
  <2>12. ASSUME NEW i \in DOMAIN calls
         PROVE  /\ DOMAIN g[i] = CallFields
                /\ g[i].id = calls[i].id /\ g[i].access = calls[i].access
                /\ g[i].asksWrite = calls[i].asksWrite
                /\ g[i].state = IF i \in next THEN "guarding"
                                ELSE IF i \in approved \union answered THEN "running"
                                ELSE calls[i].state
    <3>1. g[i] = IF i \in next THEN [going[i] EXCEPT !.state = "guarding"] ELSE going[i]
      BY <2>5, <2>11
    <3> QED
      BY <2>10, <3>1 DEF CallFields
  <2>13. \A i \in next : /\ i \in DOMAIN calls /\ calls[i].state = "waiting"
                         /\ i \notin approved \union answered
    BY <2>2, <2>4, <2>10, <2>11 DEF Ready
  <2>14. \A i \in approved \union answered :
           i \in DOMAIN calls /\ calls[i].state \in {"approved", "answered"}
    BY <2>2
  <2>15. \A i \in DOMAIN calls :
           /\ g[i].state = "done" <=> calls[i].state = "done"
           /\ g[i].state = "asking" <=> calls[i].state = "asking"
           /\ g[i].state = "questioning" <=> calls[i].state = "questioning"
           /\ g[i].state = "stopping" <=> calls[i].state = "stopping"
    BY <2>12, <2>13, <2>14
  <2>16. /\ IsSeq(g) /\ AreCalls(g) /\ OpenIds(g) = OpenIds(calls)
         /\ IdsIn(g, "asking") = IdsIn(calls, "asking")
         /\ IdsIn(g, "questioning") = IdsIn(calls, "questioning")
    <3>1. IsSeq(g)
      BY <2>9, <2>11, EachOf DEF AreCalls
    <3> QED
      BY <2>9, <2>11, <2>12, <2>15, <3>1, SameOpenCalls
  <2>17. Orderly(g)
    <3>1. SUFFICES ASSUME NEW i \in DOMAIN calls, NEW j \in DOMAIN calls, i < j,
                          ~(g[i].access = "read" /\ g[j].access = "read"),
                          g[i].state # "done"
                   PROVE  g[j].state \in {"waiting", "done"}
      BY <2>11 DEF Orderly
    <3>2. ~(calls[i].access = "read" /\ calls[j].access = "read") /\ calls[i].state # "done"
      BY <2>12, <2>15, <3>1
    <3>3. calls[j].state \in {"waiting", "done"}
      BY <2>9, <3>1, <3>2 DEF Orderly
    <3>4. j \notin next
      <4>1. ASSUME j \in next PROVE FALSE
        <5>1. i \in 1..(j - 1)
          BY <2>9, <3>1
        <5>2. going[i].state = "done" \/ (going[j].access = "read" /\ going[i].access = "read")
          BY <2>4, <4>1, <5>1 DEF Ready
        <5>3. going[i].state # "done"
          BY <2>10, <3>2
        <5> QED
          BY <2>10, <3>2, <5>2, <5>3
      <4> QED
        BY <4>1
    <3> QED
      BY <2>12, <2>14, <3>3, <3>4
  <2>18. /\ Rooted(d) /\ d.turn.calls = g /\ d.book = s.book /\ d.log = s.log
         /\ d.turn.id = s.turn.id
         /\ d.turn.stage = s.turn.stage /\ d.turn.mark = s.turn.mark
         /\ d.turn.queued = s.turn.queued /\ d.turn.intr = s.turn.intr
         /\ d.perm = s.perm /\ d.eff = s.eff
    BY <2>7, <2>16, CallsChange DEF Linked, InOrder
  <2>19. Matched(d.book, d.turn.calls)
    BY <2>1, <2>16, <2>18 DEF Linked, InOrder, Matched
  <2>20. Staged(d)
    <3>1. d.turn.stage = "tools" /\ d.turn.id # 0
      BY <1>2, <2>18 DEF Linked, InOrder, Staged
    <3>2. d.turn.intr.wake # 0 =>
            \A i \in DOMAIN d.turn.calls : d.turn.calls[i].state \in {"done", "stopping"}
      BY <2>1, <2>11, <2>15, <2>18 DEF Linked, InOrder, Staged
    <3> QED
      BY <3>1, <3>2 DEF Staged
  <2>21. Permits(d, {})
    <3>1. SUFFICES ASSUME Rank(s.eff) = 0, NEW i \in DOMAIN calls, NotRun(g[i])
                   PROVE  ~Writes(g[i])
      BY <2>11, <2>18 DEF Permits
    <3>2. NotRun(calls[i])
      BY <2>12, <2>13, <2>14, <3>1 DEF NotRun
    <3>3. ~Writes(calls[i])
      BY <2>1, <3>1, <3>2 DEF Linked, Permits
    <3> QED
      BY <2>12, <3>3 DEF Writes
  <2>22. Linked(d)
    BY <2>17, <2>18, <2>19, <2>20, <2>21 DEF Linked, InOrder
  <2>23. ASSUME NEW x \in a, x.a = "RunTool", x.write PROVE Rank(d.perm) # 0
    <3>1. PICK i \in approved : x = RunTool(s, calls[i])
      <4>1. ~\E i \in answered : x = [a |-> "AnswerTool", call |-> calls[i].id]
        BY <2>23
      <4>2. ~\E i \in next : x = [a |-> "GuardTool", call |-> calls[i].id]
        BY <2>23
      <4> QED
        BY <2>6, <4>1, <4>2
    <3>2. i \in DOMAIN calls /\ calls[i].state = "approved"
      BY <2>2
    <3>3. Writes(calls[i])
      BY <2>23, <3>1 DEF RunTool
    <3>4. Rank(s.eff) # 0
      BY <2>1, <3>2, <3>3 DEF Linked, Permits, NotRun
    <3>5. Rank(s.eff) \in {0, 1, 2} /\ Rank(s.perm) \in {0, 1, 2}
      BY RankIsNumber
    <3> QED
      BY <2>18, <3>4, <3>5 DEF Rooted
  <2> QED
    BY <2>8, <2>22, <2>23, DoLinked
<1> QED
  BY <1>1, <1>2

\* Calls nothing has been done about.
Fresh(calls) ==
  /\ AreCalls(calls)
  /\ \A i \in DOMAIN calls : calls[i].state = "waiting" /\ calls[i].asksWrite = FALSE

LEMMA StartToolsLinked ==
  ASSUME NEW s, Rooted(s), s.turn.id # 0, s.turn.intr.wake = 0,
         NEW calls, Fresh(calls), s.book.pending = IdsAt(calls, DOMAIN calls),
         s.book.asking = {}, s.book.questioning = {},
         NEW reply, NEW cause
  PROVE  Linked(StartTools(s, reply, calls, cause))
<1> DEFINE skipping == s.turn.interjected # None
           why(c) == IF skipping THEN "skipped"
                     ELSE IF c.access = "bad" THEN "unknown" ELSE "denied"
           blockedNow == {i \in DOMAIN calls :
                            skipping \/ calls[i].access = "bad"
                              \/ (calls[i].access = "write" /\ ReadOnlyNow(s))}
           hNow == [i \in DOMAIN calls |-> Result(calls[i].id, why(calls[i]))]
           byNow == IF skipping THEN s.turn.interjected ELSE cause
<1>1. PICK blocked, h, by : blocked = blockedNow /\ h = hNow /\ by = byNow
  OBVIOUS
<1>2. PICK pending : pending = Picked(calls, DOMAIN calls \ blocked)
  OBVIOUS
<1>3. PICK list : list = Picked(h, blocked)
  OBVIOUS
<1>4. PICK put : put = PutEach(s, by, list)
  OBVIOUS
<1>5. PICK step : step = [put EXCEPT !.turn.stage = "tools", !.turn.mark = reply,
                                     !.turn.calls = pending]
  OBVIOUS
<1>6. StartTools(s, reply, calls, cause) =
        IF pending = << >> THEN FinishStep(step, cause) ELSE step
  BY <1>1, <1>2, <1>3, <1>4, <1>5 DEF StartTools
<1>7. /\ blocked \in SUBSET (DOMAIN calls)
      /\ \A i \in DOMAIN calls \ blocked : calls[i].access = "write" => ~ReadOnlyNow(s)
  BY <1>1
<1>8. /\ h = [i \in DOMAIN calls |-> h[i]]
      /\ \A i \in DOMAIN calls : \E y : h[i] = Result(calls[i].id, y)
  BY <1>1
<1> HIDE DEF skipping, why, blockedNow, hNow, byNow
<1>9. AreCalls(calls) /\ \A i \in DOMAIN calls : calls[i].state = "waiting" /\ calls[i].asksWrite = FALSE
  BY DEF Fresh
<1>10. PICK ids : ids = IdsAt(calls, blocked)
  OBVIOUS
<1>11. ResultsOf(list, ids) /\ ids \subseteq s.book.pending
  <2>1. ResultsOf(list, ids)
    BY <1>3, <1>7, <1>8, <1>9, <1>10, PickedResults
  <2>2. ids \subseteq s.book.pending
    BY <1>7, <1>10 DEF IdsAt
  <2> QED
    BY <2>1, <2>2
<1>12. Settles(s, put, ids)
  BY <1>4, <1>11, ResultsSettle
<1>13. /\ AreCalls(pending)
       /\ IdsAt(pending, DOMAIN pending) = IdsAt(calls, DOMAIN calls \ blocked)
       /\ \A j \in DOMAIN pending : \E i \in DOMAIN calls \ blocked : pending[j] = calls[i]
  <2>1. PICK rest : rest = DOMAIN calls \ blocked
    OBVIOUS
  <2>2. rest \in SUBSET (DOMAIN calls) /\ pending = Picked(calls, rest)
    BY <1>2, <2>1
  <2>3. LET p == Picked(calls, rest) IN
        /\ AreCalls(p)
        /\ IdsAt(p, DOMAIN p) = IdsAt(calls, rest)
        /\ \A j \in DOMAIN p : \E i \in rest : p[j] = calls[i]
        /\ p = << >> <=> rest = {}
    BY <1>9, <2>2, PickedCalls
  <2> QED
    BY <2>1, <2>2, <2>3
<1>14. IdsAt(calls, DOMAIN calls \ blocked) = IdsAt(calls, DOMAIN calls) \ ids
  <2>1. \A i, j \in DOMAIN calls : calls[i].id = calls[j].id => i = j
    BY <1>9 DEF AreCalls
  <2> QED
    BY <1>7, <1>10, <2>1 DEF IdsAt
<1>15. put.book.pending = IdsAt(pending, DOMAIN pending)
  BY <1>12, <1>13, <1>14 DEF Settles
<1>16. Rooted(put) /\ Shapely(put) /\ put.turn = s.turn /\ put.eff = s.eff
  BY <1>12, RootedBook DEF Settles, Beside
<1>17. /\ Shapely(step) /\ step.log = put.log /\ step.book = put.book
       /\ step.stored = put.stored /\ step.refused = put.refused
       /\ step.out = put.out /\ step.perm = put.perm /\ step.eff = put.eff
       /\ step.turn.id = put.turn.id /\ step.turn.queued = put.turn.queued
       /\ step.turn.stage = "tools" /\ step.turn.calls = pending
       /\ step.turn.intr = put.turn.intr
  BY <1>5, <1>13, <1>16 DEF AreCalls, Shapely, KernelFields, TurnFields
<1>18. Rooted(step)
  <2>1. Rank(step.eff) <= Rank(step.perm) /\ OutFits(step)
    BY <1>16, <1>17 DEF Rooted, OutFits
  <2> QED
    BY <1>16, <1>17, <2>1, RootedAside
<1>19. step.turn.id # 0 /\ step.turn.intr.wake = 0
  BY <1>16, <1>17
<1>20. CASE pending = << >>
  <2>1. step.book.pending = {}
    BY <1>15, <1>17, <1>20, EmptyIsSeq DEF IdsAt
  <2>2. Calm(FinishStep(step, cause))
    BY <1>18, <1>19, <2>1, FinishStepCalm
  <2> QED
    BY <1>6, <1>20, <2>2, CalmIsLinked
<1>21. CASE pending # << >>
  <2>1. \A j \in DOMAIN pending :
          /\ pending[j].state = "waiting" /\ pending[j].asksWrite = FALSE
          /\ pending[j].access = "write" => ~ReadOnlyNow(s)
    BY <1>7, <1>9, <1>13
  <2>2. Matched(step.book, step.turn.calls)
    <3>1. OpenIds(pending) = IdsAt(pending, DOMAIN pending)
      BY <2>1 DEF OpenIds, IdsAt
    <3>2. IdsIn(pending, "asking") = {} /\ IdsIn(pending, "questioning") = {}
      BY <2>1 DEF IdsIn, IdsAt
    <3>3. put.book.asking = {} /\ put.book.questioning = {}
      BY <1>12 DEF Settles
    <3> QED
      BY <1>13, <1>15, <1>17, <3>1, <3>2, <3>3 DEF Matched
  <2>3. Staged(step)
    BY <1>17, <1>19 DEF Staged
  <2>4. Orderly(step.turn.calls)
    BY <1>17, <2>1 DEF Orderly
  <2>5. Permits(step, {})
    BY <1>16, <1>17, <2>1 DEF Permits, Writes, ReadOnlyNow
  <2> QED
    BY <1>6, <1>18, <1>21, <2>2, <2>3, <2>4, <2>5 DEF Linked, InOrder
<1> QED
  BY <1>20, <1>21

\* One call is done, with its result; the step goes on if it was the last.
LEMMA OneDoneRestates ==
  ASSUME NEW s, Linked(s), s.turn.stage = "tools",
         NEW i \in DOMAIN s.turn.calls, s.turn.calls[i].state # "done",
         NEW call, call = s.turn.calls[i].id, NEW why, NEW cause
  PROVE  /\ Restates(s, Put(SetState(s, i, "done"), cause, Result(call, why)),
                     MadeDone(s.turn.calls, {i}))
         /\ SetState(s, i, "done").turn.calls = MadeDone(s.turn.calls, {i})
<1>1. PICK calls : calls = s.turn.calls
  OBVIOUS
<1>2. AreCalls(calls) /\ {i} \in SUBSET (DOMAIN calls) /\ Orderly(calls)
  BY <1>1 DEF Linked, InOrder, Matched
<1>3. s.turn.id # 0
  BY DEF Linked, InOrder, Staged
<1>4. PICK g : g = MadeDone(calls, {i})
  OBVIOUS
<1>5. /\ AreCalls(g) /\ DOMAIN g = DOMAIN calls
      /\ OpenIds(g) = OpenIds(calls) \ IdsAt(calls, {i})
      /\ \A state \in {"asking", "questioning"} :
           IdsIn(g, state) = IdsIn(calls, state) \ IdsAt(calls, {i})
      /\ Orderly(calls) => Orderly(g)
      /\ \A j \in DOMAIN calls :
           /\ g[j].id = calls[j].id /\ g[j].access = calls[j].access
           /\ g[j].asksWrite = calls[j].asksWrite
           /\ g[j].state = IF j \in {i} THEN "done" ELSE calls[j].state
  BY <1>2, <1>4, DoneCalls
<1>6. IdsAt(calls, {i}) = {call}
  BY <1>1 DEF IdsAt
<1>7. PICK d : d = [s EXCEPT !.turn.calls = g]
  OBVIOUS
<1>8. SetState(s, i, "done") = d
  <2>1. Shapely(s)
    BY RootedBook DEF Linked, InOrder
  <2>2. [calls EXCEPT ![i].state = "done"] = g
    BY <1>4 DEF MadeDone
  <2> QED
    BY <1>1, <1>7, <2>1, <2>2 DEF SetState, Shapely, KernelFields, TurnFields
<1>9. PICK list : list = <<Result(call, why)>>
  OBVIOUS
<1>10. ResultsOf(list, {call})
  <2>1. IsSeq(list) /\ Len(list) = 1 /\ list[1] = Result(call, why)
    BY <1>9, LonelyIsSeq
  <2>2. list[1].call = call
    BY <2>1 DEF Result
  <2>3. \A j \in 1..Len(list) : j = 1
    BY <2>1
  <2>4. 1 \in 1..Len(list)
    BY <2>1
  <2>5. \A j \in 1..Len(list) : \E c, w : list[j] = Result(c, w)
    BY <2>1, <2>3
  <2>6. {call} = {list[j].call : j \in 1..Len(list)}
    BY <2>2, <2>3, <2>4
  <2> QED
    BY <2>1, <2>3, <2>5, <2>6 DEF ResultsOf
<1>11. PICK p : p = Put(d, cause, Result(call, why))
  OBVIOUS
<1>12. p = PutEach(d, cause, list)
  BY <1>9, <1>11, PutEachOne
<1>13. Restates(s, p, g)
  <2>1. {call} \subseteq OpenIds(calls)
    BY <1>1 DEF OpenIds, IdsAt
  <2> QED
    BY <1>1, <1>3, <1>5, <1>6, <1>7, <1>10, <1>12, <2>1, CallsSettle DEF Linked, InOrder
<1>14. d.turn.calls = g
  <2>1. Shapely(s)
    BY RootedBook DEF Linked, InOrder
  <2> QED
    BY <1>7, <2>1 DEF Shapely, KernelFields, TurnFields
<1> QED
  BY <1>1, <1>4, <1>8, <1>11, <1>13, <1>14

\* The step that is complete because of it goes on.
LEMMA OneDoneLinked ==
  ASSUME NEW s, Linked(s), s.turn.stage = "tools", s.turn.intr.wake = 0,
         NEW i \in DOMAIN s.turn.calls, s.turn.calls[i].state # "done",
         NEW call, call = s.turn.calls[i].id, NEW why, NEW cause, NEW by
  PROVE  LET put == Put(SetState(s, i, "done"), cause, Result(call, why)) IN
         /\ Finished(put.turn.calls) => Calm(FinishStep(put, by))
         /\ ~Finished(put.turn.calls) => Linked(put)
<1>1. PICK calls : calls = s.turn.calls
  OBVIOUS
<1>2. AreCalls(calls) /\ {i} \in SUBSET (DOMAIN calls) /\ Orderly(calls)
  BY <1>1 DEF Linked, InOrder, Matched
<1>3. s.turn.id # 0
  BY DEF Linked, InOrder, Staged
<1>4. PICK g : g = MadeDone(calls, {i})
  OBVIOUS
<1>5. /\ AreCalls(g) /\ DOMAIN g = DOMAIN calls
      /\ OpenIds(g) = OpenIds(calls) \ IdsAt(calls, {i})
      /\ \A state \in {"asking", "questioning"} :
           IdsIn(g, state) = IdsIn(calls, state) \ IdsAt(calls, {i})
      /\ Orderly(calls) => Orderly(g)
      /\ \A j \in DOMAIN calls :
           /\ g[j].id = calls[j].id /\ g[j].access = calls[j].access
           /\ g[j].asksWrite = calls[j].asksWrite
           /\ g[j].state = IF j \in {i} THEN "done" ELSE calls[j].state
  BY <1>2, <1>4, DoneCalls
<1>11. PICK p : p = Put(SetState(s, i, "done"), cause, Result(call, why))
  OBVIOUS
<1>13. Restates(s, p, g)
  BY <1>1, <1>4, <1>11, OneDoneRestates
<1>14. ASSUME Finished(g) PROVE Calm(FinishStep(p, by))
  <2>1. OpenIds(g) = {}
    BY <1>14 DEF Finished, OpenIds, IdsAt
  <2>2. p.book.pending = {} /\ Rooted(p) /\ p.turn.id # 0 /\ p.turn.intr.wake = 0
    BY <1>3, <1>13, <2>1 DEF Restates, Matched
  <2> QED
    BY <2>2, FinishStepCalm
<1>15. Linked(p)
  <2>1. Staged(p)
    <3>1. p.turn.stage = "tools" /\ p.turn.id # 0 /\ p.turn.intr.wake = 0
      BY <1>3, <1>13 DEF Restates
    <3> QED
      BY <3>1 DEF Staged
  <2>2. Permits(p, {})
    BY <1>1, <1>5, <1>13 DEF Restates, Permits, NotRun, Writes, Linked
  <2>3. Orderly(g)
    BY <1>2, <1>5
  <2> QED
    BY <1>13, <2>1, <2>2, <2>3 DEF Restates, Linked, InOrder
<1>16. p.turn.calls = g
  BY <1>13 DEF Restates
<1> QED
  BY <1>11, <1>14, <1>15, <1>16

----------------------------------------------------------------------------
(***************************************************************************)
(* The model.                                                              *)
(***************************************************************************)
LEMMA NumberedCallsAreFresh ==
  ASSUME NEW reply, NEW accesses, IsSeq(accesses)
  PROVE  LET calls == NumberedCalls(reply, accesses) IN
         /\ Fresh(calls) /\ DOMAIN calls = DOMAIN accesses
         /\ \A i \in DOMAIN calls : calls[i].id = <<reply, i>>
<1>1. PICK calls : calls = NumberedCalls(reply, accesses)
  OBVIOUS
<1>2. IsSeq(calls)
  BY <1>1, NumberedCallsAreSeq
<1>3. DOMAIN calls = DOMAIN accesses
  BY <1>1 DEF NumberedCalls
<1>4. ASSUME NEW i \in DOMAIN calls
      PROVE  /\ DOMAIN calls[i] = CallFields /\ calls[i].id = <<reply, i>>
             /\ calls[i].state = "waiting" /\ calls[i].asksWrite = FALSE
  <2>1. calls[i] = [id |-> <<reply, i>>, access |-> accesses[i], state |-> "waiting", at |-> 0,
                    asksWrite |-> FALSE]
    BY <1>1 DEF NumberedCalls
  <2> QED
    BY <2>1 DEF CallFields
<1>5. ASSUME NEW i \in DOMAIN calls, NEW j \in DOMAIN calls, calls[i].id = calls[j].id
      PROVE  i = j
  <2>1. <<reply, i>> = <<reply, j>>
    BY <1>4, <1>5
  <2> QED
    BY <2>1
<1> QED
  BY <1>1, <1>2, <1>3, <1>4, <1>5 DEF Fresh, AreCalls

\* A request has ended: what it brought is on record, its calls are open.
SettledBy(s, r) ==
  /\ Rooted(r.s) /\ Beside(s, r.s) /\ Fresh(r.calls)
  /\ r.s.book.pending = IdsAt(r.calls, DOMAIN r.calls)
  /\ r.s.book.asking = {} /\ r.s.book.questioning = {}
  /\ Len(r.s.log) > Len(s.log)

LEMMA SettleSettles ==
  ASSUME NEW s, Rooted(s), s.turn.id # 0, s.book.pending = {},
         NEW seen \in s.book.lastReply..Len(s.log),
         \A i \in 1..Len(s.turn.queued) : s.turn.queued[i].seq > seen,
         NEW cause, NEW ending, IsSeq(ending.calls), NEW cut \in BOOLEAN
  PROVE  LET r == Settle(s, seen, cause, ending, cut) IN
         /\ SettledBy(s, r)
         /\ ~cut /\ r.error # "none" => r.calls = << >>
<1> DEFINE failed == ending.error # "none"
           keptNow == IF ending.sent /\ (cut \/ ~failed) THEN ending.calls ELSE << >>
           repliedNow == ending.sent /\ (ending.text \/ keptNow # << >>)
           errorNow == IF ~cut /\ ~failed /\ ~repliedNow THEN "retry" ELSE ending.error
           resultNow == IF cut THEN "interrupted"
                        ELSE IF errorNow = "none" THEN "ok" ELSE "error"
<1>1. PICK kept, error, result : kept = keptNow /\ error = errorNow /\ result = resultNow
  OBVIOUS
<1>2. PICK calls : calls = NumberedCalls(s.book.next, kept)
  OBVIOUS
<1>3. PICK ids : ids = [i \in DOMAIN calls |-> calls[i].id]
  OBVIOUS
<1>4. PICK put : put = IF repliedNow
                         THEN Put(s, cause, [k |-> "message.assistant", seen |-> seen,
                                             calls |-> ids])
                         ELSE s
  OBVIOUS
<1>5. PICK end : end = Put(put, cause, [k |-> "model.called", seen |-> seen, aside |-> FALSE,
                                        result |-> result])
  OBVIOUS
<1>6. PICK r : r = Settle(s, seen, cause, ending, cut)
  OBVIOUS
<1>7. r.s = end /\ r.calls = calls /\ r.error = error
  BY <1>1, <1>2, <1>3, <1>4, <1>5, <1>6 DEF Settle
<1>8. IsSeq(kept) /\ (~repliedNow => kept = << >>)
      /\ (~cut /\ error # "none" => kept = << >>)
  BY <1>1, EmptyIsSeq
<1> HIDE DEF failed, keptNow, errorNow, resultNow
<1>9. /\ Fresh(calls) /\ DOMAIN calls = DOMAIN kept
      /\ \A i \in DOMAIN calls : calls[i].id = <<s.book.next, i>>
  BY <1>2, <1>8, NumberedCallsAreFresh
<1>10. kept = << >> => calls = << >>
  <2>1. ASSUME kept = << >> PROVE calls = << >>
    <3>1. DOMAIN calls = {} /\ IsSeq(calls)
      BY <1>9, <2>1, EmptyIsSeq DEF Fresh, AreCalls
    <3>2. Len(calls) \in Nat /\ DOMAIN calls = 1..Len(calls)
      BY <3>1, SeqIsFunction
    <3>3. Len(calls) = 0
      <4>1. Len(calls) # 0 => 1 \in 1..Len(calls)
        BY <3>2
      <4> QED
        BY <3>1, <3>2, <4>1
    <3> QED
      BY <3>1, <3>3, EmptyIsSeq, SameSeq
  <2> QED
    BY <2>1
<1>11. /\ s.turn.id = s.book.open /\ s.book.open # 0 /\ Whole(s)
       /\ Len(s.log) \in Nat /\ s.book.lastReply \in 0..Len(s.log)
       /\ s.book.asking = {} /\ s.book.questioning = {}
  BY RootedBook DEF Rooted
<1>12. /\ Rooted(put) /\ Beside(s, put) /\ put.book.pending = IdsAt(calls, DOMAIN calls)
       /\ put.book.asking = {} /\ put.book.questioning = {}
       /\ put.book.open = s.book.open
       /\ Len(put.log) >= Len(s.log)
       /\ \A i \in 1..Len(s.turn.queued) : s.turn.queued[i].seq \in put.book.queued
  <2>1. CASE ~repliedNow
    <3>1. put = s /\ calls = << >>
      BY <1>4, <1>8, <1>10, <2>1
    <3>2. IdsAt(calls, DOMAIN calls) = {}
      BY <3>1, EmptyIsSeq DEF IdsAt
    <3>3. \A i \in 1..Len(s.turn.queued) : s.turn.queued[i].seq \in s.book.queued
      BY DEF Rooted, QueueFits
    <3>4. Beside(s, s) /\ Len(s.log) >= Len(s.log)
      BY <1>11 DEF Beside
    <3> QED
      BY <1>11, <3>1, <3>2, <3>3, <3>4
  <2>2. CASE repliedNow
    <3>1. put = Put(s, cause, [k |-> "message.assistant", seen |-> seen, calls |-> ids])
      BY <1>4, <2>2
    <3>2. IsSeq(ids) /\ DOMAIN ids = DOMAIN calls
      BY <1>3, <1>9, EachOf DEF Fresh, AreCalls
    <3>3. \A i \in DOMAIN ids : ids[i] = <<s.book.next, i>>
      BY <1>3, <1>9, <3>2
    <3>4. /\ Puts(s, put)
          /\ put.book.open = s.book.open
          /\ put.book.pending = Range(ids)
          /\ put.book.asking = {} /\ put.book.questioning = {}
          /\ put.book.queued = Unheard(s.book.queued, seen)
      <4>1. Replied(s, Put(s, cause, ReplyBody(seen, ids)), seen, ids)
        BY <1>11, <3>2, <3>3, PutReply
      <4> QED
        BY <3>1, <4>1 DEF Replied, ReplyBody
    <3>5. Range(ids) = IdsAt(calls, DOMAIN calls)
      BY <1>3 DEF Range, IdsAt
    <3>6. \A i \in 1..Len(s.turn.queued) : s.turn.queued[i].seq \in put.book.queued
      BY <3>4 DEF Rooted, QueueFits, Unheard
    <3>7. Rooted(put)
      BY <3>4, <3>6, PutsRooted
    <3> QED
      BY <1>11, <3>4, <3>5, <3>6, <3>7 DEF Puts
  <2> QED
    BY <2>1, <2>2
<1>13. /\ Puts(put, end) /\ AsOpen(put.book, end.book)
       /\ end.book.queued = Unheard(put.book.queued, seen)
  <2>1. put.turn.id = put.book.open /\ Whole(put) /\ Len(put.log) \in Nat
    BY <1>12, RootedBook DEF Rooted
  <2>2. seen \in 0..Len(put.log)
    BY <1>11, <1>12, <2>1
  <2> QED
    <3>1. LET t == Put(put, cause, [k |-> "model.called", seen |-> seen, aside |-> FALSE,
                                    result |-> result]) IN
          /\ Puts(put, t) /\ AsOpen(put.book, t.book)
          /\ t.book.queued = Unheard(put.book.queued, seen)
      BY <2>1, <2>2, PutCalled
    <3> QED
      BY <1>5, <3>1
<1>14. Rooted(end)
  <2>1. put.turn = s.turn
    BY <1>12 DEF Beside
  <2>2. \A i \in 1..Len(put.turn.queued) : put.turn.queued[i].seq \in end.book.queued
    BY <1>12, <1>13, <2>1 DEF Unheard
  <2> QED
    BY <1>12, <1>13, <2>2, PutsRooted DEF AsOpen
<1>15. Len(end.log) > Len(s.log) /\ Beside(s, end)
  <2>1. Len(put.log) \in Nat
    BY <1>12, RootedBook
  <2> QED
    BY <1>11, <1>12, <1>13, <2>1 DEF Puts, Beside
<1>16. SettledBy(s, r)
  BY <1>7, <1>9, <1>12, <1>13, <1>14, <1>15 DEF SettledBy, AsOpen
<1> QED
  BY <1>6, <1>7, <1>8, <1>10, <1>16

LEMMA WaitToRetryCalm ==
  ASSUME NEW s, Rooted(s), s.turn.id # 0, s.book.pending = {}, s.turn.calls = << >>,
         s.turn.intr.wake = 0, NEW seen, NEW cause, NEW cut
  PROVE  Calm(WaitToRetry(s, seen, cause, cut))
<1>1. PICK body : body = [k |-> "context.injected", fact |-> "cut"]
  OBVIOUS
<1>2. PICK put : put = IF cut THEN Put(s, cause, body) ELSE s
  OBVIOUS
<1>3. /\ Rooted(put) /\ put.turn = s.turn /\ put.book.pending = {}
  <2>1. CASE cut
    <3>1. Fine(body) /\ body.k = "context.injected"
      BY <1>1 DEF Fine
    <3>2. Puts(s, put) /\ AsOpen(s.book, put.book) /\ put.book.queued = s.book.queued
      BY <1>2, <2>1, <3>1, PutAside DEF Rooted
    <3>3. Rooted(put)
      BY <3>2, PutsRooted DEF AsOpen, Rooted, QueueFits
    <3> QED
      BY <3>2, <3>3 DEF Puts, Beside, AsOpen
  <2>2. CASE ~cut
    BY <1>2, <2>2
  <2> QED
    BY <2>1, <2>2
<1>4. PICK t : t = [put EXCEPT !.turn.retries = @ + 1, !.turn.retrying = TRUE,
                     !.turn.stage = "waiting", !.turn.mark = seen]
  OBVIOUS
<1>5. WaitToRetry(s, seen, cause, cut) = Do(t, {[a |-> "Wake", seen |-> seen]})
  BY <1>1, <1>2, <1>4 DEF WaitToRetry
<1>6. Shapely(put)
  BY <1>3, RootedBook
<1>7. /\ Shapely(t) /\ t.log = put.log /\ t.book = put.book /\ t.stored = put.stored
      /\ t.refused = put.refused /\ t.out = put.out /\ t.perm = put.perm /\ t.eff = put.eff
      /\ t.turn.id = put.turn.id /\ t.turn.queued = put.turn.queued
      /\ t.turn.calls = put.turn.calls /\ t.turn.intr = put.turn.intr
      /\ t.turn.stage = "waiting"
  BY <1>4, <1>6 DEF Shapely, KernelFields, TurnFields
<1>8. Rooted(t)
  <2>1. Rank(t.eff) <= Rank(t.perm) /\ OutFits(t)
    BY <1>3, <1>7 DEF Rooted, OutFits
  <2> QED
    BY <1>3, <1>7, <2>1, RootedAside
<1>9. Calm(t)
  BY <1>3, <1>7, <1>8 DEF Calm
<1> QED
  BY <1>5, <1>9, DoLinked

\* Between requests and with no calls open, the turn is calm.
LEMMA RestingIsCalm ==
  ASSUME NEW s, Linked(s), s.turn.stage \notin {"asking", "tools"}
  PROVE  Calm(s)
<1>1. s.turn.calls = << >> /\ s.turn.intr.wake = 0
  BY DEF Linked, InOrder, Staged
<1>2. s.book.pending = {}
  BY <1>1, NoCalls DEF Linked, InOrder, Matched
<1> QED
  BY <1>1, <1>2 DEF Calm, Linked, InOrder, Staged

\* What a request needs to be settled.
LEMMA AskingFacts ==
  ASSUME NEW s, Linked(s), s.turn.stage = "asking"
  PROVE  /\ Rooted(s) /\ s.turn.id # 0 /\ s.turn.calls = << >> /\ s.turn.intr.wake = 0
         /\ s.book.pending = {}
         /\ s.turn.mark \in s.book.lastReply..Len(s.log)
         /\ \A i \in 1..Len(s.turn.queued) : s.turn.queued[i].seq > s.turn.mark
<1>1. s.turn.calls = << >> /\ s.turn.intr.wake = 0
  BY DEF Linked, InOrder, Staged
<1>2. s.book.pending = {}
  BY <1>1, NoCalls DEF Linked, InOrder, Matched
<1> QED
  BY <1>1, <1>2 DEF Linked, InOrder, Staged

\* Only where the turn stands changes, and its calls may go.
OnlyStage(s, t) ==
  /\ Rooted(t) /\ t.log = s.log /\ t.book = s.book /\ t.stored = s.stored
  /\ t.perm = s.perm /\ t.eff = s.eff /\ t.out = s.out /\ t.policy = s.policy
  /\ t.turn.id = s.turn.id /\ t.turn.cause = s.turn.cause
  /\ t.turn.queued = s.turn.queued /\ t.turn.intr = s.turn.intr
  /\ t.turn.interjected = s.turn.interjected

MovedTo(s, stage, mark) == [s EXCEPT !.turn.stage = stage, !.turn.mark = mark]

LEMMA StageChanges ==
  ASSUME NEW s, Rooted(s), NEW stage, NEW mark, NEW t, t = MovedTo(s, stage, mark)
  PROVE  OnlyStage(s, t) /\ t.turn.stage = stage /\ t.turn.calls = s.turn.calls
<1>1. Shapely(s)
  BY RootedBook
<1>3. /\ Shapely(t) /\ t.log = s.log /\ t.book = s.book /\ t.stored = s.stored
      /\ t.refused = s.refused /\ t.out = s.out /\ t.perm = s.perm /\ t.eff = s.eff
      /\ t.policy = s.policy
      /\ t.turn.id = s.turn.id /\ t.turn.queued = s.turn.queued
      /\ t.turn.calls = s.turn.calls /\ t.turn.intr = s.turn.intr
      /\ t.turn.cause = s.turn.cause /\ t.turn.interjected = s.turn.interjected
      /\ t.turn.stage = stage
  BY <1>1 DEF MovedTo, Shapely, KernelFields, TurnFields
<1>4. Rank(t.eff) <= Rank(t.perm) /\ OutFits(t)
  BY <1>3 DEF Rooted, OutFits
<1>5. Rooted(t)
  BY <1>3, <1>4, RootedAside
<1> QED
  BY <1>3, <1>5 DEF OnlyStage

LEMMA StageOnlyChanges ==
  ASSUME NEW s, Rooted(s), NEW stage
  PROVE  LET t == [s EXCEPT !.turn.stage = stage] IN
         OnlyStage(s, t) /\ t.turn.stage = stage /\ t.turn.calls = s.turn.calls
                         /\ t.turn.mark = s.turn.mark
<1>1. Shapely(s)
  BY RootedBook
<1>2. PICK t : t = [s EXCEPT !.turn.stage = stage]
  OBVIOUS
<1>3. /\ Shapely(t) /\ t.log = s.log /\ t.book = s.book /\ t.stored = s.stored
      /\ t.refused = s.refused /\ t.out = s.out /\ t.perm = s.perm /\ t.eff = s.eff
      /\ t.policy = s.policy
      /\ t.turn.id = s.turn.id /\ t.turn.queued = s.turn.queued
      /\ t.turn.calls = s.turn.calls /\ t.turn.intr = s.turn.intr
      /\ t.turn.cause = s.turn.cause /\ t.turn.interjected = s.turn.interjected
      /\ t.turn.stage = stage /\ t.turn.mark = s.turn.mark
  BY <1>1, <1>2 DEF Shapely, KernelFields, TurnFields
<1>4. Rank(t.eff) <= Rank(t.perm) /\ OutFits(t)
  BY <1>3 DEF Rooted, OutFits
<1>5. Rooted(t)
  BY <1>3, <1>4, RootedAside
<1> QED
  BY <1>2, <1>3, <1>5 DEF OnlyStage

LEMMA CallsDropped ==
  ASSUME NEW s, Rooted(s), NEW stage
  PROVE  LET t == [s EXCEPT !.turn.stage = stage, !.turn.calls = << >>] IN
         OnlyStage(s, t) /\ t.turn.stage = stage /\ t.turn.calls = << >>
                         /\ t.turn.mark = s.turn.mark
<1>1. Shapely(s)
  BY RootedBook
<1>2. PICK t : t = [s EXCEPT !.turn.stage = stage, !.turn.calls = << >>]
  OBVIOUS
<1>3. /\ Shapely(t) /\ t.log = s.log /\ t.book = s.book /\ t.stored = s.stored
      /\ t.refused = s.refused /\ t.out = s.out /\ t.perm = s.perm /\ t.eff = s.eff
      /\ t.policy = s.policy
      /\ t.turn.id = s.turn.id /\ t.turn.queued = s.turn.queued
      /\ t.turn.calls = << >> /\ t.turn.intr = s.turn.intr
      /\ t.turn.cause = s.turn.cause /\ t.turn.interjected = s.turn.interjected
      /\ t.turn.stage = stage /\ t.turn.mark = s.turn.mark
  BY <1>1, <1>2, EmptyIsSeq DEF Shapely, KernelFields, TurnFields
<1>4. Rank(t.eff) <= Rank(t.perm) /\ OutFits(t)
  BY <1>3 DEF Rooted, OutFits
<1>5. Rooted(t)
  BY <1>3, <1>4, RootedAside
<1> QED
  BY <1>2, <1>3, <1>5 DEF OnlyStage

LEMMA ModelEndedLinked ==
  ASSUME NEW s, Linked(s), NEW seen, NEW ending, IsSeq(ending.calls)
  PROVE  Linked(ModelEnded(s, seen, ending))
<1>1. CASE s.turn.stage # "asking" \/ s.turn.mark # seen
  BY <1>1 DEF ModelEnded
<1>2. CASE s.turn.stage = "asking" /\ s.turn.mark = seen
  <2>1. PICK cause : cause = s.turn.cause
    OBVIOUS
  <2>2. PICK taken : taken = [s EXCEPT !.turn.stage = "settling", !.turn.mark = 0]
    OBVIOUS
  <2>3. PICK settled : settled = Settle(taken, seen, cause, ending, FALSE)
    OBVIOUS
  <2>4. PICK calm : calm = [settled.s EXCEPT !.turn.retries = 0]
    OBVIOUS
  <2>5. /\ Rooted(s) /\ s.turn.id # 0 /\ s.turn.calls = << >> /\ s.turn.intr.wake = 0
        /\ s.book.pending = {}
        /\ seen \in s.book.lastReply..Len(s.log)
        /\ \A i \in 1..Len(s.turn.queued) : s.turn.queued[i].seq > seen
    BY <1>2, AskingFacts
  <2>6. OnlyStage(s, taken) /\ taken.turn.stage = "settling" /\ taken.turn.calls = << >>
    <3>1. taken = MovedTo(s, "settling", 0)
      BY <2>2 DEF MovedTo
    <3> QED
      BY <2>5, <3>1, StageChanges
  <2>7. SettledBy(taken, settled) /\ (settled.error # "none" => settled.calls = << >>)
    <3>1. /\ taken.turn.id # 0 /\ taken.book.pending = {}
          /\ seen \in taken.book.lastReply..Len(taken.log)
          /\ \A i \in 1..Len(taken.turn.queued) : taken.turn.queued[i].seq > seen
          /\ Rooted(taken)
      BY <2>5, <2>6 DEF OnlyStage
    <3>2. LET r == Settle(taken, seen, cause, ending, FALSE) IN
          /\ SettledBy(taken, r)
          /\ ~FALSE /\ r.error # "none" => r.calls = << >>
      BY <3>1, SettleSettles
    <3> QED
      BY <2>3, <3>2
  <2>8. PICK u : u = settled.s
    OBVIOUS
  <2>9. /\ Rooted(u) /\ u.turn = taken.turn /\ Fresh(settled.calls)
        /\ u.book.pending = IdsAt(settled.calls, DOMAIN settled.calls)
        /\ u.book.asking = {} /\ u.book.questioning = {}
        /\ u.turn.id # 0 /\ u.turn.calls = << >> /\ u.turn.intr.wake = 0
    BY <2>5, <2>6, <2>7, <2>8 DEF SettledBy, Beside, OnlyStage
  <2>10. settled.calls = << >> => u.book.pending = {}
    BY <2>9, EmptyIsSeq DEF IdsAt
  <2>11. Shapely(u)
    BY <2>9, RootedBook
  <2>12. /\ Shapely(calm) /\ calm.log = u.log /\ calm.book = u.book /\ calm.stored = u.stored
         /\ calm.refused = u.refused /\ calm.out = u.out /\ calm.perm = u.perm
         /\ calm.eff = u.eff
         /\ calm.turn.id = u.turn.id /\ calm.turn.queued = u.turn.queued
         /\ calm.turn.intr = u.turn.intr
    BY <2>4, <2>8, <2>11 DEF Shapely, KernelFields, TurnFields
  <2>13. Rooted(calm)
    <3>1. Rank(calm.eff) <= Rank(calm.perm) /\ OutFits(calm)
      BY <2>9, <2>12 DEF Rooted, OutFits
    <3> QED
      BY <2>9, <2>12, <3>1, RootedAside
  <2>14. ModelEnded(s, seen, ending) =
           IF settled.error = "retry" /\ s.turn.retries < RetryLimit
             THEN WaitToRetry(u, seen, cause, settled.reply # 0)
           ELSE IF settled.error # "none"
             THEN FinishTurn(u, cause, "error")
           ELSE IF settled.calls # << >>
             THEN StartTools(calm, settled.reply, settled.calls, cause)
           ELSE FinishTurn(calm, cause, "completed")
    BY <1>2, <2>1, <2>2, <2>3, <2>4, <2>8 DEF ModelEnded
  <2>15. CASE settled.error = "retry" /\ s.turn.retries < RetryLimit
    <3>1. PICK c : c = (settled.reply # 0)
      OBVIOUS
    <3>2. settled.error # "none"
      BY <2>15
    <3>3. Calm(WaitToRetry(u, seen, cause, c))
      BY <2>7, <2>9, <2>10, <3>2, WaitToRetryCalm
    <3> QED
      BY <2>14, <2>15, <3>1, <3>3, CalmIsLinked
  <2>16. CASE ~(settled.error = "retry" /\ s.turn.retries < RetryLimit)
              /\ settled.error # "none"
    <3>1. Calm(FinishTurn(u, cause, "error"))
      BY <2>7, <2>9, <2>10, <2>16, FinishTurnCalm
    <3> QED
      BY <2>14, <2>16, <3>1, CalmIsLinked
  <2>17. CASE settled.error = "none" /\ settled.calls # << >>
    <3>1. PICK reply, calls : reply = settled.reply /\ calls = settled.calls
      OBVIOUS
    <3>2. Linked(StartTools(calm, reply, calls, cause))
      BY <2>9, <2>12, <2>13, <3>1, StartToolsLinked
    <3>3. settled.error # "retry"
      BY <2>17
    <3> QED
      BY <2>14, <2>17, <3>1, <3>2, <3>3
  <2>18. CASE settled.error = "none" /\ settled.calls = << >>
    <3>1. Calm(FinishTurn(calm, cause, "completed"))
      BY <2>9, <2>10, <2>12, <2>13, <2>18, FinishTurnCalm
    <3>2. settled.error # "retry"
      BY <2>18
    <3> QED
      BY <2>14, <2>18, <3>1, <3>2, CalmIsLinked
  <2> QED
    BY <2>15, <2>16, <2>17, <2>18
<1> QED
  BY <1>1, <1>2

----------------------------------------------------------------------------
(***************************************************************************)
(* The turn goes on.                                                       *)
(***************************************************************************)
LEMMA AskLinked ==
  ASSUME NEW s, Calm(s), s.turn.id # 0, s.stored = Len(s.log)
  PROVE  Linked(Ask(s))
<1>1. PICK t : t = [s EXCEPT !.turn.requests = IF s.turn.retrying THEN @ ELSE @ + 1,
               !.turn.retrying = FALSE,
               !.turn.interjected = None,
               !.turn.queued = << >>,
               !.turn.stage = "asking",
               !.turn.mark = s.stored]
  OBVIOUS
<1>2. PICK seen : seen = s.stored
  OBVIOUS
<1>3. Ask(s) = Do(t, {[a |-> "CallModel", seen |-> seen]})
  BY <1>1, <1>2 DEF Ask
<1>4. Rooted(s) /\ Shapely(s) /\ s.book.lastReply \in 0..Len(s.log) /\ Len(s.log) \in Nat
  BY RootedBook DEF Calm
<1>5. /\ Shapely(t) /\ t.log = s.log /\ t.book = s.book /\ t.stored = s.stored
      /\ t.refused = s.refused /\ t.out = s.out /\ t.perm = s.perm /\ t.eff = s.eff
      /\ t.turn.id = s.turn.id /\ t.turn.queued = << >>
      /\ t.turn.calls = s.turn.calls /\ t.turn.intr = s.turn.intr
      /\ t.turn.stage = "asking" /\ t.turn.mark = seen
  <2>1. DOMAIN s = KernelFields /\ DOMAIN s.turn = TurnFields
    BY <1>4 DEF Shapely
  <2>2. /\ DOMAIN t = KernelFields /\ t.log = s.log /\ t.book = s.book
        /\ t.stored = s.stored /\ t.refused = s.refused /\ t.out = s.out
        /\ t.perm = s.perm /\ t.eff = s.eff
    BY <1>1, <2>1 DEF KernelFields
  <2>3. DOMAIN t.turn = TurnFields /\ t.turn.id = s.turn.id /\ t.turn.intr = s.turn.intr
    BY <1>1, <2>1 DEF KernelFields, TurnFields
  <2>4. t.turn.calls = s.turn.calls /\ t.turn.queued = << >>
    BY <1>1, <2>1 DEF KernelFields, TurnFields
  <2>5. t.turn.stage = "asking" /\ t.turn.mark = seen
    BY <1>1, <1>2, <2>1 DEF KernelFields, TurnFields
  <2>6. Shapely(t)
    BY <1>4, <2>2, <2>3, <2>4 DEF Shapely
  <2> QED
    BY <2>2, <2>3, <2>4, <2>5, <2>6
<1>6. Rooted(t)
  <2>1. Rank(t.eff) <= Rank(t.perm) /\ OutFits(t)
    BY <1>4, <1>5 DEF Rooted, OutFits
  <2> QED
    BY <1>4, <1>5, <2>1, RootedAside
<1>7. Linked(s)
  BY CalmIsLinked
<1>8. Matched(t.book, t.turn.calls) /\ Orderly(t.turn.calls)
  BY <1>5, <1>7 DEF Linked, InOrder
<1>9. Staged(t)
  <2>1. seen \in t.book.lastReply..Len(t.log)
    BY <1>2, <1>4, <1>5
  <2>2. Len(t.turn.queued) = 0
    BY <1>5, EmptyIsSeq
  <2>3. \A i \in 1..Len(t.turn.queued) : t.turn.queued[i].seq > t.turn.mark
    BY <2>2
  <2>4. t.turn.calls = << >> /\ t.turn.intr.wake = 0
    BY <1>5 DEF Calm
  <2> QED
    BY <1>5, <2>1, <2>3, <2>4 DEF Staged
<1>10. Permits(t, {})
  <2>1. t.turn.calls = << >>
    BY <1>5 DEF Calm
  <2> QED
    BY <2>1, EmptyIsSeq DEF Permits
<1>11. Linked(t)
  BY <1>6, <1>8, <1>9, <1>10 DEF Linked, InOrder
<1> QED
  BY <1>3, <1>11, DoLinked

LEMMA AdvanceLinked ==
  ASSUME NEW s, Linked(s)
  PROVE  Linked(Advance(s))
<1>1. PICK d : d = Dispatch(s)
  OBVIOUS
<1>2. Linked(d)
  BY <1>1, DispatchLinked
<1>3. CASE d.out # s.out
  BY <1>1, <1>2, <1>3 DEF Advance
<1>4. CASE d.out = s.out /\ s.turn.stage = "opening" /\ s.stored >= s.turn.mark
  <2>1. PICK t : t = [s EXCEPT !.turn.stage = "hooking"]
    OBVIOUS
  <2>2. PICK turn : turn = s.turn.id
    OBVIOUS
  <2>3. Advance(s) = Do(t, {[a |-> "RunTurnStartHooks", turn |-> turn]})
    BY <1>1, <1>4, <2>1, <2>2 DEF Advance
  <2>4. Calm(s) /\ s.turn.id # 0
    BY <1>4, RestingIsCalm DEF Linked, InOrder, Staged
  <2>5. OnlyStage(s, t) /\ t.turn.stage = "hooking" /\ t.turn.calls = s.turn.calls
    <3>1. LET x == [s EXCEPT !.turn.stage = "hooking"] IN
          OnlyStage(s, x) /\ x.turn.stage = "hooking" /\ x.turn.calls = s.turn.calls
                          /\ x.turn.mark = s.turn.mark
      BY <2>4, StageOnlyChanges DEF Calm
    <3> QED
      BY <2>1, <3>1
  <2>6. Calm(t)
    BY <2>4, <2>5 DEF OnlyStage, Calm
  <2>7. Linked(t)
    BY <2>6, CalmIsLinked
  <2> QED
    BY <2>3, <2>7, DoLinked
<1>5. CASE /\ d.out = s.out /\ ~(s.turn.stage = "opening" /\ s.stored >= s.turn.mark)
           /\ s.turn.stage = "ready" /\ s.stored = Len(s.log)
  <2>1. Advance(s) = Ask(s)
    BY <1>1, <1>5 DEF Advance
  <2>2. Calm(s) /\ s.turn.id # 0
    BY <1>5, RestingIsCalm DEF Linked, InOrder, Staged
  <2> QED
    BY <1>5, <2>1, <2>2, AskLinked
<1>6. CASE /\ d.out = s.out /\ ~(s.turn.stage = "opening" /\ s.stored >= s.turn.mark)
           /\ ~(s.turn.stage = "ready" /\ s.stored = Len(s.log))
  BY <1>1, <1>6 DEF Advance
<1> QED
  BY <1>3, <1>4, <1>5, <1>6

LEMMA TurnStartHookedLinked ==
  ASSUME NEW s, Linked(s), NEW turn, NEW injected
  PROVE  Linked(TurnStartHooked(s, turn, injected))
<1>1. CASE s.turn.id # turn \/ s.turn.stage # "hooking"
  BY <1>1 DEF TurnStartHooked
<1>2. CASE s.turn.id = turn /\ s.turn.stage = "hooking"
  <2>1. PICK ready : ready = [s EXCEPT !.turn.stage = "ready", !.turn.mark = 0]
    OBVIOUS
  <2>2. PICK body : body = [k |-> "context.injected", fact |-> "hook"]
    OBVIOUS
  <2>3. PICK cause : cause = s.turn.cause
    OBVIOUS
  <2>4. PICK put : put = IF injected THEN Put(ready, cause, body) ELSE ready
    OBVIOUS
  <2>5. TurnStartHooked(s, turn, injected) = Advance(RefreshFacts(put))
    BY <1>2, <2>1, <2>2, <2>3, <2>4 DEF TurnStartHooked
  <2>6. Calm(s) /\ s.turn.id # 0
    BY <1>2, RestingIsCalm DEF Linked, InOrder, Staged
  <2>7. Calm(ready) /\ ready.turn.id # 0
    <3>1. /\ OnlyStage(s, ready) /\ ready.turn.stage = "ready"
          /\ ready.turn.calls = s.turn.calls
      <4>1. Rooted(s)
        BY <2>6 DEF Calm
      <4>2. ready = MovedTo(s, "ready", 0)
        BY <2>1 DEF MovedTo
      <4> QED
        BY <4>1, <4>2, StageChanges
    <3> QED
      BY <2>1, <2>6, <3>1 DEF OnlyStage, Calm
  <2>8. Calm(put)
    <3>1. CASE injected
      <4>1. Fine(body) /\ body.k = "context.injected"
        BY <2>2 DEF Fine
      <4>2. Puts(ready, put) /\ AsOpen(ready.book, put.book)
            /\ put.book.queued = ready.book.queued
        BY <2>4, <2>7, <3>1, <4>1, PutAside DEF Calm, Rooted
      <4>3. Rooted(put)
        BY <2>7, <4>2, PutsRooted DEF Calm, AsOpen, Rooted, QueueFits
      <4> QED
        BY <2>7, <4>2, <4>3 DEF Calm, Puts, Beside, AsOpen
    <3>2. CASE ~injected
      BY <2>4, <2>7, <3>2
    <3> QED
      BY <3>1, <3>2
  <2>9. PICK f : f = RefreshFacts(put)
    OBVIOUS
  <2>10. Linked(f)
    BY <2>8, <2>9, RefreshFactsCalm, CalmIsLinked
  <2> QED
    BY <2>5, <2>9, <2>10, AdvanceLinked
<1> QED
  BY <1>1, <1>2

----------------------------------------------------------------------------
(***************************************************************************)
(* Beside the turn.                                                        *)
(***************************************************************************)
\* Only what is answered, or what is on disk, changes.
Apart(s, t) ==
  /\ DOMAIN t = KernelFields
  /\ t.turn = s.turn /\ t.log = s.log /\ t.book = s.book /\ t.refused = s.refused
  /\ t.perm = s.perm /\ t.eff = s.eff

LEMMA ApartLinked ==
  ASSUME NEW s, NEW t, Apart(s, t), t.stored \in 0..Len(s.log), OutFits(t)
  PROVE  /\ Rooted(s) => Rooted(t)
         /\ Calm(s) => Calm(t)
         /\ Linked(s) => Linked(t)
<1>1. ASSUME Rooted(s) PROVE Rooted(t)
  BY <1>1 DEF Rooted, Whole, Sound, Shapely, Apart
<1>2. ASSUME Calm(s) PROVE Calm(t)
  BY <1>1, <1>2 DEF Calm, Apart
<1>3. ASSUME Linked(s) PROVE Linked(t)
  BY <1>1, <1>3 DEF Linked, InOrder, Staged, Permits, Apart
<1> QED
  BY <1>1, <1>2, <1>3

\* Answering a command is beside the turn.
LEMMA AnsweringIsApart ==
  ASSUME NEW s, Shapely(s), NEW id, NEW events
  PROVE  /\ Apart(s, Accept(s, id, events))
         /\ Apart(s, Reply(s, id, events))
         /\ Apart(s, Reject(s, id))
         /\ Apart(s, AcceptEmpty(s, id))
         /\ Apart(s, ReplyWhenStored(s, id, events))
BY DEF Shapely, KernelFields, Apart, Accept, Reply, Reject, AcceptEmpty, ReplyWhenStored

LEMMA AnsweringKeeps ==
  ASSUME NEW s, Shapely(s), NEW id, NEW events
  PROVE  /\ Accept(s, id, events).stored = s.stored
         /\ Reply(s, id, events).stored = s.stored
         /\ Reject(s, id).stored = s.stored
         /\ AcceptEmpty(s, id).stored = s.stored
         /\ ReplyWhenStored(s, id, events).stored = s.stored
         /\ Accept(s, id, events).out = s.out
         /\ Reply(s, id, events).out = s.out
         /\ Reject(s, id).out = s.out
         /\ AcceptEmpty(s, id).out = s.out
         /\ ReplyWhenStored(s, id, events).out = s.out
BY DEF Shapely, KernelFields, Accept, Reply, Reject, AcceptEmpty, ReplyWhenStored

\* What an answer is: one of these.
Answering(s, t, id, events) ==
  t \in {Accept(s, id, events), Reply(s, id, events), Reject(s, id),
         AcceptEmpty(s, id), ReplyWhenStored(s, id, events)}

LEMMA AnsweringLinked ==
  ASSUME NEW s, Rooted(s), NEW id, NEW events, NEW t, Answering(s, t, id, events)
  PROVE  /\ Rooted(t) /\ Apart(s, t) /\ t.out = s.out /\ t.stored = s.stored
         /\ Calm(s) => Calm(t)
         /\ Linked(s) => Linked(t)
<1>1. Shapely(s) /\ s.stored \in 0..Len(s.log)
  BY RootedBook DEF Sound
<1>2. Apart(s, t)
  BY <1>1, AnsweringIsApart DEF Answering
<1>3. t.out = s.out /\ t.stored = s.stored
  BY <1>1, AnsweringKeeps DEF Answering
<1>4. OutFits(t)
  BY <1>2, <1>3 DEF OutFits, Apart, Rooted
<1> QED
  BY <1>1, <1>2, <1>3, <1>4, ApartLinked

LEMMA AcceptLinked ==
  ASSUME NEW s, NEW id, NEW events
  PROVE  /\ Rooted(s) => /\ Rooted(Accept(s, id, events))
                         /\ Apart(s, Accept(s, id, events))
                         /\ Accept(s, id, events).out = s.out
         /\ Calm(s) => Calm(Accept(s, id, events))
         /\ Linked(s) => Linked(Accept(s, id, events))
<1>1. PICK t : t = Accept(s, id, events)
  OBVIOUS
<1>2. Answering(s, t, id, events)
  BY <1>1 DEF Answering
<1>3. Calm(s) => Rooted(s)
  BY DEF Calm
<1>4. Linked(s) => Rooted(s)
  BY DEF Linked, InOrder
<1> QED
  BY <1>1, <1>2, <1>3, <1>4, AnsweringLinked

\* A batch is on disk.
LEMMA StoredLinked ==
  ASSUME NEW s, Linked(s), NEW upto \in Nat, upto <= Len(s.log)
  PROVE  Linked(Stored(s, upto))
<1>1. CASE upto <= s.stored
  BY <1>1 DEF Stored
<1>2. CASE ~(upto <= s.stored)
  <2> DEFINE landed == [s EXCEPT !.stored = upto]
             ready == {i \in DOMAIN s.waiting : IsStored(landed, s.waiting[i].events)}
             answers == [i \in DOMAIN s.waiting |->
                           [id |-> s.waiting[i].id, ok |-> TRUE,
                            events |-> s.waiting[i].events]]
             closed == {i \in DOMAIN s.closing : s.closing[i].ended <= upto}
  <2>1. PICK said : said = [landed EXCEPT
                        !.waiting = Picked(@, DOMAIN @ \ ready),
                        !.replies = @ \o Picked(answers, ready),
                        !.closing = Picked(@, DOMAIN @ \ closed)]
    OBVIOUS
  <2>2. PICK actions : actions = {[a |-> "Push", from |-> s.stored + 1, upto |-> upto]}
               \union {[a |-> "RunTurnEndHooks", turn |-> s.closing[i].turn] : i \in closed}
    OBVIOUS
  <2>3. Stored(s, upto) = Advance(Do(said, actions))
    BY <1>2, <2>1, <2>2 DEF Stored
  <2>4. Rooted(s) /\ Shapely(s) /\ Len(s.log) \in Nat
    BY RootedBook DEF Linked, InOrder
  <2>5. DOMAIN landed = KernelFields
    BY <2>4 DEF Shapely
  <2>6. /\ Apart(s, said) /\ said.stored = upto /\ said.out = s.out
    <3> HIDE DEF ready, answers, closed
    <3> QED
      BY <2>1, <2>4, <2>5 DEF Shapely, KernelFields, Apart
  <2>7. OutFits(said)
    BY <2>4, <2>6 DEF OutFits, Apart, Rooted
  <2>8. Linked(said)
    BY <2>4, <2>6, <2>7, ApartLinked
  <2>9. \A a \in actions : a.a # "RunTool"
    <3> HIDE DEF closed
    <3> QED
      BY <2>2
  <2>10. PICK t : t = Do(said, actions)
    OBVIOUS
  <2>11. Linked(t)
    BY <2>8, <2>9, <2>10, DoLinked
  <2> QED
    BY <2>3, <2>10, <2>11, AdvanceLinked
<1> QED
  BY <1>1, <1>2

----------------------------------------------------------------------------
(***************************************************************************)
(* Messages and permissions.                                               *)
(***************************************************************************)
\* An event that is none of the turn's own.
LEMMA PutsLinked ==
  ASSUME NEW s, Linked(s), NEW t, Puts(s, t), AsOpen(s.book, t.book),
         \A i \in 1..Len(s.turn.queued) : s.turn.queued[i].seq \in t.book.queued
  PROVE  Linked(t)
<1>1. Rooted(t)
  BY PutsRooted DEF Linked, InOrder, AsOpen
<1>2. t.turn = s.turn /\ t.eff = s.eff /\ Len(t.log) = Len(s.log) + 1 /\ Len(s.log) \in Nat
  BY RootedBook DEF Puts, Beside, Linked, InOrder
<1>3. Matched(t.book, t.turn.calls) /\ Orderly(t.turn.calls) /\ Permits(t, {})
  BY <1>2 DEF Linked, InOrder, AsOpen, Matched, Permits
<1>4. s.book.lastReply \in 0..Len(s.log)
  BY RootedBook DEF Linked, InOrder
<1>5. t.turn.stage = "asking" => t.turn.mark \in t.book.lastReply..Len(t.log)
  BY <1>2, <1>4 DEF Linked, InOrder, Staged, AsOpen
<1>6. Staged(t)
  BY <1>2, <1>5 DEF Linked, InOrder, Staged
<1> QED
  BY <1>1, <1>3, <1>6 DEF Linked, InOrder

\* While an interruption waits, nothing waits for a person and nothing is still to run.
LEMMA WaitingIsStill ==
  ASSUME NEW s, Linked(s), NEW i \in DOMAIN s.turn.calls,
         s.turn.calls[i].state \notin {"done", "stopping"}
  PROVE  s.turn.intr.wake = 0
BY DEF Linked, InOrder, Staged

LEMMA VoidWaitingLinked ==
  ASSUME NEW s, Linked(s), NEW cause
  PROVE  Linked(VoidWaiting(s, cause))
<1>1. PICK at : at = {i \in DOMAIN s.turn.calls : AwaitingPerson(s.turn.calls[i])}
  OBVIOUS
<1>2. PICK why : why = [i \in DOMAIN s.turn.calls |->
          IF i \in {j \in DOMAIN s.turn.calls : s.turn.calls[j].state = "questioning"}
            THEN "voided" ELSE "skipped"]
  OBVIOUS
<1>3. PICK actions : actions =
          {[a |-> "CancelTool", call |-> s.turn.calls[i].id] :
             i \in {j \in {k \in DOMAIN s.turn.calls : s.turn.calls[k].state = "questioning"} :
                      s.turn.stage = "tools"}}
  OBVIOUS
<1>4. PICK t : t = SettleCalls(s, at, cause, why)
  OBVIOUS
<1>5. VoidWaiting(s, cause) = Do(t, actions)
  BY <1>1, <1>2, <1>3, <1>4 DEF VoidWaiting
<1>6. Linked(t)
  <2>1. at \in SUBSET (DOMAIN s.turn.calls)
    BY <1>1
  <2>2. \A i \in at : s.turn.calls[i].state \in {"asking", "questioning"}
    BY <1>1 DEF AwaitingPerson
  <2>3. \A i \in at : s.turn.calls[i].state # "done"
    BY <2>2
  <2>4. at # {} => s.turn.intr.wake = 0
    BY <2>1, <2>2, WaitingIsStill
  <2>5. Permits(s, at) /\ InOrder(s)
    BY DEF Linked, Permits
  <2> QED
    BY <1>4, <2>1, <2>3, <2>4, <2>5, SettleCallsLinked
<1>7. \A a \in actions : a.a # "RunTool"
  BY <1>3
<1> QED
  BY <1>5, <1>6, <1>7, DoLinked

LEMMA InterjectLinked ==
  ASSUME NEW s, Linked(s), NEW cause
  PROVE  Linked(Interject(s, cause))
<1>1. CASE Idle(s)
  BY <1>1 DEF Interject
<1>2. CASE ~Idle(s)
  <2>1. PICK t : t = [s EXCEPT !.turn.interjected = cause]
    OBVIOUS
  <2>2. PICK at : at = {i \in DOMAIN s.turn.calls : NotRun(s.turn.calls[i])}
    OBVIOUS
  <2>3. PICK why : why = [i \in DOMAIN s.turn.calls |-> "skipped"]
    OBVIOUS
  <2>4. Interject(s, cause) = SettleCalls(t, at, cause, why)
    BY <1>2, <2>1, <2>2, <2>3 DEF Interject
  <2>5. Rooted(s) /\ Shapely(s)
    BY RootedBook DEF Linked, InOrder
  <2>6. /\ Shapely(t) /\ t.log = s.log /\ t.book = s.book /\ t.stored = s.stored
        /\ t.refused = s.refused /\ t.out = s.out /\ t.perm = s.perm /\ t.eff = s.eff
        /\ t.turn.id = s.turn.id /\ t.turn.queued = s.turn.queued
        /\ t.turn.calls = s.turn.calls /\ t.turn.intr = s.turn.intr
        /\ t.turn.stage = s.turn.stage /\ t.turn.mark = s.turn.mark
    BY <2>1, <2>5 DEF Shapely, KernelFields, TurnFields
  <2>7. Rooted(t)
    <3>1. Rank(t.eff) <= Rank(t.perm) /\ OutFits(t)
      BY <2>5, <2>6 DEF Rooted, OutFits
    <3> QED
      BY <2>5, <2>6, <3>1, RootedAside
  <2>8. Linked(t)
    BY <2>6, <2>7 DEF Linked, InOrder, Staged, Permits
  <2>9. at \in SUBSET (DOMAIN t.turn.calls)
    BY <2>2, <2>6
  <2>10. \A i \in at : t.turn.calls[i].state \notin {"done", "stopping"}
    BY <2>2, <2>6 DEF NotRun
  <2>11. at # {} => t.turn.intr.wake = 0
    BY <2>8, <2>9, <2>10, WaitingIsStill
  <2>12. Permits(t, at) /\ InOrder(t)
    BY <2>8 DEF Linked, Permits
  <2>13. \A i \in at : t.turn.calls[i].state # "done"
    BY <2>10
  <2> QED
    BY <2>4, <2>9, <2>11, <2>12, <2>13, SettleCallsLinked
<1> QED
  BY <1>1, <1>2

\* What a message adds to the queue of the running turn.
LEMMA QueueGrows ==
  ASSUME NEW s, Linked(s), s.turn.id # 0, NEW seq \in Nat,
         seq \in s.book.queued, seq = Len(s.log), 
         \A i \in 1..Len(s.turn.queued) : s.turn.queued[i].seq < seq,
         s.turn.stage = "asking" => s.turn.mark < seq,
         NEW id, NEW t, t = [s EXCEPT !.turn.queued = Append(@, [seq |-> seq, cause |-> id])]
  PROVE  Linked(t)
<1>1. Rooted(s) /\ Shapely(s) /\ IsSeq(s.turn.queued)
  BY RootedBook DEF Linked, InOrder, Rooted, QueueFits
<1>2. PICK x : x = [seq |-> seq, cause |-> id]
  OBVIOUS
<1>3. PICK q, r : q = s.turn.queued /\ r = Append(q, x)
  OBVIOUS
<1>4. /\ Shapely(t) /\ t.log = s.log /\ t.book = s.book /\ t.stored = s.stored
      /\ t.refused = s.refused /\ t.out = s.out /\ t.perm = s.perm /\ t.eff = s.eff
      /\ t.turn.id = s.turn.id /\ t.turn.queued = r
      /\ t.turn.calls = s.turn.calls /\ t.turn.intr = s.turn.intr
      /\ t.turn.stage = s.turn.stage /\ t.turn.mark = s.turn.mark
  BY <1>1, <1>2, <1>3 DEF Shapely, KernelFields, TurnFields
<1>5. /\ IsSeq(r) /\ Len(r) = Len(q) + 1 /\ Len(q) \in Nat
      /\ \A i \in 1..Len(q) : r[i] = q[i]
      /\ r[Len(q) + 1] = x
  BY <1>1, <1>3, AppendIsSeq, SeqIsFunction
<1>6. x.seq = seq
  BY <1>2
<1>7. \A i \in 1..Len(r) : i \in 1..Len(q) \/ i = Len(q) + 1
  BY <1>5
<1>8. /\ \A i \in 1..Len(q) : q[i].seq \in s.book.queued
      /\ \A i, j \in 1..Len(q) : i < j => q[i].seq < q[j].seq
  BY <1>1, <1>3 DEF Rooted, QueueFits
<1>9. QueueFits(s.book, r)
  <2>1. \A i \in 1..Len(r) : r[i].seq \in s.book.queued
    BY <1>5, <1>6, <1>7, <1>8
  <2>2. ASSUME NEW i \in 1..Len(r), NEW j \in 1..Len(r), i < j
        PROVE  r[i].seq < r[j].seq
    <3>1. i \in 1..Len(q)
      BY <1>5, <2>2
    <3>2. CASE j \in 1..Len(q)
      BY <1>5, <1>8, <2>2, <3>1, <3>2
    <3>3. CASE j = Len(q) + 1
      BY <1>3, <1>5, <1>6, <3>1, <3>3
    <3> QED
      BY <1>7, <3>2, <3>3
  <2> QED
    BY <1>5, <2>1, <2>2 DEF QueueFits
<1>10. Rooted(t)
  BY <1>1, <1>4, <1>9 DEF Rooted, Whole, Sound, OutFits
<1>11. Staged(t)
  <2>1. ASSUME t.turn.stage = "asking"
        PROVE  \A i \in 1..Len(r) : r[i].seq > s.turn.mark
    <3>1. /\ s.turn.mark \in s.book.lastReply..Len(s.log) /\ Len(s.log) \in Nat
          /\ s.book.lastReply \in 0..Len(s.log)
          /\ \A i \in 1..Len(q) : q[i].seq > s.turn.mark
      BY <1>1, <1>3, <1>4, <2>1, RootedBook DEF Linked, InOrder, Staged
    <3>2. s.turn.mark < seq
      BY <1>4, <2>1
    <3> QED
      BY <1>5, <1>6, <1>7, <3>1, <3>2
  <2> QED
    BY <1>4, <2>1 DEF Linked, InOrder, Staged
<1> QED
  BY <1>4, <1>10, <1>11 DEF Linked, InOrder, Permits

LEMMA SendLinked ==
  ASSUME NEW s, Linked(s), NEW id, NEW urgent
  PROVE  Linked(Send(s, id, urgent))
<1>1. PICK seq : seq = s.book.next
  OBVIOUS
<1>2. PICK body : body = [k |-> "message.user", ambient |-> FALSE]
  OBVIOUS
<1>3. PICK said : said = Put(s, id, body)
  OBVIOUS
<1>4. PICK events : events = <<seq>>
  OBVIOUS
<1>5. PICK put : put = Accept(said, id, events)
  OBVIOUS
<1>6. Fine(body) /\ body.k = "message.user"
  BY <1>2 DEF Fine
<1>7. /\ Puts(s, said) /\ AsOpen(s.book, said.book)
      /\ said.book.queued = IF s.turn.id # 0 THEN s.book.queued \union {s.book.next}
                                             ELSE s.book.queued
  BY <1>3, <1>6, PutMessage DEF Linked, InOrder, Rooted
<1>8. \A i \in 1..Len(s.turn.queued) :
        s.turn.queued[i].seq \in said.book.queued /\ s.turn.queued[i].seq \in s.book.queued
  BY <1>7 DEF Linked, InOrder, Rooted, QueueFits
<1>9. Linked(said)
  BY <1>7, <1>8, PutsLinked
<1>10. Linked(put) /\ Apart(said, put)
  BY <1>5, <1>9, AcceptLinked DEF Linked, InOrder
<1>11. /\ Rooted(s) /\ seq = Len(s.log) + 1 /\ Len(s.log) \in Nat \ {0}
       /\ s.book.queued \subseteq 1..Len(s.log)
       /\ put.turn = s.turn /\ put.book = said.book /\ put.log = said.log
       /\ Len(put.log) = seq /\ seq \in Nat
  BY <1>1, <1>7, <1>10, RootedBook DEF Linked, InOrder, Puts, Beside, Apart
<1>12. CASE Idle(s)
  <2>1. Send(s, id, urgent) = OpenTurn(put, seq, id)
    BY <1>1, <1>2, <1>3, <1>4, <1>5, <1>12 DEF Send
  <2>2. put.book.open = 0 /\ Rooted(put)
    BY <1>7, <1>10, <1>11, <1>12 DEF Idle, Linked, InOrder, Rooted, AsOpen
  <2>3. seq < put.book.next
    <3>1. put.book.next = Len(put.log) + 1
      BY <2>2, RootedBook
    <3> QED
      BY <1>11, <3>1
  <2>4. LET t == OpenTurn(put, seq, id) IN Calm(t) /\ Len(t.log) > Len(put.log)
    BY <2>2, <2>3, OpenTurnCalm
  <2> QED
    BY <2>1, <2>4, CalmIsLinked
<1>13. CASE ~Idle(s)
  <2>1. PICK queued : queued = [put EXCEPT !.turn.queued = Append(@, [seq |-> seq, cause |-> id])]
    OBVIOUS
  <2>2. PICK voided : voided = VoidWaiting(queued, id)
    OBVIOUS
  <2>3. Send(s, id, urgent) = IF urgent THEN Interject(voided, id) ELSE voided
    BY <1>1, <1>2, <1>3, <1>4, <1>5, <1>13, <2>1, <2>2 DEF Send
  <2>4. Linked(queued)
    <3>1. put.turn.id # 0
      BY <1>11, <1>13 DEF Idle
    <3>2. seq \in put.book.queued
      BY <1>1, <1>7, <1>11, <3>1
    <3>3. \A i \in 1..Len(put.turn.queued) : put.turn.queued[i].seq < seq
      BY <1>8, <1>11
    <3>4. put.turn.stage = "asking" => put.turn.mark < seq
      <4>1. s.turn.stage = "asking" => s.turn.mark \in s.book.lastReply..Len(s.log)
        BY DEF Linked, InOrder, Staged
      <4>2. s.book.lastReply \in 0..Len(s.log)
        BY <1>11, RootedBook
      <4> QED
        BY <1>11, <4>1, <4>2
    <3> QED
      BY <1>10, <1>11, <2>1, <3>1, <3>2, <3>3, <3>4, QueueGrows
  <2>5. Linked(voided)
    BY <2>2, <2>4, VoidWaitingLinked
  <2> QED
    BY <2>3, <2>5, InterjectLinked
<1> QED
  BY <1>12, <1>13

\* A permission takes effect: at once when it is tighter.
LEMMA SetPermissionLinked ==
  ASSUME NEW s, Linked(s), s.out = {}, NEW id, NEW change
  PROVE  Linked(SetPermission(s, id, change))
<1>1. PICK new : new = [f \in DOMAIN s.perm |->
                          IF f \in DOMAIN change THEN change[f] ELSE s.perm[f]]
  OBVIOUS
<1>2. PICK body : body = [k |-> "policy.changed", perm |-> new]
  OBVIOUS
<1>3. PICK said : said = Put(s, id, body)
  OBVIOUS
<1>4. PICK events : events = <<s.book.next>>
  OBVIOUS
<1>5. PICK put : put = Accept(said, id, events)
  OBVIOUS
<1>6. PICK changed : changed = [put EXCEPT !.perm = new, !.turn.refresh = ~Idle(s)]
  OBVIOUS
<1>7. PICK tighter : tighter = TakeEffect(changed, new)
  OBVIOUS
<1>8. SetPermission(s, id, change) =
        IF new = s.perm THEN AcceptEmpty(s, id)
        ELSE IF tighter.turn.stage = "ready" THEN RefreshFacts(tighter) ELSE tighter
  BY <1>1, <1>2, <1>3, <1>4, <1>5, <1>6, <1>7 DEF SetPermission
<1>9. CASE new = s.perm
  <2>1. PICK t : t = AcceptEmpty(s, id)
    OBVIOUS
  <2>2. Answering(s, t, id, events)
    BY <2>1 DEF Answering
  <2>3. Linked(t)
    BY <2>2, AnsweringLinked DEF Linked, InOrder
  <2> QED
    BY <1>8, <1>9, <2>1, <2>3
<1>10. CASE new # s.perm
  <2>1. Fine(body) /\ body.k = "policy.changed"
    BY <1>2 DEF Fine
  <2>2. /\ Puts(s, said) /\ AsOpen(s.book, said.book) /\ said.book.queued = s.book.queued
    BY <1>3, <2>1, PutAside DEF Linked, InOrder, Rooted
  <2>3. \A i \in 1..Len(s.turn.queued) : s.turn.queued[i].seq \in said.book.queued
    BY <2>2 DEF Linked, InOrder, Rooted, QueueFits
  <2>4. Linked(said) /\ said.out = {}
    BY <2>2, <2>3, PutsLinked DEF Puts, Beside
  <2>5. Linked(put) /\ put.out = {}
    BY <1>5, <2>4, AcceptLinked DEF Linked, InOrder
  <2>6. Rooted(put) /\ Shapely(put)
    BY <2>5, RootedBook DEF Linked, InOrder
  <2>7. /\ Shapely(changed) /\ changed.log = put.log /\ changed.book = put.book
        /\ changed.stored = put.stored
        /\ changed.refused = put.refused /\ changed.out = {} /\ changed.perm = new
        /\ changed.eff = put.eff
        /\ changed.turn.id = put.turn.id /\ changed.turn.queued = put.turn.queued
        /\ changed.turn.calls = put.turn.calls /\ changed.turn.intr = put.turn.intr
        /\ changed.turn.stage = put.turn.stage /\ changed.turn.mark = put.turn.mark
        /\ changed.turn.cause = put.turn.cause
    BY <1>6, <2>5, <2>6 DEF Shapely, KernelFields, TurnFields
  <2>8. ASSUME NEW u, Shapely(u), u.log = put.log, u.book = put.book, u.stored = put.stored,
               u.refused = put.refused, u.out = {}, u.turn = changed.turn,
               Rank(u.eff) <= Rank(u.perm)
        PROVE  InOrder(u)
    <3>1. OutFits(u)
      BY <2>8 DEF OutFits
    <3>2. Rooted(u)
      BY <2>6, <2>7, <2>8, <3>1, RootedAside
    <3> QED
      BY <2>5, <2>7, <2>8, <3>2 DEF Linked, InOrder, Staged
  <2>9. Linked(tighter)
    <3>1. CASE ~(Rank(new) < Rank(changed.eff))
      <4>1. Rank(changed.eff) <= Rank(changed.perm)
        BY <2>7, <3>1, RankIsNumber
      <4>2. InOrder(changed)
        BY <2>7, <2>8, <4>1
      <4>3. Permits(changed, {})
        BY <2>5, <2>7 DEF Linked, Permits
      <4>4. tighter = changed
        BY <1>7, <3>1 DEF TakeEffect
      <4> QED
        BY <4>2, <4>3, <4>4 DEF Linked
    <3>2. CASE Rank(new) < Rank(changed.eff)
      <4>1. PICK u : u = [changed EXCEPT !.eff = new]
        OBVIOUS
      <4>2. tighter = DenyWaitingWrites(u)
        BY <1>7, <3>2, <4>1 DEF TakeEffect
      <4>3. /\ Shapely(u) /\ u.log = put.log /\ u.book = put.book /\ u.stored = put.stored
            /\ u.refused = put.refused /\ u.out = {} /\ u.turn = changed.turn
            /\ u.eff = new /\ u.perm = new
        BY <2>7, <4>1 DEF Shapely, KernelFields
      <4>4. InOrder(u)
        <5>1. Rank(u.eff) <= Rank(u.perm)
          BY <4>3, RankIsNumber
        <5> QED
          BY <2>8, <4>3, <5>1
      <4>5. CASE ~ReadOnlyNow(u)
        <5>1. Permits(u, {})
          BY <4>5 DEF Permits, ReadOnlyNow
        <5>2. tighter = u
          BY <4>2, <4>5 DEF DenyWaitingWrites
        <5> QED
          BY <4>4, <5>1, <5>2 DEF Linked
      <4>6. CASE ReadOnlyNow(u)
        <5>1. PICK at : at = {i \in DOMAIN u.turn.calls :
                                NotRun(u.turn.calls[i]) /\ Writes(u.turn.calls[i])}
          OBVIOUS
        <5>2. PICK why, cause : /\ why = [i \in DOMAIN u.turn.calls |-> "denied"]
                                /\ cause = u.turn.cause
          OBVIOUS
        <5>3. tighter = SettleCalls(u, at, cause, why)
          BY <4>2, <4>6, <5>1, <5>2 DEF DenyWaitingWrites
        <5>4. at \in SUBSET (DOMAIN u.turn.calls)
          BY <5>1
        <5>5. \A i \in at : u.turn.calls[i].state \notin {"done", "stopping"}
          BY <5>1 DEF NotRun
        <5>6. at # {} => u.turn.intr.wake = 0
          BY <4>4, <5>4, <5>5 DEF InOrder, Staged
        <5>7. Permits(u, at)
          BY <5>1 DEF Permits
        <5>8. \A i \in at : u.turn.calls[i].state # "done"
          BY <5>5
        <5> QED
          BY <4>4, <5>3, <5>4, <5>6, <5>7, <5>8, SettleCallsLinked
      <4> QED
        BY <4>5, <4>6
    <3> QED
      BY <3>1, <3>2
  <2>10. CASE tighter.turn.stage = "ready"
    <3>1. Calm(tighter)
      BY <2>9, <2>10, RestingIsCalm
    <3>2. PICK f : f = RefreshFacts(tighter)
      OBVIOUS
    <3>3. Linked(f)
      BY <3>1, <3>2, RefreshFactsCalm, CalmIsLinked
    <3> QED
      BY <1>8, <1>10, <2>10, <3>2, <3>3
  <2>11. CASE tighter.turn.stage # "ready"
    BY <1>8, <1>10, <2>9, <2>11
  <2> QED
    BY <2>10, <2>11
<1> QED
  BY <1>9, <1>10

----------------------------------------------------------------------------
(***************************************************************************)
(* What tools send back, and what a person answers.                        *)
(***************************************************************************)
\* One call goes from one state to another, and the book knows it.
LEMMA CallMoves ==
  ASSUME NEW s, Linked(s), s.turn.stage = "tools", NEW i \in DOMAIN s.turn.calls,
         s.turn.calls[i].state \notin {"waiting", "done", "stopping"},
         NEW c, DOMAIN c = CallFields, c.id = s.turn.calls[i].id,
         c.access = s.turn.calls[i].access, c.state \notin {"waiting", "done"},
         Rank(s.eff) = 0 /\ NotRun(c) => ~Writes(c),
         NEW t, Rooted(t), t.turn.calls = [s.turn.calls EXCEPT ![i] = c],
         t.turn.id = s.turn.id, t.turn.stage = "tools", t.turn.intr = s.turn.intr,
         t.eff = s.eff,
         t.book.pending = s.book.pending,
         t.book.asking = (s.book.asking \ {c.id})
                           \union (IF c.state = "asking" THEN {c.id} ELSE {}),
         t.book.questioning = (s.book.questioning \ {c.id})
                           \union (IF c.state = "questioning" THEN {c.id} ELSE {})
  PROVE  Linked(t)
<1>1. PICK calls, g : calls = s.turn.calls /\ g = [calls EXCEPT ![i] = c]
  OBVIOUS
<1>2. PICK n : n = Len(calls)
  OBVIOUS
<1>3. AreCalls(calls) /\ Orderly(calls) /\ Matched(s.book, calls)
  BY <1>1 DEF Linked, InOrder, Matched
<1>4. n \in Nat /\ DOMAIN calls = 1..n /\ i \in 1..n
  BY <1>1, <1>2, <1>3, SeqIsFunction DEF AreCalls
<1>5. g = [j \in 1..n |-> g[j]] /\ DOMAIN g = 1..n
  BY <1>1, <1>4
<1>6. IsSeq(g)
  BY <1>4, <1>5, SeqOfLength
<1>7. \A j \in 1..n : g[j] = IF j = i THEN c ELSE calls[j]
  BY <1>1, <1>4
<1>8. \A j \in 1..n : g[j].id = calls[j].id /\ g[j].access = calls[j].access
                      /\ DOMAIN g[j] = CallFields
  BY <1>1, <1>3, <1>4, <1>7 DEF AreCalls
<1>9. AreCalls(g)
  BY <1>3, <1>4, <1>5, <1>6, <1>8 DEF AreCalls
<1>10. OpenIds(g) = OpenIds(calls)
  <2>1. \A j \in 1..n : g[j].state = "done" <=> calls[j].state = "done"
    BY <1>1, <1>4, <1>7
  <2> QED
    BY <1>4, <1>5, <1>8, <2>1 DEF OpenIds, IdsAt
<1>11. ASSUME NEW state
       PROVE  IdsIn(g, state) = (IdsIn(calls, state) \ {c.id})
                                  \union (IF c.state = state THEN {c.id} ELSE {})
  <2>1. ASSUME NEW x \in IdsIn(g, state)
        PROVE  x \in (IdsIn(calls, state) \ {c.id})
                       \union (IF c.state = state THEN {c.id} ELSE {})
    <3>1. PICK j \in 1..n : g[j].state = state /\ x = g[j].id
      BY <1>5 DEF IdsIn, IdsAt
    <3>2. CASE j = i
      BY <1>7, <3>1, <3>2
    <3>3. CASE j # i
      <4>1. x = calls[j].id /\ calls[j].state = state
        BY <1>7, <3>1, <3>3
      <4>2. x # c.id
        BY <1>1, <1>3, <1>4, <3>3, <4>1 DEF AreCalls
      <4>3. x \in IdsIn(calls, state)
        BY <1>4, <4>1 DEF IdsIn, IdsAt
      <4> QED
        BY <4>2, <4>3
    <3> QED
      BY <3>2, <3>3
  <2>2. ASSUME NEW x \in IdsIn(calls, state), x # c.id
        PROVE  x \in IdsIn(g, state)
    <3>1. PICK j \in 1..n : calls[j].state = state /\ x = calls[j].id
      BY <1>4 DEF IdsIn, IdsAt
    <3>2. j # i
      BY <1>1, <2>2, <3>1
    <3>3. g[j] = calls[j]
      BY <1>7, <3>2
    <3> QED
      BY <1>5, <3>1, <3>3 DEF IdsIn, IdsAt
  <2>3. ASSUME c.state = state PROVE c.id \in IdsIn(g, state)
    <3>1. g[i] = c
      BY <1>4, <1>7
    <3> QED
      BY <1>4, <1>5, <2>3, <3>1 DEF IdsIn, IdsAt
  <2> QED
    BY <2>1, <2>2, <2>3
<1>12. Matched(t.book, g)
  <2>1. /\ s.book.pending = OpenIds(calls) /\ s.book.asking = IdsIn(calls, "asking")
        /\ s.book.questioning = IdsIn(calls, "questioning")
    BY <1>3 DEF Matched
  <2>2. t.book.asking = IdsIn(g, "asking")
    BY <1>11, <2>1
  <2>3. t.book.questioning = IdsIn(g, "questioning")
    BY <1>11, <2>1
  <2> QED
    BY <1>9, <1>10, <2>1, <2>2, <2>3 DEF Matched
<1>13. Orderly(g)
  <2>1. ASSUME NEW j \in 1..n, NEW k \in 1..n, j < k,
               ~(g[j].access = "read" /\ g[k].access = "read")
        PROVE  g[j].state = "done" \/ g[k].state \in {"waiting", "done"}
    <3>1. calls[j].state = "done" \/ calls[k].state \in {"waiting", "done"}
      BY <1>3, <1>4, <1>8, <2>1 DEF Orderly
    <3>2. calls[j].state = "done" => g[j].state = "done"
      BY <1>1, <1>7
    <3>3. calls[k].state \in {"waiting", "done"} => g[k].state = calls[k].state
      BY <1>1, <1>7
    <3> QED
      BY <3>1, <3>2, <3>3
  <2> QED
    BY <1>5, <2>1 DEF Orderly
<1>14. Staged(t)
  <2>1. s.turn.intr.wake = 0
    BY WaitingIsStill
  <2>2. s.turn.id # 0
    BY DEF Linked, InOrder, Staged
  <2> QED
    BY <2>1, <2>2 DEF Staged
<1>15. Permits(t, {})
  <2>1. ASSUME Rank(s.eff) = 0, NEW j \in 1..n, NotRun(g[j])
        PROVE  ~Writes(g[j])
    <3>1. CASE j = i
      BY <1>7, <2>1, <3>1
    <3>2. CASE j # i
      BY <1>1, <1>4, <1>7, <2>1, <3>2 DEF Linked, Permits
    <3> QED
      BY <3>1, <3>2
  <2> QED
    BY <1>1, <1>5, <2>1 DEF Permits
<1> QED
  BY <1>1, <1>12, <1>13, <1>14, <1>15 DEF Linked, InOrder

\* A call that was found.
LEMMA Found ==
  ASSUME NEW s, NEW call, NEW states, At(s, call, states) # {},
         NEW i, i = CHOOSE j \in At(s, call, states) : TRUE
  PROVE  /\ i \in DOMAIN s.turn.calls /\ s.turn.stage = "tools"
         /\ s.turn.calls[i].id = call /\ s.turn.calls[i].state \in states
<1>1. i \in At(s, call, states)
  OBVIOUS
<1> QED
  BY <1>1 DEF At

\* What the book says of a call that was found.
LEMMA FoundInBook ==
  ASSUME NEW s, Linked(s), NEW i \in DOMAIN s.turn.calls, NEW c, c = s.turn.calls[i]
  PROVE  /\ DOMAIN c = CallFields
         /\ c.state # "done" => c.id \in s.book.pending
         /\ c.id \in s.book.asking <=> c.state = "asking"
         /\ c.id \in s.book.questioning <=> c.state = "questioning"
<1>1. PICK calls : calls = s.turn.calls
  OBVIOUS
<1>2. AreCalls(calls) /\ Matched(s.book, calls)
  BY <1>1 DEF Linked, InOrder, Matched
<1>3. ASSUME NEW state PROVE c.id \in IdsIn(calls, state) <=> c.state = state
  BY <1>1, <1>2 DEF IdsIn, IdsAt, AreCalls
<1>4. c.state # "done" => c.id \in OpenIds(calls)
  BY <1>1 DEF OpenIds, IdsAt
<1> QED
  BY <1>1, <1>2, <1>3, <1>4 DEF Matched, AreCalls

\* One call is changed.
WithCall(s, i, c) == [s EXCEPT !.turn.calls = [s.turn.calls EXCEPT ![i] = c]]

LEMMA OneCallChanges ==
  ASSUME NEW s, Rooted(s), NEW i \in DOMAIN s.turn.calls, NEW c, NEW d, d = WithCall(s, i, c)
  PROVE  /\ Rooted(d) /\ d.turn.calls = [s.turn.calls EXCEPT ![i] = c] /\ d.book = s.book
         /\ d.log = s.log /\ d.turn.id = s.turn.id /\ d.turn.cause = s.turn.cause
         /\ d.turn.stage = s.turn.stage /\ d.turn.queued = s.turn.queued
         /\ d.turn.intr = s.turn.intr
         /\ d.perm = s.perm /\ d.eff = s.eff /\ d.out = s.out /\ d.policy = s.policy
<1>1. Shapely(s)
  BY RootedBook
<1>2. PICK calls, g, n : calls = s.turn.calls /\ g = [calls EXCEPT ![i] = c] /\ n = Len(calls)
  OBVIOUS
<1>3. IsSeq(calls) /\ n \in Nat /\ DOMAIN calls = 1..n
  BY <1>1, <1>2, SeqIsFunction DEF Shapely
<1>4. IsSeq(g)
  <2>1. g = [j \in 1..n |-> g[j]]
    BY <1>2, <1>3
  <2> QED
    BY <1>3, <2>1, SeqOfLength
<1>5. d = [s EXCEPT !.turn.calls = g]
  BY <1>2 DEF WithCall
<1>6. /\ Shapely(d) /\ d.log = s.log /\ d.book = s.book /\ d.stored = s.stored
      /\ d.refused = s.refused /\ d.out = s.out /\ d.perm = s.perm /\ d.eff = s.eff
      /\ d.turn.id = s.turn.id /\ d.turn.queued = s.turn.queued /\ d.turn.calls = g
      /\ d.turn.cause = s.turn.cause /\ d.turn.stage = s.turn.stage
      /\ d.turn.intr = s.turn.intr /\ d.policy = s.policy
  BY <1>1, <1>4, <1>5 DEF Shapely, KernelFields, TurnFields
<1>7. Rank(d.eff) <= Rank(d.perm) /\ OutFits(d)
  BY <1>6 DEF Rooted, OutFits
<1>8. Rooted(d)
  BY <1>6, <1>7, RootedAside
<1> QED
  BY <1>2, <1>6, <1>8

\* A stopping call has come back; the last one closes the turn.
LEMMA StoppedDoneLinked ==
  ASSUME NEW s, Linked(s), s.turn.intr.wake # 0, NEW call, NEW stopped
  PROVE  Linked(StoppedDone(s, call, stopped))
<1>1. CASE At(s, call, {"stopping"}) = {}
  BY <1>1 DEF StoppedDone
<1>2. CASE At(s, call, {"stopping"}) # {}
  <2>1. PICK i : i = CHOOSE j \in At(s, call, {"stopping"}) : TRUE
    OBVIOUS
  <2>2. /\ i \in DOMAIN s.turn.calls /\ s.turn.stage = "tools"
        /\ s.turn.calls[i].id = call /\ s.turn.calls[i].state \in {"stopping"}
    BY <1>2, <2>1, Found
  <2>3. PICK done : done = SetState(s, i, "done")
    OBVIOUS
  <2>4. PICK cause, why :
          /\ cause = IF stopped THEN s.turn.intr.cause ELSE s.turn.cause
          /\ why = IF stopped THEN "running" ELSE "done"
    OBVIOUS
  <2>5. PICK put : put = Put(done, cause, Result(call, why))
    OBVIOUS
  <2>6. PICK g : g = MadeDone(s.turn.calls, {i})
    OBVIOUS
  <2>7. s.turn.calls[i].state # "done"
    BY <2>2
  <2>8. Restates(s, put, g) /\ done.turn.calls = g
    BY <2>2, <2>3, <2>5, <2>6, <2>7, OneDoneRestates
  <2>9. PICK closing : closing = [put EXCEPT !.turn.intr = NotInterrupting,
                                        !.turn.stage = "settling",
                                        !.turn.calls = << >>]
    OBVIOUS
  <2>10. PICK by, queued : by = s.turn.intr.cause /\ queued = s.turn.intr.queued
    OBVIOUS
  <2>11. StoppedDone(s, call, stopped) =
           IF \E j \in DOMAIN done.turn.calls : done.turn.calls[j].state = "stopping"
             THEN put ELSE CloseInterrupted(closing, by, queued)
    <3>1. CASE stopped
      <4>1. put = Put(done, s.turn.intr.cause, Result(call, "running"))
        BY <2>4, <2>5, <3>1
      <4>2. PICK left : left = \E j \in DOMAIN done.turn.calls :
                                 done.turn.calls[j].state = "stopping"
        OBVIOUS
      <4>3. CASE left
        BY <1>2, <2>1, <2>3, <3>1, <4>1, <4>2, <4>3 DEF StoppedDone
      <4>4. CASE ~left
        BY <1>2, <2>1, <2>3, <2>9, <2>10, <3>1, <4>1, <4>2, <4>4 DEF StoppedDone
      <4> QED
        BY <4>2, <4>3, <4>4
    <3>2. CASE ~stopped
      <4>1. put = Put(done, s.turn.cause, Result(call, "done"))
        BY <2>4, <2>5, <3>2
      <4> QED
        BY <1>2, <2>1, <2>3, <2>9, <2>10, <3>2, <4>1 DEF StoppedDone
    <3> QED
      BY <3>1, <3>2
  <2>12. AreCalls(s.turn.calls) /\ {i} \in SUBSET (DOMAIN s.turn.calls)
         /\ Orderly(s.turn.calls)
    BY <2>2 DEF Linked, InOrder, Matched
  <2>13. /\ DOMAIN g = DOMAIN s.turn.calls /\ Orderly(g)
         /\ \A j \in DOMAIN s.turn.calls :
              g[j].state = IF j \in {i} THEN "done" ELSE s.turn.calls[j].state
    BY <2>6, <2>12, DoneCalls
  <2>14. \A j \in DOMAIN g : g[j].state \in {"done", "stopping"}
    BY <2>13 DEF Linked, InOrder, Staged
  <2>15. s.turn.id # 0
    BY <2>2 DEF Linked, InOrder, Staged
  <2>16. CASE \E j \in DOMAIN g : g[j].state = "stopping"
    <3>1. Staged(put)
      BY <2>2, <2>8, <2>14, <2>15 DEF Restates, Staged
    <3>2. Permits(put, {})
      BY <2>8, <2>14 DEF Restates, Permits, NotRun
    <3>3. Linked(put)
      BY <2>8, <2>13, <3>1, <3>2 DEF Restates, Linked, InOrder
    <3> QED
      BY <2>8, <2>11, <2>16, <3>3
  <2>17. CASE ~\E j \in DOMAIN g : g[j].state = "stopping"
    <3>1. \A j \in DOMAIN g : g[j].state = "done"
      BY <2>14, <2>17
    <3>2. put.book.pending = {}
      BY <2>8, <3>1 DEF Restates, Matched, OpenIds, IdsAt
    <3>3. Rooted(put) /\ Shapely(put) /\ put.turn.id # 0 /\ put.turn.queued = s.turn.queued
      BY <2>8, <2>15, RootedBook DEF Restates
    <3>4. /\ Shapely(closing) /\ closing.log = put.log /\ closing.book = put.book
          /\ closing.stored = put.stored
          /\ closing.refused = put.refused /\ closing.out = put.out
          /\ closing.perm = put.perm /\ closing.eff = put.eff
          /\ closing.turn.id = put.turn.id /\ closing.turn.queued = put.turn.queued
      BY <2>9, <3>3, EmptyIsSeq DEF Shapely, KernelFields, TurnFields, NotInterrupting, Queueings
    <3>5. Rooted(closing)
      <4>1. Rank(closing.eff) <= Rank(closing.perm) /\ OutFits(closing)
        BY <3>3, <3>4 DEF Rooted, OutFits
      <4> QED
        BY <3>3, <3>4, <4>1, RootedAside
    <3>6. queued \in Queueings
      BY <2>10, RootedBook DEF Linked, InOrder, Shapely
    <3>7. PICK t : t = CloseInterrupted(closing, by, queued)
      OBVIOUS
    <3>8. Calm(t)
      <4>1. LET x == CloseInterrupted(closing, by, queued) IN
            Calm(x) /\ Len(x.log) > Len(closing.log)
        BY <3>2, <3>3, <3>4, <3>5, <3>6, CloseInterruptedCalm
      <4> QED
        BY <3>7, <4>1
    <3> QED
      BY <2>8, <2>11, <2>17, <3>7, <3>8, CalmIsLinked
  <2> QED
    BY <2>16, <2>17
<1> QED
  BY <1>1, <1>2

\* One call is done and the executor is told what may go on.
LEMMA DoneThenDispatch ==
  ASSUME NEW s, Linked(s), s.turn.stage = "tools", s.turn.intr.wake = 0,
         NEW i \in DOMAIN s.turn.calls, s.turn.calls[i].state # "done",
         NEW call, call = s.turn.calls[i].id, NEW why, NEW cause, NEW by,
         NEW put, put = Put(SetState(s, i, "done"), cause, Result(call, why)),
         NEW t, t = IF Finished(put.turn.calls) THEN FinishStep(put, by) ELSE put
  PROVE  Linked(t) /\ Linked(Dispatch(t))
<1>1. CASE Finished(put.turn.calls)
  <2>1. Calm(FinishStep(put, by))
    BY <1>1, OneDoneLinked
  <2>2. Linked(t)
    BY <1>1, <2>1, CalmIsLinked
  <2> QED
    BY <2>2, DispatchLinked
<1>2. CASE ~Finished(put.turn.calls)
  <2>1. Linked(t)
    BY <1>2, OneDoneLinked
  <2> QED
    BY <2>1, DispatchLinked
<1> QED
  BY <1>1, <1>2

LEMMA ToolDoneLinked ==
  ASSUME NEW s, Linked(s), NEW call, NEW stopped
  PROVE  Linked(ToolDone(s, call, stopped))
<1>1. PICK states : states = {"running", "questioning", "answered", "stopping"}
  OBVIOUS
<1>2. CASE s.turn.intr.wake # 0
  BY <1>2, StoppedDoneLinked DEF ToolDone
<1>3. CASE s.turn.intr.wake = 0 /\ At(s, call, states) = {}
  BY <1>1, <1>3 DEF ToolDone
<1>4. CASE s.turn.intr.wake = 0 /\ At(s, call, states) # {}
  <2>1. PICK i : i = CHOOSE j \in At(s, call, states) : TRUE
    OBVIOUS
  <2>2. /\ i \in DOMAIN s.turn.calls /\ s.turn.stage = "tools"
        /\ s.turn.calls[i].id = call /\ s.turn.calls[i].state \in states
    BY <1>4, <2>1, Found
  <2>3. PICK why, cause : why = (IF stopped THEN "running" ELSE "done") /\ cause = s.turn.cause
    OBVIOUS
  <2>4. PICK put : put = Put(SetState(s, i, "done"), cause, Result(call, why))
    OBVIOUS
  <2>5. PICK t : t = IF Finished(put.turn.calls) THEN FinishStep(put, cause) ELSE put
    OBVIOUS
  <2>6. ToolDone(s, call, stopped) = Dispatch(t)
    BY <1>1, <1>4, <2>1, <2>3, <2>4, <2>5 DEF ToolDone
  <2>7. s.turn.calls[i].state # "done"
    BY <1>1, <2>2
  <2> QED
    BY <1>4, <2>2, <2>4, <2>5, <2>6, <2>7, DoneThenDispatch
<1> QED
  BY <1>2, <1>3, <1>4

LEMMA StateSet ==
  ASSUME NEW s, Shapely(s), NEW i \in DOMAIN s.turn.calls, NEW state, NEW c,
         c = [s.turn.calls[i] EXCEPT !.state = state]
  PROVE  SetState(s, i, state) = WithCall(s, i, c)
<1>1. DOMAIN s = KernelFields /\ DOMAIN s.turn = TurnFields
  BY DEF Shapely
<1> QED
  BY <1>1 DEF SetState, WithCall, KernelFields, TurnFields

\* A call gets a state and what goes with it.
CallAt(c, state, at) == [c EXCEPT !.state = state, !.at = at]

CallAsking(c, state, asks) == [c EXCEPT !.state = state, !.asksWrite = asks]

Stated(s, i, state, at) == [SetState(s, i, state) EXCEPT !.turn.calls[i].at = at]

StatedAsking(s, i, state, asks) ==
  [SetState(s, i, state) EXCEPT !.turn.calls[i].asksWrite = asks]

LEMMA StateSetAt ==
  ASSUME NEW s, Shapely(s), NEW i \in DOMAIN s.turn.calls, NEW state, NEW at, NEW c,
         DOMAIN s.turn.calls[i] = CallFields,
         c = CallAt(s.turn.calls[i], state, at)
  PROVE  Stated(s, i, state, at) = WithCall(s, i, c)
<1>1. DOMAIN s = KernelFields /\ DOMAIN s.turn = TurnFields
  BY DEF Shapely
<1>2. PICK calls, c0, g : /\ calls = s.turn.calls /\ c0 = [calls[i] EXCEPT !.state = state]
                          /\ g = [calls EXCEPT ![i] = c0]
  OBVIOUS
<1>3. PICK u : u = [s EXCEPT !.turn.calls = g]
  OBVIOUS
<1>4. SetState(s, i, state) = u
  BY <1>1, <1>2, <1>3 DEF SetState, KernelFields, TurnFields
<1>5. /\ u.turn.calls = g
      /\ \A h : [u EXCEPT !.turn.calls = h] = [s EXCEPT !.turn.calls = h]
  BY <1>1, <1>3 DEF KernelFields, TurnFields
<1>6. [g EXCEPT ![i].at = at] = [calls EXCEPT ![i] = c]
  <2>1. g[i] = c0 /\ [c0 EXCEPT !.at = at] = c
    BY <1>2 DEF CallFields, CallAt
  <2> QED
    BY <1>2, <2>1
<1> QED
  BY <1>2, <1>4, <1>5, <1>6 DEF WithCall, Stated, StatedAsking

LEMMA StateSetAsks ==
  ASSUME NEW s, Shapely(s), NEW i \in DOMAIN s.turn.calls, NEW state, NEW asks, NEW c,
         DOMAIN s.turn.calls[i] = CallFields,
         c = CallAsking(s.turn.calls[i], state, asks)
  PROVE  StatedAsking(s, i, state, asks) = WithCall(s, i, c)
<1>1. DOMAIN s = KernelFields /\ DOMAIN s.turn = TurnFields
  BY DEF Shapely
<1>2. PICK calls, c0, g : /\ calls = s.turn.calls /\ c0 = [calls[i] EXCEPT !.state = state]
                          /\ g = [calls EXCEPT ![i] = c0]
  OBVIOUS
<1>3. PICK u : u = [s EXCEPT !.turn.calls = g]
  OBVIOUS
<1>4. SetState(s, i, state) = u
  BY <1>1, <1>2, <1>3 DEF SetState, KernelFields, TurnFields
<1>5. /\ u.turn.calls = g
      /\ \A h : [u EXCEPT !.turn.calls = h] = [s EXCEPT !.turn.calls = h]
  BY <1>1, <1>3 DEF KernelFields, TurnFields
<1>6. [g EXCEPT ![i].asksWrite = asks] = [calls EXCEPT ![i] = c]
  <2>1. g[i] = c0 /\ [c0 EXCEPT !.asksWrite = asks] = c
    BY <1>2 DEF CallFields, CallAsking
  <2> QED
    BY <1>2, <2>1
<1> QED
  BY <1>2, <1>4, <1>5, <1>6 DEF WithCall, Stated, StatedAsking

\* A body about a call.
About(kind, call) == [k |-> kind, call |-> call]

\* The event about the call is recorded first or last; either way the call moves.
LEMMA MovesAndPuts ==
  ASSUME NEW s, Linked(s), s.turn.stage = "tools", NEW i \in DOMAIN s.turn.calls,
         s.turn.calls[i].state \notin {"waiting", "done", "stopping"},
         NEW c, DOMAIN c = CallFields, c.id = s.turn.calls[i].id,
         c.access = s.turn.calls[i].access, c.state \notin {"waiting", "done"},
         Rank(s.eff) = 0 /\ NotRun(c) => ~Writes(c),
         NEW kind, NEW cause,
         \/ /\ kind = "approval.requested" /\ c.state = "asking"
            /\ s.turn.calls[i].state \notin {"asking", "questioning"}
         \/ /\ kind = "approval.decided" /\ c.state \notin {"asking", "questioning"}
            /\ s.turn.calls[i].state = "asking"
         \/ /\ kind = "question.asked" /\ c.state = "questioning"
            /\ s.turn.calls[i].state \notin {"asking", "questioning"}
         \/ /\ kind = "question.answered" /\ c.state \notin {"asking", "questioning"}
            /\ s.turn.calls[i].state = "questioning"
  PROVE  /\ Linked(Put(WithCall(s, i, c), cause, About(kind, c.id)))
         /\ Linked(WithCall(Put(s, cause, About(kind, c.id)), i, c))
         /\ Put(s, cause, About(kind, c.id)).turn.calls = s.turn.calls
<1>1. PICK body : body = About(kind, c.id)
  OBVIOUS
<1>2. Fine(body) /\ {"k", "call"} \subseteq DOMAIN body /\ body.k = kind /\ body.call = c.id
  BY <1>1 DEF About, Fine
<1>3. PICK old : old = s.turn.calls[i]
  OBVIOUS
<1>4. /\ c.id \in s.book.pending
      /\ c.id \in s.book.asking <=> old.state = "asking"
      /\ c.id \in s.book.questioning <=> old.state = "questioning"
  BY <1>3, FoundInBook
<1>5. Rooted(s) /\ s.turn.id # 0
  BY DEF Linked, InOrder, Staged
<1>6. OfCall(s.book, body)
  BY <1>2, <1>3, <1>4 DEF OfCall
<1>7. ASSUME NEW d, Rooted(d), d.turn.id = s.turn.id, d.book = s.book,
             d.turn.queued = s.turn.queued
      PROVE  LET t == Put(d, cause, body) IN
             /\ Rooted(t) /\ Beside(d, t)
             /\ t.book.pending = s.book.pending
             /\ t.book.asking = (s.book.asking \ {c.id})
                           \union (IF c.state = "asking" THEN {c.id} ELSE {})
             /\ t.book.questioning = (s.book.questioning \ {c.id})
                           \union (IF c.state = "questioning" THEN {c.id} ELSE {})
  <2>1. PICK t : t = Put(d, cause, body)
    OBVIOUS
  <2>2. Whole(d) /\ d.turn.id = d.book.open /\ d.book.open # 0
    BY <1>5, <1>7 DEF Rooted
  <2>3. TakesNote(d, t, body)
    <3>1. OfCall(d.book, body)
      BY <1>6, <1>7
    <3> QED
      BY <1>2, <2>1, <2>2, <3>1, PutOfCall
  <2>4. Rooted(t)
    BY <1>7, <2>3, PutsRooted DEF TakesNote, Rooted, QueueFits
  <2>5. t.book.pending = s.book.pending
    BY <1>2, <1>7, <2>3 DEF TakesNote
  <2>6. t.book.asking = (s.book.asking \ {c.id})
                           \union (IF c.state = "asking" THEN {c.id} ELSE {})
    BY <1>2, <1>3, <1>4, <1>7, <2>3 DEF TakesNote
  <2>7. t.book.questioning = (s.book.questioning \ {c.id})
                           \union (IF c.state = "questioning" THEN {c.id} ELSE {})
    BY <1>2, <1>3, <1>4, <1>7, <2>3 DEF TakesNote
  <2> QED
    BY <2>1, <2>3, <2>4, <2>5, <2>6, <2>7 DEF TakesNote, Puts
<1>8. Linked(Put(WithCall(s, i, c), cause, body))
  <2>1. PICK d : d = WithCall(s, i, c)
    OBVIOUS
  <2>2. /\ Rooted(d) /\ d.turn.calls = [s.turn.calls EXCEPT ![i] = c] /\ d.book = s.book
        /\ d.turn.id = s.turn.id /\ d.turn.stage = s.turn.stage
        /\ d.turn.queued = s.turn.queued /\ d.turn.intr = s.turn.intr /\ d.eff = s.eff
    BY <1>5, <2>1, OneCallChanges
  <2>3. PICK t : t = Put(d, cause, body)
    OBVIOUS
  <2>4. /\ Rooted(t) /\ Beside(d, t)
        /\ t.book.pending = s.book.pending
        /\ t.book.asking = (s.book.asking \ {c.id})
                           \union (IF c.state = "asking" THEN {c.id} ELSE {})
        /\ t.book.questioning = (s.book.questioning \ {c.id})
                           \union (IF c.state = "questioning" THEN {c.id} ELSE {})
    BY <1>7, <2>2, <2>3
  <2>5. /\ t.turn.calls = [s.turn.calls EXCEPT ![i] = c] /\ t.turn.id = s.turn.id
        /\ t.turn.stage = "tools" /\ t.turn.intr = s.turn.intr /\ t.eff = s.eff
    BY <2>2, <2>4 DEF Beside
  <2>6. Linked(t)
    BY <2>4, <2>5, CallMoves
  <2> QED
    BY <2>1, <2>3, <2>6
<1>9. /\ Linked(WithCall(Put(s, cause, body), i, c))
      /\ Put(s, cause, body).turn.calls = s.turn.calls
  <2>1. PICK p : p = Put(s, cause, body)
    OBVIOUS
  <2>2. /\ Rooted(p) /\ Beside(s, p)
        /\ p.book.pending = s.book.pending
        /\ p.book.asking = (s.book.asking \ {c.id})
                           \union (IF c.state = "asking" THEN {c.id} ELSE {})
        /\ p.book.questioning = (s.book.questioning \ {c.id})
                           \union (IF c.state = "questioning" THEN {c.id} ELSE {})
    BY <1>5, <1>7, <2>1
  <2>3. PICK t : t = WithCall(p, i, c)
    OBVIOUS
  <2>4. p.turn = s.turn /\ p.eff = s.eff /\ i \in DOMAIN p.turn.calls
    BY <2>2 DEF Beside
  <2>5. /\ Rooted(t) /\ t.turn.calls = [p.turn.calls EXCEPT ![i] = c] /\ t.book = p.book
        /\ t.turn.id = p.turn.id /\ t.turn.stage = p.turn.stage
        /\ t.turn.intr = p.turn.intr /\ t.eff = p.eff
    BY <2>2, <2>3, <2>4, OneCallChanges
  <2>6. /\ t.turn.calls = [s.turn.calls EXCEPT ![i] = c] /\ t.turn.id = s.turn.id
        /\ t.turn.stage = "tools" /\ t.turn.intr = s.turn.intr /\ t.eff = s.eff
    BY <2>4, <2>5
  <2>7. Linked(t)
    BY <2>2, <2>5, <2>6, CallMoves
  <2> QED
    BY <2>1, <2>3, <2>4, <2>7
<1> QED
  BY <1>1, <1>8, <1>9

\* A call moves without an event.
LEMMA MovesAlone ==
  ASSUME NEW s, Linked(s), s.turn.stage = "tools", NEW i \in DOMAIN s.turn.calls,
         s.turn.calls[i].state \notin {"waiting", "done", "stopping", "asking", "questioning"},
         NEW c, DOMAIN c = CallFields, c.id = s.turn.calls[i].id,
         c.access = s.turn.calls[i].access,
         c.state \notin {"waiting", "done", "asking", "questioning"},
         Rank(s.eff) = 0 /\ NotRun(c) => ~Writes(c)
  PROVE  Linked(WithCall(s, i, c))
<1>1. PICK d : d = WithCall(s, i, c)
  OBVIOUS
<1>2. Rooted(s)
  BY DEF Linked, InOrder
<1>3. /\ Rooted(d) /\ d.turn.calls = [s.turn.calls EXCEPT ![i] = c] /\ d.book = s.book
      /\ d.turn.id = s.turn.id /\ d.turn.stage = s.turn.stage
      /\ d.turn.intr = s.turn.intr /\ d.eff = s.eff
  BY <1>1, <1>2, OneCallChanges
<1>4. c.id \notin s.book.asking /\ c.id \notin s.book.questioning
  <2>1. PICK old : old = s.turn.calls[i]
    OBVIOUS
  <2> QED
    BY <2>1, FoundInBook
<1>5. Linked(d)
  BY <1>3, <1>4, CallMoves
<1> QED
  BY <1>1, <1>5

LEMMA ToolGuardedLinked ==
  ASSUME NEW s, Linked(s), NEW call, NEW verdict
  PROVE  Linked(ToolGuarded(s, call, verdict))
<1>1. CASE At(s, call, {"guarding"}) = {}
  BY <1>1 DEF ToolGuarded
<1>2. CASE At(s, call, {"guarding"}) # {}
  <2>1. PICK i : i = CHOOSE j \in At(s, call, {"guarding"}) : TRUE
    OBVIOUS
  <2>2. /\ i \in DOMAIN s.turn.calls /\ s.turn.stage = "tools"
        /\ s.turn.calls[i].id = call /\ s.turn.calls[i].state \in {"guarding"}
    BY <1>2, <2>1, Found
  <2>3. PICK old, cause : old = s.turn.calls[i] /\ cause = s.turn.cause
    OBVIOUS
  <2>4. DOMAIN old = CallFields /\ old.state = "guarding" /\ old.id = call
    BY <2>2, <2>3, FoundInBook
  <2>5. s.turn.intr.wake = 0
    BY <2>2, WaitingIsStill
  <2>6. Rooted(s) /\ Shapely(s) /\ Rank(s.eff) <= Rank(s.perm)
    BY RootedBook DEF Linked, InOrder, Rooted
  <2>7. Rank(s.eff) = 0 => ~Writes(old)
    BY <2>2, <2>3, <2>4 DEF Linked, Permits, NotRun
  <2>8. CASE verdict = "allow"
    <3>1. PICK c : c = [old EXCEPT !.state = "running"]
      OBVIOUS
    <3>2. PICK d : d = SetState(s, i, "running")
      OBVIOUS
    <3>3. d = WithCall(s, i, c)
      BY <2>2, <2>3, <2>6, <3>1, <3>2, StateSet
    <3>4. /\ DOMAIN c = CallFields /\ c.id = old.id /\ c.access = old.access
          /\ c.state = "running"
      BY <2>4, <3>1 DEF CallFields
    <3>5. ~NotRun(c)
      BY <3>4 DEF NotRun
    <3>6. Linked(d)
      BY <2>2, <2>3, <2>4, <3>3, <3>4, <3>5, MovesAlone
    <3>7. PICK a : a = RunTool(s, old)
      OBVIOUS
    <3>8. ToolGuarded(s, call, verdict) = Do(d, {a})
      BY <1>2, <2>1, <2>3, <2>8, <3>2, <3>7 DEF ToolGuarded
    <3>9. d.perm = s.perm
      <4>1. /\ Rooted(d) /\ d.turn.calls = [s.turn.calls EXCEPT ![i] = c] /\ d.book = s.book
            /\ d.log = s.log /\ d.turn.id = s.turn.id /\ d.turn.cause = s.turn.cause
            /\ d.turn.stage = s.turn.stage /\ d.turn.queued = s.turn.queued
            /\ d.turn.intr = s.turn.intr
            /\ d.perm = s.perm /\ d.eff = s.eff /\ d.out = s.out /\ d.policy = s.policy
        BY <2>2, <2>6, <3>3, OneCallChanges
      <4> QED
        BY <4>1
    <3>10. a.write => Rank(d.perm) # 0
      <4>1. a.write = Writes(old)
        BY <3>7 DEF RunTool
      <4>2. Writes(old) => Rank(s.perm) # 0
        BY <2>6, <2>7, RankIsNumber
      <4> QED
        BY <3>9, <4>1, <4>2
    <3>11. PICK actions : actions = {a}
      OBVIOUS
    <3>12. \A b \in actions : b.a = "RunTool" /\ b.write => Rank(d.perm) # 0
      BY <3>10, <3>11
    <3>13. Linked(Do(d, actions))
      BY <3>6, <3>12, DoLinked
    <3> QED
      BY <3>8, <3>11, <3>13
  <2>9. CASE verdict # "allow" /\ Refuses(s, verdict)
    <3>1. PICK put : put = Put(SetState(s, i, "done"), cause, Result(call, "denied"))
      OBVIOUS
    <3>2. PICK t : t = IF Finished(put.turn.calls) THEN FinishStep(put, cause) ELSE put
      OBVIOUS
    <3>3. ToolGuarded(s, call, verdict) = Dispatch(t)
      BY <1>2, <2>1, <2>3, <2>9, <3>1, <3>2 DEF ToolGuarded
    <3>4. s.turn.calls[i].state # "done"
      BY <2>2
    <3>5. PICK why : why = "denied"
      OBVIOUS
    <3>6. put = Put(SetState(s, i, "done"), cause, Result(call, why))
      BY <3>1, <3>5
    <3> QED
      BY <2>2, <2>5, <3>2, <3>3, <3>4, <3>6, DoneThenDispatch
  <2>10. CASE verdict # "allow" /\ ~Refuses(s, verdict)
    <3>1. PICK asks : asks = (verdict = "askWrite")
      OBVIOUS
    <3>2. PICK c : c = [old EXCEPT !.state = "asking", !.asksWrite = asks]
      OBVIOUS
    <3>3. PICK d : d = [SetState(s, i, "asking") EXCEPT !.turn.calls[i].asksWrite = asks]
      OBVIOUS
    <3>4. d = WithCall(s, i, c)
      <4>1. PICK state : state = "asking"
        OBVIOUS
      <4>2. c = CallAsking(s.turn.calls[i], state, asks)
        BY <2>3, <3>2, <4>1 DEF CallAsking
      <4>3. StatedAsking(s, i, state, asks) = WithCall(s, i, c)
        BY <2>2, <2>3, <2>4, <2>6, <4>2, StateSetAsks
      <4> QED
        BY <3>3, <4>1, <4>3 DEF StatedAsking
    <3>5. /\ DOMAIN c = CallFields /\ c.id = call /\ c.access = old.access
          /\ c.state = "asking" /\ c.asksWrite = asks
      BY <2>4, <3>2 DEF CallFields
    <3>6. Rank(s.eff) = 0 => ~Writes(c)
      <4>1. Rank(s.eff) = 0 => verdict # "askWrite"
        BY <2>10 DEF Refuses, ReadOnlyNow
      <4> QED
        BY <2>7, <3>1, <3>5, <4>1 DEF Writes
    <3>7. PICK t : t = Put(d, cause, About("approval.requested", call))
      OBVIOUS
    <3>8. Linked(t)
      <4>1. PICK kind : kind = "approval.requested"
        OBVIOUS
      <4>2. Linked(Put(WithCall(s, i, c), cause, About(kind, c.id)))
        BY <2>2, <2>3, <2>4, <3>5, <3>6, <4>1, MovesAndPuts
      <4> QED
        BY <3>4, <3>5, <3>7, <4>1, <4>2
    <3>9. ToolGuarded(s, call, verdict) = Dispatch(t)
      BY <1>2, <2>1, <2>3, <2>10, <3>1, <3>3, <3>7 DEF ToolGuarded, About
    <3> QED
      BY <3>8, <3>9, DispatchLinked
  <2> QED
    BY <2>8, <2>9, <2>10
<1> QED
  BY <1>1, <1>2

LEMMA ToolAsksLinked ==
  ASSUME NEW s, Linked(s), NEW call
  PROVE  Linked(ToolAsks(s, call))
<1>1. CASE At(s, call, {"running"}) = {}
  BY <1>1 DEF ToolAsks
<1>2. CASE At(s, call, {"running"}) # {}
  <2>1. PICK i : i = CHOOSE j \in At(s, call, {"running"}) : TRUE
    OBVIOUS
  <2>2. /\ i \in DOMAIN s.turn.calls /\ s.turn.stage = "tools"
        /\ s.turn.calls[i].id = call /\ s.turn.calls[i].state \in {"running"}
    BY <1>2, <2>1, Found
  <2>3. PICK old, cause : old = s.turn.calls[i] /\ cause = s.turn.cause
    OBVIOUS
  <2>4. DOMAIN old = CallFields /\ old.state = "running" /\ old.id = call
    BY <2>2, <2>3, FoundInBook
  <2>5. s.turn.intr.wake = 0
    BY <2>2, WaitingIsStill
  <2>6. CASE s.policy.attended
    <3>1. Shapely(s)
      BY RootedBook DEF Linked, InOrder
    <3>2. PICK c : c = [old EXCEPT !.state = "questioning"]
      OBVIOUS
    <3>3. PICK d : d = SetState(s, i, "questioning")
      OBVIOUS
    <3>4. d = WithCall(s, i, c)
      BY <2>2, <2>3, <3>1, <3>2, <3>3, StateSet
    <3>5. /\ DOMAIN c = CallFields /\ c.id = call /\ c.access = old.access
          /\ c.state = "questioning"
      BY <2>4, <3>2 DEF CallFields
    <3>6. ~NotRun(c)
      BY <3>5 DEF NotRun
    <3>7. PICK kind : kind = "question.asked"
      OBVIOUS
    <3>8. Linked(Put(WithCall(s, i, c), cause, About(kind, c.id)))
      BY <2>2, <2>3, <2>4, <3>5, <3>6, <3>7, MovesAndPuts
    <3>9. ToolAsks(s, call) = Put(d, cause, About(kind, call))
      BY <1>2, <2>1, <2>3, <2>6, <3>3, <3>7 DEF ToolAsks, About
    <3> QED
      BY <3>4, <3>5, <3>8, <3>9
  <2>7. CASE ~s.policy.attended
    <3>1. PICK why : why = "unanswered"
      OBVIOUS
    <3>2. PICK put : put = Put(SetState(s, i, "done"), cause, Result(call, why))
      OBVIOUS
    <3>3. PICK t : t = IF Finished(put.turn.calls) THEN FinishStep(put, cause) ELSE put
      OBVIOUS
    <3>4. PICK actions : actions = {[a |-> "CancelTool", call |-> call]}
      OBVIOUS
    <3>5. ToolAsks(s, call) = Dispatch(Do(t, actions))
      BY <1>2, <2>1, <2>3, <2>7, <3>1, <3>2, <3>3, <3>4 DEF ToolAsks
    <3>6. s.turn.calls[i].state # "done"
      BY <2>2
    <3>7. Linked(t)
      BY <2>2, <2>5, <3>2, <3>3, <3>6, DoneThenDispatch
    <3>8. \A a \in actions : a.a # "RunTool"
      BY <3>4
    <3>9. PICK u : u = Do(t, actions)
      OBVIOUS
    <3>10. Linked(u)
      BY <3>7, <3>8, <3>9, DoLinked
    <3> QED
      BY <3>5, <3>9, <3>10, DispatchLinked
  <2> QED
    BY <2>6, <2>7
<1> QED
  BY <1>1, <1>2

\* What a record of an event leaves alone.
LEMMA PutKeepsTurn ==
  ASSUME NEW s, Sound(s), NEW cause, NEW body, Fine(body), NEW p, p = Put(s, cause, body)
  PROVE  p.turn = s.turn /\ Sound(p) /\ Shapely(p)
<1>1. DOMAIN s = KernelFields
  BY DEF Sound, Shapely
<1>2. p.turn = s.turn
  BY <1>1 DEF Put, Commit, KernelFields
<1>3. Sound(p)
  BY PutOnward
<1> QED
  BY <1>2, <1>3 DEF Sound

\* Done is done, whatever the call was taken for before.
LEMMA DoneAnyway ==
  ASSUME NEW p, Shapely(p), NEW i \in DOMAIN p.turn.calls, NEW first, NEW then, NEW c,
         DOMAIN p.turn.calls[i] = CallFields,
         c = [p.turn.calls[i] EXCEPT !.state = first],
         NEW t, t = WithCall(p, i, c)
  PROVE  /\ SetState(t, i, then) = SetState(p, i, then)
         /\ t.turn.stage = p.turn.stage /\ t.turn.intr = p.turn.intr
         /\ i \in DOMAIN t.turn.calls /\ t.turn.calls[i] = c
<1>1. DOMAIN p = KernelFields /\ DOMAIN p.turn = TurnFields
  BY DEF Shapely
<1>2. PICK calls, g : calls = p.turn.calls /\ g = [calls EXCEPT ![i] = c]
  OBVIOUS
<1>3. t = [p EXCEPT !.turn.calls = g]
  BY <1>2 DEF WithCall
<1>4. /\ DOMAIN t = KernelFields /\ DOMAIN t.turn = TurnFields
      /\ t.turn.calls = g /\ t.turn.stage = p.turn.stage /\ t.turn.intr = p.turn.intr
  BY <1>1, <1>3 DEF KernelFields, TurnFields
<1>5. DOMAIN g = DOMAIN calls /\ g[i] = c
  BY <1>2
<1>6. \A h : [t EXCEPT !.turn.calls = h] = [p EXCEPT !.turn.calls = h]
  BY <1>1, <1>3 DEF KernelFields, TurnFields
<1>7. PICK d : d = [calls[i] EXCEPT !.state = then]
  OBVIOUS
<1>8. [c EXCEPT !.state = then] = d
  BY <1>2, <1>7 DEF CallFields
<1>9. PICK h : h = [calls EXCEPT ![i] = d]
  OBVIOUS
<1>10. [g EXCEPT ![i] = d] = h
  BY <1>2, <1>9
<1>11. SetState(p, i, then) = [p EXCEPT !.turn.calls = h]
  BY <1>1, <1>2, <1>7, <1>9 DEF SetState, KernelFields, TurnFields
<1>12. SetState(t, i, then) = [t EXCEPT !.turn.calls = h]
  BY <1>4, <1>5, <1>8, <1>10 DEF SetState, KernelFields, TurnFields
<1> QED
  BY <1>2, <1>4, <1>5, <1>6, <1>11, <1>12

\* A person has decided about a call.
LEMMA AnswerApprovalLinked ==
  ASSUME NEW s, Linked(s), NEW id, NEW call, NEW allow
  PROVE  Linked(AnswerApproval(s, id, call, allow))
<1>1. CASE At(s, call, {"asking"}) = {}
  <2>1. AnswerApproval(s, id, call, allow) = Reject(s, id)
    BY <1>1 DEF AnswerApproval
  <2>2. PICK t, events : t = Reject(s, id) /\ events = << >>
    OBVIOUS
  <2>3. Rooted(s) /\ Answering(s, t, id, events)
    BY <2>2 DEF Linked, InOrder, Answering
  <2> QED
    BY <2>1, <2>2, <2>3, AnsweringLinked
<1>2. CASE At(s, call, {"asking"}) # {}
  <2>1. PICK i : i = CHOOSE j \in At(s, call, {"asking"}) : TRUE
    OBVIOUS
  <2>2. /\ i \in DOMAIN s.turn.calls /\ s.turn.stage = "tools"
        /\ s.turn.calls[i].id = call /\ s.turn.calls[i].state \in {"asking"}
    BY <1>2, <2>1, Found
  <2>3. PICK old, by, seq : old = s.turn.calls[i] /\ by = s.turn.cause /\ seq = s.book.next
    OBVIOUS
  <2>4. DOMAIN old = CallFields /\ old.state = "asking" /\ old.id = call
    BY <2>2, <2>3, FoundInBook
  <2>5. s.turn.intr.wake = 0
    BY <2>2, WaitingIsStill
  <2>6. Rank(s.eff) = 0 => ~Writes(old)
    BY <2>2, <2>3, <2>4 DEF Linked, Permits, NotRun
  <2>7. PICK state, kind : state = "approved" /\ kind = "approval.decided"
    OBVIOUS
  <2>8. Shapely(s) /\ Sound(s)
    BY RootedBook DEF Linked, InOrder
  <2>9. PICK body, p : body = About(kind, call) /\ p = Put(s, id, body)
    OBVIOUS
  <2>10. p.turn = s.turn /\ Shapely(p)
    <3>1. Fine(body)
      BY <2>7, <2>9 DEF Fine, About
    <3> QED
      BY <2>8, <2>9, <3>1, PutKeepsTurn
  <2>11. ASSUME NEW c, DOMAIN c = CallFields, c.id = call, c.access = old.access,
                c.state = "approved", c.asksWrite = old.asksWrite
         PROVE  Linked(WithCall(p, i, c))
    <3>1. Rank(s.eff) = 0 => ~Writes(c)
      BY <2>6, <2>11 DEF Writes
    <3>2. Linked(WithCall(Put(s, id, About(kind, c.id)), i, c))
      BY <2>2, <2>3, <2>4, <2>7, <2>11, <3>1, MovesAndPuts
    <3> QED
      BY <2>9, <2>11, <3>2
  <2>12. p = Put(s, id, [k |-> "approval.decided", call |-> call])
    BY <2>7, <2>9 DEF About
  <2>13. CASE allow
    <3>1. PICK u : u = Stated(p, i, state, seq)
      OBVIOUS
    <3>2. PICK c : c = CallAt(old, state, seq)
      OBVIOUS
    <3>3. /\ DOMAIN c = CallFields /\ c.id = call /\ c.access = old.access
          /\ c.state = "approved" /\ c.asksWrite = old.asksWrite
      BY <2>4, <2>7, <3>2 DEF CallFields, CallAt
    <3>4. u = WithCall(p, i, c)
      BY <2>2, <2>3, <2>4, <2>10, <3>1, <3>2, StateSetAt
    <3>5. Linked(u)
      BY <2>11, <3>3, <3>4
    <3>6. AnswerApproval(s, id, call, allow) = Dispatch(Accept(u, id, Since(s, u)))
      BY <1>2, <2>1, <2>3, <2>7, <2>12, <2>13, <3>1 DEF AnswerApproval, Stated
    <3>7. Linked(Accept(u, id, Since(s, u)))
      BY <3>5, AcceptLinked
    <3> QED
      BY <3>6, <3>7, DispatchLinked
  <2>14. CASE ~allow
    <3>1. PICK why, over : why = "denied" /\ over = "done"
      OBVIOUS
    <3>2. PICK put : put = Put(SetState(p, i, over), id, Result(call, why))
      OBVIOUS
    <3>3. PICK u : u = IF Finished(put.turn.calls) THEN FinishStep(put, by) ELSE put
      OBVIOUS
    <3>4. AnswerApproval(s, id, call, allow) = Dispatch(Accept(u, id, Since(s, u)))
      BY <1>2, <2>1, <2>3, <2>12, <2>14, <3>1, <3>2, <3>3 DEF AnswerApproval
    <3>5. PICK c, t : c = [old EXCEPT !.state = state] /\ t = WithCall(p, i, c)
      OBVIOUS
    <3>6. /\ DOMAIN c = CallFields /\ c.id = call /\ c.access = old.access
          /\ c.state = "approved" /\ c.asksWrite = old.asksWrite
      BY <2>4, <2>7, <3>5 DEF CallFields
    <3>7. Linked(t)
      BY <2>11, <3>5, <3>6
    <3>8. /\ SetState(t, i, over) = SetState(p, i, over)
          /\ t.turn.stage = p.turn.stage /\ t.turn.intr = p.turn.intr
          /\ i \in DOMAIN t.turn.calls /\ t.turn.calls[i] = c
      BY <2>2, <2>3, <2>4, <2>10, <3>5, DoneAnyway
    <3>9. /\ t.turn.stage = "tools" /\ t.turn.intr.wake = 0
          /\ t.turn.calls[i].state # "done" /\ t.turn.calls[i].id = call
      BY <2>2, <2>5, <2>10, <3>6, <3>8
    <3>10. put = Put(SetState(t, i, "done"), id, Result(call, why))
      BY <3>1, <3>2, <3>8
    <3>11. Linked(u)
      BY <3>3, <3>7, <3>8, <3>9, <3>10, DoneThenDispatch
    <3>12. Linked(Accept(u, id, Since(s, u)))
      BY <3>11, AcceptLinked
    <3> QED
      BY <3>4, <3>12, DispatchLinked
  <2> QED
    BY <2>13, <2>14
<1> QED
  BY <1>1, <1>2

\* A person has answered what a tool asked.
LEMMA AnswerQuestionLinked ==
  ASSUME NEW s, Linked(s), NEW id, NEW call
  PROVE  Linked(AnswerQuestion(s, id, call))
<1>1. CASE At(s, call, {"questioning"}) = {}
  <2>1. AnswerQuestion(s, id, call) = Reject(s, id)
    BY <1>1 DEF AnswerQuestion
  <2>2. PICK t, events : t = Reject(s, id) /\ events = << >>
    OBVIOUS
  <2>3. Rooted(s) /\ Answering(s, t, id, events)
    BY <2>2 DEF Linked, InOrder, Answering
  <2> QED
    BY <2>1, <2>2, <2>3, AnsweringLinked
<1>2. CASE At(s, call, {"questioning"}) # {}
  <2>1. PICK i : i = CHOOSE j \in At(s, call, {"questioning"}) : TRUE
    OBVIOUS
  <2>2. /\ i \in DOMAIN s.turn.calls /\ s.turn.stage = "tools"
        /\ s.turn.calls[i].id = call /\ s.turn.calls[i].state \in {"questioning"}
    BY <1>2, <2>1, Found
  <2>3. PICK old, seq : old = s.turn.calls[i] /\ seq = s.book.next
    OBVIOUS
  <2>4. DOMAIN old = CallFields /\ old.state = "questioning" /\ old.id = call
    BY <2>2, <2>3, FoundInBook
  <2>5. PICK state, kind : state = "answered" /\ kind = "question.answered"
    OBVIOUS
  <2>6. Shapely(s) /\ Sound(s)
    BY RootedBook DEF Linked, InOrder
  <2>7. PICK body, p : body = About(kind, call) /\ p = Put(s, id, body)
    OBVIOUS
  <2>8. p.turn = s.turn /\ Shapely(p)
    <3>1. Fine(body)
      BY <2>5, <2>7 DEF Fine, About
    <3> QED
      BY <2>6, <2>7, <3>1, PutKeepsTurn
  <2>9. PICK c : c = CallAt(old, state, seq)
    OBVIOUS
  <2>10. /\ DOMAIN c = CallFields /\ c.id = call /\ c.access = old.access
         /\ c.state = "answered" /\ c.asksWrite = old.asksWrite
    BY <2>4, <2>5, <2>9 DEF CallFields, CallAt
  <2>11. Linked(WithCall(Put(s, id, About(kind, c.id)), i, c))
    <3>1. ~NotRun(c)
      BY <2>10 DEF NotRun
    <3> QED
      BY <2>2, <2>3, <2>4, <2>5, <2>10, <3>1, MovesAndPuts
  <2>12. PICK u : u = Stated(p, i, state, seq)
    OBVIOUS
  <2>13. u = WithCall(p, i, c)
    BY <2>2, <2>3, <2>4, <2>8, <2>9, <2>12, StateSetAt
  <2>14. Linked(u)
    BY <2>7, <2>10, <2>11, <2>13
  <2>15. AnswerQuestion(s, id, call) = Accept(u, id, <<seq>>)
    BY <1>2, <2>1, <2>3, <2>5, <2>7, <2>12 DEF AnswerQuestion, Stated, About
  <2> QED
    BY <2>14, <2>15, AcceptLinked
<1> QED
  BY <1>1, <1>2

----------------------------------------------------------------------------
(***************************************************************************)
(* Interrupting.                                                           *)
(***************************************************************************)
\* The calls of a step that is being stopped are done, or stop.
Cancelled(s, t) ==
  /\ Rooted(t) /\ Matched(t.book, t.turn.calls) /\ Orderly(t.turn.calls)
  /\ \A i \in DOMAIN t.turn.calls : t.turn.calls[i].state \in {"done", "stopping"}
  /\ t.turn.id = s.turn.id /\ t.turn.stage = s.turn.stage

\* What becomes of the calls.
Stops(c) == c.state = "stopping" \/ (c.state = "running" /\ c.access = "write")

MadeToStop(calls) ==
  [i \in DOMAIN calls |->
     [calls[i] EXCEPT !.state = IF Stops(calls[i]) THEN "stopping" ELSE "done"]]

LEMMA CallsStop ==
  ASSUME NEW calls, AreCalls(calls), Orderly(calls),
         NEW left, left = {i \in DOMAIN calls : calls[i].state # "done" /\ ~Stops(calls[i])}
  PROVE  LET g == MadeToStop(calls) IN
         /\ AreCalls(g) /\ DOMAIN g = DOMAIN calls
         /\ OpenIds(g) = OpenIds(calls) \ IdsAt(calls, left)
         /\ \A state \in {"asking", "questioning"} :
              IdsIn(g, state) = IdsIn(calls, state) \ IdsAt(calls, left)
         /\ Orderly(g)
         /\ \A i \in DOMAIN calls : g[i].state \in {"done", "stopping"}
<1>1. PICK g : g = MadeToStop(calls)
  OBVIOUS
<1>2. DOMAIN g = DOMAIN calls /\ g = [i \in DOMAIN calls |-> g[i]]
  BY <1>1 DEF MadeToStop
<1>3. ASSUME NEW i \in DOMAIN calls
      PROVE  /\ DOMAIN g[i] = CallFields
             /\ g[i].id = calls[i].id /\ g[i].access = calls[i].access
             /\ g[i].state = IF Stops(calls[i]) THEN "stopping" ELSE "done"
  <2>1. DOMAIN calls[i] = CallFields
    BY DEF AreCalls
  <2>2. g[i] = [calls[i] EXCEPT !.state = IF Stops(calls[i]) THEN "stopping" ELSE "done"]
    BY <1>1 DEF MadeToStop
  <2> QED
    BY <2>1, <2>2 DEF CallFields
<1>4. AreCalls(g)
  <2>1. IsSeq(g)
    BY <1>2, EachOf DEF AreCalls
  <2>2. \A i, j \in DOMAIN g : g[i].id = g[j].id => i = j
    BY <1>2, <1>3 DEF AreCalls
  <2> QED
    BY <1>2, <1>3, <2>1, <2>2 DEF AreCalls
<1>5. \A i \in DOMAIN calls : calls[i].id \in IdsAt(calls, left) <=> i \in left
  BY DEF AreCalls, IdsAt
<1>6. \A i \in DOMAIN calls :
        /\ Stops(calls[i]) => calls[i].state \in {"stopping", "running"}
        /\ g[i].state # "done" <=> Stops(calls[i])
        /\ i \in left <=> calls[i].state # "done" /\ ~Stops(calls[i])
  BY <1>3 DEF Stops
<1>7. PICK ids : ids = IdsAt(calls, left)
  OBVIOUS
<1>8. \A i \in DOMAIN calls : calls[i].id \in ids <=> i \in left
  BY <1>5, <1>7
<1>9. OpenIds(g) = OpenIds(calls) \ ids
  BY <1>2, <1>3, <1>6, <1>8 DEF OpenIds, IdsAt
<1>10. ASSUME NEW state \in {"asking", "questioning"}
       PROVE  IdsIn(g, state) = IdsIn(calls, state) \ ids
  <2>1. \A i \in DOMAIN calls : g[i].state # state
    BY <1>3
  <2>2. \A i \in DOMAIN calls : calls[i].state = state => i \in left
    BY <1>6
  <2> QED
    BY <1>2, <1>8, <2>1, <2>2 DEF IdsIn, IdsAt
<1>11. Orderly(g)
  <2>1. SUFFICES ASSUME NEW i \in DOMAIN g, NEW j \in DOMAIN g, i < j,
                        ~(g[i].access = "read" /\ g[j].access = "read"),
                        g[i].state # "done"
                 PROVE  g[j].state = "done"
    BY DEF Orderly
  <2>2. i \in DOMAIN calls /\ j \in DOMAIN calls
    BY <1>2
  <2>3. calls[i].state \in {"stopping", "running"}
    BY <1>6, <2>1, <2>2
  <2>4. ~(calls[i].access = "read" /\ calls[j].access = "read")
    BY <1>3, <2>1, <2>2
  <2>5. calls[j].state \in {"waiting", "done"}
    BY <2>1, <2>2, <2>3, <2>4 DEF Orderly
  <2>6. ~Stops(calls[j])
    BY <2>5 DEF Stops
  <2> QED
    BY <1>3, <2>2, <2>6
<1>12. \A i \in DOMAIN calls : g[i].state \in {"done", "stopping"}
  BY <1>3
<1> QED
  BY <1>1, <1>2, <1>4, <1>7, <1>9, <1>10, <1>11, <1>12

LEMMA CancelStepCancels ==
  ASSUME NEW s, Linked(s), s.turn.stage = "tools", NEW cause
  PROVE  LET t == CancelStep(s, cause) IN
         Cancelled(s, t) /\ t.turn.mark = s.turn.mark
<1>1. PICK calls : calls = s.turn.calls
  OBVIOUS
<1>2. AreCalls(calls) /\ Orderly(calls) /\ Rooted(s) /\ Matched(s.book, s.turn.calls)
  BY <1>1 DEF Linked, InOrder, Matched
<1>3. s.turn.id # 0
  BY DEF Linked, InOrder, Staged
<1>4. PICK left : left = {i \in DOMAIN calls : calls[i].state # "done" /\ ~Stops(calls[i])}
  OBVIOUS
<1>5. PICK g : g = MadeToStop(calls)
  OBVIOUS
<1>6. /\ AreCalls(g) /\ DOMAIN g = DOMAIN calls
      /\ OpenIds(g) = OpenIds(calls) \ IdsAt(calls, left)
      /\ \A state \in {"asking", "questioning"} :
           IdsIn(g, state) = IdsIn(calls, state) \ IdsAt(calls, left)
      /\ Orderly(g)
      /\ \A i \in DOMAIN calls : g[i].state \in {"done", "stopping"}
  BY <1>2, <1>4, <1>5, CallsStop
<1>7. PICK h : h = [i \in DOMAIN calls |-> Result(calls[i].id, CutReason(calls[i]))]
  OBVIOUS
<1>8. /\ h = [i \in DOMAIN calls |-> h[i]]
      /\ \A i \in DOMAIN calls : \E y : h[i] = Result(calls[i].id, y)
  BY <1>7
<1>9. PICK list, ids : list = Picked(h, left) /\ ids = IdsAt(calls, left)
  OBVIOUS
<1>10. left \in SUBSET (DOMAIN calls)
  BY <1>4
<1>11. ResultsOf(list, ids)
  BY <1>2, <1>8, <1>9, <1>10, PickedResults
<1>12. ids \subseteq OpenIds(calls)
  BY <1>4, <1>9 DEF OpenIds, IdsAt
<1>13. PICK p : p = PutEach([s EXCEPT !.turn.calls = g], cause, list)
  OBVIOUS
<1>14. Restates(s, p, g)
  BY <1>1, <1>2, <1>3, <1>6, <1>9, <1>11, <1>12, <1>13, CallsSettle
<1>15. PICK actions : actions =
         {[a |-> "StopTool", call |-> calls[i].id] :
            i \in {j \in DOMAIN calls : calls[j].state = "running" /\ Stops(calls[j])}}
           \union {[a |-> "CancelTool", call |-> calls[i].id] :
            i \in {j \in DOMAIN calls : Executing(calls[j]) /\ ~Stops(calls[j])}}
  OBVIOUS
<1>16. PICK t : t = Do(p, actions)
  OBVIOUS
<1>17. CancelStep(s, cause) = t
  BY <1>1, <1>4, <1>5, <1>7, <1>9, <1>13, <1>15, <1>16 DEF CancelStep, MadeToStop, Stops
<1>18. \A a \in actions : a.a # "RunTool"
  BY <1>15
<1>19. Rooted(t) /\ t.turn = p.turn /\ t.book = p.book
  BY <1>14, <1>16, <1>18, DoRooted DEF Restates
<1>20. Cancelled(s, t) /\ t.turn.mark = s.turn.mark
  BY <1>6, <1>14, <1>19 DEF Restates, Cancelled
<1> QED
  BY <1>17, <1>20

\* Once nothing stops any more, nothing is open.
LEMMA CancelledAll ==
  ASSUME NEW s, NEW t, Cancelled(s, t),
         \A i \in DOMAIN t.turn.calls : t.turn.calls[i].state # "stopping"
  PROVE  t.book.pending = {}
BY DEF Cancelled, Matched, OpenIds, IdsAt

\* The calls are dropped, and with them who waited for them.
NoStepLeft(s) ==
  [s EXCEPT !.turn.intr = NotInterrupting, !.turn.stage = "settling", !.turn.calls = << >>]

LEMMA NoStepLeftRooted ==
  ASSUME NEW s, Rooted(s), NEW t, t = NoStepLeft(s)
  PROVE  Rooted(t) /\ t.book = s.book /\ t.log = s.log /\ t.turn.id = s.turn.id
<1>1. Shapely(s)
  BY RootedBook
<1>2. /\ Shapely(t) /\ t.log = s.log /\ t.book = s.book /\ t.stored = s.stored
      /\ t.refused = s.refused /\ t.out = s.out /\ t.perm = s.perm /\ t.eff = s.eff
      /\ t.turn.id = s.turn.id /\ t.turn.queued = s.turn.queued
  BY <1>1, EmptyIsSeq DEF NoStepLeft, Shapely, KernelFields, TurnFields, NotInterrupting,
                          Queueings
<1>3. Rank(t.eff) <= Rank(t.perm) /\ OutFits(t)
  BY <1>2 DEF Rooted, OutFits
<1> QED
  BY <1>2, <1>3, RootedAside

LEMMA ForceStopLinked ==
  ASSUME NEW s, Linked(s), NEW cause, NEW queued \in Queueings
  PROVE  /\ Linked(ForceStop(s, cause, queued))
         /\ s.turn.intr.wake # 0 =>
              /\ Calm(ForceStop(s, cause, queued))
              /\ Len(ForceStop(s, cause, queued).log) > Len(s.log)
<1>1. CASE s.turn.intr.wake = 0
  BY <1>1 DEF ForceStop
<1>2. CASE s.turn.intr.wake # 0
  <2>1. PICK calls, at : /\ calls = s.turn.calls
                         /\ at = {i \in DOMAIN calls : calls[i].state = "stopping"}
    OBVIOUS
  <2>2. /\ AreCalls(calls) /\ at \in SUBSET (DOMAIN calls)
        /\ Rooted(s) /\ s.book.pending = OpenIds(calls)
    BY <2>1 DEF Linked, InOrder, Matched
  <2>3. /\ s.turn.stage = "tools" /\ s.turn.id # 0
        /\ \A i \in DOMAIN calls : calls[i].state \in {"done", "stopping"}
    BY <1>2, <2>1 DEF Linked, InOrder, Staged
  <2>4. PICK left : left = Picked(calls, at)
    OBVIOUS
  <2>5. AreCalls(left) /\ IdsAt(left, DOMAIN left) = IdsAt(calls, at)
    BY <2>2, <2>4, PickedCalls
  <2>6. IdsAt(calls, at) = s.book.pending
    BY <2>1, <2>2, <2>3 DEF OpenIds, IdsAt
  <2>7. PICK why : why = "running"
    OBVIOUS
  <2>8. PICK list, ids : /\ list = [i \in DOMAIN left |-> Result(left[i].id, why)]
                         /\ ids = IdsAt(left, DOMAIN left)
    OBVIOUS
  <2>9. ResultsOf(list, ids)
    <3>1. /\ list = [i \in DOMAIN left |-> list[i]]
          /\ \A i \in DOMAIN left : \E y : list[i] = Result(left[i].id, y)
      BY <2>8
    <3> QED
      BY <2>5, <2>8, <3>1, ResultsOfCalls
  <2>10. PICK d : d = NoStepLeft(s)
    OBVIOUS
  <2>11. Rooted(d) /\ d.book = s.book /\ d.log = s.log /\ d.turn.id = s.turn.id
    BY <2>2, <2>10, NoStepLeftRooted
  <2>12. PICK p : p = PutEach(d, cause, list)
    OBVIOUS
  <2>13. Settles(d, p, ids)
    BY <2>3, <2>5, <2>6, <2>8, <2>9, <2>11, <2>12, ResultsSettle
  <2>14. Rooted(p) /\ p.turn.id # 0 /\ p.book.pending = {}
    BY <2>3, <2>5, <2>6, <2>8, <2>11, <2>13 DEF Settles, Beside
  <2>15. PICK t : t = CloseInterrupted(p, cause, queued)
    OBVIOUS
  <2>16. Calm(t) /\ Len(t.log) > Len(p.log)
    BY <2>14, <2>15, CloseInterruptedCalm
  <2>17. PICK actions : actions = {[a |-> "CancelTool", call |-> left[i].id] : i \in DOMAIN left}
    OBVIOUS
  <2>18. ForceStop(s, cause, queued) = Do(t, actions)
    BY <1>2, <2>1, <2>4, <2>7, <2>8, <2>10, <2>12, <2>15, <2>17
       DEF ForceStop, StillStopping, NoStepLeft
  <2>19. \A a \in actions : a.a # "RunTool"
    BY <2>17
  <2>20. Calm(Do(t, actions))
    BY <2>16, <2>19, DoLinked
  <2>21. Len(t.log) > Len(s.log)
    <3>1. /\ Len(t.log) \in Nat /\ Len(p.log) \in Nat /\ Len(s.log) \in Nat
          /\ Len(p.log) >= Len(s.log)
      BY <2>2, <2>11, <2>13, <2>14, <2>16, RootedBook DEF Calm, Settles
    <3> QED
      BY <2>16, <3>1
  <2>22. Do(t, actions).log = t.log
    <3>1. Shapely(t)
      BY <2>16, RootedBook DEF Calm
    <3> QED
      BY <3>1 DEF Do, Shapely, KernelFields
  <2> QED
    BY <2>18, <2>20, <2>21, <2>22, CalmIsLinked
<1> QED
  BY <1>1, <1>2

LEMMA ForceStopAsBeforeLinked ==
  ASSUME NEW s, Linked(s)
  PROVE  /\ Linked(ForceStopAsBefore(s))
         /\ ForceStopAsBefore(s).turn.intr.wake = 0
<1>1. PICK cause, queued : cause = s.turn.intr.cause /\ queued = s.turn.intr.queued
  OBVIOUS
<1>2. queued \in Queueings
  BY <1>1, RootedBook DEF Linked, InOrder, Shapely
<1>3. PICK t : t = ForceStop(s, cause, queued)
  OBVIOUS
<1>4. ForceStopAsBefore(s) = t
  BY <1>1, <1>3 DEF ForceStopAsBefore
<1>5. Linked(t) /\ (s.turn.intr.wake # 0 => Calm(t))
  BY <1>2, <1>3, ForceStopLinked
<1>6. s.turn.intr.wake = 0 => t = s
  BY <1>3 DEF ForceStop
<1> QED
  BY <1>4, <1>5, <1>6 DEF Calm

LEMMA WokeLinked ==
  ASSUME NEW s, Linked(s), NEW seen
  PROVE  Linked(Woke(s, seen))
<1>1. CASE s.turn.intr.wake # 0 /\ s.turn.intr.wake = seen
  BY <1>1, ForceStopAsBeforeLinked DEF Woke
<1>2. CASE ~(s.turn.intr.wake # 0 /\ s.turn.intr.wake = seen)
           /\ s.turn.stage = "waiting" /\ s.turn.mark = seen
  <2>1. Calm(s)
    BY <1>2, RestingIsCalm
  <2>2. PICK stage, mark : stage = "ready" /\ mark = 0
    OBVIOUS
  <2>3. PICK t : t = MovedTo(s, stage, mark)
    OBVIOUS
  <2>4. OnlyStage(s, t) /\ t.turn.stage = stage /\ t.turn.calls = s.turn.calls
    BY <2>1, <2>3, StageChanges DEF Calm
  <2>5. s.turn.id # 0
    BY <1>2, <2>1 DEF Calm
  <2>6. Calm(t)
    BY <2>1, <2>2, <2>4, <2>5 DEF Calm, OnlyStage
  <2>7. Linked(RefreshFacts(t))
    BY <2>6, RefreshFactsCalm, CalmIsLinked
  <2>8. Woke(s, seen) = Advance(RefreshFacts(t))
    BY <1>2, <2>2, <2>3 DEF Woke, MovedTo
  <2> QED
    BY <2>7, <2>8, AdvanceLinked
<1>3. CASE /\ ~(s.turn.intr.wake # 0 /\ s.turn.intr.wake = seen)
           /\ ~(s.turn.stage = "waiting" /\ s.turn.mark = seen)
  BY <1>3 DEF Woke
<1> QED
  BY <1>1, <1>2, <1>3

\* An interruption that waits for calls to stop.
LEMMA WaitForStoppingLinked ==
  ASSUME NEW s, NEW t, t.turn.stage = "tools", t.turn.id # 0, Cancelled(t, t),
         NEW s0, NEW id, NEW queued \in Queueings
  PROVE  Linked(WaitForStopping(s0, t, id, queued))
<1>1. PICK intr : intr = [cause |-> id, queued |-> queued, wake |-> t.turn.mark]
  OBVIOUS
<1>2. PICK w : w = [t EXCEPT !.turn.intr = intr]
  OBVIOUS
<1>3. Rooted(t) /\ Shapely(t)
  BY RootedBook DEF Cancelled
<1>4. /\ Shapely(w) /\ w.log = t.log /\ w.book = t.book /\ w.stored = t.stored
      /\ w.refused = t.refused /\ w.out = t.out /\ w.perm = t.perm /\ w.eff = t.eff
      /\ w.turn.id = t.turn.id /\ w.turn.queued = t.turn.queued
      /\ w.turn.stage = "tools" /\ w.turn.calls = t.turn.calls
  BY <1>1, <1>2, <1>3 DEF Shapely, KernelFields, TurnFields
<1>5. Rank(w.eff) <= Rank(w.perm) /\ OutFits(w)
  BY <1>3, <1>4 DEF Rooted, OutFits
<1>6. Rooted(w)
  BY <1>3, <1>4, <1>5, RootedAside
<1>7. Staged(w)
  BY <1>4 DEF Cancelled, Staged
<1>8. Permits(w, {})
  BY <1>4 DEF Cancelled, Permits, NotRun
<1>9. Linked(w)
  BY <1>4, <1>6, <1>7, <1>8 DEF Cancelled, Linked, InOrder
<1>10. PICK events : events = Since(s0, t)
  OBVIOUS
<1>11. PICK u : u = IF events = << >> THEN AcceptEmpty(w, id) ELSE Accept(w, id, events)
  OBVIOUS
<1>12. Answering(w, u, id, events)
  BY <1>11 DEF Answering
<1>13. Linked(u)
  BY <1>6, <1>9, <1>12, AnsweringLinked
<1>14. PICK actions : actions = {[a |-> "Wake", seen |-> t.turn.mark]}
  OBVIOUS
<1>15. \A a \in actions : a.a # "RunTool"
  BY <1>14
<1>16. WaitForStopping(s0, t, id, queued) = Do(u, actions)
  <2>1. Since(s0, w) = events
    BY <1>4, <1>10 DEF Since
  <2>2. w = [t EXCEPT !.turn.intr = [cause |-> id, queued |-> queued, wake |-> t.turn.mark]]
    BY <1>1, <1>2
  <2>3. CASE events = << >>
    BY <1>10, <1>11, <1>14, <2>1, <2>2, <2>3 DEF WaitForStopping
  <2>4. CASE events # << >>
    BY <1>10, <1>11, <1>14, <2>1, <2>2, <2>4 DEF WaitForStopping
  <2> QED
    BY <2>3, <2>4
<1> QED
  BY <1>13, <1>15, <1>16, DoLinked

LEMMA CutSettles ==
  ASSUME NEW s, Linked(s), s.turn.stage = "asking",
         NEW received, IsSeq(received.calls), NEW by, NEW why
  PROVE  LET t == Cut(s, received, by, why) IN
         Rooted(t) /\ t.turn.id # 0 /\ t.book.pending = {}
<1>1. /\ Rooted(s) /\ s.turn.id # 0 /\ s.turn.calls = << >> /\ s.turn.intr.wake = 0
      /\ s.book.pending = {}
      /\ s.turn.mark \in s.book.lastReply..Len(s.log)
      /\ \A i \in 1..Len(s.turn.queued) : s.turn.queued[i].seq > s.turn.mark
  BY AskingFacts
<1>2. PICK stage : stage = "settling"
  OBVIOUS
<1>3. PICK taken : taken = [s EXCEPT !.turn.stage = stage, !.turn.calls = << >>]
  OBVIOUS
<1>4. OnlyStage(s, taken)
  BY <1>1, <1>3, CallsDropped
<1>5. PICK seen, cause : seen = s.turn.mark /\ cause = s.turn.cause
  OBVIOUS
<1>6. /\ Rooted(taken) /\ taken.turn.id # 0 /\ taken.book.pending = {}
      /\ seen \in taken.book.lastReply..Len(taken.log)
      /\ \A i \in 1..Len(taken.turn.queued) : taken.turn.queued[i].seq > seen
  BY <1>1, <1>4, <1>5 DEF OnlyStage
<1>7. PICK r : r = Settle(taken, seen, cause, received, TRUE)
  OBVIOUS
<1>8. SettledBy(taken, r)
  <2>1. LET c == Settle(taken, seen, cause, received, TRUE) IN
        /\ SettledBy(taken, c)
        /\ ~TRUE /\ c.error # "none" => c.calls = << >>
    BY <1>6, SettleSettles
  <2> QED
    BY <1>7, <2>1
<1>9. PICK list, ids : /\ list = [i \in DOMAIN r.calls |-> Result(r.calls[i].id, why)]
                       /\ ids = IdsAt(r.calls, DOMAIN r.calls)
  OBVIOUS
<1>10. ResultsOf(list, ids)
  <2>1. /\ list = [i \in DOMAIN r.calls |-> list[i]]
        /\ \A i \in DOMAIN r.calls : \E y : list[i] = Result(r.calls[i].id, y)
    BY <1>9
  <2>2. AreCalls(r.calls)
    BY <1>8 DEF SettledBy, Fresh
  <2> QED
    BY <1>9, <2>1, <2>2, ResultsOfCalls
<1>11. PICK base : base = r.s
  OBVIOUS
<1>12. Rooted(base) /\ base.turn.id # 0 /\ base.book.pending = ids
  BY <1>6, <1>8, <1>9, <1>11 DEF SettledBy, Beside
<1>13. PICK p : p = PutEach(base, by, list)
  OBVIOUS
<1>14. Settles(base, p, ids)
  BY <1>10, <1>12, <1>13, ResultsSettle
<1>15. Rooted(p) /\ p.turn.id # 0 /\ p.book.pending = {}
  BY <1>12, <1>14 DEF Settles, Beside
<1>16. Cut(s, received, by, why) = p
  BY <1>2, <1>3, <1>5, <1>7, <1>9, <1>11, <1>13 DEF Cut
<1> QED
  BY <1>15, <1>16

LEMMA InterruptLinked ==
  ASSUME NEW s, Linked(s), NEW id, NEW queued \in Queueings,
         NEW received, IsSeq(received.calls)
  PROVE  Linked(Interrupt(s, id, queued, received))
<1>1. CASE Idle(s)
  <2>1. Interrupt(s, id, queued, received) = Reject(s, id)
    BY <1>1 DEF Interrupt
  <2>2. PICK t, events : t = Reject(s, id) /\ events = << >>
    OBVIOUS
  <2>3. Rooted(s) /\ Answering(s, t, id, events)
    BY <2>2 DEF Linked, InOrder, Answering
  <2> QED
    BY <2>1, <2>2, <2>3, AnsweringLinked
<1>2. CASE ~Idle(s) /\ s.turn.intr.wake # 0
  <2>1. PICK t : t = ForceStop(s, id, queued)
    OBVIOUS
  <2>2. Linked(t)
    BY <2>1, ForceStopLinked
  <2>3. Interrupt(s, id, queued, received) = Accept(t, id, Since(s, t))
    BY <1>2, <2>1 DEF Interrupt
  <2> QED
    BY <2>2, <2>3, AcceptLinked
<1>3. CASE ~Idle(s) /\ s.turn.intr.wake = 0 /\ s.turn.stage = "asking"
  <2>1. PICK why : why = "before"
    OBVIOUS
  <2>2. PICK p : p = Cut(s, received, id, why)
    OBVIOUS
  <2>3. Rooted(p) /\ p.turn.id # 0 /\ p.book.pending = {}
    BY <1>3, <2>2, CutSettles
  <2>4. PICK t : t = CloseInterrupted(p, id, queued)
    OBVIOUS
  <2>5. Linked(t)
    BY <2>3, <2>4, CloseInterruptedCalm, CalmIsLinked
  <2>6. PICK u : u = Accept(t, id, Since(s, t))
    OBVIOUS
  <2>7. Linked(u)
    BY <2>5, <2>6, AcceptLinked
  <2>8. PICK actions : actions = {[a |-> "CancelModel", seen |-> s.turn.mark]}
    OBVIOUS
  <2>9. \A a \in actions : a.a # "RunTool"
    BY <2>8
  <2>10. Interrupt(s, id, queued, received) = Do(u, actions)
    <3>1. PICK taken : taken = [s EXCEPT !.turn.stage = "settling", !.turn.calls = << >>]
      OBVIOUS
    <3>2. PICK cut : cut = Settle(taken, s.turn.mark, s.turn.cause, received, TRUE)
      OBVIOUS
    <3>3. p = PutEach(cut.s, id, [i \in DOMAIN cut.calls |-> Result(cut.calls[i].id, why)])
      BY <2>2, <3>1, <3>2 DEF Cut
    <3>4. p = PutEach(cut.s, id, [i \in DOMAIN cut.calls |->
                                   Result(cut.calls[i].id, "before")])
      BY <2>1, <3>3
    <3>5. Interrupt(s, id, queued, received) =
            Do(Accept(t, id, Since(s, t)), {[a |-> "CancelModel", seen |-> s.turn.mark]})
      BY <1>3, <2>4, <3>1, <3>2, <3>4 DEF Interrupt
    <3> QED
      BY <2>6, <2>8, <3>5
  <2> QED
    BY <2>7, <2>9, <2>10, DoLinked
<1>4. CASE ~Idle(s) /\ s.turn.intr.wake = 0 /\ s.turn.stage = "tools"
  <2>1. PICK step : step = CancelStep(s, id)
    OBVIOUS
  <2>2. Cancelled(s, step)
    BY <1>4, <2>1, CancelStepCancels
  <2>3. s.turn.id # 0
    BY <1>4 DEF Idle
  <2>4. CASE \E i \in DOMAIN step.turn.calls : step.turn.calls[i].state = "stopping"
    <3>1. Interrupt(s, id, queued, received) = WaitForStopping(s, step, id, queued)
      BY <1>4, <2>1, <2>4 DEF Interrupt
    <3>2. step.turn.stage = "tools" /\ step.turn.id # 0 /\ Cancelled(step, step)
      BY <1>4, <2>2, <2>3 DEF Cancelled
    <3> QED
      BY <3>1, <3>2, WaitForStoppingLinked
  <2>5. CASE ~\E i \in DOMAIN step.turn.calls : step.turn.calls[i].state = "stopping"
    <3>1. step.book.pending = {} /\ Rooted(step) /\ step.turn.id # 0
      BY <2>2, <2>3, <2>5, CancelledAll DEF Cancelled
    <3>2. PICK t : t = CloseInterrupted(step, id, queued)
      OBVIOUS
    <3>3. Linked(t)
      BY <3>1, <3>2, CloseInterruptedCalm, CalmIsLinked
    <3>4. Interrupt(s, id, queued, received) = Accept(t, id, Since(s, t))
      BY <1>4, <2>1, <2>5, <3>2 DEF Interrupt
    <3> QED
      BY <3>3, <3>4, AcceptLinked
  <2> QED
    BY <2>4, <2>5
<1>5. CASE /\ ~Idle(s) /\ s.turn.intr.wake = 0
           /\ s.turn.stage # "asking" /\ s.turn.stage # "tools"
  <2>1. Calm(s)
    BY <1>5, RestingIsCalm
  <2>2. s.turn.id # 0
    BY <1>5 DEF Idle
  <2>3. PICK stage : stage = "settling"
    OBVIOUS
  <2>4. PICK taken : taken = [s EXCEPT !.turn.stage = stage, !.turn.calls = << >>]
    OBVIOUS
  <2>5. OnlyStage(s, taken)
    BY <2>1, <2>4, CallsDropped DEF Calm
  <2>6. Rooted(taken) /\ taken.turn.id # 0 /\ taken.book.pending = {}
    BY <2>1, <2>2, <2>5 DEF Calm, OnlyStage
  <2>7. PICK t : t = CloseInterrupted(taken, id, queued)
    OBVIOUS
  <2>8. Linked(t)
    BY <2>6, <2>7, CloseInterruptedCalm, CalmIsLinked
  <2>9. Interrupt(s, id, queued, received) = Accept(t, id, Since(s, t))
    BY <1>5, <2>3, <2>4, <2>7 DEF Interrupt
  <2> QED
    BY <2>8, <2>9, AcceptLinked
<1> QED
  BY <1>1, <1>2, <1>3, <1>4, <1>5

\* Whatever a person asks for.
LEMMA ReceiveLinked ==
  ASSUME NEW s, Linked(s), s.out = {}, NEW id, NEW op, Asks(op), NEW call,
         NEW received, IsSeq(received.calls)
  PROVE  Linked(Receive(s, id, op, call, received))
<1>1. PICK known : known = {i \in DOMAIN s.recent : s.recent[i].id = id}
  OBVIOUS
<1>2. CASE known # {}
  <2>1. PICK events : events = s.recent[CHOOSE i \in known : TRUE].events
    OBVIOUS
  <2>2. PICK t : t = ReplyWhenStored(s, id, events)
    OBVIOUS
  <2>3. Rooted(s) /\ Answering(s, t, id, events)
    BY <2>2 DEF Linked, InOrder, Answering
  <2>4. Receive(s, id, op, call, received) = t
    BY <1>1, <1>2, <2>1, <2>2 DEF Receive
  <2> QED
    BY <2>3, <2>4, AnsweringLinked
<1>3. CASE known = {}
  <2>1. CASE op.op = "send"
    <3>1. PICK urgent : urgent = op.urgent
      OBVIOUS
    <3>2. Receive(s, id, op, call, received) = Send(s, id, urgent)
      BY <1>1, <1>3, <2>1, <3>1 DEF Receive
    <3> QED
      BY <3>2, SendLinked
  <2>2. CASE op.op = "interrupt"
    <3>1. PICK queued : queued = op.queued
      OBVIOUS
    <3>2. Receive(s, id, op, call, received) = Interrupt(s, id, queued, received)
      BY <1>1, <1>3, <2>2, <3>1 DEF Receive
    <3>3. queued \in Queueings
      BY <2>2, <3>1 DEF Asks
    <3> QED
      BY <3>2, <3>3, InterruptLinked
  <2>3. CASE op.op = "permission"
    <3>1. PICK change : change = op.change
      OBVIOUS
    <3>2. Receive(s, id, op, call, received) = SetPermission(s, id, change)
      BY <1>1, <1>3, <2>3, <3>1 DEF Receive
    <3> QED
      BY <3>2, SetPermissionLinked
  <2>4. CASE op.op = "approve"
    <3>1. PICK allow : allow = op.allow
      OBVIOUS
    <3>2. Receive(s, id, op, call, received) = AnswerApproval(s, id, call, allow)
      BY <1>1, <1>3, <2>4, <3>1 DEF Receive
    <3> QED
      BY <3>2, AnswerApprovalLinked
  <2>5. CASE op.op = "answer"
    <3>1. Receive(s, id, op, call, received) = AnswerQuestion(s, id, call)
      BY <1>1, <1>3, <2>5 DEF Receive
    <3> QED
      BY <3>1, AnswerQuestionLinked
  <2> QED
    BY <2>1, <2>2, <2>3, <2>4, <2>5 DEF Asks
<1> QED
  BY <1>2, <1>3

----------------------------------------------------------------------------
(***************************************************************************)
(* Stopping on purpose, and loading.                                       *)
(***************************************************************************)
LEMMA RestartLinked ==
  ASSUME NEW s, Linked(s), NEW received, IsSeq(received.calls)
  PROVE  Linked(Restart(s, received))
<1>1. PICK noted : noted = [s EXCEPT !.restarting = TRUE]
  OBVIOUS
<1>2. Linked(noted)
  <2>1. Shapely(s) /\ Rooted(s) /\ s.stored \in 0..Len(s.log)
    BY RootedBook DEF Linked, InOrder, Sound
  <2>2. Apart(s, noted) /\ noted.stored = s.stored /\ noted.out = s.out
    BY <1>1, <2>1 DEF Shapely, KernelFields, Apart
  <2>3. OutFits(noted)
    BY <2>1, <2>2 DEF Rooted, OutFits, Apart
  <2> QED
    BY <2>1, <2>2, <2>3, ApartLinked
<1>3. PICK u : u = ForceStopAsBefore(noted)
  OBVIOUS
<1>4. Linked(u) /\ u.turn.intr.wake = 0
  BY <1>2, <1>3, ForceStopAsBeforeLinked
<1>5. CASE Idle(u)
  <2>1. Restart(s, received) = u
    BY <1>1, <1>3, <1>5 DEF Restart
  <2> QED
    BY <1>4, <2>1
<1>6. CASE ~Idle(u)
  <2>1. u.turn.id # 0
    BY <1>6 DEF Idle
  <2>2. PICK by, why, reason : by = u.turn.cause /\ why = "restarted" /\ reason = "restarted"
    OBVIOUS
  <2>3. CASE u.turn.stage = "asking"
    <3>1. PICK p : p = Cut(u, received, by, why)
      OBVIOUS
    <3>2. Rooted(p) /\ p.turn.id # 0 /\ p.book.pending = {}
      BY <1>4, <2>3, <3>1, CutSettles
    <3>3. PICK t : t = EndTurn(p, by, reason)
      OBVIOUS
    <3>4. Linked(t)
      BY <3>2, <3>3, EndTurnCalm, CalmIsLinked
    <3>5. PICK actions : actions = {[a |-> "CancelModel", seen |-> u.turn.mark]}
      OBVIOUS
    <3>6. \A a \in actions : a.a # "RunTool"
      BY <3>5
    <3>7. Restart(s, received) = Do(t, actions)
      <4>1. PICK taken : taken = [u EXCEPT !.turn.stage = "settling", !.turn.calls = << >>]
        OBVIOUS
      <4>2. PICK cut : cut = Settle(taken, u.turn.mark, u.turn.cause, received, TRUE)
        OBVIOUS
      <4>3. PICK calls : calls = cut.calls
        OBVIOUS
      <4>4. p = PutEach(cut.s, by, [i \in DOMAIN calls |-> Result(calls[i].id, why)])
        BY <3>1, <4>1, <4>2, <4>3 DEF Cut
      <4>5. p = PutEach(cut.s, u.turn.cause,
                        [i \in DOMAIN calls |-> Result(calls[i].id, "restarted")])
        BY <2>2, <4>4
      <4>6. t = EndTurn(p, u.turn.cause, "restarted")
        BY <2>2, <3>3
      <4> QED
        <5> DEFINE stopped == ForceStopAsBefore([s EXCEPT !.restarting = TRUE])
                   turn == stopped.turn
                   open == [stopped EXCEPT !.turn.stage = "settling", !.turn.calls = << >>]
                   undone == {i \in DOMAIN turn.calls : turn.calls[i].state # "done"}
                   end == Settle(open, turn.mark, turn.cause, received, TRUE)
                   asking == turn.stage = "asking"
                   base == IF asking THEN end.s ELSE open
                   unfinished == IF asking THEN end.calls ELSE Picked(turn.calls, undone)
                   h == [i \in DOMAIN unfinished |-> Result(unfinished[i].id, "restarted")]
                   settled == PutEach(base, turn.cause, h)
                   stops == IF asking THEN {[a |-> "CancelModel", seen |-> turn.mark]}
                            ELSE {[a |-> "CancelTool", call |-> turn.calls[i].id] :
                                    i \in {j \in DOMAIN turn.calls : Executing(turn.calls[j])}}
                   after == IF Idle(stopped) THEN stopped
                            ELSE Do(EndTurn(settled, turn.cause, "restarted"), stops)
        <5>1. Restart(s, received) = after
          BY DEF Restart
        <5>2. stopped = u
          BY <1>1, <1>3
        <5> HIDE DEF stopped
        <5>3. asking /\ turn = u.turn
          BY <2>3, <5>2
        <5>4. stops = actions
          BY <3>5, <5>3
        <5>5. open = taken /\ end = cut
          BY <4>1, <4>2, <5>2
        <5> HIDE DEF open, end, turn
        <5>6. base = cut.s /\ unfinished = calls
          BY <4>3, <5>3, <5>5
        <5> HIDE DEF base, unfinished, asking, stops
        <5>7. h = [i \in DOMAIN calls |-> Result(calls[i].id, "restarted")]
          BY <5>6
        <5> HIDE DEF h
        <5>8. settled = p
          BY <4>5, <5>3, <5>6, <5>7
        <5> HIDE DEF settled
        <5>9. after = Do(t, actions)
          BY <1>6, <4>6, <5>2, <5>3, <5>4, <5>8
        <5> QED
          BY <5>1, <5>9
    <3> QED
      BY <3>4, <3>6, <3>7, DoLinked
  <2>4. CASE u.turn.stage # "asking"
    <3>1. PICK calls, at : /\ calls = u.turn.calls
                           /\ at = {i \in DOMAIN calls : calls[i].state # "done"}
      OBVIOUS
    <3>2. AreCalls(calls) /\ at \in SUBSET (DOMAIN calls) /\ Rooted(u)
          /\ u.book.pending = IdsAt(calls, at)
      BY <1>4, <3>1 DEF Linked, InOrder, Matched, OpenIds
    <3>3. PICK left : left = Picked(calls, at)
      OBVIOUS
    <3>4. AreCalls(left) /\ IdsAt(left, DOMAIN left) = IdsAt(calls, at)
      BY <3>2, <3>3, PickedCalls
    <3>5. PICK list, ids : /\ list = [i \in DOMAIN left |-> Result(left[i].id, why)]
                           /\ ids = IdsAt(left, DOMAIN left)
      OBVIOUS
    <3>6. ResultsOf(list, ids)
      <4>1. /\ list = [i \in DOMAIN left |-> list[i]]
            /\ \A i \in DOMAIN left : \E y : list[i] = Result(left[i].id, y)
        BY <3>5
      <4> QED
        BY <3>4, <3>5, <4>1, ResultsOfCalls
    <3>7. PICK stage : stage = "settling"
      OBVIOUS
    <3>8. PICK taken : taken = [u EXCEPT !.turn.stage = stage, !.turn.calls = << >>]
      OBVIOUS
    <3>9. OnlyStage(u, taken)
      BY <3>2, <3>8, CallsDropped
    <3>10. Rooted(taken) /\ taken.turn.id # 0 /\ taken.book.pending = ids
      BY <2>1, <3>2, <3>4, <3>5, <3>9 DEF OnlyStage
    <3>11. PICK p : p = PutEach(taken, by, list)
      OBVIOUS
    <3>12. Settles(taken, p, ids)
      BY <3>6, <3>10, <3>11, ResultsSettle
    <3>13. Rooted(p) /\ p.turn.id # 0 /\ p.book.pending = {}
      BY <3>10, <3>12 DEF Settles, Beside
    <3>14. PICK t : t = EndTurn(p, by, reason)
      OBVIOUS
    <3>15. Linked(t)
      BY <3>13, <3>14, EndTurnCalm, CalmIsLinked
    <3>16. PICK actions : actions =
             {[a |-> "CancelTool", call |-> calls[i].id] :
                i \in {j \in DOMAIN calls : Executing(calls[j])}}
      OBVIOUS
    <3>17. \A a \in actions : a.a # "RunTool"
      BY <3>16
    <3>18. Restart(s, received) = Do(t, actions)
      <4>1. taken = [u EXCEPT !.turn.stage = "settling", !.turn.calls = << >>]
        BY <3>7, <3>8
      <4>2. p = PutEach(taken, u.turn.cause,
                        [i \in DOMAIN left |-> Result(left[i].id, "restarted")])
        BY <2>2, <3>5, <3>11
      <4>3. t = EndTurn(p, u.turn.cause, "restarted")
        BY <2>2, <3>14
      <4> QED
        BY <1>1, <1>3, <1>6, <2>4, <3>1, <3>3, <3>16, <4>1, <4>2, <4>3 DEF Restart
    <3> QED
      BY <3>15, <3>17, <3>18, DoLinked
  <2> QED
    BY <2>3, <2>4
<1> QED
  BY <1>5, <1>6

\* The results of the calls that have none.
LEMMA UnresolvedResults ==
  ASSUME NEW s, Whole(s), NEW why, NEW p, p = Unresolved(s)
  PROVE  ResultsOf([i \in DOMAIN p |-> Result(p[i], why)], s.book.pending)
<1>1. PICK b, l, n : b = s.book /\ l = s.log /\ n = b.lastReply
  OBVIOUS
<1>2. Tidy(b, l) /\ IsLog(l) /\ Len(l) \in Nat
  BY <1>1, WholeBook DEF Whole, Sound
<1>3. PICK calls : calls = IF b.pending = {} THEN << >> ELSE l[n].calls
  OBVIOUS
<1>4. /\ IsSeq(calls) /\ \A x \in b.pending : \E i \in DOMAIN calls : calls[i] = x
      /\ \A i, j \in DOMAIN calls : calls[i] = calls[j] => i = j
  <2>1. CASE b.pending = {}
    BY <1>3, <2>1, EmptyIsSeq
  <2>2. CASE b.pending # {}
    <3>1. /\ n # 0 /\ l[n].k = "message.assistant" /\ n \in 0..Len(l)
          /\ b.pending \subseteq Range(l[n].calls)
          /\ \A i \in DOMAIN l[n].calls : l[n].calls[i] = <<n, i>>
      BY <1>1, <1>2, <2>2 DEF Tidy
    <3>2. n \in 1..Len(l)
      BY <1>2, <3>1
    <3>3. IsSeq(calls) /\ calls = l[n].calls
      BY <1>2, <1>3, <2>2, <3>1, <3>2 DEF IsLog, IsEvent
    <3>4. \A x \in b.pending : \E i \in DOMAIN calls : calls[i] = x
      BY <3>1, <3>3 DEF Range
    <3>5. ASSUME NEW i \in DOMAIN calls, NEW j \in DOMAIN calls, calls[i] = calls[j]
          PROVE  i = j
      <4>1. <<n, i>> = <<n, j>>
        BY <3>1, <3>3, <3>5
      <4> QED
        BY <4>1
    <3> QED
      BY <3>3, <3>4, <3>5
  <2> QED
    BY <2>1, <2>2
<1>5. PICK at : at = {i \in DOMAIN calls : calls[i] \in b.pending}
  OBVIOUS
<1>6. p = Picked(calls, at)
  BY <1>1, <1>3, <1>5 DEF Unresolved
<1>7. PICK pos : /\ IsSeq(p) /\ Positions(pos, Len(p), at)
                 /\ \A j \in 1..Len(p) : p[j] = calls[pos[j]]
  <2>1. at \in SUBSET (DOMAIN calls)
    BY <1>5
  <2>2. /\ IsSeq(Picked(calls, at))
        /\ \E pos : /\ Positions(pos, Len(Picked(calls, at)), at)
                    /\ \A j \in 1..Len(Picked(calls, at)) :
                         Picked(calls, at)[j] = calls[pos[j]]
    BY <1>4, <2>1, PickedIs
  <2> QED
    BY <1>6, <2>2
<1>8. Len(p) \in Nat /\ DOMAIN p = 1..Len(p)
  BY <1>7, SeqIsFunction
<1>9. PICK list : list = [i \in DOMAIN p |-> Result(p[i], why)]
  OBVIOUS
<1>10. IsSeq(list) /\ Len(list) = Len(p)
  <2>1. list = [i \in DOMAIN p |-> list[i]]
    BY <1>9
  <2> QED
    BY <1>7, <2>1, EachOf
<1>11. \A j \in 1..Len(list) : list[j] = Result(p[j], why) /\ list[j].call = p[j]
  BY <1>8, <1>9, <1>10 DEF Result
<1>12. ASSUME NEW i \in 1..Len(list), NEW j \in 1..Len(list), list[i].call = list[j].call
       PROVE  i = j
  <2>1. i \in 1..Len(p) /\ j \in 1..Len(p) /\ p[i] = p[j]
    BY <1>10, <1>11, <1>12
  <2>2. pos[i] = pos[j]
    <3>1. pos[i] \in DOMAIN calls /\ pos[j] \in DOMAIN calls
      BY <1>5, <1>7, <2>1 DEF Positions
    <3>2. calls[pos[i]] = calls[pos[j]]
      BY <1>7, <2>1
    <3> QED
      BY <1>4, <3>1, <3>2
  <2>3. pos[i] \in Int
    <3>1. DOMAIN calls = 1..Len(calls) /\ pos[i] \in at
      BY <1>4, <1>7, <2>1, SeqIsFunction DEF Positions
    <3> QED
      BY <1>5, <3>1
  <2>4. ~(pos[i] < pos[j]) /\ ~(pos[j] < pos[i])
    BY <2>2, <2>3
  <2>5. ~(i < j) /\ ~(j < i)
    BY <1>7, <2>1, <2>4 DEF Positions
  <2> QED
    BY <1>8, <2>1, <2>5
<1>13. b.pending = {list[j].call : j \in 1..Len(list)}
  <2>1. ASSUME NEW x \in b.pending PROVE \E j \in 1..Len(list) : x = list[j].call
    <3>1. PICK i \in DOMAIN calls : calls[i] = x
      BY <1>4, <2>1
    <3>2. i \in at
      BY <1>5, <2>1, <3>1
    <3>3. PICK j \in 1..Len(p) : pos[j] = i
      BY <1>7, <3>2 DEF Positions
    <3>4. p[j] = x /\ j \in 1..Len(list)
      BY <1>7, <1>10, <3>1, <3>3
    <3> QED
      BY <1>11, <3>4
  <2>2. ASSUME NEW j \in 1..Len(list) PROVE list[j].call \in b.pending
    <3>1. j \in 1..Len(p) /\ list[j].call = p[j]
      BY <1>10, <1>11
    <3>2. pos[j] \in at
      BY <1>7, <3>1 DEF Positions
    <3> QED
      BY <1>5, <1>7, <3>1, <3>2
  <2> QED
    BY <2>1, <2>2
<1>14. \A j \in 1..Len(list) : \E call, y : list[j] = Result(call, y)
  BY <1>11
<1>15. ResultsOf(list, b.pending)
  BY <1>10, <1>12, <1>13, <1>14 DEF ResultsOf
<1> QED
  BY <1>1, <1>9, <1>15

\* Replaying a log of legal events meets none that is refused, and what the turn that
\* ended last goes back to is on record.
LEMMA CleanReplays ==
  ASSUME NEW l, IsLog(l), Clean(l)
  PROVE  Replay(l).ok = TRUE /\ Replay(l).ended.trigger \in 0..Len(l)
<1>1. PICK w : /\ w[0] = NothingReplayed /\ Replay(l) = w[Len(l)]
               /\ \A k \in 1..Len(l) : w[k] = ReplayEvent(w[k - 1], l[k])
  BY ReplayChain DEF IsLog
<1>2. PICK v : /\ v[0] = EmptyBook /\ BookOf(l) = v[Len(l)]
               /\ \A k \in 1..Len(l) : v[k] = Record(v[k - 1], l[k])
  BY BookChain DEF IsLog
<1> DEFINE n == Len(l)
           A == {k \in 0..n : /\ w[k].book = v[k] /\ w[k].ok = TRUE
                              /\ w[k].ended.trigger \in 0..k}
<1>3. n \in Nat /\ IsSeq(l)
  BY SeqIsFunction DEF IsLog
<1>4. 0 \in A
  BY <1>1, <1>2, <1>3 DEF NothingReplayed, NotEnded
<1>5. ASSUME NEW k \in 1..n, k - 1 \in A PROVE k \in A
  <2>1. PICK r, e, i : r = w[k - 1] /\ e = l[k] /\ i = k - 1
    OBVIOUS
  <2>2. /\ i \in 0..n /\ i \in Nat /\ k \in Nat /\ k = i + 1 /\ k \in 0..n
    BY <1>3, <2>1
  <2>3. r.book = v[i] /\ r.ok = TRUE /\ r.ended.trigger \in 0..i
    BY <1>5, <2>1
  <2>4. PICK p : p = SubSeq(l, 1, i)
    OBVIOUS
  <2>5. BookOf(p) = r.book
    BY <1>2, <1>3, <2>2, <2>3, <2>4, BookOfBeginning
  <2>6. Legal(r.book, e) /\ e.seq = k
    BY <2>1, <2>4, <2>5 DEF Clean, IsLog, IsEvent
  <2>7. w[k] = ReplayEvent(r, e) /\ v[k] = Record(v[i], e)
    BY <1>1, <1>2, <2>1
  <2>8. w[k].book = v[k]
    BY <2>3, <2>7 DEF ReplayEvent
  <2>9. w[k].ok = TRUE
    <3>1. w[k].ok = (r.ok /\ Legal(r.book, e))
      BY <2>7 DEF ReplayEvent
    <3>2. r.ok = TRUE /\ Legal(r.book, e)
      BY <2>3, <2>6
    <3> QED
      BY <3>1, <3>2
  <2>10. w[k].ended.trigger \in 0..k
    <3>1. CASE e.k # "turn.ended"
      <4>1. w[k].ended = r.ended
        BY <2>7, <3>1 DEF ReplayEvent
      <4> QED
        BY <2>2, <2>3, <4>1
    <3>2. CASE e.k = "turn.ended" /\ r.book.queued = {}
      <4>1. w[k].ended.trigger = e.seq
        BY <2>7, <3>2 DEF ReplayEvent
      <4> QED
        BY <2>2, <2>6, <4>1
    <3>3. CASE e.k = "turn.ended" /\ r.book.queued # {}
      <4>1. w[k].ended.trigger = Max(r.book.queued)
        BY <2>7, <3>3 DEF ReplayEvent
      <4>2. IsLog(p) /\ Clean(p) /\ Len(p) = i
        BY <2>2, <2>4, CleanBeginning
      <4>3. r.book.queued \subseteq 1..i
        BY <2>5, <4>2, CleanIsTidy DEF Tidy
      <4>4. PICK T : T = r.book.queued
        OBVIOUS
      <4>5. Max(T) \in T
        BY <2>2, <3>3, <4>3, <4>4, GreatestPlace
      <4> QED
        BY <2>2, <4>1, <4>3, <4>4, <4>5
    <3> QED
      BY <3>1, <3>2, <3>3
  <2> QED
    BY <2>2, <2>8, <2>9, <2>10
<1>6. n \in A
  <2> HIDE DEF A, n
  <2>1. 0..n \subseteq A
    BY <1>3, <1>4, <1>5, Upwards
  <2> QED
    BY <1>3, <2>1
<1> QED
  BY <1>1, <1>6

\* A turn that a crash left open is closed, one that a planned restart ended may be
\* taken up again.
LEMMA RecoverLinked ==
  ASSUME NEW s, Whole(s), s.turn = NoTurn, Rank(s.eff) <= Rank(s.perm), s.out = {},
         NEW replay, replay.ended.trigger \in 0..Len(s.log)
  PROVE  Linked(Recover(s, replay))
<1>1. Shapely(s) /\ Len(s.log) \in Nat \ {0} /\ Tidy(s.book, s.log) /\ s.book.next = Len(s.log) + 1
  BY WholeBook DEF Whole, Sound
<1>2. /\ NoTurn.id = 0 /\ NoTurn.queued = << >> /\ NoTurn.calls = << >>
      /\ NoTurn.stage = "idle" /\ NoTurn.intr = NotInterrupting
  BY DEF NoTurn, NewTurn
<1>3. PICK start, p : start = s.book.open /\ p = Unresolved(s)
  OBVIOUS
<1>4. CASE start # 0
  <2>1. PICK by, why, reason : /\ by = s.log[start].cause
                               /\ why = "restarted" /\ reason = "aborted"
    OBVIOUS
  <2>2. PICK n : n = NewTurn(start, by, "settling", 0)
    OBVIOUS
  <2>3. /\ n.id = start /\ n.queued = << >> /\ n.calls = << >> /\ n.intr = NotInterrupting
        /\ DOMAIN n = TurnFields
    BY <2>2 DEF NewTurn, TurnFields
  <2>4. PICK r : r = [s EXCEPT !.turn = n]
    OBVIOUS
  <2>5. /\ r.log = s.log /\ r.book = s.book /\ r.stored = s.stored /\ r.refused = s.refused
        /\ r.out = s.out /\ r.perm = s.perm /\ r.eff = s.eff /\ r.turn = n
        /\ DOMAIN r = KernelFields
    BY <1>1, <2>4 DEF Shapely, KernelFields
  <2>6. Shapely(r)
    BY <2>3, <2>5, EmptyIsSeq DEF Shapely, NotInterrupting, Queueings
  <2>7. Whole(r)
    BY <2>5, <2>6 DEF Whole, Sound
  <2>8. OutFits(r)
    BY <2>5 DEF OutFits
  <2>9. Rooted(r) /\ r.turn.id # 0
    BY <1>3, <1>4, <2>3, <2>5, <2>7, <2>8, NothingQueued DEF Rooted
  <2>10. PICK list, ids : /\ list = [i \in DOMAIN p |-> Result(p[i], why)]
                          /\ ids = s.book.pending
    OBVIOUS
  <2>11. ResultsOf(list, ids)
    BY <1>3, <2>10, UnresolvedResults
  <2>12. PICK q : q = PutEach(r, by, list)
    OBVIOUS
  <2>13. Settles(r, q, ids)
    BY <2>5, <2>9, <2>10, <2>11, <2>12, ResultsSettle
  <2>14. Rooted(q) /\ q.turn.id # 0 /\ q.book.pending = {}
    BY <2>5, <2>9, <2>10, <2>13 DEF Settles, Beside
  <2>15. PICK t : t = EndTurn(q, by, reason)
    OBVIOUS
  <2>16. Linked(t)
    BY <2>14, <2>15, EndTurnCalm, CalmIsLinked
  <2>17. Recover(s, replay) = t
    <3>1. q = PutEach(r, s.log[start].cause, [i \in DOMAIN p |-> Result(p[i], "restarted")])
      BY <2>1, <2>10, <2>12
    <3>2. t = EndTurn(q, s.log[start].cause, "aborted")
      BY <2>1, <2>15
    <3>3. r = [s EXCEPT !.turn = NewTurn(start, s.log[start].cause, "settling", 0)]
      BY <2>1, <2>2, <2>4
    <3> QED
      BY <1>3, <1>4, <3>1, <3>2, <3>3 DEF Recover
  <2> QED
    BY <2>16, <2>17
<1>5. CASE start = 0
  <2>1. Rooted(s)
    <3>1. OutFits(s)
      BY DEF OutFits
    <3> QED
      BY <1>2, <1>3, <1>5, <3>1, NothingQueued DEF Rooted
  <2>2. CASE MayResume(s, replay)
    <3>1. PICK trigger, by :
            /\ trigger = replay.ended.trigger
            /\ by = IF trigger = replay.ended.seq THEN replay.ended.cause
                                                  ELSE s.log[trigger].cause
      OBVIOUS
    <3>2. trigger < s.book.next
      BY <1>1, <3>1
    <3>3. PICK t : t = OpenTurn(s, trigger, by)
      OBVIOUS
    <3>4. Calm(t)
      BY <1>3, <1>5, <2>1, <3>2, <3>3, OpenTurnCalm
    <3>5. Recover(s, replay) = t
      BY <1>3, <1>5, <2>2, <3>1, <3>3 DEF Recover
    <3> QED
      BY <3>4, <3>5, CalmIsLinked
  <2>3. CASE ~MayResume(s, replay)
    <3>1. s.book.pending = {}
      BY <1>1, <1>3, <1>5 DEF Tidy
    <3>2. Calm(s)
      BY <1>2, <2>1, <3>1 DEF Calm, NotInterrupting
    <3>3. Recover(s, replay) = s
      BY <1>3, <1>5, <2>3 DEF Recover
    <3> QED
      BY <3>2, <3>3, CalmIsLinked
  <2> QED
    BY <2>2, <2>3
<1> QED
  BY <1>4, <1>5

LEMMA LoadLinked ==
  ASSUME NEW log, IsLog(log), Clean(log), Len(log) >= 1, NEW policy
  PROVE  Linked(Load(log, policy))
<1>1. PICK replay, ok : replay = Replay(log) /\ ok = replay.ok
  OBVIOUS
<1>2. PICK perm : perm = PermissionOf(log)
  OBVIOUS
<1>3. PICK s : s = [ log |-> log, book |-> replay.book, stored |-> Len(log), turn |-> NoTurn,
             waiting |-> << >>, recent |-> RecentOf(log),
             policy |-> policy, perm |-> perm, eff |-> perm, closing |-> << >>,
             restarting |-> FALSE, refused |-> ~ok,
             out |-> {}, replies |-> << >> ]
  OBVIOUS
<1>4. Load(log, policy) = Recover(s, replay)
  BY <1>1, <1>2, <1>3 DEF Load
<1>5. IsSeq(log) /\ Len(log) \in Nat
  BY SeqIsFunction DEF IsLog
<1>6. /\ s.log = log /\ s.book = replay.book /\ s.stored = Len(log) /\ s.turn = NoTurn
      /\ s.out = {} /\ s.perm = perm /\ s.eff = perm
      /\ DOMAIN s = KernelFields
  BY <1>3 DEF KernelFields
<1>7. s.refused = FALSE
  <2>1. ok = TRUE
    BY <1>1, CleanReplays
  <2> QED
    BY <1>3, <2>1
<1>8. Whole(s)
  <2>1. Shapely(s)
    BY <1>6, EmptyIsSeq
       DEF Shapely, NoTurn, NewTurn, TurnFields, NotInterrupting, Queueings
  <2>2. s.book = BookOf(log)
    BY <1>1, <1>5, <1>6, ReplayBook
  <2>3. Sound(s)
    BY <1>5, <1>6, <2>1, <2>2 DEF Sound
  <2> QED
    BY <1>6, <1>7, <2>3 DEF Whole
<1>9. Rank(s.eff) <= Rank(s.perm)
  <2>1. Rank(perm) \in {0, 1, 2}
    BY RankIsNumber
  <2> QED
    BY <1>6, <2>1
<1>10. replay.ended.trigger \in 0..Len(s.log)
  BY <1>1, <1>6, CleanReplays
<1> QED
  BY <1>4, <1>6, <1>8, <1>9, <1>10, RecoverLinked

----------------------------------------------------------------------------
(***************************************************************************)
(* What a replay knows of the log at each event.                           *)
(***************************************************************************)
\* A replay of the beginnings of a log, one event after the other.
Reading(l, r) ==
  /\ r[0] = NothingReplayed
  /\ \A k \in 0..Len(l) : r[k] = Replay(SubSeq(l, 1, k))
  /\ \A k \in 1..Len(l) :
       /\ r[k] = ReplayEvent(r[k - 1], l[k])
       /\ Shaped(r[k - 1].book) /\ r[k - 1].book.next = k
       /\ Legal(r[k - 1].book, l[k])

LEMMA LogIsRead ==
  ASSUME NEW l, IsLog(l), Clean(l)
  PROVE  \E r : Reading(l, r) /\ Replay(l) = r[Len(l)]
<1>1. IsSeq(l) /\ Len(l) \in Nat
  BY SeqIsFunction DEF IsLog
<1>2. PICK v : /\ v[0] = NothingReplayed /\ Replay(l) = v[Len(l)]
               /\ \A k \in 1..Len(l) : v[k] = ReplayEvent(v[k - 1], l[k])
  BY <1>1, ReplayChain
<1>3. ASSUME NEW n \in 0..Len(l) PROVE Replay(SubSeq(l, 1, n)) = v[n]
  <2>1. PICK t : t = SubSeq(l, 1, n)
    OBVIOUS
  <2>2. IsSeq(t) /\ Len(t) = n /\ \A i \in 1..n : t[i] = l[i]
    BY <1>1, <1>3, <2>1, BeginningIsSeq
  <2>3. n \in Nat
    BY <1>1, <1>3
  <2>4. PICK w : /\ w[0] = NothingReplayed /\ Replay(t) = w[Len(t)]
                 /\ \A k \in 1..Len(t) : w[k] = ReplayEvent(w[k - 1], t[k])
    BY <2>2, ReplayChain
  <2> DEFINE A == {k \in 0..n : w[k] = v[k]}
  <2>5. 0 \in A
    BY <1>2, <2>3, <2>4
  <2>6. ASSUME NEW k \in 1..n, k - 1 \in A PROVE k \in A
    <3>1. k \in 0..n /\ k \in 1..Len(l) /\ k \in 1..Len(t)
      BY <1>1, <1>3, <2>2, <2>3, <2>6
    <3>2. w[k] = ReplayEvent(w[k - 1], t[k]) /\ v[k] = ReplayEvent(v[k - 1], l[k])
      BY <1>2, <2>4, <3>1
    <3>3. w[k - 1] = v[k - 1] /\ t[k] = l[k]
      BY <2>2, <2>6
    <3> QED
      BY <3>1, <3>2, <3>3
  <2>7. n \in A
    <3> HIDE DEF A
    <3>1. 0..n \subseteq A
      BY <2>3, <2>5, <2>6, Upwards
    <3> QED
      BY <2>3, <3>1
  <2> QED
    BY <2>1, <2>2, <2>4, <2>7
<1>4. ASSUME NEW k \in 1..Len(l)
      PROVE  /\ Shaped(v[k - 1].book) /\ v[k - 1].book.next = k
             /\ Legal(v[k - 1].book, l[k])
  <2>1. PICK i : i = k - 1
    OBVIOUS
  <2>2. i \in 0..Len(l) /\ i \in Nat /\ k = i + 1
    BY <1>1, <1>4, <2>1
  <2>3. PICK p : p = SubSeq(l, 1, i)
    OBVIOUS
  <2>4. IsLog(p) /\ Len(p) = i
    BY <2>2, <2>3, CleanBeginning
  <2>5. Replay(p).book = BookOf(p) /\ Shaped(BookOf(p)) /\ BookOf(p).next = i + 1
    BY <2>4, ReplayBook, BookOfLog DEF IsLog
  <2>6. v[i] = Replay(p)
    BY <1>3, <2>2, <2>3
  <2>7. Legal(BookOf(p), l[k])
    BY <1>4, <2>1, <2>3 DEF Clean
  <2> QED
    BY <2>1, <2>2, <2>5, <2>6, <2>7
<1> QED
  BY <1>2, <1>3, <1>4 DEF Reading

\* No turn ended from one place to another.
NoneEnded(l, first, last) == \A i \in first..last : l[i].k # "turn.ended"

\* Of the turn that runs, what is queued, and of the turn that ended last.
Recalls(l, k, r) ==
  /\ r.book.open \in 0..k /\ (r.book.open # 0 => NoneEnded(l, r.book.open, k))
  /\ \A q \in r.book.queued :
       q \in 1..k /\ l[q].k = "message.user" /\ NoneEnded(l, q, k)
  /\ r.ended.seq \in 0..k /\ NoneEnded(l, r.ended.seq + 1, k)
  /\ r.ended.seq = 0 => r.ended.reason = None
  /\ r.ended.seq # 0 =>
       /\ l[r.ended.seq].k = "turn.ended" /\ l[r.ended.seq].reason = r.ended.reason
       /\ \/ r.ended.trigger = r.ended.seq
          \/ /\ r.ended.trigger \in 1..(r.ended.seq - 1)
             /\ l[r.ended.trigger].k = "message.user"
             /\ NoneEnded(l, r.ended.trigger, r.ended.seq - 1)
  /\ r.restarts \in Nat

\* The event at a place, as a lemma can be asked about it.
EventAt(l, k, e) == e = l[k] /\ e.seq = k

LEMMA RecallsStep ==
  ASSUME NEW l, NEW n \in Nat, NEW r, Recalls(l, n, r), Shaped(r.book),
         NEW e, EventAt(l, n + 1, e), NEW s, s = ReplayEvent(r, e)
  PROVE  Recalls(l, n + 1, s)
<1>1. PICK k : k = n + 1 /\ k \in Nat
  OBVIOUS
<1>0. e = l[k] /\ e.seq = k
  BY <1>1 DEF EventAt
<1>2. /\ s.book = Record(r.book, e)
      /\ s.ended = IF e.k # "turn.ended" THEN r.ended
                   ELSE [seq |-> e.seq, reason |-> e.reason, cause |-> e.cause,
                         trigger |-> IF r.book.queued = {} THEN e.seq
                                                           ELSE Max(r.book.queued)]
      /\ s.restarts =
           CASE e.k = "turn.started" ->
                  IF r.ended.reason = "restarted" /\ r.ended.trigger = e.trigger
                    THEN r.restarts ELSE 0
             [] e.k = "turn.ended" -> IF e.reason = "restarted" THEN r.restarts + 1 ELSE 0
             [] OTHER -> r.restarts
  BY DEF ReplayEvent
<1>3. PICK b, a : b = r.book /\ a = Record(b, e)
  OBVIOUS
<1>4. a.open = IF e.k = "turn.started" THEN k ELSE IF e.k = "turn.ended" THEN 0 ELSE b.open
  <2>1. Shaped(b) /\ e.seq = k
    BY <1>0, <1>3
  <2>2. Record(b, e).open = IF e.k = "turn.started" THEN e.seq
                            ELSE IF e.k = "turn.ended" THEN 0 ELSE b.open
    BY <2>1, RecordNumbers
  <2> QED
    BY <1>3, <2>1, <2>2
<1>5. /\ \A q \in a.queued : q \in b.queued \/ (q = k /\ e.k = "message.user")
      /\ e.k = "turn.ended" => a.queued = {}
  <2>0. Shaped(b)
    BY <1>3
  <2>1. Record(b, e).queued =
           IF e.k \in {"turn.started", "turn.ended"} THEN {}
           ELSE IF e.k = "message.user" /\ e.turn # 0 /\ e.turn = b.open
             THEN b.queued \union {e.seq}
           ELSE IF e.k = "message.withdrawn" THEN b.queued \ Range(e.msgs)
           ELSE IF e.k = "message.assistant" \/ (e.k = "model.called" /\ ~e.aside)
             THEN {q \in b.queued : q > e.seen}
           ELSE b.queued
    BY <2>0, RecordQueue
  <2> QED
    BY <1>0, <1>1, <1>3, <2>1
<1>6. \A i \in Int : i \in 1..k /\ i # k => i \in 1..n
  BY <1>0, <1>1
<1>7. ASSUME NEW first \in Nat, first # 0, NoneEnded(l, first, n), e.k # "turn.ended"
      PROVE  NoneEnded(l, first, k)
  BY <1>0, <1>1, <1>7 DEF NoneEnded
<1>8. a.open \in 0..k /\ (a.open # 0 => NoneEnded(l, a.open, k))
  <2>1. CASE e.k = "turn.ended"
    BY <1>0, <1>1, <1>4, <2>1
  <2>2. CASE e.k = "turn.started"
    BY <1>0, <1>1, <1>4, <2>2 DEF NoneEnded
  <2>3. CASE e.k # "turn.ended" /\ e.k # "turn.started"
    <3>1. a.open = b.open /\ b.open \in 0..n /\ (b.open # 0 => NoneEnded(l, b.open, n))
      BY <1>3, <1>4, <2>3 DEF Recalls
    <3> QED
      BY <1>0, <1>1, <1>7, <2>3, <3>1
  <2> QED
    BY <2>1, <2>2, <2>3
<1>9. ASSUME NEW q \in a.queued
      PROVE  q \in 1..k /\ l[q].k = "message.user" /\ NoneEnded(l, q, k)
  <2>0. e.k # "turn.ended"
    BY <1>5, <1>9
  <2>1. CASE q = k /\ e.k = "message.user"
    BY <1>0, <1>1, <2>1 DEF NoneEnded
  <2>2. CASE q \in b.queued
    <3>1. q \in 1..n /\ l[q].k = "message.user" /\ NoneEnded(l, q, n)
      BY <1>3, <2>2 DEF Recalls
    <3> QED
      BY <1>0, <1>1, <1>7, <2>0, <3>1
  <2> QED
    BY <1>5, <1>9, <2>1, <2>2
<1>10. /\ s.ended.seq \in 0..k /\ NoneEnded(l, s.ended.seq + 1, k)
       /\ s.ended.seq = 0 => s.ended.reason = None
       /\ s.ended.seq # 0 =>
            /\ l[s.ended.seq].k = "turn.ended" /\ l[s.ended.seq].reason = s.ended.reason
            /\ \/ s.ended.trigger = s.ended.seq
               \/ /\ s.ended.trigger \in 1..(s.ended.seq - 1)
                  /\ l[s.ended.trigger].k = "message.user"
                  /\ NoneEnded(l, s.ended.trigger, s.ended.seq - 1)
  <2>1. CASE e.k # "turn.ended"
    <3>1. PICK d : d = r.ended
      OBVIOUS
    <3>2. s.ended = d
      BY <1>2, <2>1, <3>1
    <3>3. d.seq \in 0..n /\ NoneEnded(l, d.seq + 1, n)
      BY <3>1 DEF Recalls
    <3>4. d.seq \in 0..k /\ NoneEnded(l, d.seq + 1, k)
      BY <1>0, <1>1, <1>7, <2>1, <3>3
    <3> QED
      BY <3>1, <3>2, <3>4 DEF Recalls
  <2>2. CASE e.k = "turn.ended"
    <3>1. PICK x : x = IF b.queued = {} THEN k ELSE Max(b.queued)
      OBVIOUS
    <3>2. s.ended.seq = k /\ s.ended.reason = e.reason /\ s.ended.trigger = x
      BY <1>0, <1>1, <1>2, <1>3, <2>2, <3>1
    <3>3. NoneEnded(l, k + 1, k)
      BY <1>0, <1>1 DEF NoneEnded
    <3>4. x = k \/ (x \in 1..(k - 1) /\ l[x].k = "message.user" /\ NoneEnded(l, x, k - 1))
      <4>1. CASE b.queued = {}
        BY <3>1, <4>1
      <4>2. CASE b.queued # {}
        <5>1. PICK T : T = b.queued
          OBVIOUS
        <5>2. T \in SUBSET (1..n) /\ T # {}
          BY <1>3, <4>2, <5>1 DEF Recalls
        <5>3. Max(T) \in T
          BY <5>2, GreatestPlace
        <5>4. x \in b.queued
          BY <3>1, <4>2, <5>1, <5>3
        <5>5. x \in 1..n /\ l[x].k = "message.user" /\ NoneEnded(l, x, n)
          BY <1>3, <5>4 DEF Recalls
        <5>6. k - 1 = n
          BY <1>0, <1>1
        <5> QED
          BY <5>5, <5>6
      <4> QED
        BY <4>1, <4>2
    <3>5. k \in 0..k /\ k # 0
      BY <1>0, <1>1
    <3> QED
      BY <1>0, <1>1, <2>2, <3>2, <3>3, <3>4, <3>5
  <2> QED
    BY <2>1, <2>2
<1>11. s.restarts \in Nat
  <2>1. r.restarts \in Nat
    BY DEF Recalls
  <2> QED
    BY <1>2, <2>1
<1> QED
  BY <1>0, <1>1, <1>2, <1>3, <1>8, <1>9, <1>10, <1>11 DEF Recalls

LEMMA ReadingRecalls ==
  ASSUME NEW l, IsLog(l), NEW r, Reading(l, r), NEW p \in 0..Len(l)
  PROVE  Recalls(l, p, r[p])
<1> DEFINE n == Len(l)
           A == {k \in 0..n : Recalls(l, k, r[k])}
<1>1. n \in Nat
  BY SeqIsFunction DEF IsLog
<1>2. 0 \in A
  <2>1. PICK o : o = NothingReplayed
    OBVIOUS
  <2>2. /\ o.book.open = 0 /\ o.book.queued = {} /\ o.ended.seq = 0
        /\ o.ended.reason = None /\ o.restarts = 0
    BY <2>1 DEF NothingReplayed, NotEnded, EmptyBook
  <2>3. Recalls(l, 0, o)
    BY <2>2 DEF Recalls, NoneEnded
  <2> QED
    BY <1>1, <2>1, <2>3 DEF Reading
<1>3. ASSUME NEW k \in 1..n, k - 1 \in A PROVE k \in A
  <2>1. PICK i, e, o, s : i = k - 1 /\ e = l[k] /\ o = r[k - 1] /\ s = r[k]
    OBVIOUS
  <2>2. i \in Nat /\ k = i + 1 /\ k \in 0..n
    BY <1>1, <2>1
  <2>3. /\ Recalls(l, i, o) /\ Shaped(o.book) /\ s = ReplayEvent(o, e)
    BY <1>3, <2>1 DEF Reading
  <2>4. EventAt(l, i + 1, e)
    BY <1>3, <2>1, <2>2 DEF IsLog, IsEvent, EventAt
  <2>5. Recalls(l, i + 1, s)
    BY <2>2, <2>3, <2>4, RecallsStep
  <2> QED
    BY <2>1, <2>2, <2>5
<1>4. 0..n \subseteq A
  <2> HIDE DEF A
  <2> QED
    BY <1>1, <1>2, <1>3, Upwards
<1> QED
  BY <1>4

\* The turn a loaded log leaves open runs to its end.
LEMMA OpenSince ==
  ASSUME NEW l, IsLog(l), Clean(l), NEW o, o = BookOf(l).open
  PROVE  o \in 0..Len(l) /\ (o # 0 => \A i \in o..Len(l) : l[i].k # "turn.ended")
<1>1. PICK r : Reading(l, r) /\ Replay(l) = r[Len(l)]
  BY LogIsRead
<1>2. PICK n : n = Len(l) /\ n \in 0..Len(l)
  BY SeqIsFunction DEF IsLog
<1>3. Recalls(l, n, r[n])
  BY <1>1, <1>2, ReadingRecalls
<1>4. r[n].book.open = o
  BY <1>1, <1>2, ReplayBook DEF IsLog
<1> QED
  BY <1>2, <1>3, <1>4 DEF Recalls, NoneEnded

----------------------------------------------------------------------------
(***************************************************************************)
(* Loading.                                                                *)
(***************************************************************************)
\* A turn that has asked nothing yet, of which nothing is queued.
LEMMA FreshTurn ==
  ASSUME NEW l, NEW id, NEW cause, NEW stage, stage \in {"idle", "settling"},
         NEW t, t = NewTurn(id, cause, stage, 0),
         id # 0 => id \in 1..Len(l) /\ \A i \in id..Len(l) : l[i].k # "turn.ended",
         NEW g
  PROVE  Overhears(l, t) /\ HasAsked(t) /\ MeansIt(t, g) /\ t.id = id
<1>1. /\ t.id = id /\ t.queued = << >> /\ t.requests = 0 /\ t.stage = stage
      /\ t.retrying = FALSE /\ t.intr.wake = 0
  BY DEF NewTurn, NotInterrupting
<1>2. IsSeq(t.queued) /\ Len(t.queued) = 0
  BY <1>1, EmptyIsSeq
<1>3. Overhears(l, t)
  BY <1>1, <1>2 DEF Overhears
<1> QED
  BY <1>1, <1>3 DEF HasAsked, MeansIt

LEMMA RecoverHeeds ==
  ASSUME NEW s, Sound(s), s.turn = NoTurn, s.refused = FALSE, s.restarting = FALSE,
         IsLog(s.log), Clean(s.log), NEW g, Founded(s.log, g),
         g.z = FALSE, g.n = s.policy.resumes, g.c => NobodyWaits(s.log),
         NEW replay, replay = Replay(s.log), NEW t, t = Recover(s, replay)
  PROVE  Attentive(t, g)
<1>1. PICK l, start : l = s.log /\ start = s.book.open
  OBVIOUS
<1>2. s.book = BookOf(l)
  BY <1>1 DEF Sound
<1>3. start \in 0..Len(l) /\ (start # 0 => \A i \in start..Len(l) : l[i].k # "turn.ended")
  BY <1>1, <1>2, OpenSince
<1>4. PICK d : d = Deaf(g)
  OBVIOUS
<1>5. d.w = g.w /\ d.n = g.n /\ d.z = FALSE /\ d.c = FALSE /\ Founded(l, d)
  BY <1>1, <1>4, DeafIs, DeafFounded
<1>6. Attentive(s, g)
  <2>1. PICK n : n = NoTurn
    OBVIOUS
  <2>2. Overhears(l, n) /\ HasAsked(n) /\ MeansIt(n, g)
    BY <2>1, FreshTurn DEF NoTurn
  <2>3. g.c => Heeding(l, n)
    BY <1>1 DEF NobodyWaits, Heeding
  <2> QED
    BY <1>1, <2>1, <2>2, <2>3 DEF Attentive
<1>7. CASE start # 0
  <2>1. PICK by, why, reason : /\ by = s.log[start].cause
                               /\ why = "restarted" /\ reason = "aborted"
    OBVIOUS
  <2>2. PICK n : n = NewTurn(start, by, "settling", 0)
    OBVIOUS
  <2>3. /\ n.id = start /\ n.queued = << >> /\ n.calls = << >> /\ n.intr = NotInterrupting
        /\ DOMAIN n = TurnFields
    BY <2>2 DEF NewTurn, TurnFields
  <2>4. PICK r : r = [s EXCEPT !.turn = n]
    OBVIOUS
  <2>5. /\ r.log = s.log /\ r.book = s.book /\ r.stored = s.stored /\ r.refused = s.refused
        /\ r.restarting = s.restarting /\ r.turn = n
        /\ DOMAIN r = KernelFields
    BY <2>4 DEF Sound, Shapely, KernelFields
  <2>6. Sound(r)
    <3>1. Shapely(r)
      BY <2>3, <2>5, EmptyIsSeq DEF Shapely, NotInterrupting, Queueings
    <3> QED
      BY <2>5, <3>1 DEF Sound
  <2>7. Attentive(r, d)
    <3>1. start \in 1..Len(l)
      <4>1. Len(l) \in Nat
        BY <1>1, LogLength DEF Sound
      <4> QED
        BY <1>3, <1>7, <4>1
    <3>2. Overhears(l, n) /\ HasAsked(n) /\ MeansIt(n, d)
      BY <1>3, <2>2, <3>1, FreshTurn
    <3> QED
      BY <1>1, <1>5, <2>5, <2>6, <3>2 DEF Attentive
  <2>8. PICK pending : pending = Unresolved(s)
    OBVIOUS
  <2>9. IsSeq(pending)
    BY <2>8, UnresolvedIsSeq
  <2>10. PICK list : list = [i \in DOMAIN pending |-> Result(pending[i], why)]
    OBVIOUS
  <2>11. QuietBodies(list)
    <3>1. list = [i \in DOMAIN pending |-> list[i]]
      BY <2>10
    <3>2. \A i \in DOMAIN pending : \E call, x : list[i] = Result(call, x)
      BY <2>10
    <3> QED
      BY <2>9, <3>1, <3>2, ResultsAreQuiet
  <2>12. PICK p : p = PutEach(r, by, list)
    OBVIOUS
  <2>13. Attentive(p, d)
    BY <2>7, <2>11, <2>12, PutEachQuiet DEF Heeds
  <2>14. PICK e : e = EndTurn(p, by, reason)
    OBVIOUS
  <2>15. Attentive(e, g)
    <3>1. Attentive(p, Deaf(g)) /\ reason \in Covering
      BY <1>4, <2>1, <2>13 DEF Covering
    <3> QED
      BY <2>14, <3>1, EndTurnHeeds
  <2>16. Recover(s, replay) = e
    <3>1. p = PutEach(r, s.log[start].cause,
                      [i \in DOMAIN pending |-> Result(pending[i], "restarted")])
      BY <2>1, <2>10, <2>12
    <3>2. e = EndTurn(p, s.log[start].cause, "aborted")
      BY <2>1, <2>14
    <3>3. r = [s EXCEPT !.turn = NewTurn(start, s.log[start].cause, "settling", 0)]
      BY <2>1, <2>2, <2>4
    <3> QED
      BY <1>1, <1>7, <2>8, <3>1, <3>2, <3>3 DEF Recover
  <2> QED
    BY <2>15, <2>16
<1>8. CASE start = 0
  <2>1. CASE MayResume(s, replay)
    <3>1. PICK trigger, by :
            /\ trigger = replay.ended.trigger
            /\ by = IF trigger = replay.ended.seq THEN replay.ended.cause
                                                  ELSE s.log[trigger].cause
      OBVIOUS
    <3>2. PICK o : o = OpenTurn(s, trigger, by)
      OBVIOUS
    <3>3. Opens(s.log, trigger, g)
      BY <2>1, <3>1 DEF MayResume, Opens
    <3>4. Attentive(s, Deaf(g))
      BY <1>6, AttentiveDeaf
    <3>5. Attentive(o, g)
      BY <3>2, <3>3, <3>4, OpenTurnHeeds
    <3>6. Recover(s, replay) = o
      BY <1>1, <1>8, <2>1, <3>1, <3>2 DEF Recover
    <3> QED
      BY <3>5, <3>6
  <2>2. CASE ~MayResume(s, replay)
    <3>1. Recover(s, replay) = s
      BY <1>1, <1>8, <2>2 DEF Recover
    <3> QED
      BY <1>6, <3>1
  <2> QED
    BY <2>1, <2>2
<1> QED
  BY <1>7, <1>8

LEMMA LoadHeeds ==
  ASSUME NEW log, IsLog(log), Clean(log), NEW g, Founded(log, g), g.z = FALSE,
         g.c => NobodyWaits(log), NEW policy, g.n = policy.resumes,
         NEW t, t = Load(log, policy)
  PROVE  Attentive(t, g)
<1>1. PICK replay, ok : replay = Replay(log) /\ ok = replay.ok
  OBVIOUS
<1>2. PICK perm, recent : perm = PermissionOf(log) /\ recent = RecentOf(log)
  OBVIOUS
<1>3. PICK s : s = [ log |-> log, book |-> replay.book, stored |-> Len(log), turn |-> NoTurn,
             waiting |-> << >>, recent |-> recent,
             policy |-> policy, perm |-> perm, eff |-> perm, closing |-> << >>,
             restarting |-> FALSE, refused |-> ~ok,
             out |-> {}, replies |-> << >> ]
  OBVIOUS
<1>4. Load(log, policy) = Recover(s, replay)
  BY <1>1, <1>2, <1>3 DEF Load
<1>5. IsSeq(log) /\ Len(log) \in Nat
  BY SeqIsFunction DEF IsLog
<1>6. /\ s.log = log /\ s.book = replay.book /\ s.stored = Len(log) /\ s.turn = NoTurn
      /\ s.policy = policy /\ s.restarting = FALSE
      /\ DOMAIN s = KernelFields
  BY <1>3 DEF KernelFields
<1>7. s.refused = FALSE
  <2>1. ok = TRUE
    BY <1>1, CleanReplays
  <2> QED
    BY <1>3, <2>1
<1>8. Sound(s)
  <2>1. Shapely(s)
    BY <1>6, EmptyIsSeq
       DEF Shapely, NoTurn, NewTurn, TurnFields, NotInterrupting, Queueings
  <2>2. s.book = BookOf(log)
    BY <1>1, <1>5, <1>6, ReplayBook
  <2> QED
    BY <1>5, <1>6, <2>1, <2>2 DEF Sound
<1>9. t = Recover(s, replay) /\ replay = Replay(s.log)
  BY <1>1, <1>4, <1>6
<1> HIDE DEF Recover, Replay
<1> QED
  BY <1>6, <1>7, <1>8, <1>9, RecoverHeeds

----------------------------------------------------------------------------
(***************************************************************************)
(* Every command is heard: what it is told is told at once, or waits for   *)
(* its events to reach the disk.                                           *)
(***************************************************************************)
Later(x, stored, n) == Last(x.events) \in (stored + 1)..n

AnsweredNow(s, t, id) ==
  /\ t.waiting = s.waiting
  /\ \E x : x.id = id /\ t.replies = Append(s.replies, x)

AnsweredLater(s, t, id) ==
  /\ t.replies = s.replies
  /\ \E x : /\ x.id = id /\ Later(x, s.stored, Len(t.log))
            /\ t.waiting = Append(s.waiting, x)

Hears(s, t, id) ==
  /\ AnsweredNow(s, t, id) \/ AnsweredLater(s, t, id)
  /\ Recalled(t.recent, Len(t.log))

LEMMA RecalledMore ==
  ASSUME NEW list, NEW n \in Nat, Recalled(list, n), NEW m \in Nat, n <= m
  PROVE  Recalled(list, m)
BY DEF Recalled, NumbersUpTo, Numbers

\* The last of some numbers is one of them.
LEMMA LastOfNumbers ==
  ASSUME NEW events, NEW n \in Nat, NumbersUpTo(events, n), events # << >>
  PROVE  Last(events) \in 1..n
<1>1. IsSeq(events) /\ Len(events) \in Nat
  BY SeqIsFunction DEF NumbersUpTo, Numbers
<1>2. Len(events) # 0
  BY <1>1, EmptyIsSeq, SameSeq
<1>3. Len(events) \in 1..Len(events)
  BY <1>1, <1>2
<1> QED
  BY <1>3 DEF NumbersUpTo, Numbers, Last

LEMMA OnwardLengths ==
  ASSUME NEW s, Sound(s), NEW t, Onward(s, t)
  PROVE  /\ Len(s.log) \in Nat /\ Len(t.log) \in Nat /\ Len(s.log) <= Len(t.log)
         /\ s.stored \in 0..Len(s.log)
  BY LogLength DEF Onward, Longer, Sound

\* What was done is accepted for events that are not on disk yet.
LEMMA AcceptHears ==
  ASSUME NEW s, Sound(s), Recalled(s.recent, Len(s.log)), NEW t, Onward(s, t), NEW id,
         NEW events, NumbersUpTo(events, Len(t.log)),
         Last(events) \in (s.stored + 1)..Len(t.log)
  PROVE  Hears(s, Accept(t, id, events), id)
<1>1. PICK x, r : /\ x = [id |-> id, events |-> events]
                  /\ r = Remember(t.recent, id, events)
  OBVIOUS
<1>2. PICK u : u = Accept(t, id, events)
  OBVIOUS
<1>3. /\ u.waiting = Append(t.waiting, x) /\ u.recent = r /\ u.replies = t.replies
      /\ u.log = t.log
  BY <1>1, <1>2 DEF Accept, Onward, Sound, Shapely, KernelFields
<1>4. Recalled(r, Len(t.log))
  <2>1. Recalled(t.recent, Len(t.log))
    BY OnwardLengths, RecalledMore DEF Onward
  <2> QED
    BY <1>1, <2>1, RememberKeepsRecalled
<1>5. x.id = id /\ Later(x, s.stored, Len(u.log))
  BY <1>1, <1>3 DEF Later
<1>6. u.waiting = Append(s.waiting, x) /\ u.replies = s.replies
  BY <1>3 DEF Onward
<1>7. AnsweredLater(s, u, id)
  BY <1>5, <1>6 DEF AnsweredLater
<1> QED
  BY <1>2, <1>3, <1>4, <1>7 DEF Hears

LEMMA RejectHears ==
  ASSUME NEW s, Sound(s), Recalled(s.recent, Len(s.log)), NEW id
  PROVE  Hears(s, Reject(s, id), id)
<1>1. PICK x : x = [id |-> id, ok |-> FALSE, events |-> << >>]
  OBVIOUS
<1>2. PICK u : u = Reject(s, id)
  OBVIOUS
<1>3. /\ u.waiting = s.waiting /\ u.recent = s.recent /\ u.log = s.log
      /\ u.replies = Append(s.replies, x)
  BY <1>1, <1>2 DEF Reject, Sound, Shapely, KernelFields
<1>4. x.id = id
  BY <1>1
<1> QED
  BY <1>2, <1>3, <1>4 DEF Hears, AnsweredNow

LEMMA AcceptEmptyHears ==
  ASSUME NEW s, Sound(s), Recalled(s.recent, Len(s.log)), NEW t, Onward(s, t), NEW id
  PROVE  Hears(s, AcceptEmpty(t, id), id)
<1>1. PICK x, r : /\ x = [id |-> id, ok |-> TRUE, events |-> << >>]
                  /\ r = Remember(t.recent, id, << >>)
  OBVIOUS
<1>2. PICK u : u = AcceptEmpty(t, id)
  OBVIOUS
<1>3. /\ u.waiting = t.waiting /\ u.recent = r /\ u.log = t.log
      /\ u.replies = Append(t.replies, x)
  BY <1>1, <1>2 DEF AcceptEmpty, Reply, Onward, Sound, Shapely, KernelFields
<1>4. Recalled(r, Len(t.log))
  <2>1. Recalled(t.recent, Len(t.log))
    BY OnwardLengths, RecalledMore DEF Onward
  <2> QED
    BY <1>1, <2>1, RememberKeepsRecalled, NoNumbers
<1>5. x.id = id
  BY <1>1
<1>6. AnsweredNow(s, u, id)
  BY <1>3, <1>5 DEF AnsweredNow, Onward
<1> QED
  BY <1>2, <1>3, <1>4, <1>6 DEF Hears

\* The same command again: what it was accepted for is on disk, or is waited for.
LEMMA ReplyWhenStoredHears ==
  ASSUME NEW s, Sound(s), Recalled(s.recent, Len(s.log)), NEW id,
         NEW events, NumbersUpTo(events, Len(s.log))
  PROVE  Hears(s, ReplyWhenStored(s, id, events), id)
<1>1. PICK u : u = ReplyWhenStored(s, id, events)
  OBVIOUS
<1>2. CASE IsStored(s, events)
  <2>1. PICK x : x = [id |-> id, ok |-> TRUE, events |-> events]
    OBVIOUS
  <2>2. /\ u.waiting = s.waiting /\ u.recent = s.recent /\ u.log = s.log
        /\ u.replies = Append(s.replies, x)
    BY <1>1, <1>2, <2>1 DEF ReplyWhenStored, Reply, Sound, Shapely, KernelFields
  <2>3. x.id = id
    BY <2>1
  <2> QED
    BY <1>1, <2>2, <2>3 DEF Hears, AnsweredNow
<1>3. CASE ~IsStored(s, events)
  <2>1. PICK x : x = [id |-> id, events |-> events]
    OBVIOUS
  <2>2. /\ u.waiting = Append(s.waiting, x) /\ u.recent = s.recent /\ u.log = s.log
        /\ u.replies = s.replies
    BY <1>1, <1>3, <2>1 DEF ReplyWhenStored, Sound, Shapely, KernelFields
  <2>3. Len(s.log) \in Nat /\ s.stored \in 0..Len(s.log)
    BY LogLength DEF Sound
  <2>4. events # << >> /\ ~(Last(events) <= s.stored)
    BY <1>3 DEF IsStored
  <2>5. Last(events) \in 1..Len(s.log)
    BY <2>3, <2>4, LastOfNumbers
  <2>6. x.id = id /\ Later(x, s.stored, Len(u.log))
    <3>1. Last(events) \in (s.stored + 1)..Len(s.log)
      BY <2>3, <2>4, <2>5
    <3> QED
      BY <2>1, <2>2, <3>1 DEF Later
  <2> QED
    BY <1>1, <2>2, <2>6 DEF Hears, AnsweredLater
<1> QED
  BY <1>2, <1>3

\* After that the kernel may still go onward.
LEMMA HearsOnward ==
  ASSUME NEW s, NEW t, Sound(t), NEW id, Hears(s, t, id), NEW u, Onward(t, u),
         s.stored \in Nat
  PROVE  Hears(s, u, id)
<1>1. Len(t.log) \in Nat /\ Len(u.log) \in Nat /\ Len(t.log) <= Len(u.log)
  BY OnwardLengths
<1>2. u.waiting = t.waiting /\ u.replies = t.replies /\ u.recent = t.recent
  BY DEF Onward
<1>3. Recalled(u.recent, Len(u.log))
  BY <1>1, <1>2, RecalledMore DEF Hears
<1>4. ASSUME NEW x, Later(x, s.stored, Len(t.log))
      PROVE  Later(x, s.stored, Len(u.log))
  BY <1>1, <1>4 DEF Later
<1> QED
  BY <1>2, <1>3, <1>4 DEF Hears, AnsweredNow, AnsweredLater

\* The numbers of what was recorded end at the end of the log.
LEMMA SinceUpTo ==
  ASSUME NEW s, Sound(s), NEW t, Onward(s, t), Len(t.log) > Len(s.log)
  PROVE  LET events == Since(s, t) IN
         /\ events # << >> /\ NumbersUpTo(events, Len(t.log))
         /\ Last(events) = Len(t.log)
<1>1. PICK m, n, k : m = Len(s.log) /\ n = Len(t.log) /\ k = n - m
  OBVIOUS
<1>2. m \in Nat /\ n \in Nat /\ k \in Nat /\ k # 0 /\ n = m + k
  BY <1>1, OnwardLengths
<1>3. PICK f : f = Since(s, t)
  OBVIOUS
<1>4. f = [i \in 1..k |-> m + i]
  BY <1>1, <1>3 DEF Since
<1>5. f = [i \in 1..k |-> f[i]]
  BY <1>4
<1>6. IsSeq(f) /\ Len(f) = k
  BY <1>2, <1>5, SeqOfLength
<1>7. Numbers(f)
  BY <1>3, SinceNumbers DEF Onward
<1>8. \A i \in 1..Len(f) : f[i] <= n
  BY <1>2, <1>4, <1>6
<1>9. f[k] = n
  BY <1>2, <1>4
<1>10. f # << >>
  BY <1>2, <1>6, EmptyIsSeq
<1> QED
  BY <1>1, <1>3, <1>6, <1>7, <1>8, <1>9, <1>10 DEF NumbersUpTo, Last

LEMMA AcceptedHears ==
  ASSUME NEW s, Sound(s), Recalled(s.recent, Len(s.log)), NEW t, Onward(s, t),
         Len(t.log) > Len(s.log), NEW id
  PROVE  Hears(s, Accept(t, id, Since(s, t)), id)
<1>1. PICK events : events = Since(s, t)
  OBVIOUS
<1>2. NumbersUpTo(events, Len(t.log)) /\ Last(events) = Len(t.log)
  BY <1>1, SinceUpTo
<1>3. Last(events) \in (s.stored + 1)..Len(t.log)
  BY <1>2, OnwardLengths
<1> QED
  BY <1>1, <1>2, <1>3, AcceptHears

----------------------------------------------------------------------------
(***************************************************************************)
(* The commands, one by one.                                               *)
(***************************************************************************)
LEMMA OneNumberUpTo ==
  ASSUME NEW k \in Nat \ {0}, NEW n \in Nat, k <= n
  PROVE  NumbersUpTo(<<k>>, n) /\ Last(<<k>>) = k
<1>1. \A i \in 1..1 : <<k>>[i] <= n
  OBVIOUS
<1> QED
  BY <1>1, OneNumber, LonelyIsSeq DEF NumbersUpTo, Last

\* One event is recorded and accepted under its number.
LEMMA PutAcceptHears ==
  ASSUME NEW s, Whole(s), Talking(s), Recalled(s.recent, Len(s.log)), NEW id,
         NEW body, Fine(body), Puts(s, Put(s, id, body))
  PROVE  LET u == Accept(Put(s, id, body), id, <<s.book.next>>) IN
         Hears(s, u, id) /\ Sound(u)
<1>1. PICK put, next, events : /\ put = Put(s, id, body) /\ next = s.book.next
                               /\ events = <<next>>
  OBVIOUS
<1>2. Sound(s) /\ s.stored \in 0..Len(s.log)
  BY DEF Whole, Sound
<1>3. next = Len(s.log) + 1 /\ Len(s.log) \in Nat /\ Len(put.log) = Len(s.log) + 1
  BY <1>1, WholeBook DEF Puts
<1>4. Onward(s, put)
  BY <1>1, <1>2, PutOnward
<1>5. NumbersUpTo(events, Len(put.log)) /\ Last(events) = next
  BY <1>1, <1>3, OneNumberUpTo
<1>6. Last(events) \in (s.stored + 1)..Len(put.log)
  BY <1>2, <1>3, <1>5
<1>7. Hears(s, Accept(put, id, events), id)
  BY <1>2, <1>4, <1>5, <1>6, AcceptHears
<1>8. LET u == Accept(Put(s, id, body), id, <<s.book.next>>) IN Sound(u)
  BY <1>2, PutAcceptGoes
<1> QED
  BY <1>1, <1>7, <1>8

LEMMA LinkedIs ==
  ASSUME NEW s, Linked(s)
  PROVE  /\ Whole(s) /\ Sound(s) /\ Rooted(s) /\ s.turn.id = s.book.open
         /\ s.stored \in Nat /\ Len(s.log) \in Nat
<1>1. Sound(s) /\ Whole(s) /\ Rooted(s)
  BY DEF Linked, InOrder, Rooted, Whole
<1>2. Len(s.log) \in Nat /\ s.stored \in 0..Len(s.log)
  BY <1>1, LogLength DEF Sound
<1> QED
  BY <1>1, <1>2 DEF Rooted

LEMMA SendHears ==
  ASSUME NEW s, Linked(s), Talking(s), Recalled(s.recent, Len(s.log)), NEW id, NEW urgent
  PROVE  Hears(s, Send(s, id, urgent), id)
<1>1. PICK body : body = [k |-> "message.user", ambient |-> FALSE]
  OBVIOUS
<1>2. Fine(body) /\ body.k = "message.user"
  BY <1>1 DEF Fine
<1>3. Puts(s, Put(s, id, body))
  BY <1>2, LinkedIs, PutMessage
<1>4. PICK put : put = Accept(Put(s, id, body), id, <<s.book.next>>)
  OBVIOUS
<1>5. Hears(s, put, id) /\ Sound(put)
  BY <1>2, <1>3, <1>4, LinkedIs, PutAcceptHears
<1>6. PICK t : t = Send(s, id, urgent)
  OBVIOUS
<1>7. Onward(put, t)
  BY <1>1, <1>4, <1>6, LinkedIs, SendGoes
<1>8. Hears(s, t, id)
  BY <1>5, <1>7, LinkedIs, HearsOnward
<1> QED
  BY <1>6, <1>8

LEMMA SetPermissionHears ==
  ASSUME NEW s, Linked(s), Talking(s), Recalled(s.recent, Len(s.log)), NEW id, NEW change
  PROVE  Hears(s, SetPermission(s, id, change), id)
<1>1. PICK new : new = [f \in DOMAIN s.perm |->
                          IF f \in DOMAIN change THEN change[f] ELSE s.perm[f]]
  OBVIOUS
<1>2. PICK body : body = [k |-> "policy.changed", perm |-> new]
  OBVIOUS
<1>3. Fine(body) /\ body.k = "policy.changed"
  BY <1>2 DEF Fine
<1>4. Puts(s, Put(s, id, body))
  BY <1>3, LinkedIs, PutAside
<1>5. PICK put : put = Accept(Put(s, id, body), id, <<s.book.next>>)
  OBVIOUS
<1>6. Hears(s, put, id) /\ Sound(put)
  BY <1>3, <1>4, <1>5, LinkedIs, PutAcceptHears
<1>7. PICK t : t = SetPermission(s, id, change)
  OBVIOUS
<1>8. IF new = s.perm THEN t = AcceptEmpty(s, id) ELSE Onward(put, t)
  BY <1>1, <1>2, <1>5, <1>7, LinkedIs, SetPermissionGoes
<1>9. CASE t = AcceptEmpty(s, id)
  BY <1>7, <1>9, LinkedIs, OnwardIsReflexive, AcceptEmptyHears
<1>10. CASE Onward(put, t)
  <2>1. Hears(s, t, id)
    BY <1>6, <1>10, LinkedIs, HearsOnward
  <2> QED
    BY <1>7, <2>1
<1> QED
  BY <1>8, <1>9, <1>10

\* What a person says about a call that waits for it is recorded.
LEMMA AnswerPuts ==
  ASSUME NEW s, Linked(s), NEW id, NEW call, NEW state, NEW kind,
         \/ state = "asking" /\ kind = "approval.decided"
         \/ state = "questioning" /\ kind = "question.answered",
         At(s, call, {state}) # {}
  PROVE  /\ Fine([k |-> kind, call |-> call])
         /\ Puts(s, Put(s, id, [k |-> kind, call |-> call]))
<1>1. PICK body : body = [k |-> kind, call |-> call]
  OBVIOUS
<1>2. /\ Fine(body) /\ {"k", "call"} \subseteq DOMAIN body
      /\ body.k = kind /\ body.call = call
  BY <1>1 DEF Fine
<1>3. PICK i : i = CHOOSE j \in At(s, call, {state}) : TRUE
  OBVIOUS
<1>4. /\ i \in DOMAIN s.turn.calls /\ s.turn.stage = "tools"
      /\ s.turn.calls[i].id = call /\ s.turn.calls[i].state = state
  <2>1. PICK states : states = {state}
    OBVIOUS
  <2>2. PICK at : at = At(s, call, states)
    OBVIOUS
  <2>3. at # {} /\ i \in at
    BY <1>3, <2>1, <2>2
  <2> QED
    BY <2>1, <2>2, <2>3 DEF At
<1>5. call \in s.book.asking <=> state = "asking"
  BY <1>4, FoundInBook
<1>6. call \in s.book.questioning <=> state = "questioning"
  BY <1>4, FoundInBook
<1>7. OfCall(s.book, body)
  BY <1>2, <1>5, <1>6 DEF OfCall
<1>8. s.book.open # 0
  BY <1>4, LinkedIs DEF Linked, InOrder, Staged
<1>9. TakesNote(s, Put(s, id, body), body)
  BY <1>2, <1>7, <1>8, LinkedIs, PutOfCall
<1> QED
  BY <1>1, <1>2, <1>9 DEF TakesNote

\* The log has grown at least by that.
LEMMA PutsThenMore ==
  ASSUME NEW s, Linked(s), NEW put, Puts(s, put), NEW u, Onward(s, u),
         Longer(put.log, u.log)
  PROVE  Len(u.log) > Len(s.log) /\ Len(u.log) \in Nat /\ s.book.next = Len(s.log) + 1
<1>1. Len(s.log) \in Nat /\ Len(u.log) \in Nat /\ s.book.next = Len(s.log) + 1
  BY LinkedIs, WholeBook, OnwardLengths
<1>2. Len(put.log) = Len(s.log) + 1 /\ Len(put.log) <= Len(u.log)
  BY DEF Puts, Longer
<1> QED
  BY <1>1, <1>2

LEMMA AnswerApprovalHears ==
  ASSUME NEW s, Linked(s), Talking(s), Recalled(s.recent, Len(s.log)), NEW id,
         NEW call, NEW allow
  PROVE  Hears(s, AnswerApproval(s, id, call, allow), id)
<1>1. PICK r : r = AnswerApproval(s, id, call, allow)
  OBVIOUS
<1>2. PICK put : put = Put(s, id, [k |-> "approval.decided", call |-> call])
  OBVIOUS
<1>3. \/ r = Reject(s, id)
      \/ \E u, t : /\ Onward(s, u) /\ Longer(put.log, u.log)
                    /\ At(s, call, {"asking"}) # {}
                    /\ t = Accept(u, id, Since(s, u))
                    /\ Onward(t, r)
  <2>1. \/ AnswerApproval(s, id, call, allow) = Reject(s, id)
        \/ \E u, t : /\ Onward(s, u)
                      /\ Longer(Put(s, id, [k |-> "approval.decided",
                                           call |-> call]).log, u.log)
                      /\ At(s, call, {"asking"}) # {}
                      /\ t = Accept(u, id, Since(s, u))
                      /\ Onward(t, AnswerApproval(s, id, call, allow))
    BY LinkedIs, AnswerApprovalGoes
  <2> QED
    BY <1>1, <1>2, <2>1
<1>4. CASE r = Reject(s, id)
  BY <1>1, <1>4, LinkedIs, RejectHears
<1>5. CASE \E u, t : /\ Onward(s, u) /\ Longer(put.log, u.log)
                      /\ At(s, call, {"asking"}) # {}
                      /\ t = Accept(u, id, Since(s, u))
                      /\ Onward(t, r)
  <2>1. PICK u, t : /\ Onward(s, u) /\ Longer(put.log, u.log)
                    /\ At(s, call, {"asking"}) # {}
                    /\ t = Accept(u, id, Since(s, u))
                    /\ Onward(t, r)
    BY <1>5
  <2>2. PICK state, kind : state = "asking" /\ kind = "approval.decided"
    OBVIOUS
  <2>3. Puts(s, put)
    <3>1. Puts(s, Put(s, id, [k |-> kind, call |-> call]))
      BY <2>1, <2>2, AnswerPuts
    <3> QED
      BY <1>2, <2>2, <3>1
  <2>4. Len(u.log) > Len(s.log)
    BY <2>1, <2>3, PutsThenMore
  <2>5. Hears(s, t, id)
    BY <2>1, <2>4, LinkedIs, AcceptedHears
  <2>6. Sound(t)
    <3>1. LET v == Accept(u, id, Since(s, u)) IN Goes(s, v) /\ Sound(v) /\ Talking(v)
      BY <2>1, LinkedIs, AcceptedGoes
    <3> QED
      BY <2>1, <3>1
  <2> QED
    BY <1>1, <2>1, <2>5, <2>6, LinkedIs, HearsOnward
<1> QED
  BY <1>3, <1>4, <1>5

LEMMA AnswerQuestionHears ==
  ASSUME NEW s, Linked(s), Talking(s), Recalled(s.recent, Len(s.log)), NEW id, NEW call
  PROVE  Hears(s, AnswerQuestion(s, id, call), id)
<1>1. PICK r : r = AnswerQuestion(s, id, call)
  OBVIOUS
<1>2. PICK put : put = Put(s, id, [k |-> "question.answered", call |-> call])
  OBVIOUS
<1>3. \/ r = Reject(s, id)
      \/ \E u : /\ Onward(s, u) /\ Longer(put.log, u.log)
                 /\ At(s, call, {"questioning"}) # {}
                 /\ r = Accept(u, id, <<s.book.next>>)
  <2>1. \/ AnswerQuestion(s, id, call) = Reject(s, id)
        \/ \E u : /\ Onward(s, u)
                   /\ Longer(Put(s, id, [k |-> "question.answered",
                                        call |-> call]).log, u.log)
                   /\ At(s, call, {"questioning"}) # {}
                   /\ AnswerQuestion(s, id, call) = Accept(u, id, <<s.book.next>>)
    BY LinkedIs, AnswerQuestionGoes
  <2> QED
    BY <1>1, <1>2, <2>1
<1>4. CASE r = Reject(s, id)
  BY <1>1, <1>4, LinkedIs, RejectHears
<1>5. CASE \E u : /\ Onward(s, u) /\ Longer(put.log, u.log)
                   /\ At(s, call, {"questioning"}) # {}
                   /\ r = Accept(u, id, <<s.book.next>>)
  <2>1. PICK u : /\ Onward(s, u) /\ Longer(put.log, u.log)
                 /\ At(s, call, {"questioning"}) # {}
                 /\ r = Accept(u, id, <<s.book.next>>)
    BY <1>5
  <2>2. PICK state, kind : state = "questioning" /\ kind = "question.answered"
    OBVIOUS
  <2>3. Puts(s, put)
    <3>1. Puts(s, Put(s, id, [k |-> kind, call |-> call]))
      BY <2>1, <2>2, AnswerPuts
    <3> QED
      BY <1>2, <2>2, <3>1
  <2>4. /\ Len(u.log) > Len(s.log) /\ Len(u.log) \in Nat /\ Len(s.log) \in Nat
        /\ s.book.next = Len(s.log) + 1
    BY <2>1, <2>3, LinkedIs, PutsThenMore
  <2>5. PICK next, events : next = s.book.next /\ events = <<next>>
    OBVIOUS
  <2>6. next \in Nat \ {0} /\ next <= Len(u.log) /\ next > s.stored
    <3>1. s.stored \in 0..Len(s.log)
      BY LinkedIs DEF Sound
    <3> QED
      BY <2>4, <2>5, <3>1
  <2>7. NumbersUpTo(events, Len(u.log)) /\ Last(events) = next
    BY <2>4, <2>5, <2>6, OneNumberUpTo
  <2>8. Last(events) \in (s.stored + 1)..Len(u.log)
    BY <2>4, <2>6, <2>7, LinkedIs
  <2>9. Hears(s, Accept(u, id, events), id)
    BY <2>1, <2>7, <2>8, LinkedIs, AcceptHears
  <2> QED
    BY <1>1, <2>1, <2>5, <2>9
<1> QED
  BY <1>3, <1>4, <1>5

\* What a turn that is cut off has left is recorded.
LEMMA CutOnward ==
  ASSUME NEW s, Sound(s), NEW received, IsSeq(received.calls), NEW by, NEW why
  PROVE  Onward(s, Cut(s, received, by, why))
<1>1. PICK taken : taken = [s EXCEPT !.turn.stage = "settling", !.turn.calls = << >>]
  OBVIOUS
<1>2. Onward(s, taken) /\ Sound(taken)
  <2>1. /\ taken.log = s.log /\ taken.book = s.book /\ taken.stored = s.stored
        /\ taken.waiting = s.waiting /\ taken.recent = s.recent
        /\ taken.replies = s.replies
        /\ Shapely(taken)
    BY <1>1, EmptyIsSeq DEF Sound, Shapely, KernelFields, TurnFields
  <2> QED
    BY <2>1, Aside DEF Onward
<1>3. PICK mark, cause : mark = s.turn.mark /\ cause = s.turn.cause
  OBVIOUS
<1>4. PICK cut : cut = Settle(taken, mark, cause, received, TRUE)
  OBVIOUS
<1>5. Onward(taken, cut.s) /\ Sound(cut.s) /\ IsSeq(cut.calls)
  BY <1>2, <1>4, SettleOnward
<1>6. PICK h : h = [i \in DOMAIN cut.calls |-> Result(cut.calls[i].id, why)]
  OBVIOUS
<1>7. Bodies(h)
  <2>1. /\ h = [i \in DOMAIN cut.calls |-> h[i]]
        /\ \A i \in DOMAIN cut.calls : \E call, y : h[i] = Result(call, y)
    BY <1>6
  <2> QED
    BY <1>5, <2>1, ResultsAreBodies
<1>8. PICK p : p = PutEach(cut.s, by, h)
  OBVIOUS
<1>9. Onward(cut.s, p)
  BY <1>5, <1>7, <1>8, PutEachOnward
<1>10. Onward(s, p)
  BY <1>2, <1>5, <1>9, OnwardIsTransitive
<1>11. Cut(s, received, by, why) = p
  BY <1>1, <1>3, <1>4, <1>6, <1>8 DEF Cut
<1> QED
  BY <1>10, <1>11

\* A turn that is closed records its end.
LEMMA ClosedHears ==
  ASSUME NEW s, Linked(s), Talking(s), Recalled(s.recent, Len(s.log)),
         NEW p, Onward(s, p), Rooted(p), p.turn.id # 0, p.book.pending = {},
         NEW id, NEW queued \in Queueings
  PROVE  LET t == CloseInterrupted(p, id, queued)
             u == Accept(t, id, Since(s, t))
         IN  Hears(s, u, id) /\ Sound(u)
<1>1. PICK t : t = CloseInterrupted(p, id, queued)
  OBVIOUS
<1>2. Len(t.log) > Len(p.log)
  BY <1>1, CloseInterruptedCalm
<1>3. Sound(p) /\ Onward(p, t)
  BY <1>1, CloseInterruptedOnward DEF Onward
<1>4. Onward(s, t)
  BY <1>3, LinkedIs, OnwardIsTransitive
<1>5. Len(t.log) > Len(s.log)
  <2>1. /\ Len(s.log) \in Nat /\ Len(p.log) \in Nat /\ Len(t.log) \in Nat
        /\ Len(s.log) <= Len(p.log)
    BY <1>3, LinkedIs, OnwardLengths
  <2> QED
    BY <1>2, <2>1
<1>6. Hears(s, Accept(t, id, Since(s, t)), id)
  BY <1>4, <1>5, LinkedIs, AcceptedHears
<1>7. LET u == Accept(t, id, Since(s, t)) IN Sound(u)
  BY <1>4, LinkedIs, AcceptedGoes
<1> QED
  BY <1>1, <1>6, <1>7

\* Whoever interrupts while calls stop is told for what was recorded, or at once.
LEMMA WaitForStoppingHears ==
  ASSUME NEW s, Linked(s), Talking(s), Recalled(s.recent, Len(s.log)),
         NEW t, Onward(s, t), NEW id, NEW queued \in Queueings
  PROVE  Hears(s, WaitForStopping(s, t, id, queued), id)
<1>1. PICK w : w = [t EXCEPT !.turn.intr =
                      [cause |-> id, queued |-> queued, wake |-> t.turn.mark]]
  OBVIOUS
<1>2. Sound(s) /\ Sound(t)
  BY LinkedIs DEF Onward
<1>3. w.log = t.log /\ Onward(s, w) /\ Sound(w)
  <2>1. /\ w.log = t.log /\ w.book = t.book /\ w.stored = t.stored
        /\ w.waiting = t.waiting /\ w.recent = t.recent
        /\ w.replies = t.replies
        /\ Shapely(w)
    BY <1>1, <1>2 DEF Sound, Shapely, KernelFields, TurnFields
  <2>2. Onward(t, w)
    BY <1>2, <2>1, Aside
  <2> QED
    BY <1>2, <2>1, <2>2, OnwardIsTransitive DEF Onward
<1>4. PICK events : events = Since(s, t)
  OBVIOUS
<1>5. PICK u : u = IF events = << >> THEN AcceptEmpty(w, id) ELSE Accept(w, id, events)
  OBVIOUS
<1>6. PICK actions : actions = {[a |-> "Wake", seen |-> t.turn.mark]}
  OBVIOUS
<1>7. WaitForStopping(s, t, id, queued) = Do(u, actions)
  BY <1>1, <1>4, <1>5, <1>6 DEF WaitForStopping
<1>8. Hears(s, u, id) /\ Sound(u)
  <2>1. CASE events = << >>
    <3>1. u = AcceptEmpty(w, id)
      BY <1>5, <2>1
    <3>2. Hears(s, u, id)
      BY <1>2, <1>3, <3>1, AcceptEmptyHears
    <3>3. Talking(w)
      BY <1>2, <1>3, OnwardGoes DEF Goes
    <3>4. Sound(u)
      BY <1>3, <3>1, <3>3, AcceptEmptyGoes DEF Goes
    <3> QED
      BY <3>2, <3>4
  <2>2. CASE events # << >>
    <3>1. Len(w.log) > Len(s.log)
      <4>1. /\ Len(s.log) \in Nat /\ Len(t.log) \in Nat /\ Len(s.log) <= Len(t.log)
        BY <1>2, OnwardLengths
      <4>2. Len(t.log) # Len(s.log)
        <5>1. SUFFICES ASSUME Len(t.log) = Len(s.log) PROVE FALSE
          OBVIOUS
        <5>2. PICK m : m = Len(s.log)
          OBVIOUS
        <5>3. m \in Nat /\ Since(s, t) = [i \in 1..(m - m) |-> m + i]
          BY <4>1, <5>1, <5>2 DEF Since
        <5>4. 1..(m - m) = {}
          BY <5>3
        <5>5. events = [i \in {} |-> m + i]
          BY <1>4, <5>3, <5>4
        <5>6. events = << >>
          BY <5>5
        <5> QED
          BY <2>2, <5>6
      <4> QED
        BY <1>3, <4>1, <4>2
    <3>2. events = Since(s, w)
      BY <1>3, <1>4 DEF Since
    <3>3. u = Accept(w, id, Since(s, w))
      BY <1>5, <2>2, <3>2
    <3>4. Hears(s, Accept(w, id, Since(s, w)), id)
      BY <1>2, <1>3, <3>1, AcceptedHears
    <3>5. LET v == Accept(w, id, Since(s, w)) IN Sound(v)
      BY <1>2, <1>3, AcceptedGoes
    <3> QED
      BY <3>3, <3>4, <3>5
  <2> QED
    BY <2>1, <2>2
<1>9. Hears(s, Do(u, actions), id)
  BY <1>8, LinkedIs, DoOnward, HearsOnward
<1> QED
  BY <1>7, <1>9

LEMMA InterruptHears ==
  ASSUME NEW s, Linked(s), Talking(s), Recalled(s.recent, Len(s.log)),
         NEW id, NEW queued \in Queueings, NEW received, IsSeq(received.calls)
  PROVE  Hears(s, Interrupt(s, id, queued, received), id)
<1>1. Sound(s) /\ s.stored \in Nat
  BY LinkedIs
<1>2. CASE Idle(s)
  <2>1. Interrupt(s, id, queued, received) = Reject(s, id)
    BY <1>2 DEF Interrupt
  <2> QED
    BY <1>1, <2>1, RejectHears
<1>3. CASE ~Idle(s) /\ s.turn.intr.wake # 0
  <2>1. PICK t : t = ForceStop(s, id, queued)
    OBVIOUS
  <2>2. Len(t.log) > Len(s.log)
    BY <1>3, <2>1, ForceStopLinked
  <2>3. Onward(s, t)
    BY <1>1, <2>1, ForceStopOnward
  <2>4. Interrupt(s, id, queued, received) = Accept(t, id, Since(s, t))
    BY <1>3, <2>1 DEF Interrupt
  <2> QED
    BY <1>1, <2>2, <2>3, <2>4, AcceptedHears
<1>4. CASE ~Idle(s) /\ s.turn.intr.wake = 0 /\ s.turn.stage = "asking"
  <2>1. PICK why : why = "before"
    OBVIOUS
  <2>2. PICK p : p = Cut(s, received, id, why)
    OBVIOUS
  <2>3. Rooted(p) /\ p.turn.id # 0 /\ p.book.pending = {}
    BY <1>4, <2>2, CutSettles
  <2>4. Onward(s, p)
    BY <1>1, <2>2, CutOnward
  <2>5. PICK t : t = CloseInterrupted(p, id, queued)
    OBVIOUS
  <2>6. PICK u : u = Accept(t, id, Since(s, t))
    OBVIOUS
  <2>7. Hears(s, u, id) /\ Sound(u)
    BY <2>3, <2>4, <2>5, <2>6, ClosedHears
  <2>8. PICK actions : actions = {[a |-> "CancelModel", seen |-> s.turn.mark]}
    OBVIOUS
  <2>9. Hears(s, Do(u, actions), id)
    BY <1>1, <2>7, DoOnward, HearsOnward
  <2>10. Interrupt(s, id, queued, received) = Do(u, actions)
    <3>1. PICK taken : taken = [s EXCEPT !.turn.stage = "settling", !.turn.calls = << >>]
      OBVIOUS
    <3>2. PICK cut : cut = Settle(taken, s.turn.mark, s.turn.cause, received, TRUE)
      OBVIOUS
    <3>3. p = PutEach(cut.s, id, [i \in DOMAIN cut.calls |-> Result(cut.calls[i].id, why)])
      BY <2>2, <3>1, <3>2 DEF Cut
    <3> DEFINE T == [s EXCEPT !.turn.stage = "settling", !.turn.calls = << >>]
               C == Settle(T, s.turn.mark, s.turn.cause, received, TRUE)
               H == [i \in DOMAIN C.calls |-> Result(C.calls[i].id, "before")]
               N == PutEach(C.s, id, H)
               L == CloseInterrupted(N, id, queued)
    <3>4. Interrupt(s, id, queued, received) =
            Do(Accept(L, id, Since(s, L)), {[a |-> "CancelModel", seen |-> s.turn.mark]})
      BY <1>4 DEF Interrupt
    <3> HIDE DEF L
    <3>5. T = taken
      BY <3>1
    <3> HIDE DEF T
    <3>6. C = cut
      BY <3>2, <3>5
    <3> HIDE DEF C
    <3>7. H = [i \in DOMAIN cut.calls |-> Result(cut.calls[i].id, why)]
      BY <2>1, <3>6
    <3> HIDE DEF H
    <3>8. N = p
      BY <3>3, <3>6, <3>7
    <3> HIDE DEF N
    <3>9. L = t
      BY <2>5, <3>8 DEF L
    <3> QED
      BY <2>6, <2>8, <3>4, <3>9
  <2> QED
    BY <2>9, <2>10
<1>5. CASE ~Idle(s) /\ s.turn.intr.wake = 0 /\ s.turn.stage = "tools"
  <2>1. PICK step : step = CancelStep(s, id)
    OBVIOUS
  <2>2. Cancelled(s, step) /\ Onward(s, step)
    BY <1>1, <1>5, <2>1, CancelStepCancels, CancelStepOnward
  <2>3. CASE \E i \in DOMAIN step.turn.calls : step.turn.calls[i].state = "stopping"
    <3>1. Interrupt(s, id, queued, received) = WaitForStopping(s, step, id, queued)
      BY <1>5, <2>1, <2>3 DEF Interrupt
    <3> QED
      BY <2>2, <3>1, WaitForStoppingHears
  <2>4. CASE ~\E i \in DOMAIN step.turn.calls : step.turn.calls[i].state = "stopping"
    <3>1. step.book.pending = {} /\ Rooted(step) /\ step.turn.id # 0
      BY <1>5, <2>2, <2>4, CancelledAll DEF Cancelled, Idle
    <3>2. PICK t : t = CloseInterrupted(step, id, queued)
      OBVIOUS
    <3>3. Interrupt(s, id, queued, received) = Accept(t, id, Since(s, t))
      BY <1>5, <2>1, <2>4, <3>2 DEF Interrupt
    <3> QED
      BY <2>2, <3>1, <3>2, <3>3, ClosedHears
  <2> QED
    BY <2>3, <2>4
<1>6. CASE /\ ~Idle(s) /\ s.turn.intr.wake = 0
           /\ s.turn.stage # "asking" /\ s.turn.stage # "tools"
  <2>1. Calm(s)
    BY <1>6, RestingIsCalm
  <2>2. s.turn.id # 0
    BY <1>6 DEF Idle
  <2>3. PICK stage : stage = "settling"
    OBVIOUS
  <2>4. PICK taken : taken = [s EXCEPT !.turn.stage = stage, !.turn.calls = << >>]
    OBVIOUS
  <2>5. OnlyStage(s, taken)
    BY <2>1, <2>4, CallsDropped DEF Calm
  <2>6. Rooted(taken) /\ taken.turn.id # 0 /\ taken.book.pending = {}
    BY <2>1, <2>2, <2>5 DEF Calm, OnlyStage
  <2>7. Onward(s, taken)
    <3>1. /\ taken.log = s.log /\ taken.book = s.book /\ taken.stored = s.stored
          /\ taken.waiting = s.waiting /\ taken.recent = s.recent
          /\ taken.replies = s.replies
          /\ Shapely(taken)
      BY <1>1, <2>3, <2>4, EmptyIsSeq DEF Sound, Shapely, KernelFields, TurnFields
    <3> QED
      BY <1>1, <3>1, Aside
  <2>8. PICK t : t = CloseInterrupted(taken, id, queued)
    OBVIOUS
  <2>9. Interrupt(s, id, queued, received) = Accept(t, id, Since(s, t))
    BY <1>6, <2>3, <2>4, <2>8 DEF Interrupt
  <2> QED
    BY <2>6, <2>7, <2>8, <2>9, ClosedHears
<1> QED
  BY <1>2, <1>3, <1>4, <1>5, <1>6

\* Whatever a person asks for is told, at once or later.
LEMMA ReceiveHears ==
  ASSUME NEW s, Linked(s), Talking(s), Recalled(s.recent, Len(s.log)), NEW id,
         NEW op, Asks(op), NEW call, NEW received, IsSeq(received.calls)
  PROVE  Hears(s, Receive(s, id, op, call, received), id)
<1>1. PICK known : known = {i \in DOMAIN s.recent : s.recent[i].id = id}
  OBVIOUS
<1>2. CASE known # {}
  <2>1. PICK k : k = CHOOSE i \in known : TRUE
    OBVIOUS
  <2>2. k \in known
    BY <1>2, <2>1
  <2>3. k \in 1..Len(s.recent)
    BY <1>1, <2>2, SeqIsFunction DEF Recalled
  <2>4. PICK events : events = s.recent[k].events
    OBVIOUS
  <2>5. NumbersUpTo(events, Len(s.log))
    BY <2>3, <2>4 DEF Recalled
  <2>6. Receive(s, id, op, call, received) = ReplyWhenStored(s, id, events)
    BY <1>1, <1>2, <2>1, <2>4 DEF Receive
  <2> QED
    BY <2>5, <2>6, LinkedIs, ReplyWhenStoredHears
<1>3. CASE known = {}
  <2>1. CASE op.op = "send"
    <3>1. PICK urgent : urgent = op.urgent
      OBVIOUS
    <3>2. Receive(s, id, op, call, received) = Send(s, id, urgent)
      BY <1>1, <1>3, <2>1, <3>1 DEF Receive
    <3> QED
      BY <3>2, SendHears
  <2>2. CASE op.op = "interrupt"
    <3>1. PICK queued : queued = op.queued
      OBVIOUS
    <3>2. Receive(s, id, op, call, received) = Interrupt(s, id, queued, received)
      BY <1>1, <1>3, <2>2, <3>1 DEF Receive
    <3>3. queued \in Queueings
      BY <2>2, <3>1 DEF Asks
    <3> QED
      BY <3>2, <3>3, InterruptHears
  <2>3. CASE op.op = "permission"
    <3>1. PICK change : change = op.change
      OBVIOUS
    <3>2. Receive(s, id, op, call, received) = SetPermission(s, id, change)
      BY <1>1, <1>3, <2>3, <3>1 DEF Receive
    <3> QED
      BY <3>2, SetPermissionHears
  <2>4. CASE op.op = "approve"
    <3>1. PICK allow : allow = op.allow
      OBVIOUS
    <3>2. Receive(s, id, op, call, received) = AnswerApproval(s, id, call, allow)
      BY <1>1, <1>3, <2>4, <3>1 DEF Receive
    <3> QED
      BY <3>2, AnswerApprovalHears
  <2>5. CASE op.op = "answer"
    <3>1. Receive(s, id, op, call, received) = AnswerQuestion(s, id, call)
      BY <1>1, <1>3, <2>5 DEF Receive
    <3> QED
      BY <3>1, AnswerQuestionHears
  <2> QED
    BY <2>1, <2>2, <2>3, <2>4, <2>5 DEF Asks
<1> QED
  BY <1>2, <1>3

----------------------------------------------------------------------------
(***************************************************************************)
(* Counting the places of a list that are about a command.                 *)
(***************************************************************************)
PlacesAbout(list, id) == {i \in DOMAIN list : list[i].id = id}

CountOf(list, id) == Cardinality(PlacesAbout(list, id))

LEMMA CountIsFinite ==
  ASSUME NEW list, IsSeq(list), NEW at \in SUBSET (DOMAIN list)
  PROVE  IsFiniteSet(at) /\ Cardinality(at) \in Nat
<1>1. PICK n : n = Len(list)
  OBVIOUS
<1>2. n \in Nat /\ DOMAIN list = 1..n
  BY <1>1, SeqIsFunction
<1>3. IsFiniteSet(1..n)
  BY <1>2, FS_Interval
<1>4. IsFiniteSet(at)
  BY <1>2, <1>3, FS_Subset
<1> QED
  BY <1>4, FS_CardinalityType

LEMMA CountNone ==
  ASSUME NEW id
  PROVE  CountOf(<< >>, id) = 0
<1>1. PlacesAbout(<< >>, id) = {}
  BY EmptyIsSeq DEF PlacesAbout
<1> QED
  BY <1>1, FS_EmptySet DEF CountOf

\* One more.
LEMMA CountAppended ==
  ASSUME NEW list, IsSeq(list), NEW x, NEW id
  PROVE  /\ CountOf(list, id) \in Nat
         /\ CountOf(Append(list, x), id) = CountOf(list, id) + (IF x.id = id THEN 1 ELSE 0)
<1>1. PICK n, t : n = Len(list) /\ t = Append(list, x)
  OBVIOUS
<1>2. n \in Nat /\ DOMAIN list = 1..n
  BY <1>1, SeqIsFunction
<1>3. /\ IsSeq(t) /\ Len(t) = n + 1 /\ t[n + 1] = x
      /\ \A i \in 1..n : t[i] = list[i]
  BY <1>1, AppendIsSeq
<1>4. DOMAIN t = 1..(n + 1)
  BY <1>3, SeqIsFunction
<1>5. PICK S : S = PlacesAbout(list, id)
  OBVIOUS
<1>6. S \in SUBSET (DOMAIN list)
  BY <1>5 DEF PlacesAbout
<1>7. IsFiniteSet(S) /\ Cardinality(S) \in Nat
  BY <1>6, CountIsFinite
<1>8. CASE x.id = id
  <2>1. PlacesAbout(t, id) = S \union {n + 1}
    BY <1>2, <1>3, <1>4, <1>5, <1>8 DEF PlacesAbout
  <2>2. n + 1 \notin S
    BY <1>2, <1>6
  <2>3. Cardinality(S \union {n + 1}) = Cardinality(S) + 1
    BY <1>7, <2>2, FS_AddElement
  <2> QED
    BY <1>1, <1>5, <1>7, <1>8, <2>1, <2>3 DEF CountOf
<1>9. CASE x.id # id
  <2>1. PlacesAbout(t, id) = S
    <3>1. \A i \in 1..(n + 1) : i \in 1..n \/ i = n + 1
      BY <1>2
    <3> QED
      BY <1>2, <1>3, <1>4, <1>5, <1>9, <3>1 DEF PlacesAbout
  <2> QED
    BY <1>1, <1>5, <1>7, <1>9, <2>1 DEF CountOf
<1> QED
  BY <1>8, <1>9

\* Of what is picked, those about the command are those about it at those places.
LEMMA CountPicked ==
  ASSUME NEW list, IsSeq(list), NEW at \in SUBSET (DOMAIN list), NEW id
  PROVE  CountOf(Picked(list, at), id) = Cardinality(PlacesAbout(list, id) \intersect at)
<1>1. PICK p, m : p = Picked(list, at) /\ m = Len(p)
  OBVIOUS
<1>2. IsSeq(p) /\ \E pos : /\ Positions(pos, m, at)
                           /\ \A j \in 1..m : p[j] = list[pos[j]]
  BY <1>1, PickedIs
<1>3. PICK pos : Positions(pos, m, at) /\ \A j \in 1..m : p[j] = list[pos[j]]
  BY <1>2
<1>4. m \in Nat /\ DOMAIN p = 1..m
  BY <1>1, <1>2, SeqIsFunction
<1>5. PICK S, T : S = PlacesAbout(p, id) /\ T = PlacesAbout(list, id) \intersect at
  OBVIOUS
<1>6. S \in SUBSET (DOMAIN p) /\ S \subseteq 1..m
  BY <1>4, <1>5 DEF PlacesAbout
<1>7. IsFiniteSet(S)
  BY <1>2, <1>6, CountIsFinite
<1>8. PICK f : f = [j \in S |-> pos[j]]
  OBVIOUS
<1>9. \A j \in S : f[j] \in T
  <2>1. TAKE j \in S
  <2>2. j \in 1..m /\ p[j].id = id
    BY <1>5, <1>6 DEF PlacesAbout
  <2>3. pos[j] \in at /\ p[j] = list[pos[j]]
    BY <1>3, <2>2 DEF Positions
  <2> QED
    BY <1>5, <1>8, <2>2, <2>3 DEF PlacesAbout
<1>10. \A i, j \in S : f[i] = f[j] => i = j
  <2>1. TAKE i, j \in S
  <2>2. i \in 1..m /\ j \in 1..m
    BY <1>6
  <2>3. \A k \in at : k \in Nat
    <3>1. DOMAIN list = 1..Len(list)
      BY SeqIsFunction
    <3> QED
      BY <3>1
  <2>4. pos[i] \in Nat /\ pos[j] \in Nat
    BY <1>3, <2>2, <2>3 DEF Positions
  <2>5. CASE i < j
    BY <1>3, <1>8, <2>2, <2>4, <2>5 DEF Positions
  <2>6. CASE j < i
    BY <1>3, <1>8, <2>2, <2>4, <2>6 DEF Positions
  <2> QED
    BY <2>2, <2>5, <2>6
<1>11. \A i \in T : \E j \in S : f[j] = i
  <2>1. TAKE i \in T
  <2>2. PICK j \in 1..m : pos[j] = i
    BY <1>3, <1>5 DEF Positions
  <2>3. p[j].id = id
    BY <1>3, <1>5, <2>2 DEF PlacesAbout
  <2>4. j \in S
    BY <1>4, <1>5, <2>2, <2>3 DEF PlacesAbout
  <2> QED
    BY <1>8, <2>2, <2>4
<1>12. f \in Bijection(S, T)
  <2>1. f \in [S -> T]
    BY <1>8, <1>9
  <2> QED
    BY <1>10, <1>11, <2>1, Fun_IsInj DEF Bijection, Injection, Surjection, IsInjective
<1>13. Cardinality(T) = Cardinality(S)
  BY <1>7, <1>12, FS_Bijection DEF ExistsBijection
<1> QED
  BY <1>1, <1>5, <1>13 DEF CountOf

\* Whatever is picked and what is left are all.
LEMMA CountSplit ==
  ASSUME NEW list, IsSeq(list), NEW at \in SUBSET (DOMAIN list), NEW id
  PROVE  /\ CountOf(Picked(list, at), id) \in Nat
         /\ CountOf(Picked(list, DOMAIN list \ at), id) \in Nat
         /\ CountOf(list, id) =
              CountOf(Picked(list, at), id) + CountOf(Picked(list, DOMAIN list \ at), id)
<1>1. PICK S, T, rest : /\ rest = DOMAIN list \ at
                        /\ S = PlacesAbout(list, id) \intersect at
                        /\ T = PlacesAbout(list, id) \intersect rest
  OBVIOUS
<1>2. S \in SUBSET (DOMAIN list) /\ T \in SUBSET (DOMAIN list) /\ rest \in SUBSET (DOMAIN list)
  BY <1>1
<1>3. IsFiniteSet(S) /\ IsFiniteSet(T) /\ Cardinality(S) \in Nat /\ Cardinality(T) \in Nat
  BY <1>2, CountIsFinite
<1>4. PlacesAbout(list, id) = S \union T /\ S \intersect T = {}
  BY <1>1 DEF PlacesAbout
<1>5. Cardinality(S \union T) = Cardinality(S) + Cardinality(T)
  <2>1. Cardinality(S \intersect T) = 0
    BY <1>4, FS_EmptySet
  <2>2. Cardinality(S \union T) =
          Cardinality(S) + Cardinality(T) - Cardinality(S \intersect T)
    BY <1>3, FS_Union
  <2> QED
    BY <1>3, <2>1, <2>2
<1>6. CountOf(Picked(list, at), id) = Cardinality(S)
  BY <1>1, CountPicked
<1>7. CountOf(Picked(list, rest), id) = Cardinality(T)
  BY <1>1, <1>2, CountPicked
<1> QED
  BY <1>1, <1>3, <1>4, <1>5, <1>6, <1>7 DEF CountOf

----------------------------------------------------------------------------
(***************************************************************************)
(* What a log says of the calls that are still open.                       *)
(***************************************************************************)
\* Of the first n events, those of a kind about a call.
NotesOn(l, n, kind, x) == {i \in 1..n : l[i].k = kind /\ l[i].call = x}

\* Events about a call that come only after the reply it is of.
OfACall == {"tool.result", "approval.requested", "approval.decided"}

\* As many decisions as requests, or one fewer while a person is asked.
Balances(l, n, x, asked) ==
  Cardinality(NotesOn(l, n, "approval.requested", x))
    = Cardinality(NotesOn(l, n, "approval.decided", x)) + (IF asked THEN 1 ELSE 0)

Accounts(l, n, b) ==
  /\ \A i \in 1..n : l[i].k \in OfACall => l[i].call[1] \in 1..(i - 1)
  /\ \A x \in b.pending : /\ NotesOn(l, n, "tool.result", x) = {}
                          /\ Balances(l, n, x, x \in b.asking)

\* One event more.
LEMMA NotesGrow ==
  ASSUME NEW l, NEW n \in Nat, NEW kind, NEW x
  PROVE  /\ IsFiniteSet(NotesOn(l, n, kind, x))
         /\ Cardinality(NotesOn(l, n, kind, x)) \in Nat
         /\ l[n + 1].k = kind /\ l[n + 1].call = x =>
              Cardinality(NotesOn(l, n + 1, kind, x)) = Cardinality(NotesOn(l, n, kind, x)) + 1
         /\ ~(l[n + 1].k = kind /\ l[n + 1].call = x) =>
              NotesOn(l, n + 1, kind, x) = NotesOn(l, n, kind, x)
<1>1. PICK S, T : S = NotesOn(l, n, kind, x) /\ T = NotesOn(l, n + 1, kind, x)
  OBVIOUS
<1>2. S \subseteq 1..n
  BY <1>1 DEF NotesOn
<1>3. IsFiniteSet(1..n)
  BY FS_Interval
<1>4. IsFiniteSet(S)
  BY <1>2, <1>3, FS_Subset
<1>5. Cardinality(S) \in Nat
  BY <1>4, FS_CardinalityType
<1>6. n + 1 \notin S
  BY <1>2
<1>7. \A i : i \in 1..(n + 1) <=> i \in 1..n \/ i = n + 1
  OBVIOUS
<1>8. ASSUME l[n + 1].k = kind /\ l[n + 1].call = x
      PROVE  Cardinality(T) = Cardinality(S) + 1
  <2>1. T = S \union {n + 1}
    BY <1>1, <1>7, <1>8 DEF NotesOn
  <2> QED
    BY <1>4, <1>6, <2>1, FS_AddElement
<1>9. ASSUME ~(l[n + 1].k = kind /\ l[n + 1].call = x)
      PROVE  T = S
  BY <1>1, <1>7, <1>9 DEF NotesOn
<1> QED
  BY <1>1, <1>4, <1>5, <1>8, <1>9

LEMMA AccountsStep ==
  ASSUME NEW n \in Nat, NEW l, NEW p, Len(p) = n, \A i \in 1..n : p[i] = l[i],
         NEW b, Tidy(b, p), Accounts(l, n, b),
         NEW e, e = l[n + 1], e.seq = n + 1, Legal(b, e),
         e.k = "message.assistant" => b.pending = {}
  PROVE  Accounts(l, n + 1, Record(b, e))
<1>1. PICK r : r = Record(b, e)
  OBVIOUS
<1>2. Remembers(b, e, r)
  BY <1>1, RecordAll DEF Tidy
<1>3. LegalBody(b, e)
  BY DEF Legal
<1>4. /\ b.asking \subseteq b.pending
      /\ b.pending # {} =>
           /\ b.lastReply \in 1..n
           /\ \A x \in b.pending : x[1] = b.lastReply
  <2>1. ASSUME NEW x \in b.pending PROVE b.lastReply \in 1..n /\ x[1] = b.lastReply
    <3>1. /\ b.lastReply # 0 /\ b.lastReply \in 0..n
          /\ x \in Range(p[b.lastReply].calls)
          /\ \A i \in DOMAIN p[b.lastReply].calls : p[b.lastReply].calls[i] = <<b.lastReply, i>>
      BY <2>1 DEF Tidy
    <3>2. PICK i \in DOMAIN p[b.lastReply].calls : x = p[b.lastReply].calls[i]
      BY <3>1 DEF Range
    <3>3. x = <<b.lastReply, i>>
      BY <3>1, <3>2
    <3> QED
      BY <3>1, <3>3
  <2> QED
    BY <2>1 DEF Tidy
<1>5. e.k \in OfACall => e.call \in b.pending
  <2>1. /\ e.k = "tool.result" => e.call \in b.pending
        /\ e.k = "approval.requested" => e.call \in b.pending
        /\ e.k = "approval.decided" => e.call \in b.asking
    BY <1>3 DEF LegalBody
  <2> QED
    BY <1>4, <2>1 DEF OfACall
<1>6. \A i \in 1..(n + 1) : l[i].k \in OfACall => l[i].call[1] \in 1..(i - 1)
  <2>1. ASSUME NEW i \in 1..(n + 1), l[i].k \in OfACall PROVE l[i].call[1] \in 1..(i - 1)
    <3>1. CASE i = n + 1
      <4>1. e.call[1] \in 1..n
        BY <1>4, <1>5, <2>1, <3>1
      <4> QED
        BY <3>1, <4>1
    <3>2. CASE i \in 1..n
      BY <2>1, <3>2 DEF Accounts
    <3> QED
      BY <3>1, <3>2
  <2> QED
    BY <2>1
<1>7. ASSUME NEW x \in b.pending, x \in r.pending
      PROVE  /\ NotesOn(l, n + 1, "tool.result", x) = {}
             /\ Balances(l, n + 1, x, x \in r.asking)
  <2>1. /\ NotesOn(l, n, "tool.result", x) = {}
        /\ Balances(l, n, x, x \in b.asking)
    BY <1>7 DEF Accounts
  <2>2. ~(e.k = "message.assistant")
    BY <1>7
  <2>3. ~(e.k = "tool.result" /\ e.call = x)
    BY <1>2, <1>7, <2>2 DEF Remembers
  <2>4. NotesOn(l, n + 1, "tool.result", x) = {}
    <3>1. NotesOn(l, n + 1, "tool.result", x) = NotesOn(l, n, "tool.result", x)
      <4>1. ~(l[n + 1].k = "tool.result" /\ l[n + 1].call = x)
        BY <2>3
      <4> QED
        BY <4>1, NotesGrow
    <3> QED
      BY <2>1, <3>1
  <2>5. PICK q0, q1, d0, d1 :
          /\ q0 = Cardinality(NotesOn(l, n, "approval.requested", x))
          /\ q1 = Cardinality(NotesOn(l, n + 1, "approval.requested", x))
          /\ d0 = Cardinality(NotesOn(l, n, "approval.decided", x))
          /\ d1 = Cardinality(NotesOn(l, n + 1, "approval.decided", x))
    OBVIOUS
  <2>6. /\ q0 \in Nat /\ d0 \in Nat
        /\ q1 = IF e.k = "approval.requested" /\ e.call = x THEN q0 + 1 ELSE q0
        /\ d1 = IF e.k = "approval.decided" /\ e.call = x THEN d0 + 1 ELSE d0
    <3>1. /\ q0 \in Nat
          /\ q1 = IF e.k = "approval.requested" /\ e.call = x THEN q0 + 1 ELSE q0
      BY <2>5, NotesGrow
    <3>2. /\ d0 \in Nat
          /\ d1 = IF e.k = "approval.decided" /\ e.call = x THEN d0 + 1 ELSE d0
      BY <2>5, NotesGrow
    <3> QED
      BY <3>1, <3>2
  <2>7. q0 = d0 + (IF x \in b.asking THEN 1 ELSE 0)
    BY <2>1, <2>5 DEF Balances
  <2>8. q1 = d1 + (IF x \in r.asking THEN 1 ELSE 0)
    <3>1. CASE e.k = "approval.requested" /\ e.call = x
      <4>1. x \notin b.asking
        BY <1>3, <3>1 DEF LegalBody
      <4>2. x \in r.asking
        BY <1>2, <3>1 DEF Remembers
      <4>3. d1 = d0 /\ q1 = q0 + 1
        BY <2>6, <3>1
      <4> QED
        BY <2>6, <2>7, <4>1, <4>2, <4>3
    <3>2. CASE e.k = "approval.decided" /\ e.call = x
      <4>1. x \in b.asking
        BY <1>3, <3>2 DEF LegalBody
      <4>2. x \notin r.asking
        BY <1>2, <3>2 DEF Remembers
      <4>3. d1 = d0 + 1 /\ q1 = q0
        BY <2>6, <3>2
      <4> QED
        BY <2>6, <2>7, <4>1, <4>2, <4>3
    <3>3. CASE ~(e.k \in {"approval.requested", "approval.decided"} /\ e.call = x)
      <4>1. x \in r.asking <=> x \in b.asking
        BY <1>2, <2>3, <3>3 DEF Remembers
      <4>2. d1 = d0 /\ q1 = q0
        BY <2>6, <3>3
      <4> QED
        BY <2>7, <4>1, <4>2
    <3> QED
      BY <3>1, <3>2, <3>3
  <2> QED
    BY <2>4, <2>5, <2>8 DEF Balances
<1>8. ASSUME NEW x \in r.pending, x \notin b.pending
      PROVE  /\ NotesOn(l, n + 1, "tool.result", x) = {}
             /\ Balances(l, n + 1, x, x \in r.asking)
  <2>1. e.k = "message.assistant" /\ x \in Range(e.calls)
    BY <1>2, <1>8 DEF Remembers
  <2>2. PICK i \in DOMAIN e.calls : x = e.calls[i]
    BY <2>1 DEF Range
  <2>3. x[1] = n + 1
    <3>1. e.calls[i] = <<e.seq, i>>
      BY <1>3, <2>1, <2>2 DEF LegalBody
    <3> QED
      BY <2>2, <3>1
  <2>4. ASSUME NEW kind \in OfACall PROVE NotesOn(l, n + 1, kind, x) = {}
    <3>1. ASSUME NEW j \in 1..(n + 1), l[j].k = kind, l[j].call = x PROVE FALSE
      <4>1. x[1] \in 1..(j - 1)
        BY <1>6, <2>4, <3>1
      <4> QED
        BY <2>3, <3>1, <4>1
    <3> QED
      BY <3>1 DEF NotesOn
  <2>5. x \notin r.asking
    <3>1. r.asking = b.asking
      BY <1>2, <2>1 DEF Remembers
    <3> QED
      BY <1>4, <1>8, <3>1
  <2>6. Balances(l, n + 1, x, FALSE)
    <3>1. Cardinality({}) = 0
      BY FS_EmptySet
    <3>2. /\ NotesOn(l, n + 1, "approval.requested", x) = {}
          /\ NotesOn(l, n + 1, "approval.decided", x) = {}
      BY <2>4 DEF OfACall
    <3>3. PICK q, d : /\ q = Cardinality(NotesOn(l, n + 1, "approval.requested", x))
                      /\ d = Cardinality(NotesOn(l, n + 1, "approval.decided", x))
      OBVIOUS
    <3>4. q = 0 /\ d = 0
      BY <3>1, <3>2, <3>3, Zenon
    <3>5. q = d + (IF FALSE THEN 1 ELSE 0)
      BY <3>4
    <3> QED
      BY <3>3, <3>5 DEF Balances
  <2>7. NotesOn(l, n + 1, "tool.result", x) = {}
    BY <2>4 DEF OfACall
  <2>8. (x \in r.asking) = FALSE
    BY <2>5
  <2> QED
    BY <2>6, <2>7, <2>8
<1> QED
  BY <1>1, <1>6, <1>7, <1>8 DEF Accounts

\* So it is in every clean log.
LEMMA CleanAccounts ==
  ASSUME NEW l, IsLog(l), Clean(l)
  PROVE  Accounts(l, Len(l), BookOf(l))
<1>1. PICK v : /\ v[0] = EmptyBook /\ BookOf(l) = v[Len(l)]
               /\ \A k \in 1..Len(l) : v[k] = Record(v[k - 1], l[k])
  BY BookChain DEF IsLog
<1> DEFINE n == Len(l)
           A == {k \in 0..n : Accounts(l, k, v[k])}
<1>2. n \in Nat /\ IsSeq(l)
  BY SeqIsFunction DEF IsLog
<1>3. 0 \in A
  <2>1. EmptyBook.pending = {}
    BY DEF EmptyBook
  <2>2. Accounts(l, 0, EmptyBook)
    BY <2>1 DEF Accounts
  <2> QED
    BY <1>1, <1>2, <2>2
<1>4. ASSUME NEW k \in 1..n, k - 1 \in A PROVE k \in A
  <2>1. PICK b, e, i, p : b = v[k - 1] /\ e = l[k] /\ i = k - 1 /\ p = SubSeq(l, 1, i)
    OBVIOUS
  <2>2. i \in Nat /\ i \in 0..n /\ k = i + 1 /\ k \in 0..n
    BY <1>2, <2>1
  <2>3. Len(p) = i /\ IsSeq(p) /\ \A j \in 1..i : p[j] = l[j]
    BY <1>2, <2>1, <2>2, BeginningIsSeq
  <2>4. b = BookOf(p)
    BY <1>1, <1>2, <2>1, <2>2, BookOfBeginning
  <2>5. Tidy(b, p)
    <3>1. IsLog(p) /\ Clean(p)
      BY <2>1, <2>2, CleanBeginning
    <3> QED
      BY <2>4, <3>1, CleanIsTidy
  <2>6. Legal(b, e) /\ (e.k = "message.assistant" => b.pending = {})
    BY <2>1, <2>4 DEF Clean
  <2>7. e.seq = k
    BY <2>1 DEF IsLog, IsEvent
  <2>8. Accounts(l, i, b)
    BY <1>4, <2>1
  <2>9. Accounts(l, i + 1, Record(b, e))
    BY <2>1, <2>2, <2>3, <2>5, <2>6, <2>7, <2>8, AccountsStep
  <2>10. v[k] = Record(b, e)
    BY <1>1, <2>1
  <2> QED
    BY <2>2, <2>9, <2>10
<1>5. n \in A
  <2> HIDE DEF A, n
  <2>1. 0..n \subseteq A
    BY <1>2, <1>3, <1>4, Upwards
  <2> QED
    BY <1>2, <2>1
<1> QED
  BY <1>1, <1>5

----------------------------------------------------------------------------
(***************************************************************************)
(* What was stopped for good.                                              *)
(***************************************************************************)
\* What was stopped for good stays stopped: no turn opens from before it.
LEMMA StaysStopped ==
  ASSUME NEW l, IsLog(l), Clean(l), NEW g, Founded(l, g),
         NEW i \in 1..Len(l), l[i].k = "turn.ended",
         l[i].reason = "interrupted", l[i].cause \notin g.w,
         NEW t \in 1..Len(l), l[t].k = "turn.started", i < t
  PROVE  l[t].trigger >= i
<1>1. Len(l) \in Nat
  BY SeqIsFunction DEF IsLog
<1>2. FoundedAt(l, t, g)
  BY DEF Founded
<1>3. CASE FromMessage(l, t, g)
  <2>1. PICK j : j = l[t].trigger
    OBVIOUS
  <2>2. /\ j \in 1..(t - 1)
        /\ \A q \in j..(t - 1) : l[q].k = "turn.ended" =>
             q = t - 1 /\ (l[q].reason = "interrupted" => l[q].cause \in g.w)
    BY <1>3, <2>1 DEF FromMessage
  <2>3. ASSUME j < i PROVE FALSE
    <3>1. i \in j..(t - 1)
      BY <1>1, <2>2, <2>3
    <3> QED
      BY <2>2, <3>1
  <2> QED
    BY <1>1, <2>1, <2>2, <2>3
<1>4. CASE FromRestart(l, t, g)
  <2>1. PICK r : Reading(l, r)
    BY LogIsRead
  <2>2. PICK n : n = t - 1 /\ n \in 0..Len(l) /\ n \in Nat
    BY <1>1
  <2>3. PICK o : o = r[n]
    OBVIOUS
  <2>4. Recalls(l, n, o)
    BY <2>1, <2>2, <2>3, ReadingRecalls
  <2>5. o = Replay(SubSeq(l, 1, n))
    BY <2>1, <2>2, <2>3 DEF Reading
  <2>6. o.ended.reason = "restarted" /\ o.ended.trigger = l[t].trigger
    BY <1>4, <2>2, <2>5 DEF FromRestart
  <2>7. PICK e : e = o.ended.seq
    OBVIOUS
  <2>8. e # 0 /\ e \in 0..n /\ NoneEnded(l, e + 1, n)
    BY <2>4, <2>6, <2>7 DEF Recalls, None
  <2>9. /\ l[e].k = "turn.ended" /\ l[e].reason = "restarted"
        /\ \/ l[t].trigger = e
           \/ /\ l[t].trigger \in 1..(e - 1) /\ NoneEnded(l, l[t].trigger, e - 1)
    BY <2>4, <2>6, <2>7, <2>8 DEF Recalls
  <2>10. i < e
    <3>1. i # e
      BY <2>9
    <3>2. ASSUME i > e PROVE FALSE
      <4>1. i \in (e + 1)..n
        BY <1>1, <2>2, <2>8, <3>2
      <4> QED
        BY <2>8, <4>1 DEF NoneEnded
    <3> QED
      BY <1>1, <2>2, <2>8, <3>1, <3>2
  <2>11. CASE l[t].trigger = e
    BY <1>1, <2>2, <2>8, <2>10, <2>11
  <2>12. CASE l[t].trigger \in 1..(e - 1) /\ NoneEnded(l, l[t].trigger, e - 1)
    <3>1. PICK j : j = l[t].trigger
      OBVIOUS
    <3>2. j \in 1..(e - 1) /\ NoneEnded(l, j, e - 1)
      BY <2>12, <3>1
    <3>3. ASSUME j < i PROVE FALSE
      <4>1. i \in j..(e - 1)
        BY <1>1, <2>2, <2>8, <2>10, <3>2, <3>3
      <4> QED
        BY <3>2, <4>1 DEF NoneEnded
    <3> QED
      BY <1>1, <2>2, <2>8, <3>1, <3>2, <3>3
  <2> QED
    BY <2>9, <2>11, <2>12
<1> QED
  BY <1>2, <1>3, <1>4 DEF FoundedAt

----------------------------------------------------------------------------
(***************************************************************************)
(* Turns taken up again, one after the other.                              *)
(***************************************************************************)
\* Turns, and those that were triggered by the end of another.
Beginnings(l) == {t \in 1..Len(l) : l[t].k = "turn.started"}
TakenUp(l) == {t \in Beginnings(l) : l[l[t].trigger].k = "turn.ended"}

\* The turns taken up again up to a place with no other turn between them and it.
InARow(l, k) ==
  {t \in TakenUp(l) : t <= k /\ \A u \in Beginnings(l) : t < u /\ u <= k => u \in TakenUp(l)}

\* A turn taken up again is one a planned restart ended, as the replay has it.
LEMMA TakenUpIs ==
  ASSUME NEW l, IsLog(l), Clean(l), NEW g, Founded(l, g), NEW t \in TakenUp(l),
         NEW r, Reading(l, r)
  PROVE  /\ l[l[t].trigger].reason = "restarted"
         /\ r[t - 1].ended.reason = "restarted" /\ r[t - 1].ended.trigger = l[t].trigger
         /\ r[t - 1].restarts <= g.n /\ r[t - 1].restarts \in Nat
<1>1. Len(l) \in Nat
  BY SeqIsFunction DEF IsLog
<1>2. t \in 1..Len(l) /\ l[t].k = "turn.started" /\ l[l[t].trigger].k = "turn.ended"
  BY DEF TakenUp, Beginnings
<1>3. FoundedAt(l, t, g)
  BY <1>2 DEF Founded
<1>4. ~FromMessage(l, t, g)
  BY <1>2 DEF FromMessage
<1>5. FromRestart(l, t, g)
  BY <1>2, <1>3, <1>4 DEF FoundedAt
<1>6. PICK n : n = t - 1 /\ n \in 0..Len(l) /\ n \in Nat
  BY <1>1, <1>2
<1>7. PICK o : o = r[n]
  OBVIOUS
<1>8. Recalls(l, n, o)
  BY <1>6, <1>7, ReadingRecalls
<1>9. o = Replay(SubSeq(l, 1, n))
  BY <1>6, <1>7 DEF Reading
<1>10. /\ o.ended.reason = "restarted" /\ o.ended.trigger = l[t].trigger
       /\ o.restarts <= g.n
  BY <1>5, <1>6, <1>9 DEF FromRestart
<1>11. PICK e : e = o.ended.seq
  OBVIOUS
<1>12. e # 0
  BY <1>8, <1>10, <1>11 DEF Recalls, None
<1>13. /\ l[e].k = "turn.ended" /\ l[e].reason = "restarted" 
       /\ \/ l[t].trigger = e
          \/ l[l[t].trigger].k = "message.user"
  BY <1>8, <1>10, <1>11, <1>12 DEF Recalls
<1>14. l[t].trigger = e
  BY <1>2, <1>13
<1>15. o.restarts \in Nat
  BY <1>8 DEF Recalls
<1> QED
  BY <1>6, <1>7, <1>10, <1>13, <1>14, <1>15

\* While a turn runs, and after a planned restart, the replay has counted them all.
Counted(l, k, r) ==
  /\ r.book.open # 0 => Cardinality(InARow(l, k)) <= r.restarts
  /\ r.book.open = 0 /\ r.ended.reason = "restarted" =>
       Cardinality(InARow(l, k)) + 1 <= r.restarts

LEMMA InARowIsFinite ==
  ASSUME NEW l, IsLog(l), NEW k
  PROVE  IsFiniteSet(InARow(l, k)) /\ Cardinality(InARow(l, k)) \in Nat
<1>1. Len(l) \in Nat
  BY SeqIsFunction DEF IsLog
<1>2. IsFiniteSet(1..Len(l))
  BY <1>1, FS_Interval
<1>3. InARow(l, k) \subseteq 1..Len(l)
  BY DEF InARow, TakenUp, Beginnings
<1>4. IsFiniteSet(InARow(l, k))
  BY <1>2, <1>3, FS_Subset
<1> QED
  BY <1>4, FS_CardinalityType

LEMMA InARowGrows ==
  ASSUME NEW l, IsLog(l), NEW k \in 1..Len(l)
  PROVE  InARow(l, k) = IF k \notin Beginnings(l) THEN InARow(l, k - 1)
                        ELSE IF k \in TakenUp(l) THEN InARow(l, k - 1) \union {k}
                        ELSE {}
<1>1. Len(l) \in Nat
  BY SeqIsFunction DEF IsLog
<1>2. Beginnings(l) \subseteq 1..Len(l) /\ TakenUp(l) \subseteq Beginnings(l)
  BY DEF Beginnings, TakenUp
<1>3. CASE k \notin Beginnings(l)
  BY <1>1, <1>2, <1>3 DEF InARow
<1>4. CASE k \in Beginnings(l) /\ k \in TakenUp(l)
  BY <1>1, <1>2, <1>4 DEF InARow
<1>5. CASE k \in Beginnings(l) /\ k \notin TakenUp(l)
  BY <1>1, <1>2, <1>5 DEF InARow
<1> QED
  BY <1>3, <1>4, <1>5

LEMMA CountedStep ==
  ASSUME NEW l, IsLog(l), Clean(l), NEW g, Founded(l, g), NEW r, Reading(l, r),
         NEW k \in 1..Len(l), Counted(l, k - 1, r[k - 1])
  PROVE  Counted(l, k, r[k])
<1>1. Len(l) \in Nat
  BY SeqIsFunction DEF IsLog
<1>2. PICK n, e, o, s : n = k - 1 /\ e = l[k] /\ o = r[n] /\ s = r[k]
  OBVIOUS
<1>3. n \in 0..Len(l) /\ k \in 1..Len(l) /\ k = n + 1
  BY <1>1, <1>2
<1>4. s = ReplayEvent(o, e) /\ Shaped(o.book) /\ Legal(o.book, e)
  BY <1>2 DEF Reading
<1>5. Recalls(l, n, o)
  BY <1>2, <1>3, ReadingRecalls
<1>6. e.seq = k
  BY <1>2 DEF IsLog, IsEvent
<1>7. PICK c, d : c = Cardinality(InARow(l, n)) /\ d = Cardinality(InARow(l, k))
  OBVIOUS
<1>8. c \in Nat /\ d \in Nat /\ o.restarts \in Nat
  BY <1>5, <1>7, InARowIsFinite DEF Recalls
<1>9. /\ o.book.open # 0 => c <= o.restarts
      /\ o.book.open = 0 /\ o.ended.reason = "restarted" => c + 1 <= o.restarts
  BY <1>2, <1>7 DEF Counted
<1>10. /\ s.book = Record(o.book, e)
       /\ s.ended = IF e.k # "turn.ended" THEN o.ended
                    ELSE [seq |-> e.seq, reason |-> e.reason, cause |-> e.cause,
                          trigger |-> IF o.book.queued = {} THEN e.seq
                                                            ELSE Max(o.book.queued)]
       /\ s.restarts =
            CASE e.k = "turn.started" ->
                   IF o.ended.reason = "restarted" /\ o.ended.trigger = e.trigger
                     THEN o.restarts ELSE 0
              [] e.k = "turn.ended" -> IF e.reason = "restarted" THEN o.restarts + 1 ELSE 0
              [] OTHER -> o.restarts
  BY <1>4 DEF ReplayEvent
<1>11. s.book.open = IF e.k = "turn.started" THEN k
                     ELSE IF e.k = "turn.ended" THEN 0 ELSE o.book.open
  <2>1. PICK b : b = o.book
    OBVIOUS
  <2>2. Shaped(b)
    BY <1>4, <2>1
  <2>3. Record(b, e).open = IF e.k = "turn.started" THEN e.seq
                            ELSE IF e.k = "turn.ended" THEN 0 ELSE b.open
    BY <2>2, RecordNumbers
  <2> QED
    BY <1>6, <1>10, <2>1, <2>3
<1>12. CASE e.k = "turn.started"
  <2>1. o.book.open = 0
    BY <1>4, <1>12 DEF Legal, LegalTurn, LegalStart
  <2>2. k \in Beginnings(l)
    BY <1>2, <1>12 DEF Beginnings
  <2>3. s.book.open = k /\ k # 0
    BY <1>11, <1>12
  <2>4. CASE k \in TakenUp(l)
    <3>1. o.ended.reason = "restarted" /\ o.ended.trigger = e.trigger
      BY <1>2, <2>4, TakenUpIs
    <3>2. s.restarts = o.restarts
      BY <1>10, <1>12, <3>1
    <3>3. InARow(l, k) = InARow(l, n) \union {k}
      BY <1>2, <2>2, <2>4, InARowGrows
    <3>4. k \notin InARow(l, n)
      BY <1>3 DEF InARow
    <3>5. d = c + 1
      BY <1>7, <3>3, <3>4, InARowIsFinite, FS_AddElement
    <3>6. d <= s.restarts
      BY <1>9, <2>1, <3>1, <3>2, <3>5
    <3> QED
      BY <1>2, <1>7, <2>3, <3>6 DEF Counted
  <2>5. CASE k \notin TakenUp(l)
    <3>1. InARow(l, k) = {}
      BY <2>2, <2>5, InARowGrows
    <3>2. d = 0
      BY <1>7, <3>1, FS_EmptySet
    <3>3. s.restarts \in Nat
      BY <1>8, <1>10, <1>12
    <3> QED
      BY <1>2, <1>7, <2>3, <3>2, <3>3 DEF Counted
  <2> QED
    BY <2>4, <2>5
<1>13. CASE e.k # "turn.started"
  <2>1. k \notin Beginnings(l)
    BY <1>2, <1>13 DEF Beginnings
  <2>2. d = c
    BY <1>2, <1>7, <2>1, InARowGrows
  <2>3. CASE e.k = "turn.ended"
    <3>1. o.book.open # 0
      <4>1. LegalTurn(o.book, e)
        BY <1>4 DEF Legal
      <4>2. "turn.ended" \in InTurnOnly
        BY DEF InTurnOnly
      <4> QED
        BY <2>3, <4>1, <4>2 DEF LegalTurn
    <3>2. c <= o.restarts
      BY <1>9, <3>1
    <3>3. s.book.open = 0 /\ s.ended.reason = e.reason
      BY <1>10, <1>11, <2>3
    <3>4. e.reason = "restarted" => s.restarts = o.restarts + 1
      BY <1>10, <2>3
    <3>5. e.reason = "restarted" => d + 1 <= s.restarts
      BY <1>8, <2>2, <3>2, <3>4
    <3> QED
      BY <1>2, <1>7, <3>3, <3>5 DEF Counted
  <2>4. CASE e.k # "turn.ended"
    <3>1. s.book.open = o.book.open /\ s.ended = o.ended /\ s.restarts = o.restarts
      BY <1>10, <1>11, <1>13, <2>4
    <3> QED
      BY <1>2, <1>7, <1>9, <2>2, <3>1 DEF Counted
  <2> QED
    BY <2>3, <2>4
<1> QED
  BY <1>12, <1>13

\* Turns are taken up again only so often in a row.
LEMMA TakenUpSoOften ==
  ASSUME NEW l, IsLog(l), Clean(l), NEW g, Founded(l, g), g.n \in Nat,
         NEW t \in TakenUp(l)
  PROVE  l[l[t].trigger].reason = "restarted" /\ Cardinality(InARow(l, t)) <= g.n
<1>1. PICK r : Reading(l, r)
  BY LogIsRead
<1> DEFINE n == Len(l)
           A == {k \in 0..n : Counted(l, k, r[k])}
<1>2. n \in Nat
  BY SeqIsFunction DEF IsLog
<1>3. 0 \in A
  <2>1. PICK o : o = NothingReplayed
    OBVIOUS
  <2>2. o.book.open = 0 /\ o.ended.reason = None
    BY <2>1 DEF NothingReplayed, NotEnded, EmptyBook
  <2>3. Counted(l, 0, o)
    BY <2>2 DEF Counted, None
  <2> QED
    BY <1>1, <1>2, <2>1, <2>3 DEF Reading
<1>4. ASSUME NEW k \in 1..n, k - 1 \in A PROVE k \in A
  <2>1. Counted(l, k, r[k])
    BY <1>1, <1>4, CountedStep
  <2> QED
    BY <1>2, <2>1
<1>5. 0..n \subseteq A
  <2> HIDE DEF A
  <2> QED
    BY <1>2, <1>3, <1>4, Upwards
<1>6. t \in 1..Len(l) /\ l[t].k = "turn.started" /\ t \in Beginnings(l)
  BY DEF TakenUp, Beginnings
<1>7. PICK q : q = t - 1 /\ q \in 0..n /\ t = q + 1
  BY <1>2, <1>6
<1>8. PICK o : o = r[q]
  OBVIOUS
<1>9. /\ l[l[t].trigger].reason = "restarted" /\ o.ended.reason = "restarted"
      /\ o.restarts <= g.n /\ o.restarts \in Nat
  BY <1>1, <1>7, <1>8, TakenUpIs
<1>10. Counted(l, q, o)
  BY <1>5, <1>7, <1>8
<1>11. o.book.open = 0
  <2>1. Legal(o.book, l[t])
    BY <1>1, <1>6, <1>7, <1>8 DEF Reading
  <2> QED
    BY <1>6, <2>1 DEF Legal, LegalTurn, LegalStart
<1>12. PICK c, d : c = Cardinality(InARow(l, q)) /\ d = Cardinality(InARow(l, t))
  OBVIOUS
<1>13. c \in Nat /\ c + 1 <= o.restarts
  BY <1>9, <1>10, <1>11, <1>12, InARowIsFinite DEF Counted
<1>14. d = c + 1
  <2>1. InARow(l, t) = InARow(l, q) \union {t}
    BY <1>6, <1>7, InARowGrows
  <2>2. t \notin InARow(l, q)
    BY <1>7 DEF InARow
  <2> QED
    BY <1>12, <2>1, <2>2, InARowIsFinite, FS_AddElement
<1> QED
  BY <1>9, <1>12, <1>13, <1>14

=============================================================================
