----------------------------- MODULE RuleProofs -----------------------------
(***************************************************************************)
(* Lemmas about the rule book: what recording a legal event does to it,    *)
(* field by field, and that it stays the book of a log of so many events.  *)
(***************************************************************************)
EXTENDS LedgerRules, SequenceTheorems, WellFoundedInduction, TLAPS

----------------------------------------------------------------------------
(***************************************************************************)
(* The book of a log of n events.                                          *)
(***************************************************************************)
Compactions(n) == [turn : 1..n, upto : 0..n]

Reverted(n) == [turns : Seq(1..n), compactions : Seq(Compactions(n))]

Fields ==
  { "next", "open", "lastReply", "pending", "asking", "questioning", "queued",
    "turns", "compactions", "undone", "overheard", "answered" }

Shaped(b) == DOMAIN b = Fields

\* The fields of the book of a log of n events.
Typed(b, n) ==
  /\ b.next = n + 1
  /\ b.open \in 0..n
  /\ b.lastReply \in 0..n
  /\ b.pending \subseteq (1..n) \X (Nat \ {0})
  /\ b.asking \subseteq b.pending
  /\ b.questioning \subseteq b.pending
  /\ b.queued \subseteq 1..n
  /\ b.turns \in Seq(1..n)
  /\ b.compactions \in Seq(Compactions(n))
  /\ b.undone \in Seq(Reverted(n))
  /\ b.overheard \subseteq 1..n
  /\ b.answered \subseteq 1..n

\* What the actions offer besides what Legal demands.
Fit(e) ==
  /\ e.seq \in Nat /\ e.turn \in Nat
  /\ e.k = "message.assistant" => \A i \in DOMAIN e.calls : i \in Nat \ {0}
  /\ e.k = "context.compacted" => e.upto \in Nat
  /\ e.k = "turn.reverted" => e.turns \in Seq(Nat)

----------------------------------------------------------------------------
(***************************************************************************)
(* Sequences.                                                              *)
(***************************************************************************)
\* What a step does to the log.
LEMMA Appended ==
  ASSUME NEW s, s \in Seq(Range(s)), NEW e
  PROVE  LET t == Append(s, e) IN
         /\ t \in Seq(Range(t))
         /\ Len(t) = Len(s) + 1
         /\ \A i \in 1..Len(s) : t[i] = s[i]
         /\ t[Len(s) + 1] = e
<1> DEFINE S == Range(s) \union {e}
           t == Append(s, e)
<1>1. s \in Seq(S)
  BY SeqMonotonic
<1>2. /\ t \in Seq(S) /\ Len(t) = Len(s) + 1
      /\ \A i \in 1..Len(s) : t[i] = s[i]
      /\ t[Len(s) + 1] = e
  BY <1>1, AppendProperties
<1>3. t \in Seq(Range(t))
  BY <1>2, SeqOfRange DEF Range
<1> QED
  BY <1>2, <1>3

\* The number of compactions before a turn (KeptBefore) exists and is where they end.
LEMMA KeptBeforeBounded ==
  ASSUME NEW size \in Nat, NEW c \in Seq(Compactions(size)), NEW turn \in Int
  PROVE  LET kept == KeptBefore(c, turn) IN
         /\ kept \in 0..Len(c)
         /\ \A i \in 1..kept : c[i].turn < turn
         /\ kept < Len(c) => c[kept + 1].turn >= turn
<1> DEFINE Stops(n) == n < Len(c) => c[n + 1].turn >= turn
           T == {n \in 0..Len(c) : Stops(n)}
<1>1. Len(c) \in T /\ T \subseteq Nat
  BY LenProperties
<1>2. PICK n \in T : \A m \in T : ~(<<m, n>> \in OpToRel(<, Nat))
  BY <1>1, WFMin, NatLessThanWellFounded
<1>3. \A m \in T : ~(m < n)
  BY <1>1, <1>2 DEF OpToRel
<1>4. \A i \in 1..n : c[i].turn < turn
  <2> SUFFICES ASSUME NEW i \in 1..n PROVE c[i].turn < turn
    OBVIOUS
  <2>1. i - 1 \in 0..Len(c) /\ i - 1 < n /\ i - 1 + 1 = i
    BY <1>1
  <2>2. i - 1 \notin T
    BY <2>1, <1>3
  <2>3. c[i] \in Compactions(size)
    BY <1>1
  <2> QED
    BY <2>1, <2>2, <2>3 DEF Compactions
<1> QED
  BY <1>4 DEF KeptBefore

----------------------------------------------------------------------------
(***************************************************************************)
(* A legal event keeps the book well formed.                               *)
(***************************************************************************)
\* What holds of a book of n events holds of one of n + 1.
LEMMA BooksGrow ==
  ASSUME NEW n \in Nat
  PROVE  /\ 0..n \subseteq 0..(n + 1) /\ 1..n \subseteq 1..(n + 1)
         /\ Seq(1..n) \subseteq Seq(1..(n + 1))
         /\ Compactions(n) \subseteq Compactions(n + 1)
         /\ Seq(Compactions(n)) \subseteq Seq(Compactions(n + 1))
         /\ Reverted(n) \subseteq Reverted(n + 1)
         /\ Seq(Reverted(n)) \subseteq Seq(Reverted(n + 1))
<1>1. 0..n \subseteq 0..(n + 1) /\ 1..n \subseteq 1..(n + 1)
  OBVIOUS
<1>2. Seq(1..n) \subseteq Seq(1..(n + 1))
  BY <1>1, SeqMonotonic, Zenon
<1>3. Compactions(n) \subseteq Compactions(n + 1)
  BY <1>1 DEF Compactions
<1>4. Seq(Compactions(n)) \subseteq Seq(Compactions(n + 1))
  BY <1>3, SeqMonotonic, Zenon
<1>5. Reverted(n) \subseteq Reverted(n + 1)
  BY <1>2, <1>4 DEF Reverted
<1>6. Seq(Reverted(n)) \subseteq Seq(Reverted(n + 1))
  BY <1>5, SeqMonotonic, Zenon
<1> QED
  BY <1>1, <1>2, <1>3, <1>4, <1>5, <1>6

\* The turns an undo names are turns of the log, those the book lists from the
\* first one on; what it takes away and what it leaves are sequences again.
LEMMA RevertTyped ==
  ASSUME NEW n \in Nat, NEW b, Typed(b, n), NEW e, LegalRevert(b, e),
         e.turns \in Seq(Nat)
  PROVE  LET at   == PositionOf(b.turns, e.turns[1])
             kept == KeptBefore(b.compactions, e.turns[1])
         IN  /\ at \in 1..Len(b.turns)
             /\ b.turns[at] = e.turns[1] /\ e.turns = SubSeq(b.turns, at, Len(b.turns))
             /\ kept \in 0..Len(b.compactions)
             /\ e.turns \in Seq(1..n)
             /\ SubSeq(b.turns, 1, at - 1) \in Seq(1..n)
             /\ SubSeq(b.compactions, 1, kept) \in Seq(Compactions(n))
             /\ SubSeq(b.compactions, kept + 1, Len(b.compactions))
                  \in Seq(Compactions(n))
<1> DEFINE at == PositionOf(b.turns, e.turns[1])
           kept == KeptBefore(b.compactions, e.turns[1])
<1>1. b.turns \in Seq(1..n) /\ b.compactions \in Seq(Compactions(n))
  BY DEF Typed
<1>2. 1 \in DOMAIN e.turns /\ e.turns[1] \in Int
  BY DEF LegalRevert
<1>3. at \in 1..Len(b.turns) /\ b.turns[at] = e.turns[1]
  BY <1>1, <1>2 DEF LegalRevert, PositionOf
<1>4. e.turns = SubSeq(b.turns, at, Len(b.turns))
  BY DEF LegalRevert, TurnsFrom
<1>5. kept \in 0..Len(b.compactions)
  BY <1>1, <1>2, KeptBeforeBounded, Zenon
<1> HIDE DEF at, kept
<1>6. \A i \in 1..Len(b.turns) : b.turns[i] \in 1..n
  BY <1>1, ElementOfSeq
<1>7. e.turns \in Seq(1..n)
  BY <1>1, <1>3, <1>4, <1>6, SubSeqProperties
<1>8. SubSeq(b.turns, 1, at - 1) \in Seq(1..n)
  BY <1>1, <1>3, <1>6, SubSeqProperties
<1>9. \A i \in 1..Len(b.compactions) : b.compactions[i] \in Compactions(n)
  BY <1>1, ElementOfSeq
<1>10. /\ SubSeq(b.compactions, 1, kept) \in Seq(Compactions(n))
       /\ SubSeq(b.compactions, kept + 1, Len(b.compactions)) \in Seq(Compactions(n))
  BY <1>1, <1>5, <1>9, SubSeqProperties
<1> QED
  BY <1>3, <1>4, <1>5, <1>7, <1>8, <1>10 DEF at, kept

(***************************************************************************)
(* What an event changes, field by field instead of kind by kind.          *)
(***************************************************************************)
LEMMA RecordNumbers ==
  ASSUME NEW b, Shaped(b), NEW e
  PROVE  /\ Shaped(Record(b, e))
         /\ Record(b, e).next = e.seq + 1
         /\ Record(b, e).open = IF e.k = "turn.started" THEN e.seq
                                ELSE IF e.k = "turn.ended" THEN 0 ELSE b.open
         /\ Record(b, e).lastReply =
              IF e.k = "message.assistant" THEN e.seq ELSE b.lastReply
BY DEF Shaped, Fields, Record, RecordBody, RecordStarted, RecordJoined, RecordUser,
       RecordWithdrawn, RecordCalled, RecordAssistant, RecordResult,
       RecordRequested, RecordDecided, RecordAsked, RecordAnswered,
       RecordEnded, RecordCompacted, RecordReverted, RecordUnreverted

LEMMA RecordPending ==
  ASSUME NEW b, Shaped(b), NEW e
  PROVE  Record(b, e).pending =
           IF e.k = "message.assistant" THEN b.pending \union Range(e.calls)
           ELSE IF e.k = "tool.result" THEN b.pending \ {e.call}
           ELSE b.pending
BY DEF Shaped, Fields, Record, RecordBody, RecordStarted, RecordJoined, RecordUser,
       RecordWithdrawn, RecordCalled, RecordAssistant, RecordResult,
       RecordRequested, RecordDecided, RecordAsked, RecordAnswered,
       RecordEnded, RecordCompacted, RecordReverted, RecordUnreverted

LEMMA RecordAsking ==
  ASSUME NEW b, Shaped(b), NEW e
  PROVE  /\ Record(b, e).asking =
              IF e.k = "approval.requested" THEN b.asking \union {e.call}
              ELSE IF e.k \in {"approval.decided", "tool.result"}
                THEN b.asking \ {e.call}
              ELSE b.asking
         /\ Record(b, e).questioning =
              IF e.k = "question.asked" THEN b.questioning \union {e.call}
              ELSE IF e.k \in {"question.answered", "tool.result"}
                THEN b.questioning \ {e.call}
              ELSE b.questioning
BY DEF Shaped, Fields, Record, RecordBody, RecordStarted, RecordJoined, RecordUser,
       RecordWithdrawn, RecordCalled, RecordAssistant, RecordResult,
       RecordRequested, RecordDecided, RecordAsked, RecordAnswered,
       RecordEnded, RecordCompacted, RecordReverted, RecordUnreverted

LEMMA RecordQueue ==
  ASSUME NEW b, Shaped(b), NEW e
  PROVE  Record(b, e).queued =
           IF e.k \in {"turn.started", "turn.ended"} THEN {}
           ELSE IF e.k = "message.user" /\ e.turn # 0 /\ e.turn = b.open
             THEN b.queued \union {e.seq}
           ELSE IF e.k = "message.withdrawn" THEN b.queued \ Range(e.msgs)
           ELSE IF e.k = "message.assistant" \/ (e.k = "model.called" /\ ~e.aside)
             THEN {q \in b.queued : q > e.seen}
           ELSE b.queued
BY DEF Shaped, Fields, Record, RecordBody, RecordStarted, RecordJoined, RecordUser,
       RecordWithdrawn, RecordCalled, RecordAssistant, RecordResult,
       RecordRequested, RecordDecided, RecordAsked, RecordAnswered,
       RecordEnded, RecordCompacted, RecordReverted, RecordUnreverted

LEMMA RecordTriggers ==
  ASSUME NEW b, Shaped(b), NEW e
  PROVE  /\ Record(b, e).overheard =
              IF e.k = "message.user" /\ e.ambient
                THEN b.overheard \union {e.seq} ELSE b.overheard
         /\ Record(b, e).answered =
              IF e.k \in {"turn.started", "turn.joined"}
                THEN b.answered \union Range(e.triggers) ELSE b.answered
BY DEF Shaped, Fields, Record, RecordBody, RecordStarted, RecordJoined, RecordUser,
       RecordWithdrawn, RecordCalled, RecordAssistant, RecordResult,
       RecordRequested, RecordDecided, RecordAsked, RecordAnswered,
       RecordEnded, RecordCompacted, RecordReverted, RecordUnreverted

LEMMA RecordUndo ==
  ASSUME NEW b, Shaped(b), NEW e, e.k = "turn.reverted"
  PROVE  LET at   == PositionOf(b.turns, e.turns[1])
             kept == KeptBefore(b.compactions, e.turns[1])
         IN  /\ Record(b, e).turns = SubSeq(b.turns, 1, at - 1)
             /\ Record(b, e).compactions = SubSeq(b.compactions, 1, kept)
             /\ Record(b, e).undone =
                  Append(b.undone,
                         [turns |-> e.turns,
                          compactions |-> SubSeq(b.compactions, kept + 1,
                                                 Len(b.compactions))])
BY DEF Shaped, Fields, Record, RecordBody, RecordStarted, RecordJoined, RecordUser,
       RecordWithdrawn, RecordCalled, RecordAssistant, RecordResult,
       RecordRequested, RecordDecided, RecordAsked, RecordAnswered,
       RecordEnded, RecordCompacted, RecordReverted, RecordUnreverted

LEMMA RecordRedo ==
  ASSUME NEW b, Shaped(b), NEW e, e.k = "turn.unreverted"
  PROVE  /\ Record(b, e).turns = b.turns \o Last(b.undone).turns
         /\ Record(b, e).compactions = b.compactions \o Last(b.undone).compactions
         /\ Record(b, e).undone = Front(b.undone)
BY DEF Shaped, Fields, Record, RecordBody, RecordStarted, RecordJoined, RecordUser,
       RecordWithdrawn, RecordCalled, RecordAssistant, RecordResult,
       RecordRequested, RecordDecided, RecordAsked, RecordAnswered,
       RecordEnded, RecordCompacted, RecordReverted, RecordUnreverted

LEMMA RecordOnward ==
  ASSUME NEW b, Shaped(b), NEW e, e.k \notin {"turn.reverted", "turn.unreverted"}
  PROVE  /\ Record(b, e).turns =
              IF e.k = "turn.started" THEN Append(b.turns, e.seq) ELSE b.turns
         /\ Record(b, e).compactions =
              IF e.k = "context.compacted" /\ e.turn # 0
                THEN Append(b.compactions, [turn |-> e.turn, upto |-> e.upto])
                ELSE b.compactions
         /\ Record(b, e).undone =
              IF e.k \in {"turn.started", "context.compacted"} THEN << >>
              ELSE b.undone
BY DEF Shaped, Fields, Record, RecordBody, RecordStarted, RecordJoined, RecordUser,
       RecordWithdrawn, RecordCalled, RecordAssistant, RecordResult,
       RecordRequested, RecordDecided, RecordAsked, RecordAnswered,
       RecordEnded, RecordCompacted, RecordReverted, RecordUnreverted

\* A legal event keeps the book well formed.
LEMMA RecordTyped ==
  ASSUME NEW n \in Nat, NEW b, Shaped(b), Typed(b, n), NEW e, Fit(e), Legal(b, e)
  PROVE  Typed(Record(b, e), n + 1)
<1> DEFINE r == Record(b, e)
<1>1. e.seq = n + 1 /\ e.seq \in 1..(n + 1)
  BY DEF Legal, Typed
<1>2. /\ r.next = n + 1 + 1
      /\ r.open \in 0..(n + 1)
      /\ r.lastReply \in 0..(n + 1)
  <2>1. b.open \in 0..n /\ b.lastReply \in 0..n
    BY DEF Typed
  <2>2. /\ r.next = e.seq + 1 /\ r.open \in {e.seq, 0, b.open}
        /\ r.lastReply \in {e.seq, b.lastReply}
    BY RecordNumbers
  <2> QED
    BY <1>1, <2>1, <2>2
<1>3. r.pending \subseteq (1..(n + 1)) \X (Nat \ {0})
  <2>1. e.k = "message.assistant" =>
          Range(e.calls) \subseteq (1..(n + 1)) \X (Nat \ {0})
    BY <1>1 DEF Fit, Legal, LegalBody, Range
  <2>2. b.pending \subseteq (1..(n + 1)) \X (Nat \ {0})
    BY DEF Typed
  <2> QED
    BY <2>1, <2>2, RecordPending
<1>4. r.asking \subseteq r.pending /\ r.questioning \subseteq r.pending
  <2>1. b.asking \subseteq b.pending /\ b.questioning \subseteq b.pending
    BY DEF Typed
  <2>2. e.k \in {"approval.requested", "question.asked"} => e.call \in b.pending
    BY DEF Legal, LegalBody
  <2>3. e.k # "tool.result" => b.pending \subseteq r.pending
    BY RecordPending
  <2>4. e.k = "tool.result" => r.pending = b.pending \ {e.call}
    BY RecordPending
  <2> QED
    BY <2>1, <2>2, <2>3, <2>4, RecordAsking
<1>5. r.queued \subseteq 1..(n + 1) /\ r.overheard \subseteq 1..(n + 1)
  <2>1. b.queued \subseteq 1..n /\ b.overheard \subseteq 1..n
    BY DEF Typed
  <2>2. r.queued \subseteq b.queued \union {e.seq}
    BY RecordQueue
  <2>3. r.overheard \subseteq b.overheard \union {e.seq}
    BY RecordTriggers
  <2> QED
    BY <1>1, <2>1, <2>2, <2>3
<1>6. r.answered \subseteq 1..(n + 1)
  <2>1. e.k \in {"turn.started", "turn.joined"} => Range(e.triggers) \subseteq b.overheard
    BY DEF Legal, LegalTurn, LegalStart, LegalBody, LegalTriggers, Range
  <2>2. b.answered \subseteq 1..n /\ b.overheard \subseteq 1..n
    BY DEF Typed
  <2>3. r.answered \subseteq b.answered \union b.overheard
    BY <2>1, RecordTriggers
  <2> QED
    BY <2>2, <2>3
<1>7. /\ b.turns \in Seq(1..(n + 1))
      /\ b.compactions \in Seq(Compactions(n + 1))
      /\ b.undone \in Seq(Reverted(n + 1))
  BY BooksGrow DEF Typed
<1>8. CASE e.k = "turn.reverted"
  <2> DEFINE at == PositionOf(b.turns, e.turns[1])
             kept == KeptBefore(b.compactions, e.turns[1])
             gone == [turns |-> e.turns,
                      compactions |-> SubSeq(b.compactions, kept + 1,
                                             Len(b.compactions))]
  <2>1. LegalRevert(b, e) /\ e.turns \in Seq(Nat)
    BY <1>8 DEF Legal, LegalBody, Fit
  <2>2. /\ SubSeq(b.turns, 1, at - 1) \in Seq(1..n)
        /\ SubSeq(b.compactions, 1, kept) \in Seq(Compactions(n))
        /\ gone \in Reverted(n)
    BY <2>1, RevertTyped DEF Reverted
  <2> HIDE DEF at, kept, gone
  <2>3. /\ SubSeq(b.turns, 1, at - 1) \in Seq(1..(n + 1))
        /\ SubSeq(b.compactions, 1, kept) \in Seq(Compactions(n + 1))
        /\ gone \in Reverted(n + 1)
    BY <2>2, BooksGrow
  <2>4. Append(b.undone, gone) \in Seq(Reverted(n + 1))
    BY <1>7, <2>3, AppendProperties
  <2>5. /\ r.turns = SubSeq(b.turns, 1, at - 1)
        /\ r.compactions = SubSeq(b.compactions, 1, kept)
        /\ r.undone = Append(b.undone, gone)
    BY <1>8, RecordUndo DEF at, kept, gone
  <2> QED
    BY <1>2, <1>3, <1>4, <1>5, <1>6, <2>3, <2>4, <2>5 DEF Typed
<1>9. CASE e.k = "turn.unreverted"
  <2> DEFINE last == b.undone[Len(b.undone)]
  <2>1. b.undone # << >>
    BY <1>9 DEF Legal, LegalBody
  <2>2. last \in Reverted(n + 1) /\ Front(b.undone) \in Seq(Reverted(n + 1))
    BY <1>7, <2>1 DEF Front
  <2> HIDE DEF last
  <2>3. /\ b.turns \o last.turns \in Seq(1..(n + 1))
        /\ b.compactions \o last.compactions \in Seq(Compactions(n + 1))
    <3>1. /\ last.turns \in Seq(1..(n + 1))
          /\ last.compactions \in Seq(Compactions(n + 1))
      BY <2>2, BooksGrow DEF Reverted
    <3> QED
      BY <1>7, <3>1, ConcatProperties
  <2>4. /\ r.turns = b.turns \o last.turns
        /\ r.compactions = b.compactions \o last.compactions
        /\ r.undone = Front(b.undone)
    BY <1>9, RecordRedo DEF Last, last
  <2> QED
    BY <1>2, <1>3, <1>4, <1>5, <1>6, <2>2, <2>3, <2>4 DEF Typed
<1>10. CASE e.k \notin {"turn.reverted", "turn.unreverted"}
  <2>1. r.turns \in Seq(1..(n + 1))
    <3>1. Append(b.turns, e.seq) \in Seq(1..(n + 1))
      BY <1>1, <1>7, AppendProperties
    <3> QED
      BY <1>7, <1>10, <3>1, RecordOnward
  <2>2. r.undone \in Seq(Reverted(n + 1))
    BY <1>7, <1>10, RecordOnward, EmptySeq
  <2>3. r.compactions \in Seq(Compactions(n + 1))
    <3>1. e.k = "context.compacted" =>
            [turn |-> e.turn, upto |-> e.upto] \in Compactions(n + 1)
      BY <1>1 DEF Fit, Legal, LegalTurn, LegalBody, Compactions, Typed, InTurnOnly
    <3>2. e.k = "context.compacted" =>
            Append(b.compactions, [turn |-> e.turn, upto |-> e.upto])
              \in Seq(Compactions(n + 1))
      BY <1>7, <3>1, AppendProperties
    <3> QED
      BY <1>7, <1>10, <3>2, RecordOnward
  <2> QED
    BY <1>2, <1>3, <1>4, <1>5, <1>6, <2>1, <2>2, <2>3 DEF Typed
<1> QED
  BY <1>8, <1>9, <1>10

=============================================================================
