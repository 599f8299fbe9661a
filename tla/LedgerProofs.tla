---------------------------- MODULE LedgerProofs ----------------------------
(***************************************************************************)
(* Proofs about the rule book of Ledger: the type of the book, and every   *)
(* property of it, whatever events are offered and however long the log    *)
(* grows.                                                                  *)
(***************************************************************************)
EXTENDS Ledger, RuleProofs, FiniteSetTheorems

----------------------------------------------------------------------------
(***************************************************************************)
(* The book is typed.                                                      *)
(***************************************************************************)
\* Inductive: the log is a sequence and the book is one of a log that long.
TypeInv ==
  /\ log \in Seq(Range(log))
  /\ Shaped(book)
  /\ Typed(book, Len(log))

\* Whatever action offers an event, it offers a fit one.
LEMMA NextOffers ==
  ASSUME TypeInv, Next
  PROVE  \E e : Fit(e) /\ Offer(e)
<1>1. Len(log) \in Nat /\ book.next = Len(log) + 1 /\ book.open \in 0..Len(log)
  BY LenProperties DEF TypeInv, Typed
<1>2. book.next \in Nat /\ book.open \in Nat /\ Turns \subseteq Nat
  BY <1>1 DEF Turns
<1>3. Numbers \subseteq Nat
  BY <1>1 DEF Numbers
<1>4. \A calls \in CallLists : \A i \in DOMAIN calls : i \in Nat \ {0}
  BY DEF CallLists
<1>5. TurnLists \subseteq Seq(Nat)
  <2>1. book.turns \in Seq(1..Len(log)) /\ book.undone \in Seq(Reverted(Len(log)))
    BY DEF TypeInv, Typed
  <2>2. \A i, j \in DOMAIN book.turns : SubSeq(book.turns, i, j) \in Seq(Nat)
    <3>1. \A i \in 1..Len(book.turns) : book.turns[i] \in Nat
      BY <1>1, <2>1, ElementOfSeq
    <3>2. DOMAIN book.turns = 1..Len(book.turns)
      BY <2>1, LenProperties
    <3>3. ASSUME NEW i \in DOMAIN book.turns, NEW j \in DOMAIN book.turns
          PROVE  SubSeq(book.turns, i, j) \in Seq(Nat)
      <4>1. i \in Int /\ j \in Int /\ \A k \in i..j : book.turns[k] \in Nat
        BY <2>1, <3>1, <3>2, <3>3, LenProperties
      <4> QED
        BY <4>1, SubSeqProperties
    <3> QED
      BY <3>3
  <2>3. \A i \in DOMAIN book.undone : book.undone[i].turns \in Seq(Nat)
    <3>1. \A i \in DOMAIN book.undone : book.undone[i] \in Reverted(Len(log))
      BY <2>1, ElementOfSeq, LenProperties
    <3>2. Seq(1..Len(log)) \subseteq Seq(Nat)
      BY <1>1, SeqMonotonic
    <3> QED
      BY <3>1, <3>2 DEF Reverted
  <2>4. \A turn \in Turns \ {0} : <<turn>> \in Seq(Nat)
    BY <1>2
  <2> DEFINE Part(i, j) == SubSeq(book.turns, i, j)
             Parts == UNION {{Part(i, j) : j \in DOMAIN book.turns} :
                               i \in DOMAIN book.turns}
             Singles == {<<turn>> : turn \in Turns \ {0}}
             Undone == {book.undone[i].turns : i \in DOMAIN book.undone}
  <2>5. TurnLists = Parts \union Singles \union Undone
    BY DEF TurnLists
  <2>6. \A i, j \in DOMAIN book.turns : Part(i, j) \in Seq(Nat)
    BY <2>2
  <2> HIDE DEF Part
  <2>7. Parts \subseteq Seq(Nat)
    BY <2>6
  <2>8. Singles \subseteq Seq(Nat) /\ Undone \subseteq Seq(Nat)
    BY <2>3, <2>4
  <2> HIDE DEF Parts, Singles, Undone
  <2> QED
    BY <2>5, <2>7, <2>8
<1> HIDE DEF TurnLists, Turns, Numbers, CallLists
<1> USE DEF Fit
<1>6. CASE SessionCreated \/ FilesRestored \/ TurnEnded \/ SessionRecapped
  BY <1>2, <1>6 DEF SessionCreated, FilesRestored, TurnEnded, SessionRecapped, Event
<1>7. CASE TurnStarted \/ TurnJoined
  BY <1>2, <1>7 DEF TurnStarted, TurnJoined
<1>8. CASE MessageUser \/ MessageWithdrawn \/ ModelCalled
  BY <1>2, <1>8 DEF MessageUser, MessageWithdrawn, ModelCalled
<1>9. CASE MessageAssistant
  BY <1>2, <1>4, <1>9 DEF MessageAssistant
<1>10. CASE \/ ToolResult \/ ApprovalRequested \/ ApprovalDecided
            \/ QuestionAsked \/ QuestionAnswered
  BY <1>2, <1>10
     DEF ToolResult, ApprovalRequested, ApprovalDecided, QuestionAsked,
         QuestionAnswered, OnCall
<1>11. CASE ContextCompacted
  BY <1>2, <1>3, <1>11 DEF ContextCompacted
<1>12. CASE TurnReverted \/ TurnUnreverted
  BY <1>2, <1>5, <1>12 DEF TurnReverted, TurnUnreverted
<1> QED
  BY <1>6, <1>7, <1>8, <1>9, <1>10, <1>11, <1>12 DEF Next

\* What an offer that is accepted does to log and book.
LEMMA OfferEffect ==
  ASSUME TypeInv, NEW e, Fit(e), Offer(e)
  PROVE  /\ log' \in Seq(Range(log'))
         /\ Len(log') = Len(log) + 1
         /\ \A i \in 1..Len(log) : log'[i] = log[i]
         /\ log'[Len(log) + 1] = e
         /\ e.seq = Len(log) + 1
         /\ book' = Record(book, e)
         /\ Legal(book, e)
         /\ TypeInv'
<1>1. log \in Seq(Range(log)) /\ Shaped(book) /\ Typed(book, Len(log)) /\ Len(log) \in Nat
  BY LenProperties DEF TypeInv
<1>2. log' = Append(log, e) /\ book' = Record(book, e) /\ Legal(book, e)
  BY DEF Offer
<1>3. /\ log' \in Seq(Range(log'))
      /\ Len(log') = Len(log) + 1
      /\ \A i \in 1..Len(log) : log'[i] = log[i]
      /\ log'[Len(log) + 1] = e
  BY <1>1, <1>2, Appended
<1>4. e.seq = Len(log) + 1
  BY <1>1, <1>2 DEF Legal, Typed
<1>5. Shaped(book') /\ Typed(book', Len(log) + 1)
  BY <1>1, <1>2, RecordNumbers, RecordTyped
<1> QED
  BY <1>2, <1>3, <1>4, <1>5 DEF TypeInv

LEMMA TypeInvHolds == Spec => []TypeInv
<1>1. Init => TypeInv
  <2> SUFFICES ASSUME Init PROVE TypeInv
    OBVIOUS
  <2>1. log = << >> /\ Len(log) = 0 /\ log \in Seq(Range(log))
    BY EmptySeq DEF Init
  <2>2. /\ << >> \in Seq(1..0) /\ << >> \in Seq(Compactions(0))
        /\ << >> \in Seq(Reverted(0))
    BY EmptySeq
  <2>3. Shaped(book) /\ Typed(book, 0)
    BY <2>2 DEF Init, EmptyBook, Shaped, Fields, Typed
  <2> QED
    BY <2>1, <2>3 DEF TypeInv
<1>2. TypeInv /\ [Next]_vars => TypeInv'
  <2>1. TypeInv /\ Next => TypeInv'
    BY NextOffers, OfferEffect
  <2>2. TypeInv /\ UNCHANGED vars => TypeInv'
    BY DEF TypeInv, vars, Shaped, Typed
  <2> QED
    BY <2>1, <2>2
<1> QED
  BY <1>1, <1>2, PTL DEF Spec

\* The book keeps the shape its fields promise (struct Ledger), whatever is offered.
THEOREM TypeCorrect == Spec => []TypeOK
<1>1. TypeInv => TypeOK
  BY DEF TypeInv, Typed, TypeOK, Compactions, Reverted
<1> QED
  BY <1>1, TypeInvHolds, PTL

----------------------------------------------------------------------------
(***************************************************************************)
(* One turn at a time.                                                     *)
(***************************************************************************)
\* Inductive: a turn's number is its start's; the running one has started and not
\* ended; every other one has ended after it started.
TurnInv ==
  /\ \A i \in Numbered("turn.started") : log[i].turn = i
  /\ book.open # 0 =>
       /\ book.open \in Numbered("turn.started")
       /\ \A k \in Numbered("turn.ended") : log[k].turn # book.open
  /\ \A i \in Numbered("turn.started") \ {book.open} :
       \E k \in Numbered("turn.ended") : k > i /\ log[k].turn = i
  /\ OneTurnAtATime

\* An accepted event adds its number to those of its kind.
LEMMA NumberedGrows ==
  ASSUME TypeInv, NEW e, Fit(e), Offer(e), NEW kind
  PROVE  /\ Numbered(kind) \subseteq 1..Len(log)
         /\ Numbered(kind)' = IF e.k = kind THEN Numbered(kind) \union {Len(log) + 1}
                              ELSE Numbered(kind)
<1>1. Len(log) \in Nat
  BY LenProperties DEF TypeInv
<1> QED
  BY <1>1, OfferEffect DEF Numbered

LEMMA TurnStep ==
  ASSUME TypeInv, TurnInv, NEW e, Fit(e), Offer(e)
  PROVE  TurnInv'
<1> DEFINE n == Len(log)
           Started == Numbered("turn.started")
           Ended == Numbered("turn.ended")
<1>1. /\ n \in Nat /\ n' = n + 1 /\ e.seq = n + 1
      /\ \A i \in 1..n : log'[i] = log[i]
      /\ log'[n + 1] = e
  BY OfferEffect, LenProperties DEF TypeInv
<1>2. /\ Started \subseteq 1..n /\ Ended \subseteq 1..n
      /\ Started' = IF e.k = "turn.started" THEN Started \union {n + 1} ELSE Started
      /\ Ended' = IF e.k = "turn.ended" THEN Ended \union {n + 1} ELSE Ended
  BY NumberedGrows
<1>3. LegalTurn(book, e) /\ book.open \in 0..n
  BY OfferEffect DEF Legal, TypeInv, Typed
<1>4. book'.open = IF e.k = "turn.started" THEN n + 1
                   ELSE IF e.k = "turn.ended" THEN 0 ELSE book.open
  <2>1. Shaped(book) /\ book' = Record(book, e)
    BY OfferEffect DEF TypeInv
  <2>2. Record(book, e).open = IF e.k = "turn.started" THEN e.seq
                               ELSE IF e.k = "turn.ended" THEN 0 ELSE book.open
    BY <2>1, RecordNumbers
  <2> QED
    BY <1>1, <2>1, <2>2
<1>5. \A i, j \in Started' :
        i < j => \E k \in i..j : log'[k].k = "turn.ended" /\ log'[k].turn = i
  <2> SUFFICES ASSUME NEW i \in Started', NEW j \in Started', i < j
               PROVE  \E k \in i..j : log'[k].k = "turn.ended" /\ log'[k].turn = i
    OBVIOUS
  <2>1. i \in Started /\ i \in 1..n /\ j \in 1..(n + 1)
    BY <1>1, <1>2
  <2>2. CASE j \in Started
    <3>1. PICK k \in i..j : log[k].k = "turn.ended" /\ log[k].turn = i
      BY <2>1, <2>2 DEF TurnInv, OneTurnAtATime
    <3>2. k \in 1..n
      BY <1>2, <2>1, <2>2, <3>1
    <3> QED
      BY <1>1, <3>1, <3>2
  <2>3. CASE j \notin Started
    <3>1. e.k = "turn.started" /\ j = n + 1 /\ book.open = 0
      BY <1>2, <1>3, <2>3 DEF LegalTurn, LegalStart
    <3>2. PICK k \in Ended : k > i /\ log[k].turn = i
      BY <2>1, <3>1 DEF TurnInv
    <3>3. k \in 1..n /\ log[k].k = "turn.ended" /\ k \in i..j
      BY <1>1, <1>2, <2>1, <3>1, <3>2 DEF Numbered
    <3> QED
      BY <1>1, <3>2, <3>3
  <2> QED
    BY <2>2, <2>3
<1>6. \A i \in 1..n' :
        log'[i].turn # 0 =>
          /\ log'[i].turn \in Started'
          /\ log'[i].turn <= i
          /\ \A k \in log'[i].turn..(i - 1) :
               ~(log'[k].k = "turn.ended" /\ log'[k].turn = log'[i].turn)
  <2> SUFFICES ASSUME NEW i \in 1..n', log'[i].turn # 0
               PROVE  /\ log'[i].turn \in Started'
                      /\ log'[i].turn <= i
                      /\ \A k \in log'[i].turn..(i - 1) :
                           ~(log'[k].k = "turn.ended" /\ log'[k].turn = log'[i].turn)
    OBVIOUS
  <2>1. CASE i \in 1..n
    <3>1. /\ log[i].turn \in Started /\ log[i].turn <= i
          /\ \A k \in log[i].turn..(i - 1) :
               ~(log[k].k = "turn.ended" /\ log[k].turn = log[i].turn)
      BY <1>1, <2>1 DEF TurnInv, OneTurnAtATime
    <3>2. log[i].turn \in 1..n /\ log[i].turn..(i - 1) \subseteq 1..n
      BY <1>1, <1>2, <2>1, <3>1
    <3> QED
      BY <1>1, <1>2, <2>1, <3>1, <3>2
  <2>2. CASE i = n + 1 /\ e.k = "turn.started"
    <3>1. log'[i] = e /\ e.turn = i
      BY <1>1, <1>3, <2>2 DEF LegalTurn, LegalStart
    <3> QED
      BY <1>1, <1>2, <2>2, <3>1
  <2>3. CASE i = n + 1 /\ e.k # "turn.started"
    <3>1. log'[i] = e /\ e.turn = book.open /\ book.open # 0
      BY <1>1, <1>3, <2>3 DEF LegalTurn
    <3>2. book.open \in Started /\ \A k \in Ended : log[k].turn # book.open
      BY <3>1 DEF TurnInv
    <3>3. \A k \in 1..n : ~(log[k].k = "turn.ended" /\ log[k].turn = book.open)
      BY <3>2 DEF Numbered
    <3>4. book.open \in 1..n /\ book.open..(i - 1) \subseteq 1..n
      BY <1>1, <1>2, <2>3, <3>2
    <3> QED
      BY <1>1, <1>2, <2>3, <3>1, <3>2, <3>3, <3>4
  <2> QED
    BY <1>1, <2>1, <2>2, <2>3
<1>7. OneTurnAtATime'
  BY <1>5, <1>6 DEF OneTurnAtATime
<1>8. \A i \in Started' : log'[i].turn = i
  <2>1. e.k = "turn.started" => e.turn = n + 1
    BY <1>1, <1>3 DEF LegalTurn, LegalStart
  <2> QED
    BY <1>1, <1>2, <2>1 DEF TurnInv
<1>9. book'.open # 0 =>
        /\ book'.open \in Started'
        /\ \A k \in Ended' : log'[k].turn # book'.open
  <2>1. CASE e.k = "turn.started"
    <3>1. \A k \in Ended : log[k].turn # n + 1
      <4> SUFFICES ASSUME NEW k \in Ended, log[k].turn = n + 1 PROVE FALSE
        OBVIOUS
      <4>1. k \in 1..n /\ n + 1 # 0
        BY <1>1, <1>2
      <4>2. log[k].turn \in Started
        BY <4>1 DEF TurnInv, OneTurnAtATime
      <4> QED
        BY <1>1, <1>2, <4>2
    <3> QED
      BY <1>1, <1>2, <1>4, <2>1, <3>1
  <2>2. CASE e.k = "turn.ended"
    BY <1>4, <2>2
  <2>3. CASE e.k \notin {"turn.started", "turn.ended"}
    <3>1. book'.open = book.open /\ Started' = Started /\ Ended' = Ended
      BY <1>2, <1>4, <2>3
    <3>2. \A k \in Ended : log'[k] = log[k]
      BY <1>1, <1>2
    <3> QED
      BY <3>1, <3>2 DEF TurnInv
  <2> QED
    BY <2>1, <2>2, <2>3
<1>10. \A i \in Started' \ {book'.open} : \E k \in Ended' : k > i /\ log'[k].turn = i
  <2> SUFFICES ASSUME NEW i \in Started', i # book'.open
               PROVE  \E k \in Ended' : k > i /\ log'[k].turn = i
    OBVIOUS
  <2>1. i \in Started /\ i \in 1..n
    BY <1>1, <1>2, <1>4
  <2>2. CASE i = book.open
    <3>1. e.k # "turn.started"
      BY <1>1, <1>3, <2>1, <2>2 DEF LegalTurn, LegalStart
    <3>2. e.k = "turn.ended"
      BY <1>4, <2>2, <3>1
    <3>3. e.turn = book.open
      BY <1>3, <3>2 DEF LegalTurn, InTurnOnly
    <3>4. n + 1 \in Ended' /\ n + 1 > i /\ log'[n + 1].turn = i
      BY <1>1, <1>2, <2>1, <2>2, <3>2, <3>3
    <3> QED
      BY <3>4
  <2>3. CASE i # book.open
    <3>1. PICK k \in Ended : k > i /\ log[k].turn = i
      BY <2>1, <2>3 DEF TurnInv
    <3> QED
      BY <1>1, <1>2, <3>1
  <2> QED
    BY <2>2, <2>3
<1> QED
  BY <1>7, <1>8, <1>9, <1>10 DEF TurnInv

LEMMA TurnInvHolds == Spec => []TurnInv
<1>1. Init => TurnInv
  BY DEF Init, EmptyBook, TurnInv, OneTurnAtATime, Numbered
<1>2. TypeInv /\ TurnInv /\ [Next]_vars => TurnInv'
  <2>1. TypeInv /\ TurnInv /\ Next => TurnInv'
    BY NextOffers, TurnStep
  <2>2. TurnInv /\ UNCHANGED vars => TurnInv'
    BY DEF TurnInv, OneTurnAtATime, Numbered, vars
  <2> QED
    BY <2>1, <2>2
<1> QED
  BY <1>1, <1>2, TypeInvHolds, PTL DEF Spec

\* Kernel invariant 4 (docs/designs/02-): turns never overlap and an event in a turn
\* lies within it, for logs of any length.
THEOREM TurnsDoNotOverlap == Spec => []OneTurnAtATime
BY TurnInvHolds, PTL DEF TurnInv

----------------------------------------------------------------------------
(***************************************************************************)
(* One result for every call.                                              *)
(***************************************************************************)
\* Inductive: a call's number names its reply; a pending call belongs to a reply
\* of the running turn and has no result; every other call has one; a result is
\* about the call of a reply.
CallInv ==
  /\ \A i \in Replies : \A call \in Range(log[i].calls) : call[1] = i
  /\ \A call \in book.pending :
       /\ call[1] \in Replies
       /\ call \in Range(log[call[1]].calls)
       /\ log[call[1]].turn = book.open /\ book.open # 0
       /\ ResultsOf(call) = {}
  /\ \A i \in Replies : \A call \in Range(log[i].calls) :
       call \in book.pending \/ ResultsOf(call) # {}
  /\ \A r \in Numbered("tool.result") : log[r].call[1] \in Replies
  /\ OneResultPerCall

LEMMA CallStep ==
  ASSUME TypeInv, CallInv, NEW e, Fit(e), Offer(e)
  PROVE  CallInv'
<1> DEFINE n == Len(log)
           Results == Numbered("tool.result")
           Ended == Numbered("turn.ended")
<1>1. /\ n \in Nat /\ n' = n + 1 /\ e.seq = n + 1
      /\ \A i \in 1..n : log'[i] = log[i]
      /\ log'[n + 1] = e
  BY OfferEffect, LenProperties DEF TypeInv
<1>2. /\ Replies \subseteq 1..n /\ Results \subseteq 1..n /\ Ended \subseteq 1..n
      /\ Replies' = IF e.k = "message.assistant" THEN Replies \union {n + 1} ELSE Replies
      /\ Results' = IF e.k = "tool.result" THEN Results \union {n + 1} ELSE Results
      /\ Ended' = IF e.k = "turn.ended" THEN Ended \union {n + 1} ELSE Ended
  BY NumberedGrows DEF Replies
<1>3. LegalTurn(book, e) /\ LegalBody(book, e)
  BY OfferEffect DEF Legal
<1>4. /\ book'.pending = IF e.k = "message.assistant"
                           THEN book.pending \union Range(e.calls)
                         ELSE IF e.k = "tool.result" THEN book.pending \ {e.call}
                         ELSE book.pending
      /\ book'.open = IF e.k = "turn.started" THEN n + 1
                      ELSE IF e.k = "turn.ended" THEN 0 ELSE book.open
  <2>1. Shaped(book) /\ book' = Record(book, e)
    BY OfferEffect DEF TypeInv
  <2>2. Record(book, e).pending =
          IF e.k = "message.assistant" THEN book.pending \union Range(e.calls)
          ELSE IF e.k = "tool.result" THEN book.pending \ {e.call}
          ELSE book.pending
    BY <2>1, RecordPending
  <2>3. Record(book, e).open = IF e.k = "turn.started" THEN e.seq
                               ELSE IF e.k = "turn.ended" THEN 0 ELSE book.open
    BY <2>1, RecordNumbers
  <2> QED
    BY <1>1, <2>1, <2>2, <2>3
\* The results of a call grow by the new event only.
<1>5. ASSUME NEW call
      PROVE  /\ ResultsOf(call) \subseteq 1..n
             /\ ResultsOf(call)' = IF e.k = "tool.result" /\ e.call = call
                                     THEN ResultsOf(call) \union {n + 1}
                                     ELSE ResultsOf(call)
  BY <1>1, <1>2 DEF ResultsOf
\* The calls of a new reply are numbered after it, and it is in the running turn.
<1>6. e.k = "message.assistant" =>
        /\ \A call \in Range(e.calls) : call[1] = n + 1
        /\ e.turn = book.open /\ e.turn # 0
  BY <1>1, <1>3 DEF LegalBody, LegalTurn, InTurnOnly, Range
<1>7. e.k = "tool.result" => e.call \in book.pending /\ e.turn = book.open /\ e.turn # 0
  BY <1>3 DEF LegalBody, LegalTurn, InTurnOnly
<1>8. \A call \in book.pending : call[1] \in 1..n
  BY <1>2 DEF CallInv
\* No result can be there before its call.
<1>9. ASSUME NEW call, e.k = "message.assistant", call \in Range(e.calls)
      PROVE  ResultsOf(call) = {}
  BY <1>1, <1>2, <1>6, <1>9 DEF CallInv, ResultsOf
<1>10. \A i \in Replies' : \A call \in Range(log'[i].calls) : call[1] = i
  BY <1>1, <1>2, <1>6 DEF CallInv
<1>11. \A call \in book'.pending :
         /\ call[1] \in Replies'
         /\ call \in Range(log'[call[1]].calls)
         /\ log'[call[1]].turn = book'.open /\ book'.open # 0
         /\ ResultsOf(call)' = {}
  <2> SUFFICES ASSUME NEW call \in book'.pending
               PROVE  /\ call[1] \in Replies'
                      /\ call \in Range(log'[call[1]].calls)
                      /\ log'[call[1]].turn = book'.open /\ book'.open # 0
                      /\ ResultsOf(call)' = {}
    OBVIOUS
  <2>1. CASE call \in book.pending
    <3>1. /\ call[1] \in Replies /\ call \in Range(log[call[1]].calls)
          /\ log[call[1]].turn = book.open /\ book.open # 0
          /\ ResultsOf(call) = {}
      BY <2>1 DEF CallInv
    <3>2. e.k \notin {"turn.started", "turn.ended"}
      BY <1>3, <2>1, <3>1 DEF LegalTurn, LegalStart, LegalBody
    <3>3. ~(e.k = "tool.result" /\ e.call = call)
      BY <1>4
    <3>4. log'[call[1]] = log[call[1]] /\ book'.open = book.open
      BY <1>1, <1>2, <1>4, <3>1, <3>2
    <3> QED
      BY <1>2, <1>5, <3>1, <3>3, <3>4
  <2>2. CASE call \notin book.pending
    <3>1. e.k = "message.assistant" /\ call \in Range(e.calls)
      BY <1>4, <2>2
    <3>2. call[1] = n + 1 /\ n + 1 \in Replies' /\ log'[call[1]] = e
      BY <1>1, <1>2, <1>6, <3>1
    <3>3. book'.open = book.open /\ e.turn = book'.open /\ book'.open # 0
      BY <1>4, <1>6, <3>1
    <3>4. ResultsOf(call)' = {}
      BY <1>5, <1>9, <3>1
    <3> QED
      BY <3>1, <3>2, <3>3, <3>4
  <2> QED
    BY <2>1, <2>2
<1>12. \A i \in Replies' : \A call \in Range(log'[i].calls) :
         call \in book'.pending \/ ResultsOf(call)' # {}
  <2> SUFFICES ASSUME NEW i \in Replies', NEW call \in Range(log'[i].calls)
               PROVE  call \in book'.pending \/ ResultsOf(call)' # {}
    OBVIOUS
  <2>1. CASE i \in Replies
    <3>1. call \in book.pending \/ ResultsOf(call) # {}
      BY <1>1, <1>2, <2>1 DEF CallInv
    <3> QED
      BY <1>1, <1>4, <1>5, <3>1
  <2>2. CASE i \notin Replies
    BY <1>1, <1>2, <1>4, <2>2
  <2> QED
    BY <2>1, <2>2
<1>13. \A r \in Results' : log'[r].call[1] \in Replies'
  BY <1>1, <1>2, <1>7 DEF CallInv
<1>14. OneResultPerCall'
  <2> SUFFICES ASSUME NEW i \in Replies', NEW call \in Range(log'[i].calls)
               PROVE  /\ \A r, r2 \in ResultsOf(call)' : r = r2
                      /\ \A r \in ResultsOf(call)' :
                           r > i /\ log'[r].turn = log'[i].turn
                      /\ \A j \in Ended' : j > i => \E r \in ResultsOf(call)' : r < j
    BY DEF OneResultPerCall
  <2>1. CASE i \notin Replies
    <3>1. e.k = "message.assistant" /\ i = n + 1 /\ call \in Range(e.calls)
      BY <1>1, <1>2, <2>1
    <3>2. ResultsOf(call)' = {}
      BY <1>5, <1>9, <3>1
    <3>3. \A j \in Ended' : ~(j > i)
      BY <1>1, <1>2, <3>1
    <3> QED
      BY <3>2, <3>3
  <2>2. CASE i \in Replies /\ ~(e.k = "tool.result" /\ e.call = call)
    <3>1. ResultsOf(call)' = ResultsOf(call) /\ ResultsOf(call) \subseteq 1..n
      BY <1>5, <2>2
    <3>2. i \in 1..n /\ call \in Range(log[i].calls)
      BY <1>1, <1>2, <2>2
    <3>3. /\ \A r, r2 \in ResultsOf(call) : r = r2
          /\ \A r \in ResultsOf(call) : r > i /\ log[r].turn = log[i].turn
          /\ \A j \in Ended : j > i => \E r \in ResultsOf(call) : r < j
      BY <2>2, <3>2 DEF CallInv, OneResultPerCall
    <3>4. e.k = "turn.ended" => \E r \in ResultsOf(call) : r < n + 1
      <4>1. e.k = "turn.ended" => ResultsOf(call) # {}
        BY <1>3, <2>2, <3>2 DEF LegalBody, CallInv
      <4> QED
        BY <1>1, <3>1, <4>1
    <3>5. \A j \in Ended' : j > i => \E r \in ResultsOf(call) : r < j
      BY <1>2, <3>3, <3>4
    <3>6. \A r \in ResultsOf(call) : log'[r] = log[r]
      BY <1>1, <3>1
    <3> QED
      BY <1>1, <3>1, <3>2, <3>3, <3>5, <3>6
  <2>3. CASE i \in Replies /\ e.k = "tool.result" /\ e.call = call
    <3>1. i \in 1..n /\ call \in Range(log[i].calls) /\ log'[i] = log[i]
      BY <1>1, <1>2, <2>3
    <3>2. call[1] = i
      BY <2>3, <3>1 DEF CallInv
    <3>3. ResultsOf(call) = {} /\ log[i].turn = book.open
      BY <1>7, <2>3, <3>2 DEF CallInv
    <3>4. ResultsOf(call)' = {n + 1} /\ Ended' = Ended
      BY <1>2, <1>5, <2>3, <3>3
    <3>5. n + 1 > i /\ log'[n + 1].turn = log'[i].turn
      BY <1>1, <1>7, <2>3, <3>1, <3>3
    <3>6. \A j \in Ended : ~(j > i)
      BY <2>3, <3>1, <3>3 DEF CallInv, OneResultPerCall
    <3> QED
      BY <3>4, <3>5, <3>6
  <2> QED
    BY <2>1, <2>2, <2>3
<1> QED
  BY <1>10, <1>11, <1>12, <1>13, <1>14 DEF CallInv

LEMMA CallInvHolds == Spec => []CallInv
<1>1. Init => CallInv
  BY DEF Init, EmptyBook, CallInv, OneResultPerCall, Replies, Numbered
<1>2. TypeInv /\ CallInv /\ [Next]_vars => CallInv'
  <2>1. TypeInv /\ CallInv /\ Next => CallInv'
    BY NextOffers, CallStep
  <2>2. CallInv /\ UNCHANGED vars => CallInv'
    BY DEF CallInv, OneResultPerCall, Replies, ResultsOf, Numbered, vars
  <2> QED
    BY <2>1, <2>2
<1> QED
  BY <1>1, <1>2, TypeInvHolds, PTL DEF Spec

\* Kernel invariant 2 (docs/designs/02-): every call gets one result, in its turn and
\* before that turn ends, for replies with any number of calls.
THEOREM CallsGetOneResult == Spec => []OneResultPerCall
BY CallInvHolds, PTL DEF CallInv

----------------------------------------------------------------------------
(***************************************************************************)
(* A decision answers an open request.                                     *)
(***************************************************************************)
\* A request for the call that no decision has answered since.
OpenRequest(call) ==
  \E i \in Numbered("approval.requested") :
    /\ log[i].call = call
    /\ \A k \in Numbered("approval.decided") : k > i => log[k].call # call

\* Inductive: whoever is asking has such a request.
AskInv ==
  /\ \A call \in book.asking : OpenRequest(call)
  /\ DecisionsAnswerRequests

LEMMA AskStep ==
  ASSUME TypeInv, CallInv, AskInv, NEW e, Fit(e), Offer(e)
  PROVE  AskInv'
<1> DEFINE n == Len(log)
           Results == Numbered("tool.result")
           Asked == Numbered("approval.requested")
           Decided == Numbered("approval.decided")
<1>1. /\ n \in Nat /\ n' = n + 1 /\ e.seq = n + 1
      /\ \A i \in 1..n : log'[i] = log[i]
      /\ log'[n + 1] = e
  BY OfferEffect, LenProperties DEF TypeInv
<1>2. /\ Results \subseteq 1..n /\ Asked \subseteq 1..n /\ Decided \subseteq 1..n
      /\ Results' = IF e.k = "tool.result" THEN Results \union {n + 1} ELSE Results
      /\ Asked' = IF e.k = "approval.requested" THEN Asked \union {n + 1} ELSE Asked
      /\ Decided' = IF e.k = "approval.decided" THEN Decided \union {n + 1} ELSE Decided
  BY NumberedGrows
<1>3. LegalBody(book, e) /\ book.asking \subseteq book.pending
  BY OfferEffect DEF Legal, TypeInv, Typed
<1>4. book'.asking = IF e.k = "approval.requested" THEN book.asking \union {e.call}
                     ELSE IF e.k \in {"approval.decided", "tool.result"}
                       THEN book.asking \ {e.call}
                     ELSE book.asking
  <2>1. Shaped(book) /\ book' = Record(book, e)
    BY OfferEffect DEF TypeInv
  <2> QED
    BY <2>1, RecordAsking
<1>5. ASSUME NEW call \in book'.asking PROVE OpenRequest(call)'
  <2>1. CASE e.k = "approval.requested" /\ e.call = call
    <3>1. /\ n + 1 \in Asked' /\ log'[n + 1].call = call
          /\ \A k \in Decided' : ~(k > n + 1)
      BY <1>1, <1>2, <2>1
    <3> QED
      BY <3>1 DEF OpenRequest
  <2>2. CASE ~(e.k = "approval.requested" /\ e.call = call)
    <3>1. call \in book.asking /\ ~(e.k = "approval.decided" /\ e.call = call)
      BY <1>4, <1>5, <2>2
    <3>2. PICK i \in Asked :
             /\ log[i].call = call
             /\ \A k \in Decided : k > i => log[k].call # call
      BY <3>1 DEF AskInv, OpenRequest
    <3>3. /\ i \in Asked' /\ log'[i].call = call
          /\ \A k \in Decided' : k > i => log'[k].call # call
      BY <1>1, <1>2, <3>1, <3>2
    <3> QED
      BY <3>3 DEF OpenRequest
  <2> QED
    BY <2>1, <2>2
<1>6. ASSUME NEW j \in Decided'
      PROVE  /\ \E i \in Asked' :
                  /\ i < j /\ log'[i].call = log'[j].call
                  /\ \A k \in i..(j - 1) : ~(log'[k].k = "approval.decided"
                                               /\ log'[k].call = log'[j].call)
             /\ \A r \in Results' : log'[r].call = log'[j].call => r > j
  <2>1. CASE j \in Decided
    <3>1. j \in 1..n /\ log'[j] = log[j]
      BY <1>1, <1>2, <2>1
    <3>2. PICK i \in Asked :
             /\ i < j /\ log[i].call = log[j].call
             /\ \A k \in i..(j - 1) :
                  ~(log[k].k = "approval.decided" /\ log[k].call = log[j].call)
      BY <2>1 DEF AskInv, DecisionsAnswerRequests
    <3>3. i \in 1..n /\ i..(j - 1) \subseteq 1..n
      BY <1>1, <1>2, <3>1
    <3>4. \A r \in Results : log[r].call = log[j].call => r > j
      BY <2>1 DEF AskInv, DecisionsAnswerRequests, ResultsOf
    <3> QED
      BY <1>1, <1>2, <3>1, <3>2, <3>3, <3>4
  <2>2. CASE j \notin Decided
    <3>1. e.k = "approval.decided" /\ j = n + 1 /\ log'[j] = e
      BY <1>1, <1>2, <2>2
    <3>2. e.call \in book.asking /\ ResultsOf(e.call) = {}
      BY <1>3, <3>1 DEF LegalBody, CallInv
    <3>3. PICK i \in Asked :
             /\ log[i].call = e.call
             /\ \A k \in Decided : k > i => log[k].call # e.call
      BY <3>2 DEF AskInv, OpenRequest
    <3>4. i \in 1..n /\ i < j /\ log'[i].call = e.call
      BY <1>1, <1>2, <3>1, <3>3
    <3>5. \A k \in i..n : ~(log'[k].k = "approval.decided" /\ log'[k].call = e.call)
      <4> SUFFICES ASSUME NEW k \in i..n, log[k].k = "approval.decided",
                          log[k].call = e.call
                   PROVE  FALSE
        BY <1>1, <3>4
      <4>1. k \in Decided /\ log[i].k = "approval.requested"
        BY <1>1, <3>4 DEF Numbered
      <4>2. k > i
        BY <1>1, <3>4, <4>1
      <4> QED
        BY <3>3, <4>1, <4>2
    <3>6. \A r \in Results' : log'[r].call # e.call
      BY <1>1, <1>2, <3>1, <3>2 DEF ResultsOf
    <3>7. i \in Asked' /\ j - 1 = n
      BY <1>1, <1>2, <3>1
    <3> QED
      BY <3>1, <3>4, <3>5, <3>6, <3>7
  <2> QED
    BY <2>1, <2>2
<1>7. DecisionsAnswerRequests'
  BY <1>6 DEF DecisionsAnswerRequests, ResultsOf
<1> QED
  BY <1>5, <1>7 DEF AskInv

\* A person's decision is always about a request that is open, and comes before the
\* call's result.
THEOREM DecisionsAreAsked == Spec => []DecisionsAnswerRequests
<1>1. Init => AskInv
  BY DEF Init, EmptyBook, AskInv, DecisionsAnswerRequests, Numbered
<1>2. TypeInv /\ CallInv /\ AskInv /\ [Next]_vars => AskInv'
  <2>1. TypeInv /\ CallInv /\ AskInv /\ Next => AskInv'
    BY NextOffers, AskStep
  <2>2. AskInv /\ UNCHANGED vars => AskInv'
    BY DEF AskInv, OpenRequest, DecisionsAnswerRequests, ResultsOf, Numbered, vars
  <2> QED
    BY <2>1, <2>2
<1>3. AskInv => DecisionsAnswerRequests
  BY DEF AskInv
<1> QED
  BY <1>1, <1>2, <1>3, TypeInvHolds, CallInvHolds, PTL DEF Spec

----------------------------------------------------------------------------
(***************************************************************************)
(* What is withdrawn was never heard.                                      *)
(***************************************************************************)
\* No request of the main conversation and no reply in the range has seen m.
Unheard(m, range) ==
  \A i \in range :
    /\ log[i].k = "message.assistant" => log[i].seen < m
    /\ log[i].k = "model.called" /\ ~log[i].aside => log[i].seen < m

\* Inductive: what the book holds queued belongs to the running turn, was never
\* heard and never withdrawn.
QueueInv ==
  /\ \A q \in book.queued :
       /\ log[q].turn = book.open
       /\ Unheard(q, q..Len(log))
       /\ \A j \in Numbered("message.withdrawn") : q \notin Range(log[j].msgs)
  /\ \A j \in Numbered("message.withdrawn") : Range(log[j].msgs) \subseteq 1..(j - 1)
  /\ WithdrawnUnheard

LEMMA QueueStep ==
  ASSUME TypeInv, QueueInv, NEW e, Fit(e), Offer(e)
  PROVE  QueueInv'
<1> DEFINE n == Len(log)
           Withdrawn == Numbered("message.withdrawn")
<1>1. /\ n \in Nat /\ n' = n + 1 /\ e.seq = n + 1
      /\ \A i \in 1..n : log'[i] = log[i]
      /\ log'[n + 1] = e
  BY OfferEffect, LenProperties DEF TypeInv
<1>2. /\ Withdrawn \subseteq 1..n
      /\ Withdrawn' = IF e.k = "message.withdrawn" THEN Withdrawn \union {n + 1}
                                                   ELSE Withdrawn
  BY NumberedGrows
<1>3. LegalTurn(book, e) /\ LegalBody(book, e) /\ book.queued \subseteq 1..n
  BY OfferEffect DEF Legal, TypeInv, Typed
<1>4. Shaped(book) /\ book' = Record(book, e)
  BY OfferEffect DEF TypeInv
<1>5. book'.queued =
        IF e.k \in {"turn.started", "turn.ended"} THEN {}
        ELSE IF e.k = "message.user" /\ e.turn # 0 /\ e.turn = book.open
          THEN book.queued \union {n + 1}
        ELSE IF e.k = "message.withdrawn" THEN book.queued \ Range(e.msgs)
        ELSE IF e.k = "message.assistant" \/ (e.k = "model.called" /\ ~e.aside)
          THEN {q \in book.queued : q > e.seen}
        ELSE book.queued
  <2>1. Record(book, e).queued =
          IF e.k \in {"turn.started", "turn.ended"} THEN {}
          ELSE IF e.k = "message.user" /\ e.turn # 0 /\ e.turn = book.open
            THEN book.queued \union {e.seq}
          ELSE IF e.k = "message.withdrawn" THEN book.queued \ Range(e.msgs)
          ELSE IF e.k = "message.assistant" \/ (e.k = "model.called" /\ ~e.aside)
            THEN {q \in book.queued : q > e.seen}
          ELSE book.queued
    BY <1>4, RecordQueue
  <2>2. e.seq = n + 1 /\ book' = Record(book, e)
    BY <1>1, <1>4
  <2> QED
    BY <2>1, <2>2
<1>6. e.k \notin {"turn.started", "turn.ended"} => book'.open = book.open
  BY <1>4, RecordNumbers
\* What a withdrawal takes back is queued, so it was not taken back before.
<1>7. e.k = "message.withdrawn" =>
        /\ Range(e.msgs) \subseteq book.queued
        /\ e.turn = book.open
  BY <1>3 DEF LegalBody, LegalTurn, InTurnOnly, Range
<1>8. ASSUME NEW q \in book'.queued
      PROVE  /\ log'[q].turn = book'.open
             /\ Unheard(q, q..Len(log))'
             /\ \A j \in Withdrawn' : q \notin Range(log'[j].msgs)
  <2>1. e.k \notin {"turn.started", "turn.ended"} /\ book'.open = book.open
    BY <1>5, <1>6, <1>8
  <2>2. CASE q \in book.queued
    <3>1. q \in 1..n /\ log'[q] = log[q] /\ log[q].turn = book.open
      BY <1>1, <1>3, <2>2 DEF QueueInv
    <3>2. \A i \in q..n :
            /\ log[i].k = "message.assistant" => log[i].seen < q
            /\ log[i].k = "model.called" /\ ~log[i].aside => log[i].seen < q
      BY <2>2 DEF QueueInv, Unheard
    <3>3. /\ e.k = "message.assistant" => e.seen < q
          /\ e.k = "model.called" /\ ~e.aside => e.seen < q
      BY <1>5, <1>8
    <3>4. \A i \in q..(n + 1) : (i \in q..n /\ log'[i] = log[i]) \/ (i = n + 1 /\ log'[i] = e)
      BY <1>1, <3>1
    <3>5. Unheard(q, q..Len(log))'
      BY <1>1, <3>2, <3>3, <3>4 DEF Unheard
    <3>6. \A j \in Withdrawn : q \notin Range(log[j].msgs)
      BY <2>2 DEF QueueInv
    <3>7. e.k = "message.withdrawn" => q \notin Range(e.msgs)
      BY <1>5, <1>8
    <3> QED
      BY <1>1, <1>2, <2>1, <3>1, <3>5, <3>6, <3>7
  <2>3. CASE q \notin book.queued
    <3>1. q = n + 1 /\ e.k = "message.user" /\ e.turn = book.open
      BY <1>5, <1>8, <2>3
    <3>2. \A i \in q..(n + 1) : log'[i] = e
      BY <1>1, <3>1
    <3>3. Unheard(q, q..Len(log))'
      BY <1>1, <3>1, <3>2 DEF Unheard
    <3>4. \A j \in Withdrawn : j \in 1..n /\ Range(log[j].msgs) \subseteq 1..(j - 1)
      BY <1>2 DEF QueueInv
    <3>5. \A j \in Withdrawn' : q \notin Range(log'[j].msgs)
      BY <1>1, <1>2, <3>1, <3>4
    <3> QED
      BY <1>1, <2>1, <3>1, <3>3, <3>5
  <2> QED
    BY <2>2, <2>3
<1>9. \A j \in Withdrawn' : Range(log'[j].msgs) \subseteq 1..(j - 1)
  BY <1>1, <1>2, <1>3, <1>7 DEF QueueInv
<1>10. ASSUME NEW j \in Withdrawn', NEW m \in Range(log'[j].msgs)
       PROVE  /\ \A i \in m..j :
                   /\ log'[i].k = "message.assistant" => log'[i].seen < m
                   /\ log'[i].k = "model.called" /\ ~log'[i].aside => log'[i].seen < m
              /\ \A i \in Withdrawn' \ {j} : m \notin Range(log'[i].msgs)
              /\ log'[m].turn = log'[j].turn
  <2>1. CASE j \in Withdrawn
    <3>1. j \in 1..n /\ log'[j] = log[j] /\ m \in Range(log[j].msgs) /\ m \in 1..(j - 1)
      BY <1>1, <1>2, <1>10, <2>1 DEF QueueInv
    <3>2. /\ \A i \in m..j :
               /\ log[i].k = "message.assistant" => log[i].seen < m
               /\ log[i].k = "model.called" /\ ~log[i].aside => log[i].seen < m
          /\ \A i \in Withdrawn \ {j} : m \notin Range(log[i].msgs)
          /\ log[m].turn = log[j].turn
      BY <2>1, <3>1 DEF QueueInv, WithdrawnUnheard
    <3>3. m \in 1..n /\ \A i \in m..j : i \in 1..n /\ log'[i] = log[i]
      BY <1>1, <3>1
    <3>4. e.k = "message.withdrawn" => m \notin Range(e.msgs)
      BY <1>7, <2>1, <3>1 DEF QueueInv
    <3> QED
      BY <1>1, <1>2, <3>1, <3>2, <3>3, <3>4
  <2>2. CASE j \notin Withdrawn
    <3>1. e.k = "message.withdrawn" /\ j = n + 1 /\ log'[j] = e /\ m \in Range(e.msgs)
      BY <1>1, <1>2, <1>10, <2>2
    <3>2. m \in book.queued /\ m \in 1..n
      BY <1>3, <1>7, <3>1
    <3>3. \A i \in m..n :
            /\ log[i].k = "message.assistant" => log[i].seen < m
            /\ log[i].k = "model.called" /\ ~log[i].aside => log[i].seen < m
      BY <3>2 DEF QueueInv, Unheard
    <3>4. \A i \in m..j : (i \in m..n /\ log'[i] = log[i]) \/ (i = j /\ log'[i] = e)
      BY <1>1, <3>1, <3>2
    <3>5. \A i \in Withdrawn : m \notin Range(log[i].msgs)
      BY <3>2 DEF QueueInv
    <3>6. log'[m].turn = e.turn
      BY <1>1, <1>7, <3>1, <3>2 DEF QueueInv
    <3> QED
      BY <1>1, <1>2, <3>1, <3>3, <3>4, <3>5, <3>6
  <2> QED
    BY <2>1, <2>2
<1>11. WithdrawnUnheard'
  BY <1>10 DEF WithdrawnUnheard
<1> QED
  BY <1>8, <1>9, <1>11 DEF QueueInv

\* Nothing the model has heard is ever withdrawn, and nothing is withdrawn twice: a
\* prefix already sent never breaks.
THEOREM HeardStays == Spec => []WithdrawnUnheard
<1>1. Init => QueueInv
  BY DEF Init, EmptyBook, QueueInv, WithdrawnUnheard, Numbered
<1>2. TypeInv /\ QueueInv /\ [Next]_vars => QueueInv'
  <2>1. TypeInv /\ QueueInv /\ Next => QueueInv'
    BY NextOffers, QueueStep
  <2>2. QueueInv /\ UNCHANGED vars => QueueInv'
    BY DEF QueueInv, Unheard, WithdrawnUnheard, Numbered, vars
  <2> QED
    BY <2>1, <2>2
<1>3. QueueInv => WithdrawnUnheard
  BY DEF QueueInv
<1> QED
  BY <1>1, <1>2, <1>3, TypeInvHolds, PTL DEF Spec

----------------------------------------------------------------------------
(***************************************************************************)
(* A trigger is used once.                                                 *)
(***************************************************************************)
\* Turns opened and joined: the events that have triggers.
Triggered == Numbered("turn.started") \union Numbered("turn.joined")

\* Inductive: the book knows of every trigger used, and what it has overheard are
\* the ambient messages.
TriggerInv ==
  /\ \A i \in Triggered : Range(log[i].triggers) \subseteq book.answered
  /\ \A m \in book.overheard : log[m].k = "message.user" /\ log[m].ambient
  /\ TriggersUsedOnce

LEMMA TriggerStep ==
  ASSUME TypeInv, TriggerInv, NEW e, Fit(e), Offer(e)
  PROVE  TriggerInv'
<1> DEFINE n == Len(log)
           opens == e.k \in {"turn.started", "turn.joined"}
<1>1. /\ n \in Nat /\ n' = n + 1 /\ e.seq = n + 1
      /\ \A i \in 1..n : log'[i] = log[i]
      /\ log'[n + 1] = e
  BY OfferEffect, LenProperties DEF TypeInv
<1>2. /\ Triggered \subseteq 1..n
      /\ Triggered' = IF opens THEN Triggered \union {n + 1} ELSE Triggered
  BY NumberedGrows DEF Triggered
<1>3. book.overheard \subseteq 1..n
  BY DEF TypeInv, Typed
\* The triggers of the new event are overheard and were not used before.
<1>4. opens => /\ Range(e.triggers) \subseteq book.overheard
               /\ Range(e.triggers) \intersect book.answered = {}
  <2>1. LegalTurn(book, e) /\ LegalBody(book, e)
    BY OfferEffect DEF Legal
  <2> QED
    BY <2>1 DEF LegalTurn, LegalStart, LegalBody, LegalTriggers, Range
<1>5. /\ book'.overheard = IF e.k = "message.user" /\ e.ambient
                             THEN book.overheard \union {n + 1} ELSE book.overheard
      /\ book'.answered = IF opens THEN book.answered \union Range(e.triggers)
                                   ELSE book.answered
  <2>1. Shaped(book) /\ book' = Record(book, e)
    BY OfferEffect DEF TypeInv
  <2>2. /\ Record(book, e).overheard =
             IF e.k = "message.user" /\ e.ambient
               THEN book.overheard \union {e.seq} ELSE book.overheard
        /\ Record(book, e).answered =
             IF opens THEN book.answered \union Range(e.triggers) ELSE book.answered
    BY <2>1, RecordTriggers
  <2>3. e.seq = n + 1
    BY <1>1
  <2> QED
    BY <2>1, <2>2, <2>3
<1>6. \A i \in Triggered' : Range(log'[i].triggers) \subseteq book'.answered
  BY <1>1, <1>2, <1>5 DEF TriggerInv
<1>7. \A m \in book'.overheard : log'[m].k = "message.user" /\ log'[m].ambient
  BY <1>1, <1>3, <1>5 DEF TriggerInv
<1>8. ASSUME NEW i \in Triggered', NEW j \in Triggered',
             NEW m \in Range(log'[i].triggers)
      PROVE  /\ m < i
             /\ log'[m].k = "message.user" /\ log'[m].ambient
             /\ i # j => m \notin Range(log'[j].triggers)
  <2>1. CASE i \in Triggered
    <3>1. i \in 1..n /\ log'[i] = log[i] /\ m \in Range(log[i].triggers)
      BY <1>1, <1>2, <1>8, <2>1
    <3>2. /\ m < i /\ log[m].k = "message.user" /\ log[m].ambient
          /\ j \in Triggered /\ i # j => m \notin Range(log[j].triggers)
      BY <2>1, <3>1 DEF TriggerInv, TriggersUsedOnce, Triggered
    <3>3. m \in book.answered /\ m \in 1..n
      BY <2>1, <3>1 DEF TriggerInv, TypeInv, Typed
    <3>4. j \notin Triggered => m \notin Range(log'[j].triggers)
      BY <1>1, <1>2, <1>4, <3>3
    <3>5. j \in Triggered => log'[j] = log[j]
      BY <1>1, <1>2
    <3> QED
      BY <1>1, <3>2, <3>3, <3>4, <3>5
  <2>2. CASE i \notin Triggered
    <3>1. opens /\ i = n + 1 /\ m \in Range(e.triggers)
      BY <1>1, <1>2, <1>8, <2>2
    <3>2. m \in book.overheard /\ m \in 1..n /\ m \notin book.answered
      BY <1>3, <1>4, <3>1
    <3>3. log'[m].k = "message.user" /\ log'[m].ambient /\ m < i
      BY <1>1, <3>1, <3>2 DEF TriggerInv
    <3>4. j # i => j \in Triggered /\ log'[j] = log[j]
      BY <1>1, <1>2, <3>1
    <3>5. j # i => m \notin Range(log'[j].triggers)
      BY <3>2, <3>4 DEF TriggerInv
    <3> QED
      BY <3>3, <3>5
  <2> QED
    BY <2>1, <2>2
<1>9. TriggersUsedOnce'
  BY <1>8 DEF TriggersUsedOnce, Triggered
<1> QED
  BY <1>6, <1>7, <1>9 DEF TriggerInv

\* An overheard message opens or joins at most one turn, ever.
THEOREM TriggersAreUsedOnce == Spec => []TriggersUsedOnce
<1>1. Init => TriggerInv
  BY DEF Init, EmptyBook, TriggerInv, Triggered, TriggersUsedOnce, Numbered
<1>2. TypeInv /\ TriggerInv /\ [Next]_vars => TriggerInv'
  <2>1. TypeInv /\ TriggerInv /\ Next => TriggerInv'
    BY NextOffers, TriggerStep
  <2>2. TriggerInv /\ UNCHANGED vars => TriggerInv'
    BY DEF TriggerInv, Triggered, TriggersUsedOnce, Numbered, vars
  <2> QED
    BY <2>1, <2>2
<1>3. TriggerInv => TriggersUsedOnce
  BY DEF TriggerInv
<1> QED
  BY <1>1, <1>2, <1>3, TypeInvHolds, PTL DEF Spec

----------------------------------------------------------------------------
(***************************************************************************)
(* A redo matches the latest undo.                                         *)
(***************************************************************************)
\* The events of a kind after the i-th.
After(kind, i) == {k \in Numbered(kind) : i < k}

\* The i-th event is the undo that the n-th entry of the book remembers: nothing was
\* started or compacted since, and of the undos since exactly those the book has
\* noted later are not redone yet.
UndoneBy(n, i) ==
  /\ i \in Numbered("turn.reverted")
  /\ log[i].turns = book.undone[n].turns
  /\ After("turn.started", i) = {} /\ After("context.compacted", i) = {}
  /\ Cardinality(After("turn.reverted", i)) =
       Cardinality(After("turn.unreverted", i)) + (Len(book.undone) - n)

\* Inductive: every entry has its undo.
UndoInv ==
  /\ \A n \in 1..Len(book.undone) : \E i \in 1..Len(log) : UndoneBy(n, i)
  /\ RedoMatchesUndo

\* What an event offered adds to those after an earlier one.
LEMMA AfterGrows ==
  ASSUME TypeInv, NEW e, Fit(e), Offer(e), NEW kind, NEW i \in 1..Len(log)
  PROVE  /\ After(kind, i)' = IF e.k = kind THEN After(kind, i) \union {Len(log) + 1}
                              ELSE After(kind, i)
         /\ After(kind, i) \subseteq 1..Len(log)
         /\ Cardinality(After(kind, i)) \in Nat
         /\ Cardinality(After(kind, i)') =
              IF e.k = kind THEN Cardinality(After(kind, i)) + 1
                            ELSE Cardinality(After(kind, i))
<1>1. Len(log) \in Nat
  BY LenProperties DEF TypeInv
<1>2. /\ Numbered(kind) \subseteq 1..Len(log)
      /\ Numbered(kind)' = IF e.k = kind THEN Numbered(kind) \union {Len(log) + 1}
                           ELSE Numbered(kind)
  BY NumberedGrows
<1>3. /\ After(kind, i)' = IF e.k = kind THEN After(kind, i) \union {Len(log) + 1}
                           ELSE After(kind, i)
      /\ After(kind, i) \subseteq 1..Len(log)
  BY <1>1, <1>2 DEF After
<1>4. IsFiniteSet(After(kind, i)) /\ Cardinality(After(kind, i)) \in Nat
  <2>1. IsFiniteSet(1..Len(log))
    BY <1>1, FS_Interval
  <2>2. IsFiniteSet(After(kind, i))
    BY <1>3, <2>1, FS_Subset
  <2> QED
    BY <2>2, FS_CardinalityType
<1>5. /\ Len(log) + 1 \notin After(kind, i)
      /\ Cardinality(After(kind, i) \union {Len(log) + 1}) = Cardinality(After(kind, i)) + 1
  <2>1. Len(log) + 1 \notin After(kind, i)
    BY <1>1, <1>3
  <2> QED
    BY <1>4, <2>1, FS_AddElement
<1> QED
  BY <1>3, <1>4, <1>5

LEMMA UndoStep ==
  ASSUME TypeInv, UndoInv, NEW e, Fit(e), Offer(e)
  PROVE  UndoInv'
<1> DEFINE n == Len(log)
           u == Len(book.undone)
<1>1. /\ n \in Nat /\ n' = n + 1 /\ e.seq = n + 1
      /\ \A i \in 1..n : log'[i] = log[i]
      /\ log'[n + 1] = e
  BY OfferEffect, LenProperties DEF TypeInv
<1>2. Legal(book, e) /\ Shaped(book) /\ book' = Record(book, e) /\ Typed(book, n)
  BY OfferEffect DEF TypeInv
<1>3. book.undone \in Seq(Reverted(n)) /\ u \in Nat
  BY <1>2, LenProperties DEF Typed
<1>4. ASSUME NEW kind
      PROVE  /\ Numbered(kind) \subseteq 1..n
             /\ Numbered(kind)' = IF e.k = kind THEN Numbered(kind) \union {n + 1}
                                  ELSE Numbered(kind)
  BY NumberedGrows
\* An entry that stays keeps its undo.
<1>5. ASSUME NEW m \in 1..u, NEW i \in 1..n, UndoneBy(m, i),
             e.k \notin {"turn.started", "context.compacted"},
             Len(book'.undone) = (IF e.k = "turn.reverted" THEN u + 1
                                  ELSE IF e.k = "turn.unreverted" THEN u - 1 ELSE u),
             book'.undone[m] = book.undone[m]
      PROVE  UndoneBy(m, i)'
  <2>1. i \in Numbered("turn.reverted")' /\ log'[i] = log[i]
    BY <1>1, <1>4, <1>5 DEF UndoneBy
  <2>2. log'[i].turns = book'.undone[m].turns
    BY <1>5, <2>1 DEF UndoneBy
  <2>3. After("turn.started", i)' = {} /\ After("context.compacted", i)' = {}
    BY <1>5, AfterGrows DEF UndoneBy
  <2> DEFINE rev == Cardinality(After("turn.reverted", i))
             red == Cardinality(After("turn.unreverted", i))
             rev1 == Cardinality(After("turn.reverted", i)')
             red1 == Cardinality(After("turn.unreverted", i)')
  <2>4. /\ rev \in Nat /\ red \in Nat
        /\ rev1 = (IF e.k = "turn.reverted" THEN rev + 1 ELSE rev)
        /\ red1 = (IF e.k = "turn.unreverted" THEN red + 1 ELSE red)
    BY AfterGrows
  <2>5. rev = red + (u - m)
    BY <1>5 DEF UndoneBy
  <2>6. rev1 = red1 + (Len(book'.undone) - m)
    <3>1. u \in Nat /\ m \in 1..u
      BY <1>3
    <3> DEFINE v == Len(book'.undone)
    <3>2. v = (IF e.k = "turn.reverted" THEN u + 1
               ELSE IF e.k = "turn.unreverted" THEN u - 1 ELSE u)
      BY <1>5
    <3> SUFFICES rev1 = red1 + (v - m)
      OBVIOUS
    <3> HIDE DEF rev, red, rev1, red1, u, v
    <3>3. CASE e.k = "turn.reverted"
      BY <2>4, <2>5, <3>1, <3>2, <3>3
    <3>4. CASE e.k = "turn.unreverted"
      BY <2>4, <2>5, <3>1, <3>2, <3>4
    <3>5. CASE e.k \notin {"turn.reverted", "turn.unreverted"}
      BY <2>4, <2>5, <3>1, <3>2, <3>5
    <3> QED
      BY <3>3, <3>4, <3>5
  <2> QED
    BY <2>1, <2>2, <2>3, <2>6 DEF UndoneBy
<1>6. \A m \in 1..Len(book'.undone) : \E i \in 1..n' : UndoneBy(m, i)'
  <2>1. CASE e.k \in {"turn.started", "context.compacted"}
    <3>1. book'.undone = << >>
      BY <1>2, <2>1, RecordOnward
    <3> QED
      BY <3>1, EmptySeq
  <2>2. CASE e.k = "turn.reverted"
    <3> DEFINE kept == KeptBefore(book.compactions, e.turns[1])
               entry == [turns |-> e.turns,
                         compactions |-> SubSeq(book.compactions, kept + 1,
                                                Len(book.compactions))]
    <3>1. book'.undone = Append(book.undone, entry) /\ entry.turns = e.turns
      BY <1>2, <2>2, RecordUndo
    <3> HIDE DEF entry
    <3>2. /\ Len(book'.undone) = u + 1
          /\ \A m \in 1..u : book'.undone[m] = book.undone[m]
          /\ book'.undone[u + 1] = entry
      <4>1. /\ Len(Append(book.undone, entry)) = u + 1
            /\ \A m \in 1..u : Append(book.undone, entry)[m] = book.undone[m]
            /\ Append(book.undone, entry)[u + 1] = entry
        BY <1>3
      <4> QED
        BY <3>1, <4>1
    <3>3. \A m \in 1..u : \E i \in 1..n' : UndoneBy(m, i)'
      <4> SUFFICES ASSUME NEW m \in 1..u PROVE \E i \in 1..n' : UndoneBy(m, i)'
        OBVIOUS
      <4>1. PICK i \in 1..n : UndoneBy(m, i)
        BY DEF UndoInv
      <4>2. UndoneBy(m, i)'
        BY <1>5, <2>2, <3>2, <4>1
      <4> QED
        BY <1>1, <4>2
    <3>4. PICK last, latest : last = n + 1 /\ latest = u + 1
      OBVIOUS
    <3>5. UndoneBy(latest, last)'
      <4>1. last \in Numbered("turn.reverted")' /\ log'[last].turns = entry.turns
        BY <1>1, <1>4, <2>2, <3>1, <3>4
      <4>2. ASSUME NEW kind PROVE After(kind, last)' = {}
        BY <1>1, <1>4, <3>4 DEF After
      <4>3. /\ After("turn.started", last)' = {} /\ After("context.compacted", last)' = {}
            /\ After("turn.reverted", last)' = {} /\ After("turn.unreverted", last)' = {}
        BY <4>2
      <4>4. Len(book'.undone) = latest /\ latest \in Nat
        BY <1>3, <3>2, <3>4
      <4>5. Cardinality({}) = 0
        BY FS_EmptySet
      <4>6. book'.undone[latest].turns = log'[last].turns
        BY <3>2, <3>4, <4>1
      <4>7. /\ Cardinality(After("turn.reverted", last)') = 0
            /\ Cardinality(After("turn.unreverted", last)') = 0
        BY <4>3, <4>5
      <4>8. Cardinality(After("turn.reverted", last)') =
              Cardinality(After("turn.unreverted", last)') + (Len(book'.undone) - latest)
        BY <4>4, <4>7
      <4> QED
        BY <4>1, <4>3, <4>6, <4>8 DEF UndoneBy
    <3>6. last \in 1..n'
      BY <1>1, <3>4
    <3>7. \A m \in 1..Len(book'.undone) : m \in 1..u \/ m = latest
      BY <1>3, <3>2, <3>4
    <3> SUFFICES ASSUME NEW m \in 1..Len(book'.undone)
                 PROVE  \E i \in 1..n' : UndoneBy(m, i)'
      OBVIOUS
    <3>8. CASE m \in 1..u
      BY <3>3, <3>8
    <3>9. CASE m = latest
      BY <3>5, <3>6, <3>9
    <3> QED
      BY <3>7, <3>8, <3>9
  <2>3. CASE e.k = "turn.unreverted"
    <3>1. book.undone # << >> /\ book'.undone = Front(book.undone)
      BY <1>2, <2>3, RecordRedo DEF Legal, LegalBody
    <3>2. /\ Len(book'.undone) = u - 1
          /\ \A m \in 1..(u - 1) : book'.undone[m] = book.undone[m]
      BY <1>3, <3>1 DEF Front
    <3> SUFFICES ASSUME NEW m \in 1..(u - 1) PROVE \E i \in 1..n' : UndoneBy(m, i)'
      BY <3>2
    <3>3. m \in 1..u
      BY <1>3
    <3>4. PICK i \in 1..n : UndoneBy(m, i)
      BY <3>3 DEF UndoInv
    <3>5. UndoneBy(m, i)'
      BY <1>5, <2>3, <3>2, <3>3, <3>4
    <3> QED
      BY <1>1, <3>5
  <2>4. CASE e.k \notin {"turn.started", "context.compacted", "turn.reverted",
                         "turn.unreverted"}
    <3>1. book'.undone = book.undone
      BY <1>2, <2>4, RecordOnward
    <3> SUFFICES ASSUME NEW m \in 1..u PROVE \E i \in 1..n' : UndoneBy(m, i)'
      BY <3>1
    <3>2. PICK i \in 1..n : UndoneBy(m, i)
      BY DEF UndoInv
    <3>3. UndoneBy(m, i)'
      BY <1>5, <2>4, <3>1, <3>2
    <3> QED
      BY <1>1, <3>3
  <2> QED
    BY <2>1, <2>2, <2>3, <2>4
\* A redo goes with the last entry.
<1>7. ASSUME NEW j \in Numbered("turn.unreverted")'
      PROVE  \E i \in Numbered("turn.reverted")' :
               /\ i < j /\ log'[i].turns = log'[j].turns
               /\ {k \in Numbered("turn.started")' : i < k /\ k < j} = {}
               /\ {k \in Numbered("context.compacted")' : i < k /\ k < j} = {}
               /\ Cardinality({k \in Numbered("turn.reverted")' : i < k /\ k < j}) =
                    Cardinality({k \in Numbered("turn.unreverted")' : i < k /\ k < j})
  <2>1. CASE j \in Numbered("turn.unreverted")
    <3>1. PICK i \in Numbered("turn.reverted") :
            /\ i < j /\ log[i].turns = log[j].turns
            /\ {k \in Numbered("turn.started") : i < k /\ k < j} = {}
            /\ {k \in Numbered("context.compacted") : i < k /\ k < j} = {}
            /\ Cardinality({k \in Numbered("turn.reverted") : i < k /\ k < j}) =
                 Cardinality({k \in Numbered("turn.unreverted") : i < k /\ k < j})
      BY <2>1 DEF UndoInv, RedoMatchesUndo
    <3>2. i \in 1..n /\ j \in 1..n /\ log'[i] = log[i] /\ log'[j] = log[j]
      BY <1>1, <1>4, <2>1
    <3>3. ASSUME NEW kind
          PROVE  {k \in Numbered(kind)' : i < k /\ k < j}
                   = {k \in Numbered(kind) : i < k /\ k < j}
      BY <1>1, <1>4, <3>2
    <3>4. i \in Numbered("turn.reverted")'
      BY <1>4
    <3> QED
      BY <3>1, <3>2, <3>3, <3>4
  <2>2. CASE j \notin Numbered("turn.unreverted")
    <3>1. e.k = "turn.unreverted" /\ j = n + 1 /\ log'[j] = e
      BY <1>1, <1>4, <2>2
    <3>2. book.undone # << >> /\ e.turns = book.undone[u].turns
      BY <1>2, <3>1 DEF Legal, LegalBody, LastReverted, Last
    <3>3. u \in 1..u
      BY <1>3, <3>2
    <3>4. PICK i \in 1..n : UndoneBy(u, i)
      BY <3>3 DEF UndoInv
    <3>5. ASSUME NEW kind
          PROVE  {k \in Numbered(kind)' : i < k /\ k < j} = After(kind, i)
      BY <1>1, <1>4, <3>1, <3>4 DEF After
    <3>6. /\ i \in Numbered("turn.reverted")' /\ i < j
          /\ log'[i].turns = log'[j].turns
      BY <1>1, <1>4, <3>1, <3>2, <3>4 DEF UndoneBy
    <3>7. Cardinality(After("turn.reverted", i)) = Cardinality(After("turn.unreverted", i))
      <4>1. Cardinality(After("turn.unreverted", i)) \in Nat
        BY <3>4, AfterGrows
      <4>2. Cardinality(After("turn.reverted", i)) =
              Cardinality(After("turn.unreverted", i)) + (u - u)
        BY <3>4 DEF UndoneBy
      <4> QED
        BY <1>3, <4>1, <4>2
    <3>8. After("turn.started", i) = {} /\ After("context.compacted", i) = {}
      BY <3>4 DEF UndoneBy
    <3> QED
      BY <3>5, <3>6, <3>7, <3>8
  <2> QED
    BY <2>1, <2>2
<1>8. RedoMatchesUndo'
  BY <1>7 DEF RedoMatchesUndo
<1> QED
  BY <1>6, <1>8 DEF UndoInv

\* A redo brings back exactly the latest undo not redone yet, through any mix of undos,
\* redos, new turns and compactions.
THEOREM RedosMatchUndos == Spec => []RedoMatchesUndo
<1>1. Init => UndoInv
  BY EmptySeq DEF Init, EmptyBook, UndoInv, RedoMatchesUndo, Numbered
<1>2. TypeInv /\ UndoInv /\ [Next]_vars => UndoInv'
  <2>1. TypeInv /\ UndoInv /\ Next => UndoInv'
    BY NextOffers, UndoStep
  <2>2. UndoInv /\ UNCHANGED vars => UndoInv'
    <3> SUFFICES ASSUME UndoInv, UNCHANGED vars PROVE UndoInv'
      OBVIOUS
    <3>1. log' = log /\ book' = book
      BY DEF vars
    <3>2. ASSUME NEW kind PROVE Numbered(kind)' = Numbered(kind)
      BY <3>1 DEF Numbered
    <3>3. ASSUME NEW kind, NEW i PROVE After(kind, i)' = After(kind, i)
      BY <3>2 DEF After
    <3>4. ASSUME NEW m, NEW i, UndoneBy(m, i) PROVE UndoneBy(m, i)'
      BY <3>1, <3>2, <3>3, <3>4 DEF UndoneBy
    <3>5. RedoMatchesUndo'
      BY <3>1, <3>2 DEF UndoInv, RedoMatchesUndo
    <3> QED
      BY <3>1, <3>4, <3>5 DEF UndoInv
  <2> QED
    BY <2>1, <2>2
<1>3. UndoInv => RedoMatchesUndo
  BY DEF UndoInv
<1> QED
  BY <1>1, <1>2, <1>3, TypeInvHolds, PTL DEF Spec

----------------------------------------------------------------------------
(***************************************************************************)
(* What counts.                                                            *)
(***************************************************************************)
\* The compactions made in some turns, by their place in the log.
Compacting(l, turns) ==
  {i \in 1..Len(l) : l[i].k = "context.compacted" /\ l[i].turn \in turns}

\* What the book remembers of a compaction.
Noted(e) == [turn |-> e.turn, upto |-> e.upto]

\* A list of compactions notes those made in some turns, all of them and in order.
Lists(l, c, turns) ==
  \E at \in [1..Len(c) -> 1..Len(l)] :
    /\ \A i, j \in 1..Len(c) : i < j => at[i] < at[j]
    /\ {at[i] : i \in 1..Len(c)} = Compacting(l, turns)
    /\ \A i \in 1..Len(c) : c[i] = Noted(l[at[i]])

\* Turns follow one another in the log.
Follow(l) ==
  \A i, j \in 1..Len(l) :
    i < j /\ l[i].turn # 0 /\ l[j].turn # 0 => l[i].turn <= l[j].turn

Ascends(s) == \A i, j \in 1..Len(s) : i < j => s[i] < s[j]

Precede(a, b) == \A x \in Range(a), y \in Range(b) : x < y

Of(l, kind) == {i \in 1..Len(l) : l[i].k = kind}
UndosIn(l, t) == {i \in Of(l, "turn.reverted") : t \in Range(l[i].turns)}
RedosIn(l, t) == {i \in Of(l, "turn.unreverted") : t \in Range(l[i].turns)}

\* A list of turns of the log in their order, with the compactions made in them.
Listed(l, turns, compactions) ==
  /\ Range(turns) \subseteq Of(l, "turn.started")
  /\ Ascends(turns)
  /\ Lists(l, compactions, Range(turns))

\* Undos and redos name turns of the log.
NamesTurns(l) ==
  \A i \in Of(l, "turn.reverted") \union Of(l, "turn.unreverted") :
    Range(l[i].turns) \subseteq Of(l, "turn.started")

\* Turns that count were undone as often as redone, every other turn once more.
Balanced(l, b) ==
  \A t \in Of(l, "turn.started") :
    Cardinality(UndosIn(l, t)) =
      Cardinality(RedosIn(l, t)) + (IF t \in Range(b.turns) THEN 0 ELSE 1)

\* What was undone later comes before what was undone earlier, and after what counts.
Stacked(b) ==
  \A m \in 1..Len(b.undone) :
    /\ Precede(b.turns, b.undone[m].turns)
    /\ \A k \in 1..(m - 1) : Precede(b.undone[m].turns, b.undone[k].turns)

LiveOf(l, b) ==
  /\ Listed(l, b.turns, b.compactions)
  /\ \A m \in 1..Len(b.undone) : Listed(l, b.undone[m].turns, b.undone[m].compactions)
  /\ Stacked(b)
  /\ b.open # 0 => b.open \in Range(b.turns)
  /\ NamesTurns(l)
  /\ Balanced(l, b)

\* Inductive: the book lists the turns that count and, apart, those that can be redone,
\* all in order, each with its compactions.
LiveInv == LiveOf(log, book)

----------------------------------------------------------------------------
\* Events after the log was l leave what is listed as it was, if they add nothing to it.
LEMMA ListsLonger ==
  ASSUME NEW l, NEW l1, NEW c, NEW turns, NEW turns1, Lists(l, c, turns),
         Len(l) \in Nat, Len(c) \in Nat, Len(l1) = Len(l) + 1,
         \A i \in 1..Len(l) : l1[i] = l[i],
         Compacting(l1, turns1) = Compacting(l, turns)
  PROVE  Lists(l1, c, turns1)
<1>1. PICK at \in [1..Len(c) -> 1..Len(l)] :
         /\ \A i, j \in 1..Len(c) : i < j => at[i] < at[j]
         /\ {at[i] : i \in 1..Len(c)} = Compacting(l, turns)
         /\ \A i \in 1..Len(c) : c[i] = Noted(l[at[i]])
  BY DEF Lists
<1>2. at \in [1..Len(c) -> 1..Len(l1)]
  <2>1. 1..Len(l) \subseteq 1..Len(l1)
    OBVIOUS
  <2> QED
    BY <2>1
<1>3. \A i \in 1..Len(c) : c[i] = Noted(l1[at[i]])
  BY <1>1
<1> QED
  BY <1>1, <1>2, <1>3 DEF Lists

\* A new compaction comes last.
LEMMA ListsMore ==
  ASSUME NEW l, NEW l1, NEW c, NEW turns, NEW S, c \in Seq(S), Lists(l, c, turns),
         Len(l) \in Nat, Len(l1) = Len(l) + 1,
         \A i \in 1..Len(l) : l1[i] = l[i],
         Compacting(l1, turns) = Compacting(l, turns) \union {Len(l) + 1}
  PROVE  Lists(l1, Append(c, Noted(l1[Len(l) + 1])), turns)
<1> DEFINE n == Len(c)
           c1 == Append(c, Noted(l1[Len(l) + 1]))
<1>1. PICK at \in [1..n -> 1..Len(l)] :
         /\ \A i, j \in 1..n : i < j => at[i] < at[j]
         /\ {at[i] : i \in 1..n} = Compacting(l, turns)
         /\ \A i \in 1..n : c[i] = Noted(l[at[i]])
  BY DEF Lists
<1>2. /\ n \in Nat /\ Len(c1) = n + 1
      /\ \A i \in 1..n : c1[i] = c[i]
      /\ c1[n + 1] = Noted(l1[Len(l) + 1])
  <2>1. c \in Seq(S \union {Noted(l1[Len(l) + 1])})
    BY SeqMonotonic
  <2> QED
    BY <2>1, AppendProperties, LenProperties
<1> DEFINE at1 == [i \in 1..(n + 1) |-> IF i = n + 1 THEN Len(l) + 1 ELSE at[i]]
<1> HIDE DEF c1
<1>3. \A i \in 1..n : at1[i] = at[i] /\ at[i] \in 1..Len(l)
  BY <1>2
<1>4. at1[n + 1] = Len(l) + 1 /\ \A i \in 1..(n + 1) : i \in 1..n \/ i = n + 1
  BY <1>2
<1>5. at1 \in [1..(n + 1) -> 1..Len(l1)]
  <2>1. \A i \in 1..(n + 1) : at1[i] \in 1..Len(l1)
    BY <1>3, <1>4
  <2> QED
    BY <2>1
<1> HIDE DEF at1
<1>6. \A i, j \in 1..(n + 1) : i < j => at1[i] < at1[j]
  <2> SUFFICES ASSUME NEW i \in 1..(n + 1), NEW j \in 1..(n + 1), i < j
               PROVE  at1[i] < at1[j]
    OBVIOUS
  <2>1. i \in 1..n
    BY <1>2
  <2>2. CASE j \in 1..n
    BY <1>1, <1>3, <2>1, <2>2
  <2>3. CASE j = n + 1
    BY <1>3, <1>4, <2>1, <2>3
  <2> QED
    BY <1>4, <2>2, <2>3
<1>7. {at1[i] : i \in 1..(n + 1)} = Compacting(l1, turns)
  <2>1. {at1[i] : i \in 1..(n + 1)} = {at[i] : i \in 1..n} \union {Len(l) + 1}
    <3>1. 1..n \subseteq 1..(n + 1) /\ n + 1 \in 1..(n + 1)
      BY <1>2
    <3> QED
      BY <1>3, <1>4, <3>1
  <2> QED
    BY <1>1, <2>1
<1>8. \A i \in 1..(n + 1) : c1[i] = Noted(l1[at1[i]])
  <2>1. \A i \in 1..n : c1[i] = Noted(l1[at1[i]])
    BY <1>1, <1>2, <1>3
  <2>2. c1[n + 1] = Noted(l1[at1[n + 1]])
    BY <1>2, <1>4
  <2> QED
    BY <1>4, <2>1, <2>2
<1>9. Lists(l1, c1, turns)
  BY <1>2, <1>5, <1>6, <1>7, <1>8 DEF Lists
<1> QED
  BY <1>9 DEF c1

\* The turns before one and those from it on; where a list of compactions is cut there.
Before(turns, turn) == {t \in turns : t < turn}
Since(turns, turn) == {t \in turns : t >= turn}
Splits(c, kept, turn) ==
  /\ kept \in 0..Len(c)
  /\ \A i \in 1..kept : c[i].turn < turn
  /\ kept < Len(c) => c[kept + 1].turn >= turn

\* The turns below one keep the first compactions, the others have the rest.
LEMMA ListsCut ==
  ASSUME NEW l, NEW c, NEW turns, NEW S, c \in Seq(S), Lists(l, c, turns), Follow(l),
         Len(l) \in Nat, turns \subseteq Nat \ {0}, NEW turn \in Nat, NEW kept,
         Splits(c, kept, turn)
  PROVE  /\ Lists(l, SubSeq(c, 1, kept), Before(turns, turn))
         /\ Lists(l, SubSeq(c, kept + 1, Len(c)), Since(turns, turn))
<1> DEFINE n == Len(c)
           low == SubSeq(c, 1, kept)
           high == SubSeq(c, kept + 1, n)
           Low == Before(turns, turn)
           High == Since(turns, turn)
<1> USE DEF Before, Since, Splits
<1>1. PICK at \in [1..n -> 1..Len(l)] :
         /\ \A i, j \in 1..n : i < j => at[i] < at[j]
         /\ {at[i] : i \in 1..n} = Compacting(l, turns)
         /\ \A i \in 1..n : c[i] = Noted(l[at[i]])
  BY DEF Lists
<1>2. n \in Nat /\ kept \in Nat /\ kept <= n
  BY LenProperties
<1>3. /\ Len(low) = kept /\ \A i \in 1..kept : low[i] = c[i]
      /\ Len(high) = n - kept /\ \A i \in 1..(n - kept) : high[i] = c[kept + i]
  <2>1. /\ 1 \in Int /\ kept \in Int /\ \A i \in 1..kept : c[i] \in S
        /\ kept + 1 \in Int /\ n \in Int /\ \A i \in (kept + 1)..n : c[i] \in S
    BY <1>2, ElementOfSeq
  <2>2. Len(low) = kept /\ \A i \in 1..kept : low[i] = c[i]
    <3>1. /\ Len(low) = (IF 1 <= kept THEN kept - 1 + 1 ELSE 0)
          /\ \A i \in 1..(kept - 1 + 1) : low[i] = c[1 + i - 1]
      BY <2>1, SubSeqProperties
    <3> QED
      BY <1>2, <3>1
  <2>3. Len(high) = n - kept /\ \A i \in 1..(n - kept) : high[i] = c[kept + i]
    <3>1. /\ Len(high) = (IF kept + 1 <= n THEN n - (kept + 1) + 1 ELSE 0)
          /\ \A i \in 1..(n - (kept + 1) + 1) : high[i] = c[kept + 1 + i - 1]
      BY <2>1, SubSeqProperties
    <3>2. n - (kept + 1) + 1 = n - kept
      BY <1>2
    <3>3. \A i \in 1..(n - kept) : kept + 1 + i - 1 = kept + i
      BY <1>2
    <3>4. Len(high) = n - kept
      <4>1. CASE kept + 1 <= n
        BY <1>2, <3>1, <3>2, <4>1
      <4>2. CASE ~(kept + 1 <= n)
        <5>1. n - kept = 0 /\ Len(high) = 0
          BY <1>2, <3>1, <4>2
        <5> QED
          BY <5>1
      <4> QED
        BY <4>1, <4>2
    <3>5. \A i \in 1..(n - kept) : high[i] = c[kept + 1 + i - 1]
      BY <3>1, <3>2
    <3> QED
      BY <3>3, <3>4, <3>5
  <2> QED
    BY <2>2, <2>3
<1>4. \A i \in 1..n : /\ at[i] \in 1..Len(l) /\ l[at[i]].k = "context.compacted"
                      /\ l[at[i]].turn \in turns /\ c[i].turn = l[at[i]].turn
  <2> SUFFICES ASSUME NEW i \in 1..n
               PROVE  /\ at[i] \in 1..Len(l) /\ l[at[i]].k = "context.compacted"
                      /\ l[at[i]].turn \in turns /\ c[i].turn = l[at[i]].turn
    OBVIOUS
  <2>1. at[i] \in Compacting(l, turns)
    BY <1>1
  <2>2. c[i] = Noted(l[at[i]])
    BY <1>1
  <2> QED
    BY <2>1, <2>2 DEF Compacting, Noted
<1>5. \A i, j \in 1..n : i < j => l[at[i]].turn <= l[at[j]].turn
  <2> SUFFICES ASSUME NEW i \in 1..n, NEW j \in 1..n, i < j
               PROVE  l[at[i]].turn <= l[at[j]].turn
    OBVIOUS
  <2>1. at[i] < at[j] /\ l[at[i]].turn # 0 /\ l[at[j]].turn # 0
    BY <1>1, <1>4
  <2> QED
    BY <1>4, <2>1 DEF Follow
<1>6. \A i \in 1..n : l[at[i]].turn < turn <=> i <= kept
  <2> SUFFICES ASSUME NEW i \in 1..n PROVE l[at[i]].turn < turn <=> i <= kept
    OBVIOUS
  <2>1. l[at[i]].turn \in Nat
    BY <1>4
  <2>2. CASE i <= kept
    <3>1. i \in 1..kept
      BY <1>2, <2>2
    <3>2. c[i].turn < turn
      BY <3>1
    <3> QED
      BY <1>4, <2>2, <3>2
  <2>3. CASE ~(i <= kept)
    <3>1. kept < n /\ kept + 1 \in 1..n /\ (kept + 1 < i \/ kept + 1 = i)
      BY <1>2, <2>3
    <3>2. l[at[kept + 1]].turn >= turn /\ l[at[kept + 1]].turn \in Nat
      BY <1>4, <3>1
    <3>3. l[at[kept + 1]].turn <= l[at[i]].turn
      BY <1>5, <2>1, <3>1, <3>2
    <3> QED
      BY <2>1, <2>3, <3>2, <3>3
  <2> QED
    BY <2>2, <2>3
<1> HIDE DEF low, high
<1>7. Lists(l, low, Low)
  <2> DEFINE at1 == [i \in 1..kept |-> at[i]]
  <2>1. \A i \in 1..kept : i \in 1..n
    BY <1>2
  <2>2. at1 \in [1..kept -> 1..Len(l)] /\ \A i \in 1..kept : at1[i] = at[i]
    BY <1>4, <2>1
  <2> HIDE DEF at1
  <2>3. {at1[i] : i \in 1..kept} \subseteq Compacting(l, Low)
    BY <1>4, <1>6, <2>1, <2>2 DEF Compacting
  <2>4. Compacting(l, Low) \subseteq {at1[i] : i \in 1..kept}
    <3> SUFFICES ASSUME NEW k \in Compacting(l, Low) PROVE \E i \in 1..kept : k = at1[i]
      OBVIOUS
    <3>1. k \in Compacting(l, turns) /\ l[k].turn < turn
      BY DEF Compacting
    <3>2. PICK i \in 1..n : k = at[i]
      BY <1>1, <3>1
    <3>3. i \in 1..kept
      BY <1>2, <1>6, <3>1, <3>2
    <3> QED
      BY <2>2, <3>2, <3>3
  <2>5. \A i, j \in 1..kept : i < j => at1[i] < at1[j]
    BY <1>1, <2>1, <2>2
  <2>6. \A i \in 1..kept : low[i] = Noted(l[at1[i]])
    BY <1>1, <1>3, <2>1, <2>2
  <2>7. Len(low) = kept /\ {at1[i] : i \in 1..kept} = Compacting(l, Low)
    BY <1>3, <2>3, <2>4
  <2> QED
    BY <2>2, <2>5, <2>6, <2>7 DEF Lists
<1>8. Lists(l, high, High)
  <2> DEFINE m == n - kept
             at1 == [i \in 1..m |-> at[kept + i]]
  <2>1. m \in Nat /\ \A i \in 1..m : kept + i \in 1..n /\ ~(kept + i <= kept)
    BY <1>2
  <2>2. at1 \in [1..m -> 1..Len(l)] /\ \A i \in 1..m : at1[i] = at[kept + i]
    BY <1>4, <2>1
  <2> HIDE DEF at1
  <2>3. {at1[i] : i \in 1..m} \subseteq Compacting(l, High)
    <3> SUFFICES ASSUME NEW i \in 1..m PROVE at1[i] \in Compacting(l, High)
      OBVIOUS
    <3>1. ~(l[at[kept + i]].turn < turn) /\ l[at[kept + i]].turn \in Nat
      BY <1>4, <1>6, <2>1
    <3>2. l[at[kept + i]].turn \in High
      BY <1>4, <2>1, <3>1
    <3> QED
      BY <1>4, <2>1, <2>2, <3>2 DEF Compacting
  <2>4. Compacting(l, High) \subseteq {at1[i] : i \in 1..m}
    <3> SUFFICES ASSUME NEW k \in Compacting(l, High) PROVE \E i \in 1..m : k = at1[i]
      OBVIOUS
    <3>1. k \in Compacting(l, turns) /\ l[k].turn >= turn
      BY DEF Compacting
    <3>2. PICK i \in 1..n : k = at[i]
      BY <1>1, <3>1
    <3>3. ~(i <= kept)
      <4>1. l[at[i]].turn \in Nat /\ l[at[i]].turn >= turn
        BY <1>4, <3>1, <3>2
      <4> QED
        BY <1>6, <4>1
    <3>4. i - kept \in 1..m /\ kept + (i - kept) = i
      BY <1>2, <3>3
    <3>5. at1[i - kept] = at[i]
      BY <2>2, <3>4
    <3> QED
      BY <3>2, <3>4, <3>5
  <2>5. \A i, j \in 1..m : i < j => at1[i] < at1[j]
    <3> SUFFICES ASSUME NEW i \in 1..m, NEW j \in 1..m, i < j PROVE at1[i] < at1[j]
      OBVIOUS
    <3>1. kept + i < kept + j
      BY <1>2
    <3> QED
      BY <1>1, <2>1, <2>2, <3>1
  <2>6. \A i \in 1..m : high[i] = Noted(l[at1[i]])
    BY <1>1, <1>3, <2>1, <2>2
  <2>7. Len(high) = m /\ {at1[i] : i \in 1..m} = Compacting(l, High)
    BY <1>3, <2>3, <2>4
  <2> QED
    BY <2>2, <2>5, <2>6, <2>7 DEF Lists
<1> QED
  BY <1>7, <1>8 DEF low, high

\* Put together again.
LEMMA ListsJoined ==
  ASSUME NEW l, NEW c, NEW d, NEW low, NEW high, NEW S, c \in Seq(S), d \in Seq(S),
         Lists(l, c, low), Lists(l, d, high), Follow(l), Len(l) \in Nat,
         low \subseteq Nat \ {0}, high \subseteq Nat \ {0},
         \A t \in low, u \in high : t < u
  PROVE  Lists(l, c \o d, low \union high)
<1> DEFINE n == Len(c)
           m == Len(d)
           both == c \o d
<1>1. PICK at \in [1..n -> 1..Len(l)] :
         /\ \A i, j \in 1..n : i < j => at[i] < at[j]
         /\ {at[i] : i \in 1..n} = Compacting(l, low)
         /\ \A i \in 1..n : c[i] = Noted(l[at[i]])
  BY DEF Lists
<1>2. PICK al \in [1..m -> 1..Len(l)] :
         /\ \A i, j \in 1..m : i < j => al[i] < al[j]
         /\ {al[i] : i \in 1..m} = Compacting(l, high)
         /\ \A i \in 1..m : d[i] = Noted(l[al[i]])
  BY DEF Lists
<1>3. n \in Nat /\ m \in Nat /\ Len(both) = n + m
  BY LenProperties, ConcatProperties
<1>4. \A i \in 1..(n + m) : both[i] = IF i <= n THEN c[i] ELSE d[i - n]
  BY <1>3, ConcatProperties
<1> DEFINE all == [i \in 1..(n + m) |-> IF i <= n THEN at[i] ELSE al[i - n]]
<1> HIDE DEF both
<1>5. \A i \in 1..(n + m) : i \in 1..n \/ (~(i <= n) /\ i - n \in 1..m)
  BY <1>3
<1>6. \A i \in 1..(n + m) : /\ i <= n => i \in 1..n /\ all[i] = at[i]
                            /\ ~(i <= n) => i - n \in 1..m /\ all[i] = al[i - n]
  BY <1>3
<1>7. all \in [1..(n + m) -> 1..Len(l)]
  <2>1. \A i \in 1..(n + m) : all[i] \in 1..Len(l)
    BY <1>5, <1>6
  <2> QED
    BY <2>1
<1> HIDE DEF all
<1>8. \A i \in 1..n, j \in 1..m : at[i] < al[j]
  <2> SUFFICES ASSUME NEW i \in 1..n, NEW j \in 1..m PROVE at[i] < al[j]
    OBVIOUS
  <2>1. at[i] \in Compacting(l, low) /\ al[j] \in Compacting(l, high)
    BY <1>1, <1>2
  <2>2. /\ at[i] \in 1..Len(l) /\ al[j] \in 1..Len(l)
        /\ l[at[i]].turn \in low /\ l[al[j]].turn \in high
    BY <2>1 DEF Compacting
  <2>3. /\ l[at[i]].turn < l[al[j]].turn
        /\ l[at[i]].turn \in Nat /\ l[al[j]].turn \in Nat
        /\ l[at[i]].turn # 0 /\ l[al[j]].turn # 0
    BY <2>2
  <2>4. al[j] < at[i] => l[al[j]].turn <= l[at[i]].turn
    BY <2>2, <2>3 DEF Follow
  <2>5. al[j] # at[i]
    BY <2>3
  <2> QED
    BY <2>2, <2>3, <2>4, <2>5
<1>9. \A i, j \in 1..(n + m) : i < j => all[i] < all[j]
  <2> SUFFICES ASSUME NEW i \in 1..(n + m), NEW j \in 1..(n + m), i < j
               PROVE  all[i] < all[j]
    OBVIOUS
  <2>1. CASE j <= n
    BY <1>1, <1>3, <1>6, <2>1
  <2>2. CASE i <= n /\ ~(j <= n)
    BY <1>6, <1>8, <2>2
  <2>3. CASE ~(i <= n)
    <3>1. ~(j <= n) /\ i - n < j - n
      BY <1>3, <2>3
    <3> QED
      BY <1>2, <1>6, <2>3, <3>1
  <2> QED
    BY <2>1, <2>2, <2>3
<1>10. {all[i] : i \in 1..(n + m)} = Compacting(l, low \union high)
  <2>1. Compacting(l, low \union high) = Compacting(l, low) \union Compacting(l, high)
    BY DEF Compacting
  <2>2. {all[i] : i \in 1..(n + m)} \subseteq Compacting(l, low) \union Compacting(l, high)
    <3> SUFFICES ASSUME NEW i \in 1..(n + m)
                 PROVE  all[i] \in Compacting(l, low) \union Compacting(l, high)
      OBVIOUS
    <3> QED
      BY <1>1, <1>2, <1>6
  <2>3. Compacting(l, low) \subseteq {all[i] : i \in 1..(n + m)}
    <3> SUFFICES ASSUME NEW k \in Compacting(l, low)
                 PROVE  \E i \in 1..(n + m) : k = all[i]
      OBVIOUS
    <3>1. PICK i \in 1..n : k = at[i]
      BY <1>1
    <3>2. i \in 1..(n + m) /\ i <= n
      BY <1>3
    <3> QED
      BY <1>6, <3>1, <3>2
  <2>4. Compacting(l, high) \subseteq {all[i] : i \in 1..(n + m)}
    <3> SUFFICES ASSUME NEW k \in Compacting(l, high)
                 PROVE  \E i \in 1..(n + m) : k = all[i]
      OBVIOUS
    <3>1. PICK i \in 1..m : k = al[i]
      BY <1>2
    <3>2. PICK q : q = i + n
      OBVIOUS
    <3>3. q \in 1..(n + m) /\ ~(q <= n) /\ q - n = i
      BY <1>3, <3>2
    <3> QED
      BY <1>6, <3>1, <3>3
  <2> QED
    BY <2>1, <2>2, <2>3, <2>4
<1>11. \A i \in 1..(n + m) : both[i] = Noted(l[all[i]])
  BY <1>1, <1>2, <1>4, <1>6
<1>12. Lists(l, both, low \union high)
  BY <1>3, <1>7, <1>9, <1>10, <1>11 DEF Lists
<1> QED
  BY <1>12 DEF both

\* Where each is listed.
LEMMA ListsPlaces ==
  ASSUME NEW l, NEW c, NEW turns, Len(l) \in Nat, Len(c) \in Nat, Lists(l, c, turns)
  PROVE  /\ Len(c) = Cardinality(Compacting(l, turns))
         /\ \A i \in Compacting(l, turns) :
              c[Cardinality({j \in Compacting(l, turns) : j <= i})] = Noted(l[i])
<1> DEFINE n == Len(c)
           C == Compacting(l, turns)
<1>1. PICK at \in [1..n -> 1..Len(l)] :
         /\ \A i, j \in 1..n : i < j => at[i] < at[j]
         /\ {at[i] : i \in 1..n} = C
         /\ \A i \in 1..n : c[i] = Noted(l[at[i]])
  BY DEF Lists
<1>2. \A i \in 1..n : at[i] \in 1..Len(l)
  OBVIOUS
<1>3. \A i, j \in 1..n : at[i] = at[j] => i = j
  <2> SUFFICES ASSUME NEW i \in 1..n, NEW j \in 1..n, at[i] = at[j], i # j PROVE FALSE
    OBVIOUS
  <2>1. i < j \/ j < i
    OBVIOUS
  <2> QED
    BY <1>1, <1>2, <2>1
<1>4. ASSUME NEW k \in 0..n
      PROVE  Cardinality({at[i] : i \in 1..k}) = k
  <2> DEFINE first == [i \in 1..k |-> at[i]]
             F == {at[i] : i \in 1..k}
  <2>1. \A i \in 1..k : i \in 1..n
    OBVIOUS
  <2>2. first \in [1..k -> F] /\ \A i \in 1..k : first[i] = at[i]
    OBVIOUS
  <2> HIDE DEF first
  <2>3. first \in Bijection(1..k, F)
    <3>1. first \in Injection(1..k, F)
      BY <1>3, <2>1, <2>2 DEF Injection, IsInjective
    <3>2. first \in Surjection(1..k, F)
      BY <2>2 DEF Surjection
    <3> QED
      BY <3>1, <3>2 DEF Bijection
  <2>4. k \in Nat
    OBVIOUS
  <2>5. ExistsBijection(1..k, F)
    BY <2>3 DEF ExistsBijection
  <2> HIDE DEF F
  <2>6. Cardinality(F) = k
    BY <2>4, <2>5, FS_CountingElements
  <2> QED
    BY <2>6 DEF F
<1>5. n = Cardinality(C)
  <2>1. n \in 0..n
    OBVIOUS
  <2>2. Cardinality({at[i] : i \in 1..n}) = n
    BY <1>4, <2>1
  <2> QED
    BY <1>1, <2>2
<1>6. ASSUME NEW i \in C
      PROVE  c[Cardinality({j \in C : j <= i})] = Noted(l[i])
  <2>1. PICK k \in 1..n : i = at[k]
    BY <1>1, <1>6
  <2>2. {j \in C : j <= i} \subseteq {at[j] : j \in 1..k}
    <3> SUFFICES ASSUME NEW j \in C, j <= i PROVE \E q \in 1..k : j = at[q]
      OBVIOUS
    <3>1. PICK q \in 1..n : j = at[q]
      BY <1>1
    <3>2. ~(k < q)
      BY <1>1, <1>2, <2>1, <3>1
    <3>3. q \in 1..k
      BY <3>2
    <3> QED
      BY <3>1, <3>3
  <2>3. {at[j] : j \in 1..k} \subseteq {j \in C : j <= i}
    <3> SUFFICES ASSUME NEW j \in 1..k PROVE at[j] \in C /\ at[j] <= i
      OBVIOUS
    <3>1. j \in 1..n /\ (j < k \/ j = k)
      OBVIOUS
    <3>2. at[j] \in C /\ at[j] \in Int
      BY <1>1, <1>2, <3>1
    <3>3. at[j] <= i
      BY <1>1, <1>2, <2>1, <3>1
    <3> QED
      BY <3>2, <3>3
  <2>4. k \in 0..n /\ {j \in C : j <= i} = {at[j] : j \in 1..k}
    BY <2>2, <2>3
  <2>5. Cardinality({j \in C : j <= i}) = k
    BY <1>4, <2>4
  <2> QED
    BY <1>1, <2>1, <2>5
<1> QED
  BY <1>5, <1>6

----------------------------------------------------------------------------
\* Log l1 is log l and one more event.
LongerBy(l, l1, e) ==
  /\ Len(l) \in Nat /\ Len(l1) = Len(l) + 1
  /\ \A i \in 1..Len(l) : l1[i] = l[i]
  /\ l1[Len(l) + 1] = e

LEMMA OfGrows ==
  ASSUME NEW l, NEW l1, NEW e, LongerBy(l, l1, e), NEW kind
  PROVE  /\ Of(l, kind) \subseteq 1..Len(l)
         /\ Of(l1, kind) = IF e.k = kind THEN Of(l, kind) \union {Len(l) + 1}
                           ELSE Of(l, kind)
BY DEF LongerBy, Of

LEMMA CompactingGrows ==
  ASSUME NEW l, NEW l1, NEW e, LongerBy(l, l1, e), NEW turns
  PROVE  Compacting(l1, turns) =
           IF e.k = "context.compacted" /\ e.turn \in turns
             THEN Compacting(l, turns) \union {Len(l) + 1} ELSE Compacting(l, turns)
BY DEF LongerBy, Compacting

LEMMA ListedStays ==
  ASSUME NEW l, NEW l1, NEW e, LongerBy(l, l1, e), NEW turns, NEW compactions,
         Len(compactions) \in Nat, Listed(l, turns, compactions),
         ~(e.k = "context.compacted" /\ e.turn \in Range(turns))
  PROVE  Listed(l1, turns, compactions)
<1>1. Compacting(l1, Range(turns)) = Compacting(l, Range(turns))
  BY CompactingGrows
<1>2. Lists(l1, compactions, Range(turns))
  BY <1>1, ListsLonger DEF Listed, LongerBy
<1>3. Range(turns) \subseteq Of(l1, "turn.started")
  BY OfGrows DEF Listed
<1> QED
  BY <1>2, <1>3 DEF Listed

LEMMA CountsGrow ==
  ASSUME NEW l, NEW l1, NEW e, LongerBy(l, l1, e), NEW t
  PROVE  /\ Cardinality(UndosIn(l, t)) \in Nat /\ Cardinality(RedosIn(l, t)) \in Nat
         /\ Cardinality(UndosIn(l1, t)) =
              IF e.k = "turn.reverted" /\ t \in Range(e.turns)
                THEN Cardinality(UndosIn(l, t)) + 1 ELSE Cardinality(UndosIn(l, t))
         /\ Cardinality(RedosIn(l1, t)) =
              IF e.k = "turn.unreverted" /\ t \in Range(e.turns)
                THEN Cardinality(RedosIn(l, t)) + 1 ELSE Cardinality(RedosIn(l, t))
<1> DEFINE n == Len(l)
<1>1. n \in Nat /\ IsFiniteSet(1..n) /\ n + 1 \notin 1..n
  BY FS_Interval DEF LongerBy
<1>2. /\ UndosIn(l, t) \subseteq 1..n
      /\ UndosIn(l1, t) = IF e.k = "turn.reverted" /\ t \in Range(e.turns)
                            THEN UndosIn(l, t) \union {n + 1} ELSE UndosIn(l, t)
  BY <1>1, OfGrows DEF UndosIn, LongerBy
<1>3. /\ RedosIn(l, t) \subseteq 1..n
      /\ RedosIn(l1, t) = IF e.k = "turn.unreverted" /\ t \in Range(e.turns)
                            THEN RedosIn(l, t) \union {n + 1} ELSE RedosIn(l, t)
  BY <1>1, OfGrows DEF UndosIn, RedosIn, LongerBy
<1>4. IsFiniteSet(UndosIn(l, t)) /\ IsFiniteSet(RedosIn(l, t))
  BY <1>1, <1>2, <1>3, FS_Subset
<1>5. Cardinality(UndosIn(l, t)) \in Nat /\ Cardinality(RedosIn(l, t)) \in Nat
  BY <1>4, FS_CardinalityType
<1>6. n + 1 \notin UndosIn(l, t) /\ n + 1 \notin RedosIn(l, t)
  BY <1>1, <1>2, <1>3
<1>7. /\ Cardinality(UndosIn(l, t) \union {n + 1}) = Cardinality(UndosIn(l, t)) + 1
      /\ Cardinality(RedosIn(l, t) \union {n + 1}) = Cardinality(RedosIn(l, t)) + 1
  BY <1>4, <1>6, FS_AddElement
<1> QED
  BY <1>2, <1>3, <1>5, <1>7

\* Nothing but undos and redos changes how often a turn was undone; a turn that starts
\* counts.
LEMMA BalancedStays ==
  ASSUME NEW l, NEW l1, NEW e, LongerBy(l, l1, e), NEW b, NEW b1, LiveOf(l, b),
         e.k \notin {"turn.reverted", "turn.unreverted"},
         Range(b1.turns) = IF e.k = "turn.started" THEN Range(b.turns) \union {Len(l) + 1}
                           ELSE Range(b.turns)
  PROVE  NamesTurns(l1) /\ Balanced(l1, b1)
<1> DEFINE n == Len(l)
<1>1. n \in Nat
  BY DEF LongerBy
<1>2. ASSUME NEW kind
      PROVE  /\ Of(l, kind) \subseteq 1..n
             /\ Of(l1, kind) = IF e.k = kind THEN Of(l, kind) \union {n + 1}
                               ELSE Of(l, kind)
  BY OfGrows
<1>3. NamesTurns(l) /\ Balanced(l, b)
  BY DEF LiveOf
<1>4. NamesTurns(l1)
  <2> SUFFICES ASSUME NEW i \in Of(l1, "turn.reverted") \union Of(l1, "turn.unreverted")
               PROVE  Range(l1[i].turns) \subseteq Of(l1, "turn.started")
    BY DEF NamesTurns
  <2>1. i \in Of(l, "turn.reverted") \union Of(l, "turn.unreverted") /\ i \in 1..n
    BY <1>2
  <2>2. l1[i] = l[i] /\ Range(l[i].turns) \subseteq Of(l, "turn.started")
    BY <1>3, <2>1 DEF LongerBy, NamesTurns
  <2> QED
    BY <1>2, <2>2
<1>5. Balanced(l1, b1)
  <2> SUFFICES ASSUME NEW t \in Of(l1, "turn.started")
               PROVE  Cardinality(UndosIn(l1, t)) =
                        Cardinality(RedosIn(l1, t)) + (IF t \in Range(b1.turns) THEN 0 ELSE 1)
    BY DEF Balanced
  <2>1. /\ Cardinality(UndosIn(l1, t)) = Cardinality(UndosIn(l, t))
        /\ Cardinality(RedosIn(l1, t)) = Cardinality(RedosIn(l, t))
        /\ Cardinality(RedosIn(l, t)) \in Nat
    BY CountsGrow
  <2>2. CASE t \in Of(l, "turn.started")
    <3>1. t # n + 1
      BY <1>1, <1>2, <2>2
    <3>2. t \in Range(b1.turns) <=> t \in Range(b.turns)
      BY <3>1
    <3> QED
      BY <1>3, <2>1, <2>2, <3>2 DEF Balanced
  <2>3. CASE t \notin Of(l, "turn.started")
    <3>1. t = n + 1 /\ e.k = "turn.started" /\ t \in Range(b1.turns)
      BY <1>2, <2>3
    <3>2. UndosIn(l, t) = {} /\ RedosIn(l, t) = {}
      BY <1>3, <2>3 DEF UndosIn, RedosIn, NamesTurns
    <3>3. Cardinality(UndosIn(l, t)) = Cardinality(RedosIn(l, t))
      BY <3>2
    <3> QED
      BY <2>1, <3>1, <3>3
  <2> QED
    BY <2>2, <2>3
<1> QED
  BY <1>4, <1>5

\* Part of an ascending list.
LEMMA AscendingParts ==
  ASSUME NEW s \in Seq(Nat), Ascends(s), NEW p \in 1..Len(s)
  PROVE  /\ Ascends(SubSeq(s, 1, p - 1)) /\ Ascends(SubSeq(s, p, Len(s)))
         /\ Range(SubSeq(s, 1, p - 1)) = {t \in Range(s) : t < s[p]}
         /\ Range(SubSeq(s, p, Len(s))) = {t \in Range(s) : t >= s[p]}
<1> DEFINE n == Len(s)
           low == SubSeq(s, 1, p - 1)
           high == SubSeq(s, p, n)
<1>1. n \in Nat /\ p \in Nat /\ p <= n /\ DOMAIN s = 1..n /\ \A i \in 1..n : s[i] \in Nat
  BY LenProperties, ElementOfSeq
<1>2. /\ low \in Seq(Nat) /\ Len(low) = p - 1 /\ \A i \in 1..(p - 1) : low[i] = s[i]
  <2>1. 1 \in Int /\ p - 1 \in Int /\ \A i \in 1..(p - 1) : s[i] \in Nat
    BY <1>1
  <2>2. /\ low \in Seq(Nat) /\ Len(low) = (IF 1 <= p - 1 THEN p - 1 - 1 + 1 ELSE 0)
        /\ \A i \in 1..(p - 1 - 1 + 1) : low[i] = s[1 + i - 1]
    BY <2>1, SubSeqProperties
  <2> QED
    BY <1>1, <2>2
<1>3. /\ high \in Seq(Nat) /\ Len(high) = n - p + 1
      /\ \A i \in 1..(n - p + 1) : high[i] = s[p + i - 1]
  <2>1. p \in Int /\ n \in Int /\ \A i \in p..n : s[i] \in Nat
    BY <1>1
  <2>2. /\ high \in Seq(Nat) /\ Len(high) = (IF p <= n THEN n - p + 1 ELSE 0)
        /\ \A i \in 1..(n - p + 1) : high[i] = s[p + i - 1]
    BY <2>1, SubSeqProperties
  <2> QED
    BY <1>1, <2>2
<1> HIDE DEF low, high
<1>4. DOMAIN low = 1..(p - 1) /\ DOMAIN high = 1..(n - p + 1)
  BY <1>2, <1>3, LenProperties
<1>5. Ascends(low)
  <2>1. \A i \in 1..(p - 1) : i \in 1..n
    BY <1>1
  <2> QED
    BY <1>2, <2>1 DEF Ascends
<1>6. Ascends(high)
  <2> SUFFICES ASSUME NEW i \in 1..(n - p + 1), NEW j \in 1..(n - p + 1), i < j
               PROVE  high[i] < high[j]
    BY <1>3 DEF Ascends
  <2>1. p + i - 1 \in 1..n /\ p + j - 1 \in 1..n /\ p + i - 1 < p + j - 1
    BY <1>1
  <2>2. s[p + i - 1] < s[p + j - 1]
    BY <2>1 DEF Ascends
  <2> QED
    BY <1>3, <2>2
<1>7. \A i \in 1..n : (s[i] < s[p] <=> i < p) /\ (s[i] >= s[p] <=> i >= p)
  <2> SUFFICES ASSUME NEW i \in 1..n
               PROVE  (s[i] < s[p] <=> i < p) /\ (s[i] >= s[p] <=> i >= p)
    OBVIOUS
  <2>1. (i < p => s[i] < s[p]) /\ (p < i => s[p] < s[i])
    BY DEF Ascends
  <2> QED
    BY <1>1, <2>1
<1>8. Range(low) = {t \in Range(s) : t < s[p]}
  <2>1. Range(low) = {s[i] : i \in 1..(p - 1)}
    BY <1>2, <1>4 DEF Range
  <2>2. \A i : i \in 1..(p - 1) <=> i \in 1..n /\ i < p
    BY <1>1
  <2> QED
    BY <1>1, <1>7, <2>1, <2>2 DEF Range
<1>9. Range(high) = {t \in Range(s) : t >= s[p]}
  <2>1. Range(high) = {s[p + i - 1] : i \in 1..(n - p + 1)}
    BY <1>3, <1>4 DEF Range
  <2>2. \A i \in 1..(n - p + 1) : p + i - 1 \in 1..n /\ p + i - 1 >= p
    BY <1>1
  <2>3. \A i \in 1..n : i >= p => i - p + 1 \in 1..(n - p + 1) /\ p + (i - p + 1) - 1 = i
    BY <1>1
  <2>4. Range(high) = {s[i] : i \in {j \in 1..n : j >= p}}
    <3>1. Range(high) \subseteq {s[i] : i \in {j \in 1..n : j >= p}}
      BY <2>1, <2>2
    <3>2. {s[i] : i \in {j \in 1..n : j >= p}} \subseteq Range(high)
      <4> SUFFICES ASSUME NEW i \in 1..n, i >= p PROVE s[i] \in Range(high)
        OBVIOUS
      <4>1. PICK j \in 1..(n - p + 1) : p + j - 1 = i
        BY <2>3
      <4> QED
        BY <2>1, <4>1
    <3> QED
      BY <3>1, <3>2
  <2> QED
    BY <1>1, <1>7, <2>4 DEF Range
<1> QED
  BY <1>5, <1>6, <1>8, <1>9 DEF low, high

LEMMA AscendingJoined ==
  ASSUME NEW s \in Seq(Nat), NEW r \in Seq(Nat), Ascends(s), Ascends(r), Precede(s, r)
  PROVE  Ascends(s \o r) /\ Range(s \o r) = Range(s) \union Range(r)
<1> DEFINE n == Len(s)
           m == Len(r)
           both == s \o r
<1>1. /\ n \in Nat /\ m \in Nat /\ DOMAIN s = 1..n /\ DOMAIN r = 1..m
      /\ both \in Seq(Nat) /\ Len(both) = n + m /\ DOMAIN both = 1..(n + m)
      /\ \A i \in 1..(n + m) : both[i] = IF i <= n THEN s[i] ELSE r[i - n]
  BY LenProperties, ConcatProperties
<1> HIDE DEF both
<1>2. \A i \in 1..(n + m) : /\ i <= n => i \in 1..n /\ both[i] = s[i]
                            /\ ~(i <= n) => i - n \in 1..m /\ both[i] = r[i - n]
  BY <1>1
<1>3. Ascends(both)
  <2> SUFFICES ASSUME NEW i \in 1..(n + m), NEW j \in 1..(n + m), i < j
               PROVE  both[i] < both[j]
    BY <1>1 DEF Ascends
  <2>1. CASE j <= n
    BY <1>1, <1>2, <2>1 DEF Ascends
  <2>2. CASE i <= n /\ ~(j <= n)
    BY <1>1, <1>2, <2>2 DEF Precede, Range
  <2>3. CASE ~(i <= n)
    <3>1. ~(j <= n) /\ i - n < j - n
      BY <1>1, <2>3
    <3> QED
      BY <1>2, <2>3, <3>1 DEF Ascends
  <2> QED
    BY <2>1, <2>2, <2>3
<1>4. Range(both) \subseteq Range(s) \union Range(r)
  BY <1>1, <1>2 DEF Range
<1>5. Range(s) \subseteq Range(both)
  <2> SUFFICES ASSUME NEW i \in 1..n PROVE s[i] \in Range(both)
    BY <1>1 DEF Range
  <2>1. i \in 1..(n + m) /\ i <= n
    BY <1>1
  <2> QED
    BY <1>1, <1>2, <2>1 DEF Range
<1>6. Range(r) \subseteq Range(both)
  <2> SUFFICES ASSUME NEW i \in 1..m PROVE r[i] \in Range(both)
    BY <1>1 DEF Range
  <2>1. PICK q : q = i + n
    OBVIOUS
  <2>2. q \in 1..(n + m) /\ ~(q <= n) /\ q - n = i
    BY <1>1, <2>1
  <2> QED
    BY <1>1, <1>2, <2>2 DEF Range
<1> QED
  BY <1>3, <1>4, <1>5, <1>6 DEF both

----------------------------------------------------------------------------
\* An event offered to the book of a log.
Recorded(l, l1, b, e) ==
  /\ LongerBy(l, l1, e)
  /\ Shaped(b) /\ Typed(b, Len(l)) /\ Fit(e) /\ Legal(b, e)
  /\ \A i \in 1..Len(l) : l[i].turn <= i

\* The lists of a book.
LEMMA Lengths ==
  ASSUME NEW n \in Nat, NEW b, Typed(b, n)
  PROVE  /\ Len(b.compactions) \in Nat /\ Len(b.undone) \in Nat /\ Len(b.turns) \in Nat
         /\ b.turns \in Seq(Nat) /\ b.compactions \in Seq(Compactions(n))
         /\ DOMAIN b.turns = 1..Len(b.turns)
         /\ \A m \in 1..Len(b.undone) :
              /\ b.undone[m].turns \in Seq(Nat)
              /\ b.undone[m].compactions \in Seq(Compactions(n))
              /\ Len(b.undone[m].compactions) \in Nat
<1>1. /\ b.turns \in Seq(1..n) /\ b.compactions \in Seq(Compactions(n))
      /\ b.undone \in Seq(Reverted(n))
  BY DEF Typed
<1>2. Seq(1..n) \subseteq Seq(Nat)
  <2>1. 1..n \subseteq Nat
    OBVIOUS
  <2> QED
    BY <2>1, SeqMonotonic, Zenon
<1>3. ASSUME NEW m \in 1..Len(b.undone)
      PROVE  /\ b.undone[m].turns \in Seq(Nat)
             /\ b.undone[m].compactions \in Seq(Compactions(n))
             /\ Len(b.undone[m].compactions) \in Nat
  <2>1. b.undone[m] \in Reverted(n)
    BY <1>1, ElementOfSeq
  <2>2. /\ b.undone[m].turns \in Seq(1..n)
        /\ b.undone[m].compactions \in Seq(Compactions(n))
    BY <2>1 DEF Reverted
  <2> QED
    BY <1>2, <2>2, LenProperties
<1> QED
  BY <1>1, <1>2, <1>3, LenProperties

LEMMA LiveOnward ==
  ASSUME NEW l, NEW l1, NEW b, NEW e, Recorded(l, l1, b, e), LiveOf(l, b),
         e.k \notin {"turn.started", "context.compacted", "turn.reverted",
                     "turn.unreverted"}
  PROVE  LiveOf(l1, Record(b, e))
<1> DEFINE n == Len(l)
           r == Record(b, e)
<1>1. /\ LongerBy(l, l1, e) /\ Shaped(b) /\ Typed(b, n) /\ Legal(b, e) /\ n \in Nat
  BY DEF Recorded, LongerBy
<1>2. r.turns = b.turns /\ r.compactions = b.compactions /\ r.undone = b.undone
  BY <1>1, RecordOnward
<1>3. r.open \in {0, b.open}
  BY <1>1, RecordNumbers
<1>4. Listed(l1, r.turns, r.compactions)
  BY <1>1, <1>2, Lengths, ListedStays DEF LiveOf
<1>5. \A m \in 1..Len(r.undone) : Listed(l1, r.undone[m].turns, r.undone[m].compactions)
  BY <1>1, <1>2, Lengths, ListedStays DEF LiveOf
<1>6. Stacked(r)
  BY <1>2 DEF LiveOf, Stacked
<1>7. NamesTurns(l1) /\ Balanced(l1, r)
  BY <1>1, <1>2, BalancedStays
<1>8. r.open # 0 => r.open \in Range(r.turns)
  BY <1>2, <1>3 DEF LiveOf
<1> QED
  BY <1>4, <1>5, <1>6, <1>7, <1>8 DEF LiveOf

LEMMA LiveStarted ==
  ASSUME NEW l, NEW l1, NEW b, NEW e, Recorded(l, l1, b, e), LiveOf(l, b),
         e.k = "turn.started"
  PROVE  LiveOf(l1, Record(b, e))
<1> DEFINE n == Len(l)
           r == Record(b, e)
<1>1. /\ LongerBy(l, l1, e) /\ Shaped(b) /\ Typed(b, n) /\ Legal(b, e) /\ n \in Nat
      /\ e.seq = n + 1
  BY DEF Recorded, LongerBy, Legal, Typed
<1>2. /\ r.turns = Append(b.turns, n + 1) /\ r.compactions = b.compactions
      /\ r.undone = << >> /\ r.open = n + 1
  BY <1>1, RecordOnward, RecordNumbers
<1>3. b.turns \in Seq(Nat) /\ Len(b.compactions) \in Nat /\ Len(b.turns) \in Nat
  BY <1>1, Lengths
<1>4. Listed(l, b.turns, b.compactions)
  BY DEF LiveOf
<1>5. PICK k : k = Len(b.turns)
  OBVIOUS
<1>6. /\ k \in Nat /\ Len(r.turns) = k + 1 /\ DOMAIN r.turns = 1..(k + 1)
      /\ DOMAIN b.turns = 1..k
      /\ \A i \in 1..k : r.turns[i] = b.turns[i]
      /\ r.turns[k + 1] = n + 1
  BY <1>1, <1>2, <1>3, <1>5, AppendProperties, LenProperties
<1>7. Range(r.turns) = Range(b.turns) \union {n + 1}
  <2>1. \A i \in 1..(k + 1) : i \in 1..k \/ i = k + 1
    BY <1>6
  <2>2. \A i \in 1..k : i \in 1..(k + 1)
    BY <1>6
  <2>3. k + 1 \in 1..(k + 1)
    BY <1>6
  <2>4. Range(r.turns) \subseteq Range(b.turns) \union {n + 1}
    BY <1>6, <2>1 DEF Range
  <2>5. Range(b.turns) \union {n + 1} \subseteq Range(r.turns)
    BY <1>6, <2>2, <2>3 DEF Range
  <2> QED
    BY <2>4, <2>5
<1>8. Range(b.turns) \subseteq 1..n
  BY <1>1, <1>4, OfGrows DEF Listed
<1>9. Listed(l1, r.turns, r.compactions)
  <2>1. Compacting(l1, Range(r.turns)) = Compacting(l, Range(b.turns))
    <3>1. Compacting(l1, Range(r.turns)) = Compacting(l, Range(r.turns))
      BY <1>1, CompactingGrows
    <3>2. ASSUME NEW i \in 1..n PROVE l[i].turn # n + 1
      BY <1>1 DEF Recorded
    <3>3. Compacting(l, Range(r.turns)) = Compacting(l, Range(b.turns))
      BY <1>7, <3>2 DEF Compacting
    <3> QED
      BY <3>1, <3>3
  <2>2. Lists(l1, r.compactions, Range(r.turns))
    BY <1>1, <1>2, <1>3, <1>4, <2>1, ListsLonger DEF Listed, LongerBy
  <2>3. Range(r.turns) \subseteq Of(l1, "turn.started")
    <3>1. Of(l1, "turn.started") = Of(l, "turn.started") \union {n + 1}
      BY <1>1, OfGrows
    <3> QED
      BY <1>4, <1>7, <3>1 DEF Listed
  <2>4. Ascends(r.turns)
    <3> SUFFICES ASSUME NEW i \in 1..(k + 1), NEW j \in 1..(k + 1), i < j
                 PROVE  r.turns[i] < r.turns[j]
      BY <1>6 DEF Ascends
    <3>1. i \in 1..k /\ (j \in 1..k \/ j = k + 1)
      BY <1>6
    <3>2. b.turns[i] \in 1..n
      BY <1>6, <1>8, <3>1 DEF Range
    <3>3. CASE j \in 1..k
      BY <1>4, <1>5, <1>6, <3>1, <3>3 DEF Listed, Ascends
    <3>4. CASE j = k + 1
      BY <1>1, <1>6, <3>1, <3>2, <3>4
    <3> QED
      BY <3>1, <3>3, <3>4
  <2> QED
    BY <2>2, <2>3, <2>4 DEF Listed
<1>10. Len(r.undone) = 0 /\ 1..0 = {}
  BY <1>2, EmptySeq
<1>11. /\ \A m \in 1..Len(r.undone) :
            Listed(l1, r.undone[m].turns, r.undone[m].compactions)
       /\ Stacked(r)
  BY <1>10 DEF Stacked
<1>12. NamesTurns(l1) /\ Balanced(l1, r)
  BY <1>1, <1>7, BalancedStays
<1>13. r.open \in Range(r.turns)
  BY <1>2, <1>7
<1> QED
  BY <1>9, <1>11, <1>12, <1>13 DEF LiveOf

LEMMA LiveCompacted ==
  ASSUME NEW l, NEW l1, NEW b, NEW e, Recorded(l, l1, b, e), LiveOf(l, b),
         e.k = "context.compacted"
  PROVE  LiveOf(l1, Record(b, e))
<1> DEFINE n == Len(l)
           r == Record(b, e)
<1>1. /\ LongerBy(l, l1, e) /\ Shaped(b) /\ Typed(b, n) /\ Legal(b, e) /\ n \in Nat
      /\ l1[n + 1] = e
  BY DEF Recorded, LongerBy
<1>2. e.turn # 0 /\ e.turn = b.open
  BY <1>1 DEF Legal, LegalTurn, InTurnOnly
<1>3. /\ r.turns = b.turns /\ r.compactions = Append(b.compactions, Noted(e))
      /\ r.undone = << >> /\ r.open = b.open
  BY <1>1, <1>2, RecordOnward, RecordNumbers DEF Noted
<1>4. Listed(l, b.turns, b.compactions) /\ e.turn \in Range(b.turns)
  BY <1>2 DEF LiveOf
<1>5. b.compactions \in Seq(Compactions(n))
  BY <1>1, Lengths
<1>6. PICK turns : turns = Range(b.turns)
  OBVIOUS
<1>7. Compacting(l1, turns) = Compacting(l, turns) \union {n + 1}
  BY <1>1, <1>4, <1>6, CompactingGrows
<1>8. PICK S : S = Compactions(n)
  OBVIOUS
<1>9. Lists(l1, Append(b.compactions, Noted(l1[n + 1])), turns)
  <2>1. Lists(l, b.compactions, turns) /\ b.compactions \in Seq(S)
    BY <1>4, <1>5, <1>6, <1>8 DEF Listed
  <2> QED
    BY <1>1, <1>7, <2>1, ListsMore DEF LongerBy
<1>10. Listed(l1, r.turns, r.compactions)
  <2>1. Of(l, "turn.started") \subseteq Of(l1, "turn.started")
    BY <1>1, OfGrows
  <2> QED
    BY <1>1, <1>3, <1>4, <1>6, <1>9, <2>1 DEF Listed
<1>11. Len(r.undone) = 0 /\ 1..0 = {}
  BY <1>3, EmptySeq
<1>12. /\ \A m \in 1..Len(r.undone) :
            Listed(l1, r.undone[m].turns, r.undone[m].compactions)
       /\ Stacked(r)
  BY <1>11 DEF Stacked
<1>13. NamesTurns(l1) /\ Balanced(l1, r)
  BY <1>1, <1>3, BalancedStays
<1>14. r.open # 0 => r.open \in Range(r.turns)
  BY <1>3 DEF LiveOf
<1> QED
  BY <1>10, <1>12, <1>13, <1>14 DEF LiveOf

----------------------------------------------------------------------------
\* What an undo or a redo does to the number of undos and redos of each turn.
LEMMA BalancedAgain ==
  ASSUME NEW l, NEW l1, NEW e, LongerBy(l, l1, e), NEW b, NEW b1, LiveOf(l, b),
         e.k \in {"turn.reverted", "turn.unreverted"},
         Range(e.turns) \subseteq Of(l, "turn.started"),
         \A t \in Range(e.turns) :
           /\ t \in Range(b.turns) <=> e.k = "turn.reverted"
           /\ t \in Range(b1.turns) <=> e.k = "turn.unreverted",
         \A t : t \notin Range(e.turns) => (t \in Range(b1.turns) <=> t \in Range(b.turns))
  PROVE  NamesTurns(l1) /\ Balanced(l1, b1)
<1> DEFINE n == Len(l)
<1>1. n \in Nat /\ l1[n + 1] = e /\ n + 1 \notin 1..n
  BY DEF LongerBy
<1>2. ASSUME NEW kind
      PROVE  /\ Of(l, kind) \subseteq 1..n
             /\ Of(l1, kind) = IF e.k = kind THEN Of(l, kind) \union {n + 1}
                               ELSE Of(l, kind)
  BY OfGrows
<1>3. NamesTurns(l) /\ Balanced(l, b) /\ Of(l1, "turn.started") = Of(l, "turn.started")
  BY <1>2 DEF LiveOf
<1>4. NamesTurns(l1)
  <2> SUFFICES ASSUME NEW i \in Of(l1, "turn.reverted") \union Of(l1, "turn.unreverted")
               PROVE  Range(l1[i].turns) \subseteq Of(l1, "turn.started")
    BY DEF NamesTurns
  <2>1. CASE i \in Of(l, "turn.reverted") \union Of(l, "turn.unreverted")
    <3>1. i \in 1..n
      BY <1>2, <2>1
    <3>2. l1[i] = l[i] /\ Range(l[i].turns) \subseteq Of(l, "turn.started")
      BY <1>3, <2>1, <3>1 DEF LongerBy, NamesTurns
    <3> QED
      BY <1>3, <3>2
  <2>2. CASE i \notin Of(l, "turn.reverted") \union Of(l, "turn.unreverted")
    <3>1. i = n + 1
      BY <1>2, <2>2
    <3> QED
      BY <1>1, <1>3, <3>1
  <2> QED
    BY <2>1, <2>2
<1>5. Balanced(l1, b1)
  <2> SUFFICES ASSUME NEW t \in Of(l, "turn.started")
               PROVE  Cardinality(UndosIn(l1, t)) =
                        Cardinality(RedosIn(l1, t)) + (IF t \in Range(b1.turns) THEN 0 ELSE 1)
    BY <1>3 DEF Balanced
  <2> DEFINE u == Cardinality(UndosIn(l, t))
             d == Cardinality(RedosIn(l, t))
             u1 == Cardinality(UndosIn(l1, t))
             d1 == Cardinality(RedosIn(l1, t))
  <2>1. /\ u \in Nat /\ d \in Nat
        /\ u1 = IF e.k = "turn.reverted" /\ t \in Range(e.turns) THEN u + 1 ELSE u
        /\ d1 = IF e.k = "turn.unreverted" /\ t \in Range(e.turns) THEN d + 1 ELSE d
    BY CountsGrow
  <2>2. u = d + (IF t \in Range(b.turns) THEN 0 ELSE 1)
    BY <1>3 DEF Balanced
  <2> SUFFICES u1 = d1 + (IF t \in Range(b1.turns) THEN 0 ELSE 1)
    OBVIOUS
  <2> HIDE DEF u, d, u1, d1
  <2>3. CASE t \notin Range(e.turns)
    <3>1. t \in Range(b1.turns) <=> t \in Range(b.turns)
      BY <2>3
    <3> QED
      BY <2>1, <2>2, <2>3, <3>1
  <2>4. CASE t \in Range(e.turns) /\ e.k = "turn.reverted"
    <3>1. t \in Range(b.turns) /\ t \notin Range(b1.turns)
      BY <2>4
    <3>2. u = d + 0 /\ u1 = u + 1 /\ d1 = d
      BY <2>1, <2>2, <2>4, <3>1
    <3> QED
      BY <2>1, <3>1, <3>2
  <2>5. CASE t \in Range(e.turns) /\ e.k = "turn.unreverted"
    <3>1. t \notin Range(b.turns) /\ t \in Range(b1.turns)
      BY <2>5
    <3>2. u = d + 1 /\ u1 = u /\ d1 = d + 1
      BY <2>1, <2>2, <2>5, <3>1
    <3> QED
      BY <2>1, <3>1, <3>2
  <2> QED
    BY <2>3, <2>4, <2>5
<1> QED
  BY <1>4, <1>5

LEMMA LiveReverted ==
  ASSUME NEW l, NEW l1, NEW b, NEW e, Recorded(l, l1, b, e), LiveOf(l, b), Follow(l),
         e.k = "turn.reverted"
  PROVE  LiveOf(l1, Record(b, e))
<1> DEFINE n == Len(l)
           u == Len(b.undone)
           r == Record(b, e)
           at == PositionOf(b.turns, e.turns[1])
           kept == KeptBefore(b.compactions, e.turns[1])
           low == SubSeq(b.turns, 1, at - 1)
           lowc == SubSeq(b.compactions, 1, kept)
           highc == SubSeq(b.compactions, kept + 1, Len(b.compactions))
           entry == [turns |-> e.turns, compactions |-> highc]
<1>1. /\ LongerBy(l, l1, e) /\ Shaped(b) /\ Typed(b, n) /\ Legal(b, e) /\ n \in Nat
      /\ LegalRevert(b, e) /\ e.turns \in Seq(Nat)
  BY DEF Recorded, LongerBy, Legal, LegalBody, Fit
<1>2. /\ r.turns = low /\ r.compactions = lowc /\ r.undone = Append(b.undone, entry)
      /\ r.open = b.open
  BY <1>1, RecordUndo, RecordNumbers
<1>3. b.open = 0
  BY <1>1 DEF LegalRevert
<1>4. /\ b.turns \in Seq(Nat) /\ b.compactions \in Seq(Compactions(n)) /\ u \in Nat
      /\ DOMAIN b.turns = 1..Len(b.turns) /\ Len(b.turns) \in Nat
      /\ Len(b.compactions) \in Nat
  BY <1>1, Lengths
<1>5. /\ at \in 1..Len(b.turns) /\ b.turns[at] = e.turns[1]
      /\ e.turns = SubSeq(b.turns, at, Len(b.turns))
      /\ lowc \in Seq(Compactions(n)) /\ highc \in Seq(Compactions(n))
  BY <1>1, RevertTyped
<1>6. PICK turn \in Nat : turn = e.turns[1]
  BY <1>4, <1>5
<1>7. /\ kept \in 0..Len(b.compactions)
      /\ \A i \in 1..kept : b.compactions[i].turn < turn
      /\ kept < Len(b.compactions) => b.compactions[kept + 1].turn >= turn
  <2>1. PICK c : c = b.compactions
    OBVIOUS
  <2>2. turn \in Int /\ c \in Seq(Compactions(n))
    BY <1>4, <1>6, <2>1
  <2> QED
    BY <1>1, <1>6, <2>1, <2>2, KeptBeforeBounded
<1>8. Listed(l, b.turns, b.compactions) /\ Stacked(b)
  BY DEF LiveOf
<1> HIDE DEF at, kept
<1>9. /\ Ascends(low) /\ Ascends(e.turns)
      /\ Range(low) = {t \in Range(b.turns) : t < turn}
      /\ Range(e.turns) = {t \in Range(b.turns) : t >= turn}
  BY <1>4, <1>5, <1>6, <1>8, AscendingParts DEF Listed
<1>10. Range(b.turns) \subseteq Nat \ {0}
  <2>1. Of(l, "turn.started") \subseteq 1..n
    BY <1>1, OfGrows
  <2> QED
    BY <1>1, <1>8, <2>1 DEF Listed
<1>11. Lists(l, lowc, Range(low)) /\ Lists(l, highc, Range(e.turns))
  <2>1. PICK c : c = b.compactions
    OBVIOUS
  <2>2. PICK S : S = Compactions(n)
    OBVIOUS
  <2>3. PICK turns : turns = Range(b.turns)
    OBVIOUS
  <2>4. PICK k : k = kept
    OBVIOUS
  <2>5. /\ c \in Seq(S) /\ Lists(l, c, turns) /\ turns \subseteq Nat \ {0}
        /\ Splits(c, k, turn)
    BY <1>4, <1>7, <1>8, <1>10, <2>1, <2>2, <2>3, <2>4 DEF Listed, Splits
  <2>6. /\ Lists(l, SubSeq(c, 1, k), Before(turns, turn))
        /\ Lists(l, SubSeq(c, k + 1, Len(c)), Since(turns, turn))
    <3>1. Len(l) \in Nat /\ turn \in Nat
      BY <1>1, <1>6
    <3> QED
      BY <2>5, <3>1, ListsCut, Zenon
  <2> QED
    BY <1>9, <2>1, <2>3, <2>4, <2>6 DEF Before, Since
<1>12. Listed(l, low, lowc) /\ Listed(l, e.turns, highc)
  BY <1>8, <1>9, <1>11 DEF Listed
<1> HIDE DEF low, lowc, highc
<1>13. /\ Len(r.undone) = u + 1 /\ \A m \in 1..u : r.undone[m] = b.undone[m]
       /\ r.undone[u + 1].turns = e.turns /\ r.undone[u + 1].compactions = highc
  <2>1. b.undone \in Seq(Reverted(n))
    BY <1>1 DEF Typed
  <2>2. /\ Len(Append(b.undone, entry)) = u + 1
        /\ \A m \in 1..u : Append(b.undone, entry)[m] = b.undone[m]
        /\ Append(b.undone, entry)[u + 1] = entry
    BY <2>1
  <2> QED
    BY <1>2, <2>2
<1>14. \A m \in 1..(u + 1) : m \in 1..u \/ m = u + 1
  BY <1>4
<1>15. e.k # "context.compacted"
  OBVIOUS
<1>16. Listed(l1, r.turns, r.compactions)
  <2>1. Len(lowc) \in Nat
    BY <1>5, LenProperties
  <2> QED
    BY <1>1, <1>2, <1>12, <1>15, <2>1, ListedStays
<1>17. \A m \in 1..(u + 1) : Listed(l1, r.undone[m].turns, r.undone[m].compactions)
  <2>1. ASSUME NEW m \in 1..u
        PROVE  Listed(l1, r.undone[m].turns, r.undone[m].compactions)
    <3>1. /\ Len(b.undone[m].compactions) \in Nat
          /\ Listed(l, b.undone[m].turns, b.undone[m].compactions)
      BY <1>1, Lengths DEF LiveOf
    <3> QED
      BY <1>1, <1>13, <1>15, <3>1, ListedStays
  <2>2. Listed(l1, r.undone[u + 1].turns, r.undone[u + 1].compactions)
    <3>1. Len(highc) \in Nat
      BY <1>5, LenProperties
    <3> QED
      BY <1>1, <1>12, <1>13, <1>15, <3>1, ListedStays
  <2> QED
    BY <1>14, <2>1, <2>2
<1>18. Stacked(r)
  <2> SUFFICES ASSUME NEW m \in 1..(u + 1)
               PROVE  /\ Precede(r.turns, r.undone[m].turns)
                      /\ \A k \in 1..(m - 1) : Precede(r.undone[m].turns, r.undone[k].turns)
    BY <1>13 DEF Stacked
  <2>1. CASE m \in 1..u
    <3>1. \A k \in 1..(m - 1) : k \in 1..u
      BY <1>4, <2>1
    <3>2. /\ Precede(b.turns, b.undone[m].turns)
          /\ \A k \in 1..(m - 1) : Precede(b.undone[m].turns, b.undone[k].turns)
      BY <1>8, <2>1 DEF Stacked
    <3>3. Precede(r.turns, r.undone[m].turns)
      BY <1>2, <1>9, <1>13, <2>1, <3>2 DEF Precede
    <3> QED
      BY <1>13, <2>1, <3>1, <3>2, <3>3
  <2>2. CASE m = u + 1
    <3>1. Precede(r.turns, r.undone[m].turns)
      <4>1. \A x \in Range(low), y \in Range(e.turns) : x < y
        BY <1>9, <1>10
      <4> QED
        BY <1>2, <1>13, <2>2, <4>1 DEF Precede
    <3>2. ASSUME NEW k \in 1..(m - 1)
          PROVE  Precede(r.undone[m].turns, r.undone[k].turns)
      <4>1. k \in 1..u
        BY <1>4, <2>2
      <4>2. Precede(b.turns, b.undone[k].turns)
        BY <1>8, <4>1 DEF Stacked
      <4> QED
        BY <1>9, <1>13, <2>2, <4>1, <4>2 DEF Precede
    <3> QED
      BY <3>1, <3>2
  <2> QED
    BY <1>14, <2>1, <2>2
<1>19. NamesTurns(l1) /\ Balanced(l1, r)
  <2>1. Range(e.turns) \subseteq Of(l, "turn.started")
    BY <1>8, <1>9 DEF Listed
  <2>2. \A t \in Range(e.turns) :
          /\ t \in Range(b.turns)
          /\ t \notin Range(r.turns)
    BY <1>2, <1>9, <1>10
  <2>3. \A t : t \notin Range(e.turns) => (t \in Range(r.turns) <=> t \in Range(b.turns))
    BY <1>2, <1>9, <1>10
  <2> QED
    BY <1>1, <2>1, <2>2, <2>3, BalancedAgain
<1> QED
  BY <1>2, <1>3, <1>13, <1>16, <1>17, <1>18, <1>19 DEF LiveOf

LEMMA LiveUnreverted ==
  ASSUME NEW l, NEW l1, NEW b, NEW e, Recorded(l, l1, b, e), LiveOf(l, b), Follow(l),
         e.k = "turn.unreverted"
  PROVE  LiveOf(l1, Record(b, e))
<1> DEFINE n == Len(l)
           r == Record(b, e)
<1>1. /\ LongerBy(l, l1, e) /\ Shaped(b) /\ Typed(b, n) /\ Legal(b, e) /\ n \in Nat
      /\ b.undone # << >> /\ e.turns = Last(b.undone).turns
  BY DEF Recorded, LongerBy, Legal, LegalBody, LastReverted
<1>2. PICK u : u = Len(b.undone)
  OBVIOUS
<1>3. /\ b.turns \in Seq(Nat) /\ b.compactions \in Seq(Compactions(n)) /\ u \in Nat
      /\ Len(b.compactions) \in Nat
      /\ \A m \in 1..u : /\ b.undone[m].turns \in Seq(Nat)
                         /\ b.undone[m].compactions \in Seq(Compactions(n))
                         /\ Len(b.undone[m].compactions) \in Nat
  BY <1>1, <1>2, Lengths
<1>4. u \in 1..u
  <2>1. b.undone \in Seq(Reverted(n))
    BY <1>1 DEF Typed
  <2>2. u # 0
    BY <1>1, <1>2, <2>1, EmptySeq
  <2> QED
    BY <1>3, <2>2
<1>5. PICK last : last = b.undone[u]
  OBVIOUS
<1>6. /\ r.turns = b.turns \o last.turns /\ r.compactions = b.compactions \o last.compactions
      /\ r.undone = Front(b.undone) /\ e.turns = last.turns /\ r.open = b.open
  BY <1>1, <1>2, <1>5, RecordRedo, RecordNumbers DEF Last
<1>7. /\ Len(r.undone) = u - 1 /\ \A m \in 1..(u - 1) : r.undone[m] = b.undone[m]
  <2>1. b.undone \in Seq(Reverted(n))
    BY <1>1 DEF Typed
  <2>2. /\ Len(Front(b.undone)) = u - 1
        /\ \A m \in 1..(u - 1) : Front(b.undone)[m] = b.undone[m]
    BY <1>1, <1>2, <1>4, <2>1 DEF Front
  <2> QED
    BY <1>6, <2>2
<1>8. \A m \in 1..(u - 1) : m \in 1..u
  BY <1>3
<1>9. /\ Listed(l, b.turns, b.compactions) /\ Stacked(b)
      /\ Listed(l, last.turns, last.compactions)
  BY <1>2, <1>4, <1>5 DEF LiveOf
<1>10. /\ Precede(b.turns, last.turns)
       /\ \A k \in 1..(u - 1) : Precede(last.turns, b.undone[k].turns)
  BY <1>2, <1>4, <1>5, <1>9 DEF Stacked
<1>11. last.turns \in Seq(Nat) /\ last.compactions \in Seq(Compactions(n))
  BY <1>3, <1>4, <1>5
<1>12. Ascends(r.turns) /\ Range(r.turns) = Range(b.turns) \union Range(last.turns)
  BY <1>3, <1>6, <1>9, <1>10, <1>11, AscendingJoined DEF Listed
<1>13. /\ Range(b.turns) \subseteq Of(l, "turn.started")
       /\ Range(last.turns) \subseteq Of(l, "turn.started")
       /\ Of(l, "turn.started") \subseteq Nat \ {0}
  <2>1. Of(l, "turn.started") \subseteq 1..n
    BY <1>1, OfGrows
  <2> QED
    BY <1>1, <1>9, <2>1 DEF Listed
<1>14. Lists(l, r.compactions, Range(r.turns))
  <2>1. PICK S : S = Compactions(n)
    OBVIOUS
  <2>2. PICK low : low = Range(b.turns)
    OBVIOUS
  <2>3. PICK high : high = Range(last.turns)
    OBVIOUS
  <2>4. PICK c : c = b.compactions
    OBVIOUS
  <2>5. PICK d : d = last.compactions
    OBVIOUS
  <2>6. /\ c \in Seq(S) /\ d \in Seq(S) /\ Lists(l, c, low) /\ Lists(l, d, high)
        /\ low \subseteq Nat \ {0} /\ high \subseteq Nat \ {0}
    BY <1>3, <1>9, <1>11, <1>13, <2>1, <2>2, <2>3, <2>4, <2>5 DEF Listed
  <2>7. \A t \in low, w \in high : t < w
    BY <1>10, <2>2, <2>3 DEF Precede
  <2>8. Lists(l, c \o d, low \union high)
    BY <1>1, <2>6, <2>7, ListsJoined
  <2> QED
    BY <1>6, <1>12, <2>2, <2>3, <2>4, <2>5, <2>8
<1>15. Listed(l1, r.turns, r.compactions)
  <2>1. Listed(l, r.turns, r.compactions)
    BY <1>12, <1>13, <1>14 DEF Listed
  <2>2. Len(r.compactions) \in Nat
    BY <1>3, <1>6, <1>11, ConcatProperties, LenProperties
  <2> QED
    BY <1>1, <2>1, <2>2, ListedStays
<1>16. \A m \in 1..(u - 1) : Listed(l1, r.undone[m].turns, r.undone[m].compactions)
  <2> SUFFICES ASSUME NEW m \in 1..(u - 1)
               PROVE  Listed(l1, r.undone[m].turns, r.undone[m].compactions)
    OBVIOUS
  <2>1. m \in 1..u /\ r.undone[m] = b.undone[m]
    BY <1>7, <1>8
  <2>2. /\ Len(b.undone[m].compactions) \in Nat
        /\ Listed(l, b.undone[m].turns, b.undone[m].compactions)
    BY <1>2, <1>3, <2>1 DEF LiveOf
  <2> QED
    BY <1>1, <2>1, <2>2, ListedStays
<1>17. Stacked(r)
  <2> SUFFICES ASSUME NEW m \in 1..(u - 1)
               PROVE  /\ Precede(r.turns, r.undone[m].turns)
                      /\ \A k \in 1..(m - 1) : Precede(r.undone[m].turns, r.undone[k].turns)
    BY <1>7 DEF Stacked
  <2>1. m \in 1..u /\ \A k \in 1..(m - 1) : k \in 1..(u - 1)
    BY <1>3
  <2>2. /\ Precede(b.turns, b.undone[m].turns)
        /\ \A k \in 1..(m - 1) : Precede(b.undone[m].turns, b.undone[k].turns)
    BY <1>2, <1>9, <2>1 DEF Stacked
  <2>3. Precede(r.turns, r.undone[m].turns)
    BY <1>7, <1>10, <1>12, <2>2 DEF Precede
  <2> QED
    BY <1>7, <2>1, <2>2, <2>3
<1>18. NamesTurns(l1) /\ Balanced(l1, r)
  <2>1. \A t \in Range(e.turns) :
          /\ t \notin Range(b.turns)
          /\ t \in Range(r.turns)
    <3> SUFFICES ASSUME NEW t \in Range(last.turns)
                 PROVE  t \notin Range(b.turns) /\ t \in Range(r.turns)
      BY <1>6
    <3>1. t \in Nat
      BY <1>13
    <3> QED
      BY <1>10, <1>12, <3>1 DEF Precede
  <2>2. \A t : t \notin Range(e.turns) => (t \in Range(r.turns) <=> t \in Range(b.turns))
    BY <1>6, <1>12
  <2> QED
    BY <1>1, <1>6, <1>13, <2>1, <2>2, BalancedAgain
<1>19. r.open # 0 => r.open \in Range(r.turns)
  BY <1>6, <1>12 DEF LiveOf
<1> QED
  BY <1>7, <1>15, <1>16, <1>17, <1>18, <1>19 DEF LiveOf

LEMMA LiveStep ==
  ASSUME NEW l, NEW l1, NEW b, NEW e, Recorded(l, l1, b, e), LiveOf(l, b), Follow(l)
  PROVE  LiveOf(l1, Record(b, e))
BY LiveOnward, LiveStarted, LiveCompacted, LiveReverted, LiveUnreverted

----------------------------------------------------------------------------
LEMMA TurnsFollow ==
  ASSUME TypeInv, TurnInv
  PROVE  Follow(log) /\ \A i \in 1..Len(log) : log[i].turn <= i
<1>1. Len(log) \in Nat
  BY LenProperties DEF TypeInv
<1>2. \A i \in 1..Len(log) : log[i].turn # 0 =>
        /\ log[i].turn \in Numbered("turn.started") /\ log[i].turn <= i
        /\ \A k \in log[i].turn..(i - 1) :
             ~(log[k].k = "turn.ended" /\ log[k].turn = log[i].turn)
  BY DEF TurnInv, OneTurnAtATime
<1>3. \A i \in 1..Len(log) : log[i].turn <= i
  <2> SUFFICES ASSUME NEW i \in 1..Len(log) PROVE log[i].turn <= i
    OBVIOUS
  <2>1. CASE log[i].turn = 0
    BY <1>1, <2>1
  <2>2. CASE log[i].turn # 0
    BY <1>2, <2>2
  <2> QED
    BY <2>1, <2>2
<1>4. ASSUME NEW i \in 1..Len(log), NEW j \in 1..Len(log), i < j,
             log[i].turn # 0, log[j].turn # 0
      PROVE  log[i].turn <= log[j].turn
  <2> DEFINE s == log[i].turn
             t == log[j].turn
  <2>1. /\ s \in Numbered("turn.started") /\ t \in Numbered("turn.started")
        /\ s <= i /\ s \in 1..Len(log) /\ t \in 1..Len(log)
    BY <1>2, <1>4 DEF Numbered
  <2> SUFFICES ASSUME t < s PROVE FALSE
    BY <1>1, <2>1
  <2>2. PICK k \in t..s : log[k].k = "turn.ended" /\ log[k].turn = t
    BY <2>1 DEF TurnInv, OneTurnAtATime
  <2>3. k \in t..(j - 1)
    BY <1>1, <1>4, <2>1, <2>2
  <2> QED
    BY <1>2, <1>4, <2>2, <2>3
<1> QED
  BY <1>3, <1>4 DEF Follow

LEMMA LiveInvHolds == Spec => []LiveInv
<1>1. Init => LiveInv
  <2> SUFFICES ASSUME Init PROVE LiveOf(log, book)
    BY DEF LiveInv
  <2>1. PICK l, b : l = log /\ b = book
    OBVIOUS
  <2>2. /\ l = << >> /\ b.turns = << >> /\ b.compactions = << >> /\ b.undone = << >>
        /\ b.open = 0
    BY <2>1 DEF Init, EmptyBook
  <2>3. Len(l) = 0 /\ Len(b.compactions) = 0 /\ Len(b.undone) = 0 /\ Len(b.turns) = 0
        /\ 1..0 = {} /\ Range(b.turns) = {}
    BY <2>2, EmptySeq DEF Range
  <2>4. (\A kind : Of(l, kind) = {}) /\ Compacting(l, Range(b.turns)) = {}
    BY <2>3 DEF Of, Compacting
  <2>5. Lists(l, b.compactions, Range(b.turns))
    <3>1. [i \in {} |-> 0] \in [1..0 -> 1..0] /\ {[i \in {} |-> 0][j] : j \in {}} = {}
      BY <2>3
    <3> QED
      BY <2>3, <2>4, <3>1 DEF Lists
  <2>6. Listed(l, b.turns, b.compactions)
    BY <2>3, <2>4, <2>5 DEF Listed, Ascends
  <2>7. NamesTurns(l) /\ Balanced(l, b) /\ Stacked(b)
    BY <2>3, <2>4 DEF NamesTurns, Balanced, Stacked
  <2>8. LiveOf(l, b)
    BY <2>2, <2>3, <2>6, <2>7 DEF LiveOf
  <2> QED
    BY <2>1, <2>8
<1>2. TypeInv /\ TurnInv /\ LiveInv /\ [Next]_vars => LiveInv'
  <2>1. TypeInv /\ TurnInv /\ LiveInv /\ Next => LiveInv'
    <3> SUFFICES ASSUME TypeInv, TurnInv, LiveInv, NEW e, Fit(e), Offer(e)
                 PROVE  LiveInv'
      BY NextOffers
    <3>1. PICK l, b : l = log /\ b = book
      OBVIOUS
    <3>2. PICK l1 : l1 = log'
      OBVIOUS
    <3>3. Recorded(l, l1, b, e) /\ Follow(l) /\ LiveOf(l, b)
      <4>1. Len(log) \in Nat
        BY LenProperties DEF TypeInv
      <4>2. LongerBy(l, l1, e) /\ Legal(b, e)
        BY <3>1, <3>2, <4>1, OfferEffect DEF LongerBy
      <4> QED
        BY <3>1, <4>2, TurnsFollow DEF Recorded, TypeInv, LiveInv
    <3>4. LiveOf(l1, Record(b, e))
      BY <3>3, LiveStep
    <3>5. book' = Record(b, e)
      BY <3>1, OfferEffect
    <3> QED
      BY <3>2, <3>4, <3>5 DEF LiveInv
  <2>2. LiveInv /\ UNCHANGED vars => LiveInv'
    BY DEF LiveInv, vars
  <2> QED
    BY <2>1, <2>2
<1> QED
  BY <1>1, <1>2, TypeInvHolds, TurnInvHolds, PTL DEF Spec

\* The turns and compactions that count (CountsWhatIsLive): the book lists those not
\* undone, in the order of the log, for logs of any length and undos of any depth.
THEOREM LiveIsListed == Spec => []CountsWhatIsLive
<1>1. TypeInv /\ LiveInv => CountsWhatIsLive
  <2> SUFFICES ASSUME TypeInv, LiveInv PROVE CountsWhatIsLive
    OBVIOUS
  <2>1. PICK l, b : l = log /\ b = book
    OBVIOUS
  <2>2. LiveOf(l, b) /\ Typed(b, Len(l)) /\ Len(l) \in Nat
    BY <2>1, LenProperties DEF LiveInv, TypeInv
  <2>3. Listed(l, b.turns, b.compactions) /\ Balanced(l, b)
    BY <2>2 DEF LiveOf
  <2>4. \A kind : Numbered(kind) = Of(l, kind)
    BY <2>1 DEF Numbered, Of
  <2>5. \A t : Undos(t) = UndosIn(l, t) /\ Redos(t) = RedosIn(l, t)
    BY <2>1, <2>4 DEF Undos, Redos, UndosIn, RedosIn
  <2>6. \A t \in Of(l, "turn.started") :
          Cardinality(UndosIn(l, t)) = Cardinality(RedosIn(l, t)) <=> t \in Range(b.turns)
    <3> SUFFICES ASSUME NEW t \in Of(l, "turn.started")
                 PROVE  Cardinality(UndosIn(l, t)) = Cardinality(RedosIn(l, t))
                          <=> t \in Range(b.turns)
      OBVIOUS
    <3>1. IsFiniteSet(1..Len(l)) /\ RedosIn(l, t) \subseteq 1..Len(l)
      <4>1. IsFiniteSet(1..Len(l))
        BY <2>2, FS_Interval
      <4> QED
        BY <4>1 DEF RedosIn, Of
    <3>2. Cardinality(RedosIn(l, t)) \in Nat
      BY <3>1, FS_Subset, FS_CardinalityType
    <3> QED
      BY <2>3, <3>2 DEF Balanced
  <2>7. Live = Range(b.turns)
    BY <2>3, <2>4, <2>5, <2>6 DEF Live, Listed
  <2>8. /\ Len(b.compactions) \in Nat /\ DOMAIN b.turns = 1..Len(b.turns)
    BY <2>2, Lengths
  <2> DEFINE live == {i \in Numbered("context.compacted") : log[i].turn \in Live}
  <2>9. live = Compacting(l, Range(b.turns))
    BY <2>1, <2>4, <2>7 DEF Compacting, Of
  <2>10. PICK c : c = b.compactions
    OBVIOUS
  <2>11. PICK turns : turns = Range(b.turns)
    OBVIOUS
  <2>12. /\ Len(c) = Cardinality(Compacting(l, turns))
         /\ \A i \in Compacting(l, turns) :
              c[Cardinality({j \in Compacting(l, turns) : j <= i})] = Noted(l[i])
    <3>1. Lists(l, c, turns) /\ Len(c) \in Nat
      BY <2>3, <2>8, <2>10, <2>11 DEF Listed
    <3> QED
      BY <2>2, <3>1, ListsPlaces, Zenon
  <2>13. \A i, j \in DOMAIN b.turns : i < j => b.turns[i] < b.turns[j]
    BY <2>3, <2>8 DEF Listed, Ascends
  <2> QED
    BY <2>1, <2>7, <2>9, <2>10, <2>11, <2>12, <2>13 DEF CountsWhatIsLive, Noted
<1> QED
  BY <1>1, TypeInvHolds, LiveInvHolds, PTL
=============================================================================
