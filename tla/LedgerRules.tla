---------------------------- MODULE LedgerRules ----------------------------
(***************************************************************************)
(* The rule book of one session's log: which event may be appended next    *)
(* (Legal) and what the book remembers once it has been (Record).  Both    *)
(* the running session and its reload go through it.                       *)
(*                                                                         *)
(* Source: crates/miyu-kernel/src/ledger.rs, ledger/undo.rs and            *)
(* ledger/triggers.rs.  The books of background jobs and of peer sessions  *)
(* (ledger/jobs.rs, ledger/peers.rs) and the text of a summary are left    *)
(* out.  An event is a record whose field k is its kind; sequence numbers  *)
(* start at 1, so 0 stands for an absent turn, reply or trigger.           *)
(***************************************************************************)
EXTENDS Integers, Sequences, SequencesExt

(***************************************************************************)
(* The book (struct Ledger).                                               *)
(***************************************************************************)
EmptyBook ==
  [ next        |-> 1,       \* number the next event must carry
    open        |-> 0,       \* the running turn
    lastReply   |-> 0,       \* the latest message.assistant
    pending     |-> {},      \* calls of the running turn without a result
    asking      |-> {},      \* of those, waiting for a person's approval
    questioning |-> {},      \* of those, waiting for a person's answers
    queued      |-> {},      \* messages of the running turn no request has seen
    turns       |-> << >>,   \* turns opened and not undone, in order
    compactions |-> << >>,   \* compactions whose turn is not undone
    undone      |-> << >>,   \* undos that can still be redone
    overheard   |-> {},      \* ambient messages
    answered    |-> {} ]     \* ambient messages that have opened or joined a turn

\* What the last compaction that still counts has replaced; 0 when there is none.
Compacted(b) == IF b.compactions = << >> THEN 0 ELSE Last(b.compactions).upto

\* The undone turns a redo would bring back; << >> when there is nothing to redo.
LastReverted(b) == IF b.undone = << >> THEN << >> ELSE Last(b.undone).turns

\* The position of a turn in the ordered list (binary_search).
PositionOf(turns, turn) == CHOOSE k \in DOMAIN turns : turns[k] = turn

\* A live turn and every later one.
TurnsFrom(b, turn) == SubSeq(b.turns, PositionOf(b.turns, turn), Len(b.turns))

\* How many compactions lie in turns before the given one (partition_point).
KeptBefore(compactions, turn) ==
  CHOOSE n \in 0..Len(compactions) :
    /\ \A i \in 1..n : compactions[i].turn < turn
    /\ n < Len(compactions) => compactions[n + 1].turn >= turn

\* Where the log has to be read back from when undoing from a turn takes a
\* compaction away; 0 when it takes none.
ReadBackFrom(b, turn) ==
  LET kept == KeptBefore(b.compactions, turn)
  IN  IF kept = Len(b.compactions) THEN 0
      ELSE IF kept = 0 THEN 1 ELSE b.compactions[kept].upto + 1

----------------------------------------------------------------------------
(***************************************************************************)
(* Legal: the checks, in the order of Ledger::check.                       *)
(***************************************************************************)
\* Kinds that happen only inside a turn.
InTurnOnly ==
  { "message.assistant", "turn.joined", "tool.result", "approval.requested",
    "approval.decided", "question.asked", "question.answered",
    "message.withdrawn", "turn.ended", "compaction.paused",
    "context.compacted" }

\* A list of triggers: in order, all overheard, none used before.
LegalTriggers(b, triggers) ==
  /\ \A i \in 1..Len(triggers) - 1 : triggers[i] < triggers[i + 1]
  /\ \A i \in DOMAIN triggers :
       triggers[i] \in b.overheard /\ triggers[i] \notin b.answered

LegalStart(b, e) ==
  /\ e.turn = e.seq
  /\ b.open = 0
  /\ e.trigger < e.seq
  /\ e.triggers # << >> => /\ Last(e.triggers) = e.trigger
                           /\ LegalTriggers(b, e.triggers)

LegalTurn(b, e) ==
  IF e.k = "turn.started"
    THEN LegalStart(b, e)
    ELSE /\ e.turn # 0 => e.turn = b.open
         /\ e.turn = 0 => e.k \notin InTurnOnly

LegalRevert(b, e) ==
  /\ b.open = 0
  /\ e.turns # << >>
  /\ \A i \in DOMAIN e.turns : \E k \in DOMAIN b.turns : b.turns[k] = e.turns[i]
  /\ e.turns = TurnsFrom(b, e.turns[1])

LegalBody(b, e) ==
  CASE e.k = "turn.joined" ->
         e.triggers # << >> /\ LegalTriggers(b, e.triggers)
    [] e.k = "message.assistant" ->
         /\ e.seen < e.seq
         /\ e.seen >= b.lastReply
         /\ \A i \in DOMAIN e.calls : e.calls[i] = <<e.seq, i>>
    [] e.k = "tool.result" -> e.call \in b.pending
    [] e.k = "approval.requested" -> e.call \in b.pending \ b.asking
    [] e.k = "approval.decided" -> e.call \in b.asking
    [] e.k = "question.asked" -> e.call \in b.pending \ b.questioning
    [] e.k = "question.answered" -> e.call \in b.questioning
    [] e.k = "turn.ended" -> b.pending = {}
    [] e.k = "context.compacted" -> e.upto < e.seq /\ e.upto >= Compacted(b)
    [] e.k = "model.called" -> e.seen < e.seq
    [] e.k = "session.recapped" -> e.upto < e.seq
    [] e.k = "message.withdrawn" ->
         /\ e.msgs # << >>
         /\ \A i \in DOMAIN e.msgs : e.msgs[i] \in b.queued
         /\ \A i, j \in DOMAIN e.msgs : e.msgs[i] = e.msgs[j] => i = j
    [] e.k = "turn.reverted" -> LegalRevert(b, e)
    [] e.k = "turn.unreverted" -> b.undone # << >> /\ e.turns = LastReverted(b)
    [] e.k = "files.restored" -> b.open = 0
    [] OTHER -> TRUE

Legal(b, e) ==
  /\ e.seq = b.next
  /\ e.seq = 1 <=> e.k = "session.created"
  /\ LegalTurn(b, e)
  /\ LegalBody(b, e)

----------------------------------------------------------------------------
(***************************************************************************)
(* Record: what a legal event changes, one operator per kind.              *)
(***************************************************************************)
\* Wrong: what was undone can still be redone.
RecordStartedKeepsUndone(b, e) ==
  [b EXCEPT !.open = e.seq, !.turns = Append(@, e.seq), !.queued = {},
            !.answered = @ \union Range(e.triggers)]

RecordStarted(b, e) ==
  [b EXCEPT !.open = e.seq,
            !.turns = Append(@, e.seq),
            !.undone = << >>,
            !.queued = {},
            !.answered = @ \union Range(e.triggers)]

\* Wrong: the triggers are not used up.
RecordJoinedNothing(b, e) == b

RecordJoined(b, e) == [b EXCEPT !.answered = @ \union Range(e.triggers)]

RecordUser(b, e) ==
  [b EXCEPT !.queued = IF e.turn # 0 /\ e.turn = b.open
                         THEN @ \union {e.seq} ELSE @,
            !.overheard = IF e.ambient THEN @ \union {e.seq} ELSE @]

RecordWithdrawn(b, e) == [b EXCEPT !.queued = @ \ Range(e.msgs)]

\* Wrong: only replies count as having heard the queue.
RecordCalledNothing(b, e) == b

\* An auxiliary request (a recap) does not count as having heard the queue.
RecordCalled(b, e) ==
  [b EXCEPT !.queued = IF e.aside THEN @ ELSE {q \in @ : q > e.seen}]

RecordAssistant(b, e) ==
  [b EXCEPT !.lastReply = e.seq,
            !.queued = {q \in @ : q > e.seen},
            !.pending = @ \union Range(e.calls)]

\* Wrong: the request for approval stays open; the call stays open.
RecordResultKeepsAsking(b, e) ==
  [b EXCEPT !.pending = @ \ {e.call}, !.questioning = @ \ {e.call}]

RecordResultKeepsPending(b, e) ==
  [b EXCEPT !.asking = @ \ {e.call}, !.questioning = @ \ {e.call}]

RecordResult(b, e) ==
  [b EXCEPT !.pending = @ \ {e.call},
            !.asking = @ \ {e.call},
            !.questioning = @ \ {e.call}]

RecordRequested(b, e) == [b EXCEPT !.asking = @ \union {e.call}]
RecordDecided(b, e) == [b EXCEPT !.asking = @ \ {e.call}]
RecordAsked(b, e) == [b EXCEPT !.questioning = @ \union {e.call}]
RecordAnswered(b, e) == [b EXCEPT !.questioning = @ \ {e.call}]

RecordEnded(b, e) == [b EXCEPT !.open = 0, !.queued = {}]

RecordCompacted(b, e) ==
  [b EXCEPT !.compactions =
              IF e.turn # 0 THEN Append(@, [turn |-> e.turn, upto |-> e.upto])
                            ELSE @,
            !.undone = << >>]

\* Wrong: the first undone turn stays.
RecordRevertedOneLess(b, e) ==
  LET at   == PositionOf(b.turns, e.turns[1])
      kept == KeptBefore(b.compactions, e.turns[1])
  IN  [b EXCEPT !.turns = SubSeq(@, 1, at),
                !.compactions = SubSeq(@, 1, kept),
                !.undone = Append(@,
                   [turns |-> e.turns,
                    compactions |-> SubSeq(b.compactions, kept + 1,
                                           Len(b.compactions))])]

\* The turns from the first one on go, and the compactions made in them.
RecordReverted(b, e) ==
  LET at   == PositionOf(b.turns, e.turns[1])
      kept == KeptBefore(b.compactions, e.turns[1])
  IN  [b EXCEPT !.turns = SubSeq(@, 1, at - 1),
                !.compactions = SubSeq(@, 1, kept),
                !.undone = Append(@,
                   [turns |-> e.turns,
                    compactions |-> SubSeq(b.compactions, kept + 1,
                                           Len(b.compactions))])]

RecordUnreverted(b, e) ==
  [b EXCEPT !.turns = @ \o Last(b.undone).turns,
            !.compactions = @ \o Last(b.undone).compactions,
            !.undone = Front(@)]

RecordBody(b, e) ==
  CASE e.k = "turn.started"       -> RecordStarted(b, e)
    [] e.k = "turn.joined"        -> RecordJoined(b, e)
    [] e.k = "message.user"       -> RecordUser(b, e)
    [] e.k = "message.withdrawn"  -> RecordWithdrawn(b, e)
    [] e.k = "model.called"       -> RecordCalled(b, e)
    [] e.k = "message.assistant"  -> RecordAssistant(b, e)
    [] e.k = "tool.result"        -> RecordResult(b, e)
    [] e.k = "question.asked"     -> RecordAsked(b, e)
    [] e.k = "question.answered"  -> RecordAnswered(b, e)
    [] e.k = "approval.requested" -> RecordRequested(b, e)
    [] e.k = "approval.decided"   -> RecordDecided(b, e)
    [] e.k = "turn.ended"         -> RecordEnded(b, e)
    [] e.k = "context.compacted"  -> RecordCompacted(b, e)
    [] e.k = "turn.reverted"      -> RecordReverted(b, e)
    [] e.k = "turn.unreverted"    -> RecordUnreverted(b, e)
    [] OTHER                      -> b

\* Ledger::record: the number moves on with every event.
Record(b, e) == [RecordBody(b, e) EXCEPT !.next = e.seq + 1]
=============================================================================
