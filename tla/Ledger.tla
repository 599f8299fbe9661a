------------------------------- MODULE Ledger -------------------------------
(***************************************************************************)
(* A session's log kept under the rule book: anybody may offer any event,  *)
(* the legal ones are appended and recorded, the others leave the book as  *)
(* it was (Ledger::append).  The log itself is kept here so that what the  *)
(* book believes can be compared with what the log says.                   *)
(*                                                                         *)
(* Source: crates/miyu-kernel/src/ledger.rs, ledger/undo.rs,               *)
(* ledger/triggers.rs.                                                     *)
(***************************************************************************)
EXTENDS LedgerRules, FiniteSets

CONSTANTS
  Kinds,      \* the kinds of event offered
  MaxSeq,     \* bound: the log stops growing here
  MaxCalls    \* bound: tool calls in one reply

ASSUME LedgerBounds == MaxSeq \in Nat \ {0} /\ MaxCalls \in Nat

VARIABLES
  log,        \* the events appended so far
  book        \* what the ledger remembers of them

vars == <<log, book>>

Init ==
  /\ log = << >>
  /\ book = EmptyBook

\* Ledger::append: check, then record.
Offer(e) ==
  /\ e.k \in Kinds
  /\ e.seq <= MaxSeq
  /\ Legal(book, e)
  /\ log' = Append(log, e)
  /\ book' = Record(book, e)

----------------------------------------------------------------------------
(***************************************************************************)
(* What may be offered: numbers up to and including the event's own, turns *)
(* that run, ran or are absent, calls of the log and calls misnumbered.    *)
(***************************************************************************)
Numbers == 0..book.next

Turns == {0, book.open} \union {t \in 1..Len(log) : log[t].k = "turn.started"}

Calls == UNION {Range(log[i].calls) :
                  i \in {j \in 1..Len(log) : log[j].k = "message.assistant"}}

CallLists ==
  {[i \in 1..n |-> <<book.next, i>>] : n \in 0..MaxCalls}
    \union { << <<1, 1>> >> }

\* Lists of distinct numbers taken from a set, in order.
OrderedLists(set) == {SetToSortSeq(s, <) : s \in SUBSET set}

\* Lists of turns: neighbours among those that count, single ones, undone ones.
TurnLists ==
  (UNION {{SubSeq(book.turns, i, j) : j \in DOMAIN book.turns} :
            i \in DOMAIN book.turns})
    \union {<<turn>> : turn \in Turns \ {0}}
    \union {book.undone[i].turns : i \in DOMAIN book.undone}

Ambient == {i \in 1..Len(log) : log[i].k = "message.user"}

\* An event of the given kind in the running turn.
Event(kind) == [k |-> kind, seq |-> book.next, turn |-> book.open]

OnCall(kind, call) ==
  [k |-> kind, seq |-> book.next, turn |-> book.open, call |-> call]

----------------------------------------------------------------------------
(***************************************************************************)
(* One action per kind of event.                                           *)
(***************************************************************************)
SessionCreated ==
  Offer([k |-> "session.created", seq |-> book.next, turn |-> 0])

\* The trigger is the event before, the turn itself (illegal) or a message.
TurnStarted ==
  \E trigger \in {book.next - 1, book.next} \union Ambient,
     triggers \in OrderedLists(Ambient) :
    Offer([k |-> "turn.started", seq |-> book.next, turn |-> book.next,
           trigger |-> trigger, triggers |-> triggers])

TurnJoined ==
  \E triggers \in OrderedLists(Ambient) :
    Offer([k |-> "turn.joined", seq |-> book.next, turn |-> book.open,
           triggers |-> triggers])

MessageUser ==
  \E turn \in Turns, ambient \in BOOLEAN :
    Offer([k |-> "message.user", seq |-> book.next, turn |-> turn,
           ambient |-> ambient])

MessageWithdrawn ==
  \E msgs \in OrderedLists(Ambient) :
    Offer([k |-> "message.withdrawn", seq |-> book.next, turn |-> book.open,
           msgs |-> msgs])

ModelCalled ==
  \E seen \in Numbers, aside \in BOOLEAN :
    Offer([k |-> "model.called", seq |-> book.next, turn |-> book.open,
           seen |-> seen, aside |-> aside])

MessageAssistant ==
  \E turn \in Turns, seen \in Numbers, calls \in CallLists :
    Offer([k |-> "message.assistant", seq |-> book.next, turn |-> turn,
           seen |-> seen, calls |-> calls])

ToolResult ==
  \E call \in Calls : Offer(OnCall("tool.result", call))

ApprovalRequested ==
  \E call \in Calls : Offer(OnCall("approval.requested", call))

ApprovalDecided ==
  \E call \in Calls : Offer(OnCall("approval.decided", call))

QuestionAsked ==
  \E call \in Calls : Offer(OnCall("question.asked", call))

QuestionAnswered ==
  \E call \in Calls : Offer(OnCall("question.answered", call))

TurnEnded ==
  \E turn \in Turns :
    Offer([k |-> "turn.ended", seq |-> book.next, turn |-> turn])

ContextCompacted ==
  \E upto \in Numbers :
    Offer([k |-> "context.compacted", seq |-> book.next, turn |-> book.open,
           upto |-> upto])

TurnReverted ==
  \E turns \in TurnLists :
    Offer([k |-> "turn.reverted", seq |-> book.next, turn |-> book.open,
           turns |-> turns])

TurnUnreverted ==
  \E turns \in TurnLists :
    Offer([k |-> "turn.unreverted", seq |-> book.next, turn |-> book.open,
           turns |-> turns])

FilesRestored == Offer(Event("files.restored"))

SessionRecapped ==
  \E upto \in {book.next - 1, book.next} :
    Offer([k |-> "session.recapped", seq |-> book.next, turn |-> book.open,
           upto |-> upto])

Next ==
  \/ SessionCreated \/ TurnStarted \/ TurnJoined \/ MessageUser
  \/ MessageWithdrawn \/ ModelCalled \/ MessageAssistant \/ ToolResult
  \/ ApprovalRequested \/ ApprovalDecided \/ QuestionAsked
  \/ QuestionAnswered \/ TurnEnded \/ ContextCompacted \/ TurnReverted
  \/ TurnUnreverted \/ FilesRestored \/ SessionRecapped

Spec == Init /\ [][Next]_vars
----------------------------------------------------------------------------
(***************************************************************************)
(* Properties.  They are stated on the log alone, or compare the log with  *)
(* what the book remembers.                                                *)
(***************************************************************************)
Numbered(kind) == {i \in 1..Len(log) : log[i].k = kind}

Replies == Numbered("message.assistant")
ResultsOf(call) == {i \in Numbered("tool.result") : log[i].call = call}

\* The book has the shape its fields promise (struct Ledger).
TypeOK ==
  /\ book.next = Len(log) + 1
  /\ book.open \in 0..Len(log)
  /\ book.lastReply \in 0..Len(log)
  /\ book.pending \subseteq (1..Len(log)) \X (Nat \ {0})
  /\ book.asking \subseteq book.pending
  /\ book.questioning \subseteq book.pending
  /\ book.queued \subseteq 1..Len(log)
  /\ book.turns \in Seq(1..Len(log))
  /\ book.compactions \in Seq([turn : 1..Len(log), upto : 0..Len(log)])
  /\ book.undone \in
       Seq([turns : Seq(1..Len(log)),
            compactions : Seq([turn : 1..Len(log), upto : 0..Len(log)])])
  /\ book.overheard \subseteq 1..Len(log)
  /\ book.answered \subseteq 1..Len(log)

\* Kernel invariant 2 (docs/designs/02-): every call gets at most one result,
\* after the reply that made it and in that reply's turn, and no turn ends
\* while a call made before has none.
OneResultPerCall ==
  \A i \in Replies : \A call \in Range(log[i].calls) :
    /\ \A r, r2 \in ResultsOf(call) : r = r2
    /\ \A r \in ResultsOf(call) : r > i /\ log[r].turn = log[i].turn
    /\ \A j \in Numbered("turn.ended") :
         j > i => \E r \in ResultsOf(call) : r < j

\* Kernel invariant 4: between two turns started, the first one has ended, and
\* an event that names a turn lies between that turn's start and its end.
OneTurnAtATime ==
  /\ \A i, j \in Numbered("turn.started") :
       i < j => \E k \in i..j : log[k].k = "turn.ended" /\ log[k].turn = i
  /\ \A i \in 1..Len(log) :
       log[i].turn # 0 =>
         /\ log[i].turn \in Numbered("turn.started")
         /\ log[i].turn <= i
         /\ \A k \in log[i].turn..(i - 1) :
              ~(log[k].k = "turn.ended" /\ log[k].turn = log[i].turn)

\* A person decides only on what was asked and is still open: each decision has
\* its own request before it and comes before the call's result.
DecisionsAnswerRequests ==
  \A j \in Numbered("approval.decided") :
    LET call == log[j].call IN
    /\ \E i \in Numbered("approval.requested") :
         /\ i < j /\ log[i].call = call
         /\ \A k \in i..(j - 1) :
              ~(log[k].k = "approval.decided" /\ log[k].call = call)
    /\ \A r \in ResultsOf(call) : r > j

\* A withdrawn message was never heard: no request of the main conversation and
\* no reply before its withdrawal has seen it, and it is withdrawn only once.
\* Otherwise a prefix already sent to the model would break.
WithdrawnUnheard ==
  \A j \in Numbered("message.withdrawn") : \A m \in Range(log[j].msgs) :
    /\ \A i \in m..j :
         /\ log[i].k = "message.assistant" => log[i].seen < m
         /\ log[i].k = "model.called" /\ ~log[i].aside => log[i].seen < m
    /\ \A i \in Numbered("message.withdrawn") \ {j} : m \notin Range(log[i].msgs)
    /\ log[m].turn = log[j].turn

\* The turns that count are those undone exactly as often as they were redone, and
\* the compactions that count are those made in them: the book lists both in the
\* order of the log through any mix of undo, redo, new turns and compactions.
Undos(turn) == {i \in Numbered("turn.reverted") : turn \in Range(log[i].turns)}
Redos(turn) == {i \in Numbered("turn.unreverted") : turn \in Range(log[i].turns)}
Live == {turn \in Numbered("turn.started") :
           Cardinality(Undos(turn)) = Cardinality(Redos(turn))}

CountsWhatIsLive ==
  LET live == {i \in Numbered("context.compacted") : log[i].turn \in Live}
      place(i) == Cardinality({j \in live : j <= i}) IN
  /\ Range(book.turns) = Live
  /\ \A i, j \in DOMAIN book.turns : i < j => book.turns[i] < book.turns[j]
  /\ Len(book.compactions) = Cardinality(live)
  /\ \A i \in live :
       book.compactions[place(i)] = [turn |-> log[i].turn, upto |-> log[i].upto]

\* A redo restores exactly the latest undo not redone yet, and only when no turn
\* was started and nothing was compacted since.
RedoMatchesUndo ==
  \A j \in Numbered("turn.unreverted") :
    \E i \in Numbered("turn.reverted") :
      LET between(kind) == {k \in Numbered(kind) : i < k /\ k < j} IN
      /\ i < j
      /\ log[i].turns = log[j].turns
      /\ between("turn.started") = {}
      /\ between("context.compacted") = {}
      /\ Cardinality(between("turn.reverted")) =
           Cardinality(between("turn.unreverted"))

\* An overheard message opens or joins at most one turn in the whole log, undone
\* turns included, and only after it was overheard.
TriggersUsedOnce ==
  \A i, j \in Numbered("turn.started") \union Numbered("turn.joined") :
    \A m \in Range(log[i].triggers) :
      /\ m < i
      /\ log[m].k = "message.user" /\ log[m].ambient
      /\ i # j => m \notin Range(log[j].triggers)
=============================================================================
