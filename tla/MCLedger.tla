------------------------------ MODULE MCLedger ------------------------------
(***************************************************************************)
(* A small instance of Ledger in three parts: each behaviour offers only   *)
(* the kinds of event of its part, so that the log of each part can be     *)
(* longer than a log of every kind could be.                               *)
(***************************************************************************)
EXTENDS Ledger

VARIABLE part

AllKinds ==
  { "session.created", "turn.started", "turn.joined", "message.user",
    "message.withdrawn", "model.called", "message.assistant", "tool.result",
    "approval.requested", "approval.decided", "question.asked", "question.answered",
    "turn.ended", "context.compacted", "turn.reverted", "turn.unreverted",
    "files.restored", "session.recapped" }

MCInit == Init /\ part \in {"calls", "undo", "queue"}

\* The calls of a reply, their approvals and questions.
OfCalls ==
  /\ part = "calls" /\ Len(log) < 7
  /\ \/ SessionCreated \/ TurnStarted \/ MessageAssistant \/ ToolResult
     \/ ApprovalRequested \/ ApprovalDecided \/ QuestionAsked \/ QuestionAnswered
     \/ TurnEnded

\* Undo, redo, restored files, compaction and recaps.
OfUndo ==
  /\ part = "undo"
  /\ \/ SessionCreated \/ TurnStarted \/ TurnEnded \/ ContextCompacted
     \/ TurnReverted \/ TurnUnreverted \/ FilesRestored \/ SessionRecapped

\* Messages queued, overheard, heard and withdrawn.
OfQueue ==
  /\ part = "queue" /\ Len(log) < 6
  /\ \/ SessionCreated \/ TurnStarted \/ TurnJoined \/ MessageUser
     \/ MessageWithdrawn \/ ModelCalled \/ TurnEnded \/ TurnReverted
     \/ MessageAssistant /\ Last(log').calls = << >>

MCNext == UNCHANGED part /\ (OfCalls \/ OfUndo \/ OfQueue)

MCSpec == MCInit /\ [][MCNext]_<<vars, part>>
=============================================================================
