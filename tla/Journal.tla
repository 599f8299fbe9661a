------------------------------ MODULE Journal ------------------------------
(***************************************************************************)
(* What a session promises about its log, whatever happens inside it: the  *)
(* log only grows, by events that are legal one after the other; it        *)
(* reaches the disk in order; a crash takes away nothing that is on disk   *)
(* and leaves a whole number of events; and what is loaded continues that  *)
(* log.                                                                    *)
(*                                                                         *)
(* Source: docs/designs/07-存储.md section 4 for the promise,              *)
(* crates/miyu-store/src/log.rs, log/open.rs and                           *)
(* crates/miyu-kernel/src/ledger.rs for what keeps it.                     *)
(***************************************************************************)
EXTENDS LedgerRules

VARIABLES
  log,      \* every event appended and not lost
  stored    \* how many of them are on disk

vars == <<log, stored>>

\* What the ledger remembers of a log.
Book(events) == FoldLeft(Record, EmptyBook, events)

\* Events from the given number on are legal where they stand.
LegalFrom(events, first) ==
  \A i \in first..Len(events) : Legal(Book(SubSeq(events, 1, i - 1)), events[i])

Init ==
  /\ stored = Len(log)
  /\ LegalFrom(log, 1)

Extends(longer, events) ==
  /\ Len(longer) >= Len(events)
  /\ SubSeq(longer, 1, Len(events)) = events

\* One batch is appended (Log::append).
AppendBatch ==
  /\ Extends(log', log) /\ log' # log
  /\ LegalFrom(log', Len(log) + 1)
  /\ UNCHANGED stored

\* Everything up to a number is on disk (Input::Stored).
Sync ==
  /\ stored' \in (stored + 1)..Len(log)
  /\ UNCHANGED log

\* A crash cuts the log behind what is on disk; the load takes the rest as stored
\* and may append the events that close what was open (log::open, Session::load).
Reopen ==
  \E keep \in stored..Len(log) :
    /\ stored' = keep
    /\ Extends(log', SubSeq(log, 1, keep))
    /\ LegalFrom(log', keep + 1)

Next == AppendBatch \/ Sync \/ Reopen

Spec == Init /\ [][Next]_vars
=============================================================================
