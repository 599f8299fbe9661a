------------------------------ MODULE Spending ------------------------------
(***************************************************************************)
(* What was spent: every request sent is an event of a session's log or,   *)
(* for a single call outside sessions, an entry of the account's journal.  *)
(* state/usage.db is derived from them.  A session writes its rows when a  *)
(* batch landed, queries read what the database misses before they add up, *)
(* and a session deleted for good leaves the total of its log in the       *)
(* journal, which replaces its rows.  The database may lag behind, lose    *)
(* its last updates or be made again from nothing.                         *)
(*                                                                         *)
(* Source: crates/miyu-store/src usage.rs, usage/, log.rs, log/open.rs,    *)
(* journal.rs, trash.rs; crates/miyu-session/src/store.rs and              *)
(* crates/miyu-endpoint/src/usage.rs.  One account; positions in logs and  *)
(* in the journal are numbers of whole lines; a sum is the set of the      *)
(* requests in it.                                                         *)
(***************************************************************************)
EXTENDS Integers, Sequences

CONSTANTS
  Sessions, Queries,
  NoSession,       \* of nothing in particular
  SegmentLimit,    \* log::SEGMENT_LIMIT, in events
  Bounds           \* bounds, of which a behaviour has one: events of a session,
                   \* calls outside sessions, entries of the journal, times the
                   \* database is found broken, ends of the process

ASSUME SpendingLimits ==
  /\ NoSession \notin Sessions
  /\ SegmentLimit \in Nat \ {0}
  /\ Bounds \subseteq [events : Nat, calls : Nat, entries : Nat, resets : Nat, crashes : Nat]

VARIABLES
  log,       \* the events of each session that can be read
  synced,    \* how many of them are surely on disk
  place,     \* where its directory is: live, trash, gone
  stamp,     \* whether it says when it was deleted
  journal,   \* the entries of the account's journal
  rows,      \* journal entries whose caller has yet to write the row
  db,        \* the database
  saved,     \* what of it a power failure leaves
  query,     \* what each query is doing
  due,       \* sessions the purge of this process has yet to look at
  purging,   \* the session being removed
  spent,     \* the requests each session has sent
  bound,     \* the bounds of this behaviour, of which resets and crashes are used up
  resets, crashes

vars == <<log, synced, place, stamp, journal, rows, db, saved, query, due, purging,
          spent, bound, resets, crashes>>
disk == <<log, synced, place, stamp, spent>>
counts == <<bound, resets, crashes>>

----------------------------------------------------------------------------
(***************************************************************************)
(* The database: the rows of sessions and of calls, the totals of deleted  *)
(* sessions, and how far every log (0 for never) and the journal was read. *)
(* skipped is history, the entries its mark was moved past unread.         *)
(***************************************************************************)
Unmarked == [at |-> 0, purged |-> FALSE]
Never == -1

EmptyDb == [single |-> [s \in Sessions |-> {}], total |-> [s \in Sessions |-> {}],
            shots |-> {}, mark |-> [s \in Sessions |-> Unmarked], entries |-> Never,
            skipped |-> {}]

\* Spent::called over the events from one position to another.
Called(s, from, to) == {i \in (from + 1)..to : log[s][i] = "called"}

\* Rows that are there already are not written again.
Insert(d, s, calls) == [d EXCEPT !.single[s] = @ \union calls]

\* Wrong: it moves wherever it stands.
MovedAnyway(mark, was, to) == IF ~mark.purged THEN [mark EXCEPT !.at = to] ELSE mark

\* What a mark becomes when the log was read from one position to another: it only
\* moves when it stands where the reading began.
Moved(mark, was, to) ==
  IF mark.at = was /\ ~mark.purged THEN [mark EXCEPT !.at = to] ELSE mark

\* UsageIndex::advance, and the part of a catch-up that writes a session.
Advance(d, s, was, calls, to) ==
  [Insert(d, s, calls) EXCEPT !.mark[s] = Moved(@, was, to)]

\* The entries a reader has read replace what is there of the sessions they are of;
\* of several of a session the last one counts.
IsLast(last, from, to) ==
  \A s \in Sessions :
    \/ last[s] = from /\ \A j \in (from + 1)..to : journal[j].of # s
    \/ last[s] > from /\ journal[last[s]].of = s
       /\ \A j \in (last[s] + 1)..to : journal[j].of # s

\* An entry of the journal is in the database.
HasEntry(d, j) ==
  IF journal[j].of = NoSession THEN j \in d.shots ELSE d.mark[journal[j].of].purged

\* Where the reading of the journal begins.
Behind(d) == IF d.entries = Never THEN 0 ELSE d.entries

Replaced(d, last, from, to) ==
  [ single |-> [s \in Sessions |-> IF last[s] > from THEN {} ELSE d.single[s]],
    total |-> [s \in Sessions |->
                 IF last[s] > from THEN journal[last[s]].calls ELSE d.total[s]],
    shots |-> d.shots \union {j \in (from + 1)..to : journal[j].of = NoSession},
    mark |-> [s \in Sessions |->
                IF last[s] > from THEN [at |-> 0, purged |-> TRUE] ELSE d.mark[s]],
    entries |-> to,
    skipped |-> {j \in d.skipped \union (Behind(d) + 1)..from : ~HasEntry(d, j)}
                  \ (from + 1)..to ]

----------------------------------------------------------------------------
(***************************************************************************)
(* A query: it catches up, first with the journal, then with the           *)
(* directories todo, each read before the database is locked and written   *)
(* (of, calls, was, to hold what was read), and then adds up.  promised and *)
(* shots are what was on disk when it began and is to be in the answer;    *)
(* undercut, that the database it caught up was made again meanwhile.      *)
(***************************************************************************)
Idle == [stage |-> "idle", todo |-> {}, of |-> NoSession, calls |-> {}, was |-> 0,
         from |-> 0, to |-> 0, again |-> FALSE, undercut |-> FALSE,
         promised |-> [s \in Sessions |-> {}], shots |-> {}]

Init ==
  /\ log = [s \in Sessions |-> << >>] /\ synced = [s \in Sessions |-> 0]
  /\ place = [s \in Sessions |-> "live"] /\ stamp = [s \in Sessions |-> FALSE]
  /\ journal = << >> /\ rows = {} /\ db = EmptyDb /\ saved = EmptyDb
  /\ query = [q \in Queries |-> Idle]
  /\ due = {} /\ purging = NoSession
  /\ spent = [s \in Sessions |-> {}]
  /\ bound \in Bounds /\ resets = 0 /\ crashes = 0

----------------------------------------------------------------------------
(***************************************************************************)
(* Sessions and calls.                                                     *)
(***************************************************************************)
\* A line of a batch reaches the file: readers see it from now on.  Of the events
\* only session.created and the requests that were sent matter here.
Write(s) ==
  /\ place[s] = "live" /\ Len(log[s]) < bound.events
  /\ IF log[s] = << >>
       THEN log' = [log EXCEPT ![s] = <<"created">>] /\ UNCHANGED spent
       ELSE /\ log' = [log EXCEPT ![s] = Append(@, "called")]
            /\ spent' = [spent EXCEPT ![s] = @ \union {Len(log[s]) + 1}]
  /\ UNCHANGED <<synced, place, stamp, journal, rows, db, saved, query, due, purging,
                 counts>>

\* Indexed::append: the batch is synced, then the database is told, unless that
\* fails.
Land(s, indexed) ==
  /\ place[s] = "live" /\ synced[s] < Len(log[s])
  /\ synced' = [synced EXCEPT ![s] = Len(log[s])]
  /\ db' = IF indexed
             THEN Advance(db, s, synced[s], Called(s, synced[s], Len(log[s])), Len(log[s]))
             ELSE db
  /\ UNCHANGED <<log, place, stamp, journal, rows, saved, query, due, purging, spent,
                 counts>>

\* UsageIndex::one_shot: first the journal, then the row.
OneShot ==
  /\ Len(journal) < bound.entries
  /\ Len(SelectSeq(journal, LAMBDA e : e.of = NoSession)) < bound.calls
  /\ journal' = Append(journal, [of |-> NoSession, calls |-> {}])
  /\ rows' = rows \union {Len(journal')}
  /\ UNCHANGED <<disk, db, saved, query, due, purging, counts>>

OneShotRow(j, indexed) ==
  /\ j \in rows
  /\ rows' = rows \ {j}
  /\ db' = IF indexed THEN [db EXCEPT !.shots = @ \union {j}] ELSE db
  /\ UNCHANGED <<disk, journal, saved, query, due, purging, counts>>

----------------------------------------------------------------------------
(***************************************************************************)
(* Deleting sessions.                                                      *)
(***************************************************************************)
\* A directory that moves or goes while a query is at it may be missed this once.
Disturbed(s) == [q \in Queries |-> [query[q] EXCEPT !.promised[s] = {}]]

\* trash::discard of a session that was stopped.
Discard(s) ==
  /\ place[s] = "live" /\ log[s] # << >> /\ synced[s] = Len(log[s])
  /\ place' = [place EXCEPT ![s] = "trash"] /\ stamp' = [stamp EXCEPT ![s] = TRUE]
  /\ query' = Disturbed(s)
  /\ UNCHANGED <<log, synced, journal, rows, db, saved, due, purging, spent, counts>>

\* keep_usage: the total of what can be read of its log; nothing when it sent no
\* request.  What cannot be told how long it is there, or cannot be written, stays.
KeepUsage(s) ==
  /\ purging = NoSession /\ s \in due
  /\ due' = due \ {s}
  /\ LET calls == Called(s, 0, Len(log[s]))
     IN  \/ UNCHANGED <<journal, purging>>
         \/ /\ stamp[s] /\ purging' = s
            /\ Len(journal) < bound.entries
            /\ journal' = IF calls = {} THEN journal
                          ELSE Append(journal, [of |-> s, calls |-> calls])
  /\ UNCHANGED <<disk, rows, db, saved, query, counts>>

\* The directory goes file by file, in any order: of the log stays what is before
\* the first segment that is missing.
RemoveSome ==
  /\ purging # NoSession
  /\ \/ /\ stamp[purging] /\ stamp' = [stamp EXCEPT ![purging] = FALSE]
        /\ UNCHANGED <<log, synced>>
     \/ /\ \E n \in 0..Len(log[purging]) - 1 :
             /\ n % SegmentLimit = 0
             /\ log' = [log EXCEPT ![purging] = SubSeq(@, 1, n)]
             /\ synced' = [synced EXCEPT ![purging] = n]
        /\ UNCHANGED stamp
  /\ query' = Disturbed(purging)
  /\ UNCHANGED <<place, journal, rows, db, saved, due, purging, spent, counts>>

Removed ==
  /\ purging # NoSession
  /\ place' = [place EXCEPT ![purging] = "gone"] /\ stamp' = [stamp EXCEPT ![purging] = FALSE]
  /\ log' = [log EXCEPT ![purging] = << >>] /\ synced' = [synced EXCEPT ![purging] = 0]
  /\ purging' = NoSession /\ query' = Disturbed(purging)
  /\ UNCHANGED <<journal, rows, db, saved, due, spent, counts>>

RemoveFails ==
  /\ purging # NoSession /\ purging' = NoSession
  /\ UNCHANGED <<disk, journal, rows, db, saved, query, due, counts>>

----------------------------------------------------------------------------
(***************************************************************************)
(* Queries.                                                                *)
(***************************************************************************)
\* The requests of a session that are surely on disk, in its log or in a total.
OnRecord(s) == IF place[s] = "live" THEN Called(s, 0, synced[s]) ELSE spent[s]

Calls == {j \in DOMAIN journal : journal[j].of = NoSession}

\* usage.query.
Begin(q) ==
  /\ query[q].stage = "idle"
  /\ query' = [query EXCEPT ![q] =
       [Idle EXCEPT !.stage = "journal", !.again = TRUE, !.shots = Calls,
                    !.promised = [s \in Sessions |-> OnRecord(s)]]]
  /\ UNCHANGED <<disk, journal, rows, db, saved, due, purging, counts>>

\* session_usage: only the session that asks, and no second try.
BeginOne(q, s) ==
  /\ query[q].stage = "idle" /\ place[s] = "live"
  /\ query' = [query EXCEPT ![q] =
       [Idle EXCEPT !.stage = "dirs", !.todo = {<<s, "live">>},
                    !.promised = [Idle.promised EXCEPT ![s] = OnRecord(s)]]]
  /\ UNCHANGED <<disk, journal, rows, db, saved, due, purging, counts>>

\* session_dirs.
Directories == {<<s, place[s]>> : s \in {t \in Sessions : place[t] # "gone"}}

\* catch_up_journal: the entries behind the mark are read ...
ReadJournal(q) ==
  /\ query[q].stage = "journal"
  /\ query' = [query EXCEPT ![q] =
       IF db.entries = Len(journal)
         THEN [@ EXCEPT !.stage = "dirs", !.todo = Directories]
         ELSE [@ EXCEPT !.stage = "taking", !.from = Behind(db), !.to = Len(journal)]]
  /\ UNCHANGED <<disk, journal, rows, db, saved, due, purging, counts>>

\* ... and written, whatever the mark is by now: when the database was made again
\* since, what is before them is skipped.
TakeJournal(q) ==
  /\ query[q].stage = "taking"
  /\ \E last \in [Sessions -> query[q].from..query[q].to] :
       /\ IsLast(last, query[q].from, query[q].to)
       /\ db' = Replaced(db, last, query[q].from, query[q].to)
  /\ query' = [query EXCEPT ![q] = 
       [@ EXCEPT !.stage = "dirs", !.todo = Directories, !.from = 0, !.to = 0]]
  /\ UNCHANGED <<disk, journal, rows, saved, due, purging, counts>>

\* Where the reading of a session begins: at its mark, or at the first event when
\* there is none or it does not fit the log.
ReadFrom(s) == IF db.mark[s].at <= Len(log[s]) THEN db.mark[s].at ELSE 0

\* There is nothing to read of a session that was deleted for good, one that moved
\* or went since it was listed, and one that is read to its end.
NothingToRead(dir) ==
  \/ db.mark[dir[1]].purged \/ place[dir[1]] # dir[2]
  \/ ReadFrom(dir[1]) = Len(log[dir[1]])

Holding(held, s) ==
  [held EXCEPT !.stage = "holding", !.of = s, !.was = db.mark[s].at,
               !.calls = Called(s, ReadFrom(s), Len(log[s])), !.to = Len(log[s])]

\* catch_up_dir, without the database locked: what is missing is read.
ReadDir(q) ==
  /\ query[q].stage = "dirs"
  /\ \E dir \in query[q].todo :
       LET held == [query[q] EXCEPT !.todo = @ \ {dir}]
       IN  query' = [query EXCEPT ![q] = IF NothingToRead(dir) THEN held
                                         ELSE Holding(held, dir[1])]
  /\ UNCHANGED <<disk, journal, rows, db, saved, due, purging, counts>>

Released(held) ==
  [held EXCEPT !.stage = "dirs", !.of = NoSession, !.calls = {}, !.was = 0, !.to = 0]

\* Wrong: what was deleted meanwhile is written all the same.
WriteDirAnyway(q) ==
  /\ query[q].stage = "holding"
  /\ db' = Advance(db, query[q].of, query[q].was, query[q].calls, query[q].to)
  /\ query' = [query EXCEPT ![q] = Released(@)]
  /\ UNCHANGED <<disk, journal, rows, saved, due, purging, counts>>

\* The rest of catch_up_dir, with the database locked: a session that was deleted
\* for good meanwhile is left alone.
WriteDir(q) ==
  /\ query[q].stage = "holding"
  /\ LET held == query[q]
     IN  db' = IF db.mark[held.of].purged THEN db
               ELSE Advance(db, held.of, held.was, held.calls, held.to)
  /\ query' = [query EXCEPT ![q] = Released(@)]
  /\ UNCHANGED <<disk, journal, rows, saved, due, purging, counts>>

\* UsageIndex::query: everything is caught up, and added up.
CaughtUp(q) == query[q].stage = "dirs" /\ query[q].todo = {}

AddUp(q) ==
  /\ CaughtUp(q)
  /\ query' = [query EXCEPT ![q] = Idle]
  /\ UNCHANGED <<disk, journal, rows, db, saved, due, purging, counts>>

\* It begins again with a database made from nothing.
Renewed(held) ==
  [Released(held) EXCEPT !.stage = "journal", !.todo = {}, !.from = 0,
                         !.again = FALSE, !.undercut = FALSE]

\* What it had caught up is gone.
Undercut(held) == [held EXCEPT !.undercut = @ \/ held.stage \in {"dirs", "holding"}]

\* The database turns out to be broken: usage.query makes it again from nothing
\* and tries a second time; everybody else gives up.  Other queries go on with what
\* they have read.
Broken(q) ==
  /\ query[q].stage # "idle" /\ resets < bound.resets
  /\ resets' = resets + 1
  /\ IF query[q].again
       THEN /\ db' = EmptyDb /\ saved' = EmptyDb
            /\ query' = [p \in Queries |-> IF p = q THEN Renewed(query[p]) ELSE Undercut(query[p])]
       ELSE /\ query' = [query EXCEPT ![q] = Idle]
            /\ UNCHANGED <<db, saved>>
  /\ UNCHANGED <<disk, journal, rows, due, purging, bound, crashes>>

----------------------------------------------------------------------------
(***************************************************************************)
(* The end of the process.                                                 *)
(***************************************************************************)
\* The next one begins with nothing under way, and with a database made again when
\* it finds it broken.  The trash it is to purge says when it was deleted.
Restarted(left, crashed) ==
  /\ crashes < bound.crashes /\ crashes' = crashes + 1
  /\ \/ db' = left /\ saved' = crashed /\ UNCHANGED resets
     \/ db' = EmptyDb /\ saved' = EmptyDb /\ resets < bound.resets /\ resets' = resets + 1
  /\ rows' = {} /\ query' = [q \in Queries |-> Idle] /\ purging' = NoSession
  /\ due' = {s \in Sessions : place[s] = "trash" /\ stamp[s]}
  /\ UNCHANGED <<place, stamp, journal, bound>>

\* The process is gone: what it wrote stays.
Killed ==
  /\ Restarted(db, saved)
  /\ synced' = [s \in Sessions |-> Len(log[s])]
  /\ UNCHANGED <<log, spent>>

\* SQLite writes its last updates to disk (synchronous is NORMAL), which loses to a
\* batch that is just being synced.
Checkpoint ==
  /\ saved # db /\ \A s \in Sessions : synced[s] = Len(log[s])
  /\ saved' = db
  /\ UNCHANGED <<disk, journal, rows, db, query, due, purging, counts>>

\* The power fails: of a batch that was being synced any part may be there, and the
\* database is what it was a while ago.
PowerFails ==
  /\ Restarted(saved, saved)
  /\ \E kept \in [Sessions -> 0..bound.events] :
       /\ \A s \in Sessions : kept[s] \in synced[s]..Len(log[s])
       /\ synced' = kept
       /\ log' = [s \in Sessions |-> SubSeq(log[s], 1, kept[s])]
       /\ spent' = [s \in Sessions |->
            IF place[s] = "live" THEN Called(s, 0, kept[s]) ELSE spent[s]]

Next ==
  \/ \E s \in Sessions : Write(s)
  \/ \E s \in Sessions, indexed \in BOOLEAN : Land(s, indexed)
  \/ OneShot
  \/ \E j \in DOMAIN journal, indexed \in BOOLEAN : OneShotRow(j, indexed)
  \/ \E s \in Sessions : Discard(s) \/ KeepUsage(s)
  \/ RemoveSome \/ Removed \/ RemoveFails
  \/ \E q \in Queries : \/ Begin(q) \/ ReadJournal(q) \/ TakeJournal(q) \/ ReadDir(q)
                         \/ WriteDir(q) \/ AddUp(q) \/ Broken(q)
                         \/ \E s \in Sessions : BeginOne(q, s)
  \/ Killed \/ Checkpoint \/ PowerFails

Spec == Init /\ [][Next]_vars

----------------------------------------------------------------------------
(***************************************************************************)
(* Properties.                                                             *)
(***************************************************************************)
Db == [single : [Sessions -> SUBSET Nat], total : [Sessions -> SUBSET Nat],
       shots : SUBSET Nat, mark : [Sessions -> [at : Nat, purged : BOOLEAN]],
       entries : Nat \union {Never}, skipped : SUBSET Nat]

Doing == [stage : {"idle", "journal", "taking", "dirs", "holding"},
          todo : SUBSET (Sessions \X {"live", "trash", "gone"}),
          of : Sessions \union {NoSession}, calls : SUBSET Nat, was : Nat,
          from : Nat, to : Nat, again : BOOLEAN, undercut : BOOLEAN,
          promised : [Sessions -> SUBSET Nat], shots : SUBSET Nat]

\* Every variable has the shape its table, file or struct has.
TypeOK ==
  /\ log \in [Sessions -> Seq({"created", "called"})]
  /\ synced \in [Sessions -> Nat] /\ stamp \in [Sessions -> BOOLEAN]
  /\ place \in [Sessions -> {"live", "trash", "gone"}]
  /\ journal \in Seq([of : Sessions \union {NoSession}, calls : SUBSET Nat])
  /\ db \in Db /\ saved \in Db
  /\ query \in [Queries -> Doing]
  /\ rows \subseteq Nat /\ due \subseteq Sessions /\ purging \in Sessions \union {NoSession}
  /\ spent \in [Sessions -> SUBSET Nat]

\* A request is counted once: a session counts by its own rows or by its total,
\* never by both, and only with requests it has sent ("a session is found in one
\* place only", docs/designs/07), whoever was reading what while it was deleted.
CountedOnce ==
  \A s \in Sessions : /\ db.single[s] = {} \/ db.total[s] = {}
                      /\ db.single[s] \union db.total[s] \subseteq spent[s]

\* Who asks what was spent is told of every request that was on disk when he asked,
\* whatever updates the database had missed or lost by then: of the sessions he asks
\* about, deleted ones too, and of the calls outside sessions.  Two things are left to
\* ToldInFull and JournalIsRead: a query whose database another one made again after it
\* had caught up, and entries of the journal that were skipped.
CountedInFull ==
  \A q \in Queries : CaughtUp(q) /\ ~query[q].undercut =>
    /\ \A s \in Sessions :
         \/ query[q].promised[s] \subseteq db.single[s] \union db.total[s]
         \/ \E j \in db.skipped : journal[j].of = s
    /\ query[q].shots \subseteq db.shots \union db.skipped

\* "First caught up, then asked" (docs/blueprint/models.md on usage.query): who adds up
\* finds every request that was on disk when he asked, with nothing left out.  The code
\* keeps it until a database is made again under a query.
ToldInFull ==
  \A q \in Queries : CaughtUp(q) =>
    /\ \A s \in Sessions : query[q].promised[s] \subseteq db.single[s] \union db.total[s]
    /\ query[q].shots \subseteq db.shots

\* A database made again is read back from the journal (docs/designs/07): whatever is
\* before its mark is in it, since no later query looks there again.  The code keeps it
\* until a database is made again under a query that took entries of the old one.
JournalIsRead == \A j \in 1..db.entries : HasEntry(db, j)

\* What a session spent stays in the statistics when it is gone (docs/designs/07; "the
\* last entry counts, so a crash before the directory is removed does no harm",
\* usage/purged.rs): the last entry about it has every request it sent.
UsageKept ==
  \A s \in Sessions : place[s] = "gone" /\ spent[s] # {} =>
    \E j \in DOMAIN journal :
      /\ journal[j].of = s /\ journal[j].calls = spent[s]
      /\ \A later \in DOMAIN journal : later > j => journal[later].of # s
=============================================================================
