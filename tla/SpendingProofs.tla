--------------------------- MODULE SpendingProofs ---------------------------
(***************************************************************************)
(* No request is ever counted twice, or without having been sent: an       *)
(* inductive invariant of Spending that implies CountedOnce, for any       *)
(* number of sessions and queries and any bounds.  In the second half a    *)
(* larger one: every request that was on disk when a query began is        *)
(* counted by it, and a session that is gone left its total, for sessions  *)
(* of one segment.                                                         *)
(***************************************************************************)
EXTENDS Spending, TLAPS, WellFoundedInduction

(***************************************************************************)
(* The inductive invariant.                                                *)
(***************************************************************************)
\* What can be read of a log was sent; as long as the session lives, all of it can.
LogsAreSpent ==
  \A s \in Sessions :
    /\ synced[s] <= Len(log[s])
    /\ Called(s, 0, Len(log[s])) \subseteq spent[s]
    /\ place[s] = "live" => spent[s] \subseteq Called(s, 0, Len(log[s]))

\* Totals are of sessions that were deleted, and only those are removed.
TotalsAreSpent ==
  \A j \in DOMAIN journal : journal[j].of # NoSession =>
    /\ journal[j].calls \subseteq spent[journal[j].of]
    /\ place[journal[j].of] # "live"

DeletedAreRemoved ==
  /\ \A s \in due : place[s] # "live"
  /\ purging # NoSession => place[purging] # "live"

\* What a query holds between reading and writing was sent ...
HeldIsSpent ==
  \A q \in Queries : query[q].stage = "holding" =>
    query[q].of \in Sessions /\ query[q].calls \subseteq spent[query[q].of]

\* ... and is in the journal.
ReadIsThere ==
  \A q \in Queries : query[q].stage = "taking" => query[q].to <= Len(journal)

\* A database counts a session by its rows until its mark says it was deleted, by its
\* total from then on.
SoundFor(d, sent, where) ==
  \A s \in Sessions :
    /\ d.single[s] \subseteq sent[s] /\ d.total[s] \subseteq sent[s]
    /\ d.mark[s].purged => d.single[s] = {} /\ where[s] # "live"
    /\ ~d.mark[s].purged => d.total[s] = {}

Sound(d) == SoundFor(d, spent, place)

\* What is left after a power failure counts no request the failure loses.
SavedIsSynced ==
  \A s \in Sessions : place[s] = "live" => \A i \in saved.single[s] : i <= synced[s]

IInv ==
  /\ TypeOK /\ LogsAreSpent /\ TotalsAreSpent /\ DeletedAreRemoved /\ HeldIsSpent
  /\ ReadIsThere /\ Sound(db) /\ Sound(saved) /\ SavedIsSynced

(***************************************************************************)
(* Types.                                                                  *)
(***************************************************************************)
\* An element of a sequence is what the sequence is of.
LEMMA ElementOf ==
  ASSUME NEW R, NEW seq \in Seq(R), NEW i \in DOMAIN seq
  PROVE  seq[i] \in R
  OBVIOUS

\* An entry of the journal that is not of a call is of a session.
LEMMA EntryOf ==
  ASSUME TypeOK, NEW j \in DOMAIN journal, journal[j].of # NoSession
  PROVE  journal[j].of \in Sessions
<1>1. journal[j] \in [of : Sessions \union {NoSession}, calls : SUBSET Nat]
  BY ElementOf DEF TypeOK
<1> QED
  BY <1>1

\* The requests of a log are positions in it.
LEMMA CalledType ==
  ASSUME NEW s, NEW from \in Nat, NEW to \in Nat
  PROVE  Called(s, from, to) \in SUBSET Nat
  BY DEF Called

\* A database stays one when a session is written to it.
LEMMA AdvanceType ==
  ASSUME NEW d \in Db, NEW s, NEW was \in Nat, NEW calls \in SUBSET Nat,
         NEW to \in Nat
  PROVE  Advance(d, s, was, calls, to) \in Db
<1>1. CASE s \in Sessions
  <2>1. [d.single EXCEPT ![s] = d.single[s] \union calls] \in [Sessions -> SUBSET Nat]
    BY <1>1 DEF Db
  <2>2. d.mark \in [Sessions -> [at : Nat, purged : BOOLEAN]]
    BY DEF Db
  <2>3. Moved(d.mark[s], was, to) \in [at : Nat, purged : BOOLEAN]
    BY <1>1, <2>2 DEF Moved
  <2>4. [d.mark EXCEPT ![s] = Moved(d.mark[s], was, to)]
           \in [Sessions -> [at : Nat, purged : BOOLEAN]]
    BY <2>2, <2>3
  <2>5. Insert(d, s, calls) =
           [d EXCEPT !.single = [d.single EXCEPT ![s] = d.single[s] \union calls]]
    BY DEF Insert, Db
  <2>6. /\ Insert(d, s, calls) \in Db
        /\ Insert(d, s, calls).mark = d.mark
    BY <2>1, <2>5 DEF Db
  <2>7. Advance(d, s, was, calls, to) =
           [Insert(d, s, calls) EXCEPT
              !.mark = [d.mark EXCEPT ![s] = Moved(d.mark[s], was, to)]]
    BY <2>6 DEF Advance, Db
  <2> QED
    BY <2>4, <2>6, <2>7 DEF Db
<1>2. CASE s \notin Sessions
  <2>1. [d.single EXCEPT ![s] = d.single[s] \union calls] = d.single
    BY <1>2 DEF Db
  <2>2. [d.mark EXCEPT ![s] = Moved(d.mark[s], was, to)] = d.mark
    BY <1>2 DEF Db
  <2>3. Insert(d, s, calls) = d
    BY <2>1 DEF Insert, Db
  <2> QED
    BY <2>2, <2>3 DEF Advance, Db
<1> QED
  BY <1>1, <1>2

\* A new database is one.
LEMMA EmptyType == EmptyDb \in Db
  BY DEF EmptyDb, Db, Unmarked

\* A query that does nothing is one.
LEMMA IdleType == Idle \in Doing
  BY DEF Idle, Doing

\* Another query that goes on with a new database is one, with nothing else changed.
LEMMA UndercutType ==
  ASSUME NEW r \in Doing
  PROVE  /\ Undercut(r) \in Doing
         /\ \A f \in {"stage", "todo", "of", "calls", "was", "from", "to", "promised", "shots"} :
              Undercut(r)[f] = r[f]
<1>1. Undercut(r) \in Doing
  BY DEF Undercut, Doing
<1> QED
  BY <1>1 DEF Undercut, Doing

\* A query that no longer promises a session is one.
LEMMA DisturbedType ==
  ASSUME TypeOK, NEW s
  PROVE  Disturbed(s) \in [Queries -> Doing]
<1>1. ASSUME NEW r \in Doing
      PROVE  [r EXCEPT !.promised[s] = {}] \in Doing
  <2>1. [r.promised EXCEPT ![s] = {}] \in [Sessions -> SUBSET Nat]
    BY DEF Doing
  <2>2. [r EXCEPT !.promised = [r.promised EXCEPT ![s] = {}]] \in Doing
    BY <2>1 DEF Doing
  <2> QED
    BY <2>2
<1>2. \A q \in Queries : query[q] \in Doing
  BY DEF TypeOK
<1> QED
  BY <1>1, <1>2 DEF Disturbed

\* The first steps of every process: types are kept by sessions and calls.
LEMMA TypeSessions ==
  ASSUME TypeOK,
         \/ \E s \in Sessions : Write(s) \/ Discard(s) \/ KeepUsage(s)
         \/ \E s \in Sessions, indexed \in BOOLEAN : Land(s, indexed)
         \/ OneShot
         \/ \E j \in DOMAIN journal, indexed \in BOOLEAN : OneShotRow(j, indexed)
  PROVE  TypeOK'
<1>1. CASE \E s \in Sessions : Write(s)
  <2>1. PICK s \in Sessions : Write(s)
    BY <1>1
  <2>2. <<"created">> \in Seq({"created", "called"})
    OBVIOUS
  <2>3. log[s] \in Seq({"created", "called"}) /\ Len(log[s]) + 1 \in Nat
    BY DEF TypeOK
  <2>4. Append(log[s], "called") \in Seq({"created", "called"})
    BY <2>3
  <2>5. log' \in [Sessions -> Seq({"created", "called"})]
    BY <2>1, <2>2, <2>4 DEF Write, TypeOK
  <2>6. spent' \in [Sessions -> SUBSET Nat]
    <3>1. spent[s] \union {Len(log[s]) + 1} \in SUBSET Nat
      BY <2>3 DEF TypeOK
    <3>2. spent' = spent \/ spent' = [spent EXCEPT ![s] = spent[s] \union {Len(log[s]) + 1}]
      BY <2>1 DEF Write
    <3> QED
      BY <3>1, <3>2 DEF TypeOK
  <2> QED
    BY <2>1, <2>5, <2>6 DEF Write, TypeOK, counts
<1>2. CASE \E s \in Sessions : Discard(s)
  BY <1>2, DisturbedType DEF Discard, TypeOK, counts
<1>3. CASE \E s \in Sessions : KeepUsage(s)
  <2>1. PICK s \in Sessions : KeepUsage(s)
    BY <1>3
  <2>2. Called(s, 0, Len(log[s])) \in SUBSET Nat
    BY CalledType DEF TypeOK
  <2>3. journal' \in Seq([of : Sessions \union {NoSession}, calls : SUBSET Nat])
    <3>1. [of |-> s, calls |-> Called(s, 0, Len(log[s]))]
             \in [of : Sessions \union {NoSession}, calls : SUBSET Nat]
      BY <2>2
    <3>2. journal' = journal
            \/ journal' = Append(journal, [of |-> s, calls |-> Called(s, 0, Len(log[s]))])
      BY <2>1 DEF KeepUsage
    <3> QED
      <4> DEFINE R == [of : Sessions \union {NoSession}, calls : SUBSET Nat]
      <4>1. journal \in Seq(R)
        BY DEF TypeOK
      <4>2. ASSUME NEW e \in R PROVE Append(journal, e) \in Seq(R)
        <5> HIDE DEF R
        <5> QED BY <4>1
      <4> QED
        BY <3>1, <3>2, <4>1, <4>2
  <2> QED
    BY <2>1, <2>3 DEF KeepUsage, TypeOK, disk, counts
<1>4. CASE \E s \in Sessions, indexed \in BOOLEAN : Land(s, indexed)
  <2>1. PICK s \in Sessions, indexed \in BOOLEAN : Land(s, indexed)
    BY <1>4
  <2>2. Len(log[s]) \in Nat /\ synced[s] \in Nat
    BY DEF TypeOK
  <2>3. db' \in Db
    BY <2>1, <2>2, CalledType, AdvanceType DEF Land, TypeOK
  <2> QED
    BY <2>1, <2>2, <2>3 DEF Land, TypeOK, counts
<1>5. CASE OneShot
  <2>1. [of |-> NoSession, calls |-> {}]
           \in [of : Sessions \union {NoSession}, calls : SUBSET Nat]
    OBVIOUS
  <2>2. journal' \in Seq([of : Sessions \union {NoSession}, calls : SUBSET Nat])
    BY <1>5, <2>1 DEF OneShot, TypeOK
  <2>3. Len(journal') \in Nat
    BY <2>2
  <2> QED
    BY <1>5, <2>2, <2>3 DEF OneShot, TypeOK, disk, counts
<1>6. CASE \E j \in DOMAIN journal, indexed \in BOOLEAN : OneShotRow(j, indexed)
  <2>1. PICK j \in DOMAIN journal, indexed \in BOOLEAN : OneShotRow(j, indexed)
    BY <1>6
  <2>2. db' \in Db
    <3>1. j \in Nat /\ db \in Db
      BY DEF TypeOK
    <3>2. [db EXCEPT !.shots = @ \union {j}] \in Db
      BY <3>1 DEF Db
    <3> QED
      BY <2>1, <3>1, <3>2 DEF OneShotRow
  <2> QED
    BY <2>1, <2>2 DEF OneShotRow, TypeOK, disk, counts
<1> QED
  BY <1>1, <1>2, <1>3, <1>4, <1>5, <1>6

\* Types are kept by removals, crashes and checkpoints.
LEMMA TypeRemovals ==
  ASSUME TypeOK,
         RemoveSome \/ Removed \/ RemoveFails \/ Killed \/ Checkpoint \/ PowerFails
  PROVE  TypeOK'
<1>1. CASE RemoveSome
  <2>1. query' \in [Queries -> Doing]
    BY <1>1, DisturbedType DEF RemoveSome
  <2>2. ASSUME NEW n \in 0..Len(log[purging]) - 1, purging \in Sessions
        PROVE  SubSeq(log[purging], 1, n) \in Seq({"created", "called"}) /\ n \in Nat
    BY <2>2 DEF TypeOK
  <2>3. purging \in Sessions
    BY <1>1 DEF RemoveSome, TypeOK
  <2>4. /\ log' \in [Sessions -> Seq({"created", "called"})]
        /\ synced' \in [Sessions -> Nat] /\ stamp' \in [Sessions -> BOOLEAN]
    BY <1>1, <2>2, <2>3 DEF RemoveSome, TypeOK
  <2> QED
    BY <1>1, <2>1, <2>4 DEF RemoveSome, TypeOK, counts
<1>2. CASE Removed
  BY <1>2, DisturbedType DEF Removed, TypeOK, counts
<1>3. CASE RemoveFails
  BY <1>3 DEF RemoveFails, TypeOK, disk, counts
<1>4. CASE Killed
  BY <1>4, EmptyType, IdleType DEF Killed, Restarted, TypeOK
<1>5. CASE Checkpoint
  BY <1>5 DEF Checkpoint, TypeOK, disk, counts
<1>6. CASE PowerFails
  BY <1>6, EmptyType, IdleType, CalledType DEF PowerFails, Restarted, TypeOK
<1> QED
  BY <1>1, <1>2, <1>3, <1>4, <1>5, <1>6

\* Types are kept by queries.
LEMMA TypeQueries ==
  ASSUME TypeOK, ReadIsThere, NEW q \in Queries,
         \/ Begin(q) \/ ReadJournal(q) \/ TakeJournal(q) \/ ReadDir(q)
         \/ WriteDir(q) \/ AddUp(q) \/ Broken(q)
         \/ \E s \in Sessions : BeginOne(q, s)
  PROVE  TypeOK'
<1>0. /\ \A s \in Sessions : OnRecord(s) \in SUBSET Nat
      /\ Directories \in SUBSET (Sessions \X {"live", "trash", "gone"})
      /\ Calls \in SUBSET Nat /\ Len(journal) \in Nat
      /\ query[q] \in Doing /\ db \in Db
  <2>1. \A s \in Sessions : OnRecord(s) \in SUBSET Nat
    BY CalledType DEF OnRecord, TypeOK
  <2>2. Directories \in SUBSET (Sessions \X {"live", "trash", "gone"})
    BY DEF Directories, TypeOK
  <2>3. Calls \in SUBSET Nat /\ Len(journal) \in Nat
    BY DEF Calls, TypeOK
  <2> QED
    BY <2>1, <2>2, <2>3 DEF TypeOK
<1>1. ASSUME NEW r \in Doing, query' = [query EXCEPT ![q] = r]
      PROVE  query' \in [Queries -> Doing]
  BY <1>1 DEF TypeOK
<1>2. Released(query[q]) \in Doing
  BY <1>0 DEF Released, Doing
<1>3. CASE Begin(q)
  BY <1>0, <1>3, IdleType DEF Begin, TypeOK, Doing, disk, counts
<1>4. CASE ReadJournal(q)
  <2>1. [query[q] EXCEPT !.stage = "dirs", !.todo = Directories] \in Doing
    BY <1>0 DEF Doing
  <2>2. ASSUME NEW from \in Nat
        PROVE  [query[q] EXCEPT !.stage = "taking", !.from = from, !.to = Len(journal)]
                 \in Doing
    BY <1>0 DEF Doing
  <2>3. Behind(db) \in Nat
    BY <1>0 DEF Behind, Db
  <2>4. query' \in [Queries -> Doing]
    BY <1>1, <1>4, <2>1, <2>2, <2>3 DEF ReadJournal
  <2> QED
    BY <1>4, <2>4 DEF ReadJournal, TypeOK, disk, counts
<1>5. CASE TakeJournal(q)
  <2>1. PICK last \in [Sessions -> query[q].from..query[q].to] :
          db' = Replaced(db, last, query[q].from, query[q].to)
    BY <1>5 DEF TakeJournal
  <2>2. query[q].from \in Nat /\ query[q].to \in Nat
    BY <1>0 DEF Doing
  <2>3. db' \in Db
    <3>1. ASSUME NEW s \in Sessions, last[s] > query[q].from
          PROVE  journal[last[s]].calls \in SUBSET Nat
      <4>1. last[s] \in DOMAIN journal
        BY <1>0, <1>5, <2>2, <3>1 DEF ReadIsThere, TakeJournal, TypeOK
      <4>2. journal[last[s]] \in [of : Sessions \union {NoSession}, calls : SUBSET Nat]
        BY <4>1, ElementOf DEF TypeOK
      <4> QED
        BY <4>2
    <3>2. {j \in (query[q].from + 1)..query[q].to : journal[j].of = NoSession} \in SUBSET Nat
      BY <2>2
    <3>4. {j \in db.skipped \union (Behind(db) + 1)..query[q].from : ~HasEntry(db, j)}
            \ (query[q].from + 1)..query[q].to \in SUBSET Nat
      BY <1>0, <2>2 DEF Behind, Db
    <3>3. \A s \in Sessions : [at |-> 0, purged |-> TRUE] \in [at : Nat, purged : BOOLEAN]
      OBVIOUS
    <3> QED
      BY <1>0, <2>1, <2>2, <3>1, <3>2, <3>3, <3>4 DEF Replaced, Db
  <2>4. [query[q] EXCEPT !.stage = "dirs", !.todo = Directories, !.from = 0, !.to = 0] \in Doing
    BY <1>0 DEF Doing
  <2>5. query' \in [Queries -> Doing]
    BY <1>1, <1>5, <2>4 DEF TakeJournal
  <2> QED
    BY <1>5, <2>3, <2>5 DEF TakeJournal, TypeOK, disk, counts
<1>6. CASE ReadDir(q)
  <2>1. PICK dir \in query[q].todo :
          query' = [query EXCEPT ![q] =
            IF NothingToRead(dir) THEN [query[q] EXCEPT !.todo = @ \ {dir}]
            ELSE Holding([query[q] EXCEPT !.todo = @ \ {dir}], dir[1])]
    BY <1>6 DEF ReadDir
  <2>2. PICK s \in Sessions : s = dir[1]
    BY <1>0, <2>1 DEF Doing
  <2>3. db.mark[s].at \in Nat /\ Len(log[s]) \in Nat /\ ReadFrom(s) \in Nat
    BY <1>0 DEF Db, TypeOK, ReadFrom
  <2>4. [query[q] EXCEPT !.todo = @ \ {dir}] \in Doing
    BY <1>0 DEF Doing
  <2>5. ASSUME NEW held \in Doing
        PROVE  Holding(held, s) \in Doing
    BY <2>3, CalledType DEF Doing, Holding
  <2>6. query' \in [Queries -> Doing]
    BY <1>1, <2>1, <2>2, <2>4, <2>5
  <2> QED
    BY <1>6, <2>6 DEF ReadDir, TypeOK, disk, counts
<1>7. CASE WriteDir(q)
  <2>1. query' \in [Queries -> Doing]
    BY <1>1, <1>2, <1>7 DEF WriteDir
  <2>2. /\ query[q].was \in Nat /\ query[q].calls \in SUBSET Nat /\ query[q].to \in Nat
    BY <1>0 DEF Doing
  <2>3. db' \in Db
    BY <1>0, <1>7, <2>2, AdvanceType DEF WriteDir
  <2> QED
    BY <1>7, <2>1, <2>3 DEF WriteDir, TypeOK, disk, counts
<1>8. CASE AddUp(q)
  BY <1>8, IdleType DEF AddUp, TypeOK, disk, counts
<1>9. CASE Broken(q)
  <2>1. Renewed(query[q]) \in Doing
    BY <1>2 DEF Renewed, Doing
  <2>3. \A p \in Queries : Undercut(query[p]) \in Doing
    BY UndercutType DEF TypeOK
  <2>2. query' \in [Queries -> Doing] /\ db' \in Db /\ saved' \in Db
    <3>1. CASE query[q].again
      <4>1. query' = [p \in Queries |-> IF p = q THEN Renewed(query[p]) ELSE Undercut(query[p])]
        BY <1>9, <3>1 DEF Broken
      <4> QED
        BY <1>9, <2>1, <2>3, <3>1, <4>1, EmptyType DEF Broken
    <3>2. CASE ~query[q].again
      BY <1>1, <1>9, <3>2, IdleType DEF Broken, TypeOK
    <3> QED
      BY <3>1, <3>2
  <2> QED
    BY <1>9, <2>2 DEF Broken, TypeOK, disk, counts
<1>10. CASE \E s \in Sessions : BeginOne(q, s)
  <2>1. PICK s \in Sessions : BeginOne(q, s)
    BY <1>10
  <2>2. [Idle.promised EXCEPT ![s] = OnRecord(s)] \in [Sessions -> SUBSET Nat]
    BY <1>0 DEF Idle
  <2>3. ASSUME NEW todo \in SUBSET (Sessions \X {"live", "trash", "gone"}),
               NEW promised \in [Sessions -> SUBSET Nat]
        PROVE  [Idle EXCEPT !.stage = "dirs", !.todo = todo, !.promised = promised] \in Doing
    BY IdleType DEF Doing
  <2>5. {<<s, "live">>} \in SUBSET (Sessions \X {"live", "trash", "gone"})
    OBVIOUS
  <2>4. query' \in [Queries -> Doing]
    BY <1>1, <2>1, <2>2, <2>3, <2>5 DEF BeginOne
  <2> QED
    BY <2>1, <2>4 DEF BeginOne, TypeOK, disk, counts
<1> QED
  BY <1>3, <1>4, <1>5, <1>6, <1>7, <1>8, <1>9, <1>10

\* Every step keeps the types.
LEMMA TypeStep ==
  ASSUME TypeOK, ReadIsThere, [Next]_vars
  PROVE  TypeOK'
<1>1. CASE UNCHANGED vars
  BY <1>1 DEF vars, TypeOK
<1>2. CASE Next
  BY <1>2, TypeSessions, TypeRemovals, TypeQueries DEF Next
<1> QED
  BY <1>1, <1>2

(***************************************************************************)
(* The invariant holds at first and is kept by every step.                 *)
(***************************************************************************)
\* A new database is sound.
LEMMA EmptySound ==
  ASSUME NEW sent, NEW where
  PROVE  SoundFor(EmptyDb, sent, where)
  BY DEF SoundFor, EmptyDb, Unmarked

\* At first nothing was sent and nothing counted.
LEMMA IInvInit == Init => IInv
<1> SUFFICES ASSUME Init PROVE IInv
  OBVIOUS
<1>1. TypeOK
  BY EmptyType, IdleType DEF Init, TypeOK
<1>2. LogsAreSpent
  <2> SUFFICES ASSUME NEW s \in Sessions
               PROVE  /\ synced[s] <= Len(log[s])
                      /\ Called(s, 0, Len(log[s])) \subseteq spent[s]
                      /\ spent[s] \subseteq Called(s, 0, Len(log[s]))
    BY DEF LogsAreSpent
  <2>1. Len(log[s]) = 0 /\ synced[s] = 0 /\ spent[s] = {}
    BY DEF Init
  <2>2. Called(s, 0, 0) = {}
    BY DEF Called
  <2> QED
    BY <2>1, <2>2
<1>3. TotalsAreSpent /\ DeletedAreRemoved /\ HeldIsSpent /\ ReadIsThere
  BY DEF Init, TotalsAreSpent, DeletedAreRemoved, HeldIsSpent, ReadIsThere, Idle
<1>4. SoundFor(EmptyDb, spent, place)
  BY EmptySound
<1>5. Sound(db) /\ Sound(saved)
  BY <1>4 DEF Init, Sound
<1>6. SavedIsSynced
  BY DEF Init, SavedIsSynced, EmptyDb
<1> QED
  BY <1>1, <1>2, <1>3, <1>5, <1>6 DEF IInv

\* A database stays sound when a session that was not deleted is written to it with
\* requests it has sent.
LEMMA AdvanceSound ==
  ASSUME NEW d \in Db, NEW sent, NEW where, NEW s \in Sessions, SoundFor(d, sent, where),
         ~d.mark[s].purged,
         NEW was \in Nat, NEW calls \in SUBSET Nat, NEW to \in Nat, calls \subseteq sent[s]
  PROVE  SoundFor(Advance(d, s, was, calls, to), sent, where)
<1> DEFINE a == Advance(d, s, was, calls, to)
<1>1. a.single = [d.single EXCEPT ![s] = @ \union calls] /\ a.total = d.total
  BY DEF Advance, Insert, Db
<1>2. a.mark = [d.mark EXCEPT ![s] = Moved(@, was, to)]
  BY DEF Advance, Insert, Db
<1>3. \A t \in Sessions : a.mark[t].purged = d.mark[t].purged
  BY <1>2 DEF Moved, Db
<1>4. d.single \in [Sessions -> SUBSET Nat]
  BY DEF Db
<1> QED
  BY <1>1, <1>3, <1>4 DEF SoundFor

\* A database stays sound while sessions send and are deleted.
LEMMA StaysSound ==
  ASSUME NEW d, NEW sent, NEW where, NEW sent1, NEW where1, SoundFor(d, sent, where),
         \A s \in Sessions : sent[s] \subseteq sent1[s],
         \A s \in Sessions : where[s] # "live" => where1[s] # "live"
  PROVE  SoundFor(d, sent1, where1)
  BY DEF SoundFor

\* The totals of deleted sessions keep it sound.
LEMMA ReplacedSound ==
  ASSUME IInv, NEW q \in Queries, query[q].stage = "taking",
         NEW last \in [Sessions -> query[q].from..query[q].to],
         IsLast(last, query[q].from, query[q].to)
  PROVE  Sound(Replaced(db, last, query[q].from, query[q].to))
<1> DEFINE from == query[q].from
           to == query[q].to
           d == Replaced(db, last, from, to)
<1>1. from \in Nat /\ to \in Nat /\ to <= Len(journal)
  BY DEF IInv, TypeOK, Doing, ReadIsThere
<1>2. SUFFICES ASSUME NEW s \in Sessions
               PROVE  /\ d.single[s] \subseteq spent[s] /\ d.total[s] \subseteq spent[s]
                      /\ d.mark[s].purged => d.single[s] = {} /\ place[s] # "live"
                      /\ ~d.mark[s].purged => d.total[s] = {}
  BY DEF Sound, SoundFor
<1>3. CASE last[s] > from
  <2>0. last[s] \in from..to
    OBVIOUS
  <2>1. last[s] \in DOMAIN journal
    BY <1>1, <1>3, <2>0 DEF IInv, TypeOK
  <2>3. journal[last[s]].of = s
    BY <1>1, <1>2, <1>3, <2>0 DEF IsLast
  <2>4. s # NoSession
    BY SpendingLimits
  <2>2. journal[last[s]].calls \subseteq spent[s] /\ place[s] # "live"
    BY <2>1, <2>3, <2>4 DEF IInv, TotalsAreSpent
  <2>5. /\ d.single[s] = {} /\ d.total[s] = journal[last[s]].calls
        /\ d.mark[s] = [at |-> 0, purged |-> TRUE]
    BY <1>3 DEF Replaced
  <2> QED
    BY <2>2, <2>5
<1>4. CASE ~(last[s] > from)
  <2>1. /\ d.single[s] = db.single[s] /\ d.total[s] = db.total[s]
        /\ d.mark[s] = db.mark[s]
    BY <1>4 DEF Replaced
  <2> QED
    BY <2>1 DEF IInv, Sound, SoundFor
<1> QED
  BY <1>3, <1>4

\* What sessions, calls, removals and queries leave alone of the disk stays true of it.
LEMMA DiskKept ==
  ASSUME IInv, UNCHANGED <<disk, due, purging>>,
         journal' = journal \/ journal' = Append(journal, [of |-> NoSession, calls |-> {}])
  PROVE  LogsAreSpent' /\ TotalsAreSpent' /\ DeletedAreRemoved'
<1>1. LogsAreSpent'
  BY DEF IInv, LogsAreSpent, disk, Called
<1>2. DeletedAreRemoved'
  BY DEF IInv, DeletedAreRemoved, disk
<1>3. TotalsAreSpent'
  <2> SUFFICES ASSUME NEW j \in DOMAIN journal', journal'[j].of # NoSession
               PROVE  j \in DOMAIN journal /\ journal'[j] = journal[j]
    BY DEF IInv, TotalsAreSpent, disk
  <2> DEFINE R == [of : Sessions \union {NoSession}, calls : SUBSET Nat]
             e == [of |-> NoSession, calls |-> {}]
  <2>1. journal \in Seq(R) /\ e \in R
    BY DEF IInv, TypeOK
  <2>2. e.of = NoSession
    OBVIOUS
  <2>3. ASSUME NEW r \in R, journal' = Append(journal, r), r.of = NoSession
        PROVE  j \in DOMAIN journal /\ journal'[j] = journal[j]
    <3> HIDE DEF R
    <3>1. j \in 1..(Len(journal) + 1) /\ Len(journal) \in Nat /\ DOMAIN journal = 1..Len(journal)
      BY <2>1, <2>3
    <3>2. j = Len(journal) + 1 => journal'[j] = r
      BY <2>1, <2>3
    <3>3. j # Len(journal) + 1
      BY <2>3, <3>2
    <3>4. j \in 1..Len(journal)
      BY <3>1, <3>3
    <3>5. Append(journal, r)[j] = journal[j]
      BY <2>1, <3>4
    <3> QED
      BY <2>3, <3>1, <3>4, <3>5
  <2> QED
    BY <2>1, <2>2, <2>3
<1> QED
  BY <1>1, <1>2, <1>3

\* A step that touches neither queries nor what they rely on.
LEMMA QueriesKept ==
  ASSUME IInv, UNCHANGED query,
         \A s \in Sessions : spent[s] \subseteq spent'[s],
         Len(journal) <= Len(journal')
  PROVE  HeldIsSpent' /\ ReadIsThere'
<1>1. HeldIsSpent'
  BY DEF IInv, HeldIsSpent
<1>2. ReadIsThere'
  <2>1. \A q \in Queries : query[q].to \in Nat
    BY DEF IInv, TypeOK, Doing
  <2>2. Len(journal) \in Nat
    BY DEF IInv, TypeOK
  <2>3. ASSUME NEW q \in Queries, query[q].stage = "taking"
        PROVE  query[q].to <= Len(journal')
    <3>1. query[q].to <= Len(journal)
      BY <2>3 DEF IInv, ReadIsThere
    <3> QED
      BY <2>1, <2>2, <3>1, Len(journal) <= Len(journal')
  <2> QED
    BY <2>3 DEF ReadIsThere
<1> QED
  BY <1>1, <1>2

\* A query that no longer promises a session does what it did.
LEMMA DisturbedKept ==
  ASSUME IInv, NEW s, query' = Disturbed(s), UNCHANGED <<journal, spent>>
  PROVE  HeldIsSpent' /\ ReadIsThere'
<1>1. ASSUME NEW q \in Queries
      PROVE  /\ query'[q].stage = query[q].stage /\ query'[q].of = query[q].of
             /\ query'[q].calls = query[q].calls /\ query'[q].to = query[q].to
  <2>1. query[q] \in Doing
    BY DEF IInv, TypeOK
  <2>2. query'[q] = [query[q] EXCEPT !.promised = [query[q].promised EXCEPT ![s] = {}]]
    BY DEF Disturbed
  <2> QED
    BY <2>1, <2>2 DEF Doing
<1> QED
  BY <1>1 DEF IInv, HeldIsSpent, ReadIsThere

\* Both databases are left alone while sessions send and are deleted.
LEMMA DatabasesKept ==
  ASSUME IInv, UNCHANGED <<db, saved>>,
         \A s \in Sessions : spent[s] \subseteq spent'[s],
         \A s \in Sessions : place[s] # "live" => place'[s] # "live"
  PROVE  Sound(db)' /\ Sound(saved)'
<1>1. SoundFor(db, spent', place') /\ SoundFor(saved, spent', place')
  BY StaysSound DEF IInv, Sound
<1> QED
  BY <1>1 DEF Sound, SoundFor

\* The last updates are synced with what they count.
LEMMA SavedKept ==
  ASSUME IInv, UNCHANGED saved,
         \A s \in Sessions : synced'[s] \in Nat,
         \A s \in Sessions : place'[s] = "live" => place[s] = "live" /\ synced[s] <= synced'[s]
  PROVE  SavedIsSynced'
<1> SUFFICES ASSUME NEW s \in Sessions, place'[s] = "live", NEW i \in saved.single[s]
             PROVE  i <= synced'[s]
  BY DEF SavedIsSynced
<1>1. i \in Nat /\ synced[s] \in Nat
  BY DEF IInv, TypeOK, Db
<1>2. i <= synced[s]
  BY DEF IInv, SavedIsSynced
<1> QED
  BY <1>1, <1>2

\* What sessions do keeps the invariant.
LEMMA IInvSessions ==
  ASSUME IInv, TypeOK',
         \/ \E s \in Sessions : Write(s) \/ Discard(s) \/ KeepUsage(s)
         \/ \E s \in Sessions, indexed \in BOOLEAN : Land(s, indexed)
         \/ OneShot
         \/ \E j \in DOMAIN journal, indexed \in BOOLEAN : OneShotRow(j, indexed)
  PROVE  IInv'
<1>0. /\ \A s \in Sessions : Len(log[s]) \in Nat /\ synced[s] \in Nat
      /\ Len(journal) \in Nat
  BY DEF IInv, TypeOK
<1>1. CASE \E s \in Sessions : Write(s)
  <2>1. PICK s \in Sessions : Write(s)
    BY <1>1
  <2>2. UNCHANGED <<synced, place, journal, db, saved, query, due, purging>>
    BY <2>1 DEF Write, counts
  <2>3. /\ place[s] = "live"
        /\ \/ /\ log[s] = << >> /\ log' = [log EXCEPT ![s] = <<"created">>] /\ spent' = spent
           \/ /\ log' = [log EXCEPT ![s] = Append(@, "called")]
              /\ spent' = [spent EXCEPT ![s] = @ \union {Len(log[s]) + 1}]
    BY <2>1 DEF Write
  <2>4. \A t \in Sessions : spent[t] \subseteq spent'[t]
    <3>1. spent \in [Sessions -> SUBSET Nat]
      BY DEF IInv, TypeOK
    <3>2. spent' = spent \/ spent' = [spent EXCEPT ![s] = @ \union {Len(log[s]) + 1}]
      BY <2>3
    <3> QED
      BY <3>1, <3>2
  <2>5. LogsAreSpent'
    <3> SUFFICES ASSUME NEW t \in Sessions
                 PROVE  /\ synced[t] <= Len(log'[t])
                        /\ Called(t, 0, Len(log[t]))' \subseteq spent'[t]
                        /\ place[t] = "live" => spent'[t] \subseteq Called(t, 0, Len(log[t]))'
      BY <2>2 DEF LogsAreSpent
    <3>1. CASE t # s
      <4>1. log'[t] = log[t] /\ spent'[t] = spent[t]
        BY <2>3, <3>1 DEF IInv, TypeOK
      <4> QED
        BY <4>1 DEF IInv, LogsAreSpent, Called
    <3>2. CASE t = s /\ log[s] = << >> /\ log' = [log EXCEPT ![s] = <<"created">>] /\ spent' = spent
      <4>1. log'[t] = <<"created">> /\ spent'[t] = spent[t]
        BY <3>2 DEF IInv, TypeOK
      <4>2. Called(t, 0, Len(log[t])) = {}
        BY <3>2 DEF Called
      <4>3. Called(t, 0, Len(log[t]))' = {}
        BY <4>1 DEF Called
      <4>4. synced[t] <= 0
        BY <3>2 DEF IInv, LogsAreSpent
      <4> QED
        BY <1>0, <4>1, <4>2, <4>3, <4>4 DEF IInv, LogsAreSpent
    <3>3. CASE /\ t = s /\ log' = [log EXCEPT ![s] = Append(@, "called")]
               /\ spent' = [spent EXCEPT ![s] = @ \union {Len(log[s]) + 1}]
      <4> DEFINE n == Len(log[t])
      <4>1. log'[t] = Append(log[t], "called") /\ spent'[t] = spent[t] \union {n + 1}
        BY <3>3 DEF IInv, TypeOK
      <4>2. log[t] \in Seq({"created", "called"}) /\ n \in Nat
        BY DEF IInv, TypeOK
      <4>3. /\ Len(log'[t]) = n + 1 /\ log'[t][n + 1] = "called"
            /\ \A i \in 1..n : log'[t][i] = log[t][i]
        BY <4>1, <4>2
      <4>4. Called(t, 0, Len(log[t]))' = Called(t, 0, Len(log[t])) \union {n + 1}
        BY <4>2, <4>3 DEF Called
      <4>5. synced[t] <= n
        BY DEF IInv, LogsAreSpent
      <4> QED
        BY <1>0, <4>1, <4>2, <4>3, <4>4, <4>5 DEF IInv, LogsAreSpent
    <3> QED
      BY <2>3, <3>1, <3>2, <3>3
  <2>6. TotalsAreSpent'
    <3> SUFFICES ASSUME NEW j \in DOMAIN journal, journal[j].of # NoSession
                 PROVE  /\ journal[j].calls \subseteq spent'[journal[j].of]
                        /\ place[journal[j].of] # "live"
      BY <2>2 DEF TotalsAreSpent
    <3>1. journal[j].of \in Sessions
      BY EntryOf DEF IInv
    <3> QED
      BY <2>4, <3>1 DEF IInv, TotalsAreSpent
  <2>7. DeletedAreRemoved'
    BY <2>2 DEF IInv, DeletedAreRemoved
  <2>8. HeldIsSpent' /\ ReadIsThere'
    BY <1>0, <2>2, <2>4, QueriesKept
  <2>9. Sound(db)' /\ Sound(saved)'
    BY <2>2, <2>4, DatabasesKept
  <2>10. SavedIsSynced'
    BY <1>0, <2>2, SavedKept
  <2> QED
    BY <2>5, <2>6, <2>7, <2>8, <2>9, <2>10 DEF IInv
<1>2. CASE \E s \in Sessions : Discard(s)
  <2>1. PICK s \in Sessions : Discard(s)
    BY <1>2
  <2>2. UNCHANGED <<log, synced, journal, db, saved, due, purging, spent>>
    BY <2>1 DEF Discard, counts
  <2>3. place' = [place EXCEPT ![s] = "trash"] /\ query' = Disturbed(s)
    BY <2>1 DEF Discard
  <2>4. \A t \in Sessions : place'[t] = "live" => place[t] = "live"
    BY <2>3 DEF IInv, TypeOK
  <2>5. LogsAreSpent'
    BY <2>2, <2>4 DEF IInv, LogsAreSpent, Called
  <2>6. TotalsAreSpent'
    <3> SUFFICES ASSUME NEW j \in DOMAIN journal, journal[j].of # NoSession
                 PROVE  /\ journal[j].calls \subseteq spent[journal[j].of]
                        /\ place'[journal[j].of] # "live"
      BY <2>2 DEF TotalsAreSpent
    <3>1. journal[j].of \in Sessions
      BY EntryOf DEF IInv
    <3> QED
      BY <2>4, <3>1 DEF IInv, TotalsAreSpent
  <2>7. DeletedAreRemoved'
    BY <2>2, <2>4 DEF IInv, DeletedAreRemoved, TypeOK
  <2>8. HeldIsSpent' /\ ReadIsThere'
    BY <2>2, <2>3, DisturbedKept
  <2>9. Sound(db)' /\ Sound(saved)'
    BY <2>2, <2>4, DatabasesKept
  <2>10. SavedIsSynced'
    BY <1>0, <2>2, <2>4, SavedKept
  <2> QED
    BY <2>5, <2>6, <2>7, <2>8, <2>9, <2>10 DEF IInv
<1>3. CASE \E s \in Sessions : KeepUsage(s)
  <2>1. PICK s \in Sessions : KeepUsage(s)
    BY <1>3
  <2>2. UNCHANGED <<log, synced, place, stamp, spent, db, saved, query>>
    BY <2>1 DEF KeepUsage, disk, counts
  <2>3. s \in due /\ due' = due \ {s} /\ purging' \in {purging, s}
    BY <2>1 DEF KeepUsage
  <2> DEFINE e == [of |-> s, calls |-> Called(s, 0, Len(log[s]))]
             R == [of : Sessions \union {NoSession}, calls : SUBSET Nat]
  <2>4. journal' = journal \/ journal' = Append(journal, e)
    BY <2>1 DEF KeepUsage
  <2>5. e \in R /\ journal \in Seq(R)
    BY <1>0, CalledType DEF IInv, TypeOK
  <2>6. e.calls \subseteq spent[s] /\ e.of = s /\ place[s] # "live"
    BY <2>3 DEF IInv, LogsAreSpent, DeletedAreRemoved
  <2>7. LogsAreSpent'
    BY <2>2 DEF IInv, LogsAreSpent, Called
  <2>8. ASSUME NEW r \in R, journal' = Append(journal, r)
        PROVE  /\ Len(journal') = Len(journal) + 1
               /\ \A j \in DOMAIN journal' :
                    (j \in DOMAIN journal /\ journal'[j] = journal[j]) \/ journal'[j] = r
    <3> HIDE DEF R
    <3>1. Len(journal') = Len(journal) + 1 /\ DOMAIN journal' = 1..(Len(journal) + 1)
      BY <2>5, <2>8
    <3>2. journal'[Len(journal) + 1] = r
      BY <2>5, <2>8
    <3>3. \A j \in 1..Len(journal) : journal'[j] = journal[j]
      BY <2>5, <2>8
    <3>4. DOMAIN journal = 1..Len(journal) /\ Len(journal) \in Nat
      BY <2>5
    <3> QED
      BY <3>1, <3>2, <3>3, <3>4
  <2>9. /\ Len(journal) <= Len(journal')
        /\ \A j \in DOMAIN journal' :
             (j \in DOMAIN journal /\ journal'[j] = journal[j]) \/ journal'[j] = e
    <3> HIDE DEF e, R
    <3> QED
      BY <1>0, <2>4, <2>5, <2>8
  <2>10. TotalsAreSpent'
    <3> HIDE DEF e
    <3> QED
      BY <2>2, <2>6, <2>9 DEF IInv, TotalsAreSpent
  <2>11. DeletedAreRemoved'
    BY <2>2, <2>3, <2>6 DEF IInv, DeletedAreRemoved
  <2>12. HeldIsSpent' /\ ReadIsThere'
    BY <2>2, <2>9, QueriesKept
  <2>13. Sound(db)' /\ Sound(saved)'
    BY <2>2, DatabasesKept
  <2>14. SavedIsSynced'
    BY <1>0, <2>2, SavedKept
  <2> QED
    BY <2>7, <2>10, <2>11, <2>12, <2>13, <2>14 DEF IInv
<1>4. CASE \E s \in Sessions, indexed \in BOOLEAN : Land(s, indexed)
  <2>1. PICK s \in Sessions, indexed \in BOOLEAN : Land(s, indexed)
    BY <1>4
  <2> DEFINE calls == Called(s, synced[s], Len(log[s]))
  <2>2. UNCHANGED <<log, place, journal, saved, query, due, purging, spent>>
    BY <2>1 DEF Land, counts
  <2>3. /\ place[s] = "live" /\ synced' = [synced EXCEPT ![s] = Len(log[s])]
        /\ db' = db \/ db' = Advance(db, s, synced[s], calls, Len(log[s]))
    BY <2>1 DEF Land
  <2>4. \A t \in Sessions : synced'[t] \in Nat /\ synced[t] <= synced'[t] /\ synced'[t] <= Len(log[t])
    BY <1>0, <2>3 DEF IInv, TypeOK, LogsAreSpent
  <2>5. LogsAreSpent'
    BY <2>2, <2>4 DEF IInv, LogsAreSpent, Called
  <2>6. TotalsAreSpent' /\ DeletedAreRemoved'
    BY <2>2 DEF IInv, TotalsAreSpent, DeletedAreRemoved
  <2>7. HeldIsSpent' /\ ReadIsThere'
    BY <1>0, <2>2, QueriesKept
  <2>8. Sound(saved)'
    BY <2>2 DEF IInv, Sound, SoundFor
  <2>9. Sound(db)'
    <3>1. SoundFor(db, spent, place) /\ db \in Db
      BY DEF IInv, Sound, TypeOK
    <3>2. calls \in SUBSET Nat
      BY <1>0, CalledType
    <3>3. calls \subseteq spent[s]
      <4>1. calls \subseteq Called(s, 0, Len(log[s]))
        BY <1>0 DEF Called
      <4> QED
        BY <4>1 DEF IInv, LogsAreSpent
    <3>4. ~db.mark[s].purged
      BY <2>3, <3>1 DEF SoundFor
    <3>5. SoundFor(Advance(db, s, synced[s], calls, Len(log[s])), spent, place)
      BY <1>0, <3>1, <3>2, <3>3, <3>4, AdvanceSound
    <3>6. SoundFor(db', spent, place)
      BY <2>3, <3>1, <3>5
    <3> QED
      BY <2>2, <3>6 DEF Sound, SoundFor
  <2>10. SavedIsSynced'
    BY <2>2, <2>4, SavedKept
  <2> QED
    BY <2>5, <2>6, <2>7, <2>8, <2>9, <2>10 DEF IInv
<1>5. CASE OneShot
  <2>1. /\ UNCHANGED <<disk, db, saved, query, due, purging>>
        /\ journal' = Append(journal, [of |-> NoSession, calls |-> {}])
    BY <1>5 DEF OneShot, counts
  <2>2. LogsAreSpent' /\ TotalsAreSpent' /\ DeletedAreRemoved'
    BY <2>1, DiskKept
  <2>3. UNCHANGED <<spent, place, synced>>
    BY <2>1 DEF disk
  <2>4. Len(journal) <= Len(journal')
    <3> DEFINE R == [of : Sessions \union {NoSession}, calls : SUBSET Nat]
    <3>1. journal \in Seq(R) /\ [of |-> NoSession, calls |-> {}] \in R
      BY DEF IInv, TypeOK
    <3>2. ASSUME NEW r \in R, journal' = Append(journal, r)
          PROVE  Len(journal') = Len(journal) + 1
      <4> HIDE DEF R
      <4> QED BY <3>1, <3>2
    <3>3. Len(journal') = Len(journal) + 1
      BY <2>1, <3>1, <3>2
    <3> QED
      BY <1>0, <3>3
  <2>5. HeldIsSpent' /\ ReadIsThere'
    BY <2>1, <2>3, <2>4, QueriesKept
  <2>6. Sound(db)' /\ Sound(saved)'
    BY <2>1, <2>3, DatabasesKept
  <2>7. SavedIsSynced'
    BY <1>0, <2>1, <2>3, SavedKept
  <2> QED
    BY <2>2, <2>5, <2>6, <2>7 DEF IInv
<1>6. CASE \E j \in DOMAIN journal, indexed \in BOOLEAN : OneShotRow(j, indexed)
  <2>1. PICK j \in DOMAIN journal, indexed \in BOOLEAN : OneShotRow(j, indexed)
    BY <1>6
  <2>2. UNCHANGED <<disk, journal, saved, query, due, purging>>
    BY <2>1 DEF OneShotRow, counts
  <2>3. LogsAreSpent' /\ TotalsAreSpent' /\ DeletedAreRemoved'
    BY <2>2, DiskKept
  <2>4. UNCHANGED <<spent, place, synced>>
    BY <2>2 DEF disk
  <2>5. HeldIsSpent' /\ ReadIsThere'
    BY <1>0, <2>2, <2>4, QueriesKept
  <2>6. db'.single = db.single /\ db'.total = db.total /\ db'.mark = db.mark
    <3>1. db' = db \/ db' = [db EXCEPT !.shots = @ \union {j}]
      BY <2>1 DEF OneShotRow
    <3> QED
      BY <3>1 DEF IInv, TypeOK, Db
  <2>7. Sound(db)' /\ Sound(saved)'
    BY <2>2, <2>4, <2>6 DEF IInv, Sound, SoundFor
  <2>8. SavedIsSynced'
    BY <1>0, <2>2, <2>4, SavedKept
  <2> QED
    BY <2>3, <2>5, <2>7, <2>8 DEF IInv
<1> QED
  BY <1>1, <1>2, <1>3, <1>4, <1>5, <1>6

\* A query that does nothing holds nothing.
LEMMA NobodyHolds ==
  ASSUME query' = [q \in Queries |-> Idle]
  PROVE  HeldIsSpent' /\ ReadIsThere'
  BY DEF HeldIsSpent, ReadIsThere, Idle

\* What removing sessions and the end of the process do keeps the invariant.
LEMMA IInvRemovals ==
  ASSUME IInv, TypeOK',
         RemoveSome \/ Removed \/ RemoveFails \/ Killed \/ Checkpoint \/ PowerFails
  PROVE  IInv'
<1>0. /\ \A s \in Sessions : log[s] \in Seq({"created", "called"})
      /\ \A s \in Sessions : Len(log[s]) \in Nat /\ synced[s] \in Nat
      /\ Len(journal) \in Nat
  BY DEF IInv, TypeOK
<1>1. CASE RemoveSome
  <2>1. /\ UNCHANGED <<place, journal, db, saved, due, purging, spent>>
        /\ purging # NoSession /\ query' = Disturbed(purging)
        /\ \/ UNCHANGED <<log, synced>>
           \/ \E n \in 0..Len(log[purging]) - 1 :
                /\ log' = [log EXCEPT ![purging] = SubSeq(@, 1, n)]
                /\ synced' = [synced EXCEPT ![purging] = n]
    BY <1>1 DEF RemoveSome, counts
  <2>2. purging \in Sessions /\ place[purging] # "live"
    BY <2>1 DEF IInv, TypeOK, DeletedAreRemoved
  <2>3. ASSUME NEW n \in 0..Len(log[purging]) - 1,
               log' = [log EXCEPT ![purging] = SubSeq(@, 1, n)],
               synced' = [synced EXCEPT ![purging] = n]
        PROVE  LogsAreSpent'
    <3> SUFFICES ASSUME NEW s \in Sessions
                 PROVE  /\ synced'[s] <= Len(log'[s])
                        /\ Called(s, 0, Len(log[s]))' \subseteq spent[s]
                        /\ place[s] = "live" => spent[s] \subseteq Called(s, 0, Len(log[s]))'
      BY <2>1 DEF LogsAreSpent
    <3>1. CASE s = purging
      <4>1. n \in Nat /\ n <= Len(log[s])
        BY <1>0, <3>1
      <4>2. log'[s] = SubSeq(log[s], 1, n) /\ synced'[s] = n
        BY <2>3, <3>1 DEF IInv, TypeOK
      <4>3. Len(log'[s]) = n /\ \A i \in 1..n : log'[s][i] = log[s][i]
        BY <1>0, <4>1, <4>2
      <4>4. Called(s, 0, Len(log[s]))' \subseteq Called(s, 0, Len(log[s]))
        BY <1>0, <4>1, <4>3 DEF Called
      <4> QED
        BY <2>2, <3>1, <4>1, <4>2, <4>3, <4>4 DEF IInv, LogsAreSpent
    <3>2. CASE s # purging
      <4>1. log'[s] = log[s] /\ synced'[s] = synced[s]
        BY <2>3, <3>2 DEF IInv, TypeOK
      <4> QED
        BY <4>1 DEF IInv, LogsAreSpent, Called
    <3> QED
      BY <3>1, <3>2
  <2>4. LogsAreSpent'
    <3>1. CASE UNCHANGED <<log, synced>>
      BY <2>1, <3>1 DEF IInv, LogsAreSpent, Called
    <3> QED
      BY <2>1, <2>3, <3>1
  <2>5. TotalsAreSpent' /\ DeletedAreRemoved'
    BY <2>1 DEF IInv, TotalsAreSpent, DeletedAreRemoved
  <2>6. HeldIsSpent' /\ ReadIsThere'
    BY <2>1, DisturbedKept
  <2>7. Sound(db)' /\ Sound(saved)'
    BY <2>1, DatabasesKept
  <2>8. SavedIsSynced'
    <3>1. \A s \in Sessions : place[s] = "live" => synced'[s] = synced[s]
      BY <2>1, <2>2 DEF IInv, TypeOK
    <3> QED
      BY <2>1, <3>1 DEF IInv, SavedIsSynced
  <2> QED
    BY <2>4, <2>5, <2>6, <2>7, <2>8 DEF IInv
<1>2. CASE Removed
  <2>1. /\ UNCHANGED <<journal, db, saved, due, spent>>
        /\ purging # NoSession /\ query' = Disturbed(purging) /\ purging' = NoSession
        /\ place' = [place EXCEPT ![purging] = "gone"]
        /\ log' = [log EXCEPT ![purging] = << >>] /\ synced' = [synced EXCEPT ![purging] = 0]
    BY <1>2 DEF Removed, counts
  <2>2. purging \in Sessions /\ place[purging] # "live"
    BY <2>1 DEF IInv, TypeOK, DeletedAreRemoved
  <2>3. \A s \in Sessions : /\ place'[s] = "live" => place[s] = "live"
                            /\ place[s] = "live" => s # purging
    BY <2>1, <2>2 DEF IInv, TypeOK
  <2>4. LogsAreSpent'
    <3> SUFFICES ASSUME NEW s \in Sessions
                 PROVE  /\ synced'[s] <= Len(log'[s])
                        /\ Called(s, 0, Len(log[s]))' \subseteq spent[s]
                        /\ place'[s] = "live" => spent[s] \subseteq Called(s, 0, Len(log[s]))'
      BY <2>1 DEF LogsAreSpent
    <3>1. CASE s = purging
      <4>1. log'[s] = << >> /\ synced'[s] = 0 /\ place'[s] # "live"
        BY <2>1, <2>2, <2>3, <3>1 DEF IInv, TypeOK
      <4>2. Called(s, 0, Len(log[s]))' = {}
        BY <4>1 DEF Called
      <4> QED
        BY <4>1, <4>2
    <3>2. CASE s # purging
      <4>1. log'[s] = log[s] /\ synced'[s] = synced[s] /\ place'[s] = place[s]
        BY <2>1, <3>2 DEF IInv, TypeOK
      <4> QED
        BY <4>1 DEF IInv, LogsAreSpent, Called
    <3> QED
      BY <3>1, <3>2
  <2>5. TotalsAreSpent'
    <3> SUFFICES ASSUME NEW j \in DOMAIN journal, journal[j].of # NoSession
                 PROVE  /\ journal[j].calls \subseteq spent[journal[j].of]
                        /\ place'[journal[j].of] # "live"
      BY <2>1 DEF TotalsAreSpent
    <3>1. journal[j].of \in Sessions
      BY EntryOf DEF IInv
    <3> QED
      BY <2>3, <3>1 DEF IInv, TotalsAreSpent
  <2>6. DeletedAreRemoved'
    BY <2>1, <2>3 DEF IInv, DeletedAreRemoved, TypeOK
  <2>7. HeldIsSpent' /\ ReadIsThere'
    BY <2>1, DisturbedKept
  <2>8. Sound(db)' /\ Sound(saved)'
    BY <2>1, <2>3, DatabasesKept
  <2>9. SavedIsSynced'
    <3>1. \A s \in Sessions : place'[s] = "live" => place[s] = "live" /\ synced'[s] = synced[s]
      BY <2>1, <2>3 DEF IInv, TypeOK
    <3> QED
      BY <2>1, <3>1 DEF IInv, SavedIsSynced
  <2> QED
    BY <2>4, <2>5, <2>6, <2>7, <2>8, <2>9 DEF IInv
<1>3. CASE RemoveFails
  <2>1. UNCHANGED <<log, synced, place, spent, journal, db, saved, query, due>>
        /\ purging' = NoSession
    BY <1>3 DEF RemoveFails, disk, counts
  <2>2. LogsAreSpent'
    BY <2>1 DEF IInv, LogsAreSpent, Called
  <2>3. TotalsAreSpent' /\ DeletedAreRemoved'
    BY <2>1 DEF IInv, TotalsAreSpent, DeletedAreRemoved
  <2>4. HeldIsSpent' /\ ReadIsThere'
    BY <1>0, <2>1, QueriesKept
  <2>5. Sound(db)' /\ Sound(saved)'
    BY <2>1, DatabasesKept
  <2>6. SavedIsSynced'
    BY <1>0, <2>1, SavedKept
  <2> QED
    BY <2>2, <2>3, <2>4, <2>5, <2>6 DEF IInv
<1>4. CASE Killed
  <2>1. /\ UNCHANGED <<log, place, spent, journal>>
        /\ synced' = [s \in Sessions |-> Len(log[s])]
        /\ query' = [q \in Queries |-> Idle] /\ purging' = NoSession
        /\ due' = {s \in Sessions : place[s] = "trash" /\ stamp[s]}
    BY <1>4 DEF Killed, Restarted
  <2>2. (db' = db /\ saved' = saved) \/ (db' = EmptyDb /\ saved' = EmptyDb)
    BY <1>4 DEF Killed, Restarted
  <2>3. LogsAreSpent'
    <3>1. \A s \in Sessions : synced'[s] <= Len(log[s])
      BY <1>0, <2>1
    <3> QED
      BY <2>1, <3>1 DEF IInv, LogsAreSpent, Called
  <2>4. TotalsAreSpent' /\ DeletedAreRemoved'
    BY <2>1 DEF IInv, TotalsAreSpent, DeletedAreRemoved
  <2>5. HeldIsSpent' /\ ReadIsThere'
    BY <2>1, NobodyHolds
  <2>6. Sound(db)' /\ Sound(saved)'
    <3>1. SoundFor(db', spent, place) /\ SoundFor(saved', spent, place)
      BY <2>2, EmptySound DEF IInv, Sound
    <3> QED
      BY <2>1, <3>1 DEF Sound, SoundFor
  <2>7. SavedIsSynced'
    <3>1. CASE saved' = saved
      <4>1. \A s \in Sessions : synced'[s] \in Nat /\ synced[s] <= synced'[s]
        BY <1>0, <2>1 DEF IInv, LogsAreSpent
      <4> QED
        BY <2>1, <3>1, <4>1, SavedKept
    <3>2. CASE saved' = EmptyDb
      BY <3>2 DEF SavedIsSynced, EmptyDb
    <3> QED
      BY <2>2, <3>1, <3>2
  <2> QED
    BY <2>3, <2>4, <2>5, <2>6, <2>7 DEF IInv
<1>5. CASE Checkpoint
  <2>1. /\ UNCHANGED <<log, synced, place, spent, journal, db, query, due, purging>>
        /\ saved' = db /\ \A s \in Sessions : synced[s] = Len(log[s])
    BY <1>5 DEF Checkpoint, disk, counts
  <2>2. LogsAreSpent'
    BY <2>1 DEF IInv, LogsAreSpent, Called
  <2>3. TotalsAreSpent' /\ DeletedAreRemoved'
    BY <2>1 DEF IInv, TotalsAreSpent, DeletedAreRemoved
  <2>4. HeldIsSpent' /\ ReadIsThere'
    BY <1>0, <2>1, QueriesKept
  <2>5. Sound(db)' /\ Sound(saved)'
    BY <2>1 DEF IInv, Sound, SoundFor
  <2>6. SavedIsSynced'
    <3> SUFFICES ASSUME NEW s \in Sessions, place[s] = "live", NEW i \in db.single[s]
                 PROVE  i <= synced[s]
      BY <2>1 DEF SavedIsSynced
    <3>1. i \in Called(s, 0, Len(log[s]))
      BY DEF IInv, Sound, SoundFor, LogsAreSpent
    <3> QED
      BY <1>0, <2>1, <3>1 DEF Called
  <2> QED
    BY <2>2, <2>3, <2>4, <2>5, <2>6 DEF IInv
<1>6. CASE PowerFails
  <2>1. /\ UNCHANGED <<place, journal>>
        /\ query' = [q \in Queries |-> Idle] /\ purging' = NoSession
        /\ due' = {s \in Sessions : place[s] = "trash" /\ stamp[s]}
    BY <1>6 DEF PowerFails, Restarted
  <2>2. (db' = saved /\ saved' = saved) \/ (db' = EmptyDb /\ saved' = EmptyDb)
    BY <1>6 DEF PowerFails, Restarted
  <2>3. PICK kept \in [Sessions -> 0..bound.events] :
          /\ \A s \in Sessions : kept[s] \in synced[s]..Len(log[s])
          /\ synced' = kept
          /\ log' = [s \in Sessions |-> SubSeq(log[s], 1, kept[s])]
          /\ spent' = [s \in Sessions |->
               IF place[s] = "live" THEN Called(s, 0, kept[s]) ELSE spent[s]]
    BY <1>6 DEF PowerFails
  <2>4. ASSUME NEW s \in Sessions
        PROVE  /\ kept[s] \in Nat /\ synced[s] <= kept[s] /\ Len(log'[s]) = kept[s]
               /\ Called(s, 0, Len(log[s]))' = Called(s, 0, kept[s])
               /\ Called(s, 0, kept[s]) \subseteq Called(s, 0, Len(log[s]))
    <3>1. kept[s] \in Nat /\ synced[s] <= kept[s] /\ kept[s] <= Len(log[s])
      BY <1>0, <2>3
    <3>2. log'[s] = SubSeq(log[s], 1, kept[s])
      BY <2>3
    <3>3. Len(log'[s]) = kept[s] /\ \A i \in 1..kept[s] : log'[s][i] = log[s][i]
      BY <1>0, <3>1, <3>2
    <3> QED
      BY <1>0, <3>1, <3>3 DEF Called
  <2>5. \A s \in Sessions : place[s] # "live" => spent'[s] = spent[s]
    BY <2>3
  <2>6. LogsAreSpent'
    <3> SUFFICES ASSUME NEW s \in Sessions
                 PROVE  /\ synced'[s] <= Len(log'[s])
                        /\ Called(s, 0, Len(log[s]))' \subseteq spent'[s]
                        /\ place[s] = "live" => spent'[s] \subseteq Called(s, 0, Len(log[s]))'
      BY <2>1 DEF LogsAreSpent
    <3>1. synced'[s] <= Len(log'[s])
      BY <2>3, <2>4
    <3>2. CASE place[s] = "live"
      BY <2>3, <2>4, <3>1, <3>2
    <3>3. CASE place[s] # "live"
      BY <2>4, <2>5, <3>1, <3>3 DEF IInv, LogsAreSpent
    <3> QED
      BY <3>2, <3>3
  <2>7. TotalsAreSpent'
    <3> SUFFICES ASSUME NEW j \in DOMAIN journal, journal[j].of # NoSession
                 PROVE  /\ journal[j].calls \subseteq spent'[journal[j].of]
                        /\ place[journal[j].of] # "live"
      BY <2>1 DEF TotalsAreSpent
    <3>1. journal[j].of \in Sessions
      BY EntryOf DEF IInv
    <3> QED
      BY <2>5, <3>1 DEF IInv, TotalsAreSpent
  <2>8. DeletedAreRemoved'
    BY <2>1 DEF DeletedAreRemoved
  <2>9. HeldIsSpent' /\ ReadIsThere'
    BY <2>1, NobodyHolds
  <2>10. SoundFor(saved, spent', place)
    <3> SUFFICES ASSUME NEW s \in Sessions
                 PROVE  /\ saved.single[s] \subseteq spent'[s] /\ saved.total[s] \subseteq spent'[s]
                        /\ saved.mark[s].purged => saved.single[s] = {} /\ place[s] # "live"
                        /\ ~saved.mark[s].purged => saved.total[s] = {}
      BY DEF SoundFor
    <3>1. /\ saved.single[s] \subseteq spent[s] /\ saved.total[s] \subseteq spent[s]
          /\ saved.mark[s].purged => saved.single[s] = {} /\ place[s] # "live"
          /\ ~saved.mark[s].purged => saved.total[s] = {}
      BY DEF IInv, Sound, SoundFor
    <3>2. CASE place[s] # "live"
      BY <2>5, <3>1, <3>2
    <3>3. CASE place[s] = "live"
      <4>1. spent'[s] = Called(s, 0, kept[s])
        BY <2>3, <3>3
      <4>2. \A i \in saved.single[s] : i <= synced[s] /\ i \in Called(s, 0, Len(log[s]))
        BY <3>1, <3>3 DEF IInv, SavedIsSynced, LogsAreSpent
      <4>3. saved.single[s] \subseteq Called(s, 0, kept[s])
        BY <1>0, <2>4, <4>2 DEF Called
      <4> QED
        BY <3>1, <3>3, <4>1, <4>3
    <3> QED
      BY <3>2, <3>3
  <2>11. Sound(db)' /\ Sound(saved)'
    <3>1. SoundFor(db', spent', place) /\ SoundFor(saved', spent', place)
      BY <2>2, <2>10, EmptySound
    <3> QED
      BY <2>1, <3>1 DEF Sound, SoundFor
  <2>12. SavedIsSynced'
    <3>1. CASE saved' = saved
      BY <2>1, <2>3, <2>4, <3>1, SavedKept
    <3>2. CASE saved' = EmptyDb
      BY <3>2 DEF SavedIsSynced, EmptyDb
    <3> QED
      BY <2>2, <3>1, <3>2
  <2> QED
    BY <2>6, <2>7, <2>8, <2>9, <2>11, <2>12 DEF IInv
<1> QED
  BY <1>1, <1>2, <1>3, <1>4, <1>5, <1>6

\* A query that changes keeps what the queries hold, if it holds what was sent and
\* has read what is there.
LEMMA OneChanges ==
  ASSUME IInv, NEW q \in Queries, NEW r, query' = [query EXCEPT ![q] = r],
         UNCHANGED <<journal, spent>>,
         r.stage = "holding" => r.of \in Sessions /\ r.calls \subseteq spent[r.of],
         r.stage = "taking" => r.to <= Len(journal)
  PROVE  HeldIsSpent' /\ ReadIsThere'
<1>1. \A other \in Queries : query'[other] = IF other = q THEN r ELSE query[other]
  BY DEF IInv, TypeOK
<1> QED
  BY <1>1 DEF IInv, HeldIsSpent, ReadIsThere

\* What queries do keeps the invariant.
LEMMA IInvQueries ==
  ASSUME IInv, TypeOK', NEW q \in Queries,
         \/ Begin(q) \/ ReadJournal(q) \/ TakeJournal(q) \/ ReadDir(q)
         \/ WriteDir(q) \/ AddUp(q) \/ Broken(q)
         \/ \E s \in Sessions : BeginOne(q, s)
  PROVE  IInv'
<1>0. /\ \A s \in Sessions : Len(log[s]) \in Nat /\ synced[s] \in Nat
      /\ Len(journal) \in Nat /\ query[q] \in Doing /\ db \in Db
      /\ SoundFor(db, spent, place) /\ SoundFor(saved, spent, place)
  BY DEF IInv, TypeOK, Sound
<1>1. /\ UNCHANGED <<disk, journal, due, purging>>
      /\ UNCHANGED <<log, synced, place, spent>>
  BY DEF Begin, ReadJournal, TakeJournal, ReadDir, WriteDir, AddUp, Broken, BeginOne, disk
<1>2. LogsAreSpent' /\ TotalsAreSpent' /\ DeletedAreRemoved'
  BY <1>1, DiskKept
<1>3. ASSUME UNCHANGED saved PROVE SavedIsSynced'
  BY <1>0, <1>1, <1>3, SavedKept
<1>4. ASSUME SoundFor(db', spent, place), SoundFor(saved', spent, place)
      PROVE  Sound(db)' /\ Sound(saved)'
  BY <1>1, <1>4 DEF Sound, SoundFor
<1>5. ASSUME UNCHANGED <<db, saved>>, HeldIsSpent' /\ ReadIsThere'
      PROVE  IInv'
  BY <1>0, <1>2, <1>3, <1>4, <1>5 DEF IInv
<1>6. CASE Begin(q)
  <2> DEFINE r == [Idle EXCEPT !.stage = "journal", !.again = TRUE, !.shots = Calls,
                               !.promised = [s \in Sessions |-> OnRecord(s)]]
  <2>1. query' = [query EXCEPT ![q] = r] /\ r.stage = "journal"
    BY <1>6 DEF Begin, Idle
  <2> HIDE DEF r
  <2>2. HeldIsSpent' /\ ReadIsThere'
    BY <1>1, <2>1, OneChanges
  <2> QED
    BY <1>5, <1>6, <2>2 DEF Begin
<1>7. CASE ReadJournal(q)
  <2> DEFINE done == [query[q] EXCEPT !.stage = "dirs", !.todo = Directories]
             reading == [query[q] EXCEPT !.stage = "taking",
                           !.from = Behind(db), !.to = Len(journal)]
             r == IF db.entries = Len(journal) THEN done ELSE reading
  <2>0. query' = [query EXCEPT ![q] = r]
    BY <1>7 DEF ReadJournal
  <2>1. r.stage # "holding" /\ (r.stage = "taking" => r.to <= Len(journal))
    BY <1>0 DEF Doing
  <2> HIDE DEF r
  <2>2. HeldIsSpent' /\ ReadIsThere'
    BY <1>1, <2>0, <2>1, OneChanges
  <2> QED
    BY <1>5, <1>7, <2>2 DEF ReadJournal
<1>8. CASE TakeJournal(q)
  <2> DEFINE r == [query[q] EXCEPT !.stage = "dirs", !.todo = Directories, !.from = 0, !.to = 0]
  <2>1. query' = [query EXCEPT ![q] = r] /\ r.stage = "dirs"
    BY <1>0, <1>8 DEF TakeJournal, Doing
  <2> HIDE DEF r
  <2>2. HeldIsSpent' /\ ReadIsThere'
    BY <1>1, <2>1, OneChanges
  <2>3. UNCHANGED saved /\ query[q].stage = "taking"
    BY <1>8 DEF TakeJournal
  <2>4. PICK last \in [Sessions -> query[q].from..query[q].to] :
          /\ IsLast(last, query[q].from, query[q].to)
          /\ db' = Replaced(db, last, query[q].from, query[q].to)
    BY <1>8 DEF TakeJournal
  <2>5. SoundFor(db', spent, place)
    BY <2>3, <2>4, ReplacedSound DEF Sound
  <2> QED
    BY <1>0, <1>2, <1>3, <1>4, <2>2, <2>3, <2>5 DEF IInv
<1>9. CASE ReadDir(q)
  <2>1. PICK dir \in query[q].todo :
          query' = [query EXCEPT ![q] =
            IF NothingToRead(dir) THEN [query[q] EXCEPT !.todo = @ \ {dir}]
            ELSE Holding([query[q] EXCEPT !.todo = @ \ {dir}], dir[1])]
    BY <1>9 DEF ReadDir
  <2>2. PICK s \in Sessions : s = dir[1]
    BY <1>0, <2>1 DEF Doing
  <2>3. Called(s, ReadFrom(s), Len(log[s])) \subseteq spent[s]
    <3>1. ReadFrom(s) \in Nat
      BY <1>0 DEF ReadFrom, Db
    <3>2. Called(s, ReadFrom(s), Len(log[s])) \subseteq Called(s, 0, Len(log[s]))
      BY <1>0, <3>1 DEF Called
    <3> QED
      BY <3>2 DEF IInv, LogsAreSpent
  <2> DEFINE left == [query[q] EXCEPT !.todo = @ \ {dir}]
  <2>4. left.stage = "dirs"
    BY <1>0, <1>9 DEF ReadDir, Doing
  <2>5. /\ Holding(left, s).of = s /\ Holding(left, s).stage = "holding"
        /\ Holding(left, s).calls = Called(s, ReadFrom(s), Len(log[s]))
    BY <1>0 DEF Holding, Doing
  <2>6. PICK r : /\ query' = [query EXCEPT ![q] = r]
                 /\ r = left \/ r = Holding(left, s)
    BY <2>1, <2>2
  <2>7. HeldIsSpent' /\ ReadIsThere'
    <3> HIDE DEF left
    <3>1. r.stage = "holding" => r.of \in Sessions /\ r.calls \subseteq spent[r.of]
      BY <2>3, <2>4, <2>5, <2>6
    <3>2. r.stage # "taking"
      BY <2>4, <2>5, <2>6
    <3> QED
      BY <1>1, <2>6, <3>1, <3>2, OneChanges
  <2> QED
    BY <1>5, <1>9, <2>7 DEF ReadDir
<1>10. CASE WriteDir(q)
  <2>1. query' = [query EXCEPT ![q] = Released(query[q])] /\ Released(query[q]).stage = "dirs"
    BY <1>0, <1>10 DEF WriteDir, Released, Doing
  <2>2. HeldIsSpent' /\ ReadIsThere'
    BY <1>1, <2>1, OneChanges
  <2> DEFINE s == query[q].of
  <2>3. /\ UNCHANGED saved /\ query[q].stage = "holding"
        /\ db' = IF db.mark[s].purged THEN db
                 ELSE Advance(db, s, query[q].was, query[q].calls, query[q].to)
    BY <1>10 DEF WriteDir
  <2>4. s \in Sessions /\ query[q].calls \subseteq spent[s]
    BY <2>3 DEF IInv, HeldIsSpent
  <2>5. query[q].was \in Nat /\ query[q].calls \in SUBSET Nat /\ query[q].to \in Nat
    BY <1>0 DEF Doing
  <2>6. SoundFor(db', spent, place)
    BY <1>0, <2>3, <2>4, <2>5, AdvanceSound
  <2> QED
    BY <1>0, <1>2, <1>3, <1>4, <2>2, <2>3, <2>6 DEF IInv
<1>11. CASE AddUp(q)
  <2>1. query' = [query EXCEPT ![q] = Idle] /\ Idle.stage = "idle"
    BY <1>11 DEF AddUp, Idle
  <2>2. HeldIsSpent' /\ ReadIsThere'
    BY <1>1, <2>1, OneChanges
  <2> QED
    BY <1>5, <1>11, <2>2 DEF AddUp
<1>12. CASE Broken(q)
  <2>1. query[q].again => Renewed(query[q]).stage = "journal"
    BY <1>0 DEF Renewed, Released, Doing
  <2>2. HeldIsSpent' /\ ReadIsThere'
    <3>1. CASE query[q].again
      <4>1. query' = [p \in Queries |-> IF p = q THEN Renewed(query[p]) ELSE Undercut(query[p])]
        BY <1>12, <3>1 DEF Broken
      <4>2. ASSUME NEW p \in Queries, p # q
            PROVE  /\ query'[p].stage = query[p].stage /\ query'[p].of = query[p].of
                   /\ query'[p].calls = query[p].calls /\ query'[p].to = query[p].to
        <5>1. query[p] \in Doing
          BY DEF IInv, TypeOK
        <5> QED
          BY <4>1, <4>2, <5>1, UndercutType
      <4>3. query'[q].stage = "journal"
        BY <2>1, <3>1, <4>1
      <4> QED
        BY <1>1, <4>2, <4>3 DEF IInv, HeldIsSpent, ReadIsThere
    <3>2. CASE ~query[q].again
      <4>1. query' = [query EXCEPT ![q] = Idle] /\ Idle.stage = "idle"
        BY <1>12, <3>2 DEF Broken, Idle
      <4> QED
        BY <1>1, <4>1, OneChanges
    <3> QED
      BY <3>1, <3>2
  <2>3. CASE UNCHANGED <<db, saved>>
    BY <1>5, <2>2, <2>3
  <2>4. CASE db' = EmptyDb /\ saved' = EmptyDb
    <3>1. SavedIsSynced'
      BY <2>4 DEF SavedIsSynced, EmptyDb
    <3>2. SoundFor(db', spent, place) /\ SoundFor(saved', spent, place)
      BY <2>4, EmptySound
    <3> QED
      BY <1>2, <1>4, <2>2, <3>1, <3>2 DEF IInv
  <2> QED
    BY <1>12, <2>3, <2>4 DEF Broken
<1>13. CASE \E s \in Sessions : BeginOne(q, s)
  <2>0. PICK s \in Sessions : BeginOne(q, s)
    BY <1>13
  <2> DEFINE r == [Idle EXCEPT !.stage = "dirs", !.todo = {<<s, "live">>},
                               !.promised = [Idle.promised EXCEPT ![s] = OnRecord(s)]]
  <2>1. query' = [query EXCEPT ![q] = r] /\ r.stage = "dirs"
    BY <2>0 DEF BeginOne, Idle
  <2> HIDE DEF r
  <2>2. HeldIsSpent' /\ ReadIsThere'
    BY <1>1, <2>1, OneChanges
  <2> QED
    BY <1>5, <1>13, <2>2 DEF BeginOne
<1> QED
  BY <1>6, <1>7, <1>8, <1>9, <1>10, <1>11, <1>12, <1>13

\* Every step keeps the invariant.
LEMMA IInvStep == IInv /\ [Next]_vars => IInv'
<1> SUFFICES ASSUME IInv, [Next]_vars PROVE IInv'
  OBVIOUS
<1>1. TypeOK'
  BY TypeStep DEF IInv
<1>2. CASE UNCHANGED vars
  BY <1>1, <1>2 DEF IInv, vars, LogsAreSpent, TotalsAreSpent, DeletedAreRemoved,
     HeldIsSpent, ReadIsThere, Sound, SoundFor, SavedIsSynced, Called
<1>3. CASE Next
  BY <1>1, <1>3, IInvSessions, IInvRemovals, IInvQueries DEF Next
<1> QED
  BY <1>2, <1>3

(***************************************************************************)
(* The theorems.                                                           *)
(***************************************************************************)
\* The invariant holds at all times.
LEMMA IInvAlways == Spec => []IInv
<1> QED
  BY IInvInit, IInvStep, PTL DEF Spec

\* The logs, the journal, the two copies of the database and the queries have the
\* types their tables, files and structs give them, whatever is done in whatever order.
THEOREM SpendingTypes == Spec => []TypeOK
<1>1. IInv => TypeOK
  BY DEF IInv
<1> QED
  BY <1>1, IInvAlways, PTL

\* A request is counted at most once and only when it was sent, however many queries
\* catch up at the same time while sessions write, are deleted and removed, and the
\* database loses its last updates or is made again (usage/catch_up.rs).
THEOREM NeverTwice == Spec => []CountedOnce
<1>1. IInv => CountedOnce
  <2> SUFFICES ASSUME IInv, NEW s \in Sessions
               PROVE  /\ db.single[s] = {} \/ db.total[s] = {}
                      /\ db.single[s] \union db.total[s] \subseteq spent[s]
    BY DEF CountedOnce
  <2> QED
    BY DEF IInv, Sound, SoundFor
<1> QED
  BY <1>1, IInvAlways, PTL

----------------------------------------------------------------------------
(***************************************************************************)
(* Nothing is left out.                                                    *)
(***************************************************************************)
\* No log has a second segment: otherwise a total may be incomplete.
OneSegment == \A b \in Bounds : b.events <= SegmentLimit

(***************************************************************************)
(* The inductive invariant, on top of IInv.                                *)
(***************************************************************************)
\* The requests that can be read of a session.
Seen(s) == Called(s, 0, Len(log[s]))

\* The first n entries of the journal have one of this session.
Entered(s, n) == \E j \in 1..n : journal[j].of = s

\* A log can be read in whole or not at all.
LogsAreWhole ==
  \A s \in Sessions :
    /\ Len(log[s]) <= bound.events
    /\ \A i \in spent[s] : i >= 1
    /\ log[s] = << >> \/ spent[s] \subseteq Seen(s)
    /\ place[s] # "live" => synced[s] = Len(log[s])
    /\ place[s] = "gone" => log[s] = << >>

\* So is every entry of a session's total.
EntriesAreWhole ==
  \A j \in DOMAIN journal : journal[j].of # NoSession =>
    journal[j].calls = spent[journal[j].of]

\* What cannot be read any more is in the journal, before it goes.
GoneIsEntered ==
  /\ \A s \in Sessions : spent[s] \subseteq Seen(s) \/ Entered(s, Len(journal))
  /\ purging # NoSession => spent[purging] = {} \/ Entered(purging, Len(journal))

\* A database counts what its marks say: the entries of a journal up to one, but for
\* those that were skipped ...
HasRead(d, book, n) ==
  \A j \in 1..n : \/ j \in d.skipped
                  \/ IF book[j].of = NoSession THEN j \in d.shots
                                               ELSE d.mark[book[j].of].purged

\* ... and the events of a session up to one, or its total.
CountsUpTo(d, sent, book) ==
  /\ \A s \in Sessions :
       IF d.mark[s].purged THEN d.total[s] = sent[s]
       ELSE \A i \in sent[s] : i <= d.mark[s].at => i \in d.single[s]
  /\ d.entries # Never => d.entries <= Len(book) /\ HasRead(d, book, d.entries)
  /\ d.skipped \subseteq 1..Len(book)

\* No mark is ahead of what is there to stay.
MarksFit ==
  \A s \in Sessions : place[s] = "live" =>
    db.mark[s].at <= Len(log[s]) /\ saved.mark[s].at <= synced[s]

\* What a query holds is all there is between where it began and where it ended.
HeldIsWhole(r) ==
  r.stage = "holding" =>
    /\ \A i \in spent[r.of] : i <= r.to => i <= r.was \/ i \in r.calls
    /\ place[r.of] = "live" => r.to <= Len(log[r.of])

\* What it promised can be read, in a log or among the entries up to one.
CanRead(r, n) ==
  \A s \in Sessions : r.promised[s] \subseteq Seen(s) \/ Entered(s, n)

PromisedIsThere(r) ==
  /\ r.shots \subseteq Calls
  /\ \A s \in Sessions : r.promised[s] \subseteq spent[s]
  /\ CanRead(r, Len(journal))

\* While it takes entries, it is among these and those before.
TakenIsThere(r) ==
  r.stage = "taking" =>
    /\ r.from <= r.to
    /\ r.shots \subseteq 1..r.to
    /\ CanRead(r, r.to)

\* Once it has the journal: calls outside sessions are counted or skipped, and a request
\* is counted, held, or in a log it has yet to read, or in a total that was skipped.
Held(r, s) == IF r.stage = "holding" /\ r.of = s THEN r.calls ELSE {}
Listed(r, s) == IF <<s, place[s]>> \in r.todo THEN Seen(s) ELSE {}

Missed(s, d) == \E j \in d.skipped : journal[j].of = s

PromisedIsCounted(r, d) ==
  r.stage \in {"dirs", "holding"} /\ ~r.undercut =>
    /\ r.shots \subseteq d.shots \union d.skipped
    /\ \A s \in Sessions :
         \/ r.promised[s] \subseteq d.single[s] \union d.total[s] \union Held(r, s) \union Listed(r, s)
         \/ Missed(s, d)

KeepsWord(r, d) ==
  HeldIsWhole(r) /\ PromisedIsThere(r) /\ TakenIsThere(r) /\ PromisedIsCounted(r, d)

DInv == bound \in Bounds /\ LogsAreWhole /\ EntriesAreWhole /\ GoneIsEntered

FInv ==
  /\ DInv
  /\ CountsUpTo(db, spent, journal) /\ CountsUpTo(saved, spent, journal) /\ MarksFit
  /\ \A q \in Queries : KeepsWord(query[q], db)

(***************************************************************************)
(* Databases.                                                              *)
(***************************************************************************)
\* A journal has all the entries of another, and perhaps more behind them.
Continues(book, more) ==
  /\ Len(book) <= Len(more)
  /\ \A j \in 1..Len(book) : more[j] = book[j]

\* The whole of an entry is counted.
IsWhole(j, d) ==
  IF journal[j].of = NoSession THEN j \in d.shots
                               ELSE spent[journal[j].of] \subseteq d.total[journal[j].of]

\* One database counts all another does, and skipped nothing the other did not.
CountsMore(d, e) ==
  /\ d.shots \subseteq e.shots
  /\ \A s \in Sessions : /\ d.single[s] \union d.total[s] \subseteq e.single[s] \union e.total[s]
                         /\ d.mark[s].purged => e.mark[s].purged
  /\ \A j \in d.skipped : j \in e.skipped \/ IsWhole(j, e)

\* A database goes on counting what its marks say while the journal grows.
LEMMA LongerJournal ==
  ASSUME NEW d \in Db, NEW sent, NEW R, NEW book \in Seq(R), NEW more \in Seq(R),
         Continues(book, more), CountsUpTo(d, sent, book)
  PROVE  CountsUpTo(d, sent, more)
<1>1. d.entries \in Nat \union {Never} /\ Len(book) \in Nat /\ Len(more) \in Nat
  BY DEF Db
<1>2. ASSUME d.entries # Never
      PROVE  d.entries <= Len(more) /\ HasRead(d, more, d.entries)
  <2>1. d.entries <= Len(book) /\ HasRead(d, book, d.entries)
    BY <1>2 DEF CountsUpTo
  <2>2. d.entries <= Len(more)
    BY <1>1, <1>2, <2>1 DEF Continues
  <2>3. \A j \in 1..d.entries : more[j] = book[j]
    BY <1>1, <1>2, <2>1 DEF Continues
  <2> QED
    BY <2>1, <2>2, <2>3 DEF HasRead
<1>3. d.skipped \subseteq 1..Len(more)
  BY <1>1 DEF CountsUpTo, Continues
<1> QED
  BY <1>2, <1>3 DEF CountsUpTo

\* It does while a session sends requests behind its mark.
LEMMA MoreSent ==
  ASSUME NEW d, NEW sent, NEW more, NEW book, CountsUpTo(d, sent, book),
         \A s \in Sessions : d.mark[s].purged => more[s] = sent[s],
         \A s \in Sessions : \A i \in more[s] : i <= d.mark[s].at => i \in sent[s]
  PROVE  CountsUpTo(d, more, book)
  BY DEF CountsUpTo

\* It does when what was read of a session from one position to another is written.
LEMMA AdvanceCounts ==
  ASSUME NEW d \in Db, NEW sent, NEW book, NEW s \in Sessions,
         NEW was \in Nat, NEW calls \in SUBSET Nat, NEW to \in Nat,
         CountsUpTo(d, sent, book),
         \A i \in sent[s] : i <= to => i <= was \/ i \in calls
  PROVE  /\ CountsUpTo(Advance(d, s, was, calls, to), sent, book)
         /\ CountsMore(d, Advance(d, s, was, calls, to))
         /\ calls \subseteq Advance(d, s, was, calls, to).single[s]
<1> DEFINE a == Advance(d, s, was, calls, to)
<1>0. /\ d.single \in [Sessions -> SUBSET Nat]
      /\ d.mark \in [Sessions -> [at : Nat, purged : BOOLEAN]]
  BY DEF Db
<1>1. /\ a.single = [d.single EXCEPT ![s] = @ \union calls] /\ a.total = d.total
      /\ a.shots = d.shots /\ a.entries = d.entries /\ a.skipped = d.skipped
  BY DEF Advance, Insert, Db
<1>2. a.mark = [d.mark EXCEPT ![s] = Moved(@, was, to)]
  BY DEF Advance, Insert, Db
<1>3. \A t \in Sessions : a.mark[t].purged = d.mark[t].purged
  BY <1>2 DEF Moved, Db
<1>4. \A t \in Sessions : d.single[t] \subseteq a.single[t]
  BY <1>0, <1>1
<1>5. calls \subseteq a.single[s]
  BY <1>0, <1>1
<1>6. CountsMore(d, a)
  BY <1>1, <1>3, <1>4 DEF CountsMore
<1>7. \A t \in Sessions : t # s => a.mark[t] = d.mark[t]
  BY <1>0, <1>2
<1>8. a.mark[s].at = d.mark[s].at \/ (a.mark[s].at = to /\ d.mark[s].at = was)
  BY <1>0, <1>2 DEF Moved
<1> HIDE DEF a
<1>9. ASSUME NEW t \in Sessions, ~a.mark[t].purged, NEW i \in sent[t], i <= a.mark[t].at
      PROVE  i \in a.single[t]
  <2>1. i <= d.mark[t].at => i \in d.single[t]
    BY <1>3, <1>9 DEF CountsUpTo
  <2> QED
    BY <1>4, <1>5, <1>7, <1>8, <1>9, <2>1
<1>10. \A t \in Sessions : a.mark[t].purged => a.total[t] = sent[t]
  BY <1>1, <1>3 DEF CountsUpTo
<1>11. HasRead(d, book, d.entries) => HasRead(a, book, a.entries)
  <2> SUFFICES ASSUME HasRead(d, book, d.entries), NEW j \in 1..d.entries
               PROVE  \/ j \in a.skipped
                      \/ IF book[j].of = NoSession THEN j \in a.shots ELSE a.mark[book[j].of].purged
    BY <1>1 DEF HasRead
  <2>1. \/ j \in d.skipped
        \/ IF book[j].of = NoSession THEN j \in d.shots ELSE d.mark[book[j].of].purged
    BY DEF HasRead
  <2>2. ASSUME NEW t, d.mark[t].purged
        PROVE  a.mark[t].purged
    <3>1. CASE t = s
      BY <1>3, <2>2, <3>1
    <3>2. CASE t # s
      BY <1>0, <1>2, <2>2, <3>2
    <3> QED
      BY <3>1, <3>2
  <2> QED
    BY <1>1, <2>1, <2>2
<1>12. CountsUpTo(a, sent, book)
  BY <1>1, <1>9, <1>10, <1>11 DEF CountsUpTo
<1> QED
  BY <1>5, <1>6, <1>12 DEF a

\* A new database counts nothing.
LEMMA EmptyCounts ==
  ASSUME NEW sent, NEW book, \A s \in Sessions : sent[s] \in SUBSET Nat,
         \A s \in Sessions : \A i \in sent[s] : i >= 1
  PROVE  CountsUpTo(EmptyDb, sent, book)
<1>1. \A s \in Sessions : EmptyDb.mark[s] = Unmarked
  BY DEF EmptyDb
<1>2. EmptyDb.entries = Never /\ EmptyDb.skipped = {}
  BY DEF EmptyDb
<1>3. ASSUME NEW s \in Sessions, NEW i \in sent[s], i <= 0 PROVE FALSE
  BY <1>3
<1> QED
  BY <1>1, <1>2, <1>3 DEF CountsUpTo, Unmarked

\* The entries of the journal are of sessions or of calls.
LEMMA EntriesOf ==
  ASSUME TypeOK
  PROVE  /\ DOMAIN journal = 1..Len(journal) /\ Len(journal) \in Nat
         /\ \A j \in 1..Len(journal) : journal[j].of # NoSession => journal[j].of \in Sessions
<1>1. DOMAIN journal = 1..Len(journal) /\ Len(journal) \in Nat
  BY DEF TypeOK
<1> QED
  BY <1>1, EntryOf

\* It does when the totals among the entries that were read replace rows.
LEMMA ReplacedCounts ==
  ASSUME TypeOK, EntriesAreWhole, NEW from \in Nat, NEW to \in Nat, from <= to,
         to <= Len(journal), db \in Db,
         CountsUpTo(db, spent, journal), SoundFor(db, spent, place),
         NEW last \in [Sessions -> from..to], IsLast(last, from, to)
  PROVE  /\ CountsUpTo(Replaced(db, last, from, to), spent, journal)
         /\ CountsMore(db, Replaced(db, last, from, to))
         /\ HasRead(Replaced(db, last, from, to), journal, to)
<1> DEFINE d == Replaced(db, last, from, to)
<1>0. \A s \in Sessions : last[s] \in from..to /\ last[s] \in Nat
  OBVIOUS
<1>1. ASSUME NEW s \in Sessions, last[s] > from
      PROVE  /\ d.mark[s].purged /\ d.total[s] = spent[s]
  <2>1. last[s] \in DOMAIN journal
    BY <1>0, <1>1, EntriesOf
  <2>2. journal[last[s]].of = s /\ s # NoSession
    BY <1>0, <1>1, SpendingLimits DEF IsLast
  <2>3. journal[last[s]].calls = spent[s]
    BY <2>1, <2>2 DEF EntriesAreWhole
  <2> QED
    BY <1>1, <2>3 DEF Replaced
<1>2. ASSUME NEW s \in Sessions, ~(last[s] > from)
      PROVE  /\ d.mark[s] = db.mark[s] /\ d.total[s] = db.total[s]
             /\ d.single[s] = db.single[s]
  BY <1>2 DEF Replaced
<1>3. d.shots = db.shots \union {j \in (from + 1)..to : journal[j].of = NoSession}
      /\ d.entries = to
      /\ d.skipped = {j \in db.skipped \union (Behind(db) + 1)..from : ~HasEntry(db, j)}
                       \ (from + 1)..to
  BY DEF Replaced
<1> HIDE DEF d
<1>7. Behind(db) \in Nat /\ db.skipped \subseteq 1..Len(journal) /\ Len(journal) \in Nat
  BY EntriesOf DEF Behind, Db, CountsUpTo
<1>8. \A s \in Sessions : /\ db.single[s] \union db.total[s] \subseteq d.single[s] \union d.total[s]
                          /\ db.mark[s].purged => d.mark[s].purged /\ d.total[s] = spent[s]
  <2> SUFFICES ASSUME NEW s \in Sessions
               PROVE  /\ db.single[s] \union db.total[s] \subseteq d.single[s] \union d.total[s]
                      /\ db.mark[s].purged => d.mark[s].purged /\ d.total[s] = spent[s]
    OBVIOUS
  <2>1. db.single[s] \union db.total[s] \subseteq spent[s]
    BY DEF SoundFor
  <2>2. db.mark[s].purged => db.total[s] = spent[s]
    BY DEF CountsUpTo
  <2> QED
    BY <1>1, <1>2, <2>1, <2>2
\* What is taken is in the new database, and so is what was in the old one.
<1>9. ASSUME NEW j \in 1..Len(journal), j \in (from + 1)..to \/ HasEntry(db, j)
      PROVE  IsWhole(j, d) /\ HasEntry(d, j)
  <2>1. journal[j].of # NoSession => journal[j].of \in Sessions
    BY EntriesOf
  <2>2. CASE HasEntry(db, j)
    BY <1>3, <1>8, <2>1, <2>2 DEF HasEntry, IsWhole
  <2>3. CASE j \in (from + 1)..to /\ journal[j].of = NoSession
    BY <1>3, <2>3 DEF HasEntry, IsWhole
  <2>4. CASE j \in (from + 1)..to /\ journal[j].of # NoSession
    <3>1. PICK s \in Sessions : s = journal[j].of
      BY <2>1, <2>4
    <3>2. last[s] # from
      BY <2>4, <3>1 DEF IsLast
    <3>3. last[s] > from
      BY <1>0, <3>2
    <3>4. d.mark[s].purged /\ d.total[s] = spent[s]
      BY <1>1, <3>3
    <3> QED
      BY <2>4, <3>1, <3>4 DEF HasEntry, IsWhole
  <2> QED
    BY <1>9, <2>2, <2>3, <2>4
<1>4. CountsMore(db, d)
  <2>1. ASSUME NEW j \in db.skipped
        PROVE  j \in d.skipped \/ IsWhole(j, d)
    <3>1. j \in 1..Len(journal)
      BY <1>7
    <3> QED
      BY <1>3, <1>9, <3>1
  <2> QED
    BY <1>3, <1>8, <2>1 DEF CountsMore
<1>5. HasRead(d, journal, to)
  <2> SUFFICES ASSUME NEW j \in 1..to
               PROVE  j \in d.skipped \/ HasEntry(d, j)
    BY DEF HasRead, HasEntry
  <2>1. j \in 1..Len(journal)
    BY <1>7
  <2>2. CASE j \in (from + 1)..to \/ HasEntry(db, j)
    BY <1>9, <2>1, <2>2
  <2>3. CASE j \notin (from + 1)..to /\ ~HasEntry(db, j)
    <3>1. CASE j <= Behind(db)
      <4>1. db.entries # Never /\ j \in 1..db.entries
        BY <3>1 DEF Behind
      <4>2. j \in db.skipped
        BY <2>3, <4>1 DEF CountsUpTo, HasRead, HasEntry
      <4> QED
        BY <1>3, <2>3, <4>2
    <3>2. CASE ~(j <= Behind(db))
      <4>1. j \in (Behind(db) + 1)..from
        BY <1>7, <2>3, <3>2
      <4> QED
        BY <1>3, <2>3, <4>1
    <3> QED
      BY <3>1, <3>2
  <2> QED
    BY <2>2, <2>3
<1>6. CountsUpTo(d, spent, journal)
  <2>1. ASSUME NEW s \in Sessions
        PROVE  IF d.mark[s].purged THEN d.total[s] = spent[s]
               ELSE \A i \in spent[s] : i <= d.mark[s].at => i \in d.single[s]
    BY <1>1, <1>2 DEF CountsUpTo
  <2>2. d.skipped \subseteq 1..Len(journal)
    BY <1>3, <1>7
  <2> QED
    BY <1>3, <1>5, <2>1, <2>2 DEF CountsUpTo
<1> QED
  BY <1>4, <1>5, <1>6 DEF d

\* It does when the row of a call is written.
LEMMA ShotCounts ==
  ASSUME NEW d \in Db, NEW sent, NEW book, NEW j, CountsUpTo(d, sent, book)
  PROVE  /\ CountsUpTo([d EXCEPT !.shots = @ \union {j}], sent, book)
         /\ CountsMore(d, [d EXCEPT !.shots = @ \union {j}])
<1> DEFINE e == [d EXCEPT !.shots = @ \union {j}]
<1>1. /\ e.single = d.single /\ e.total = d.total /\ e.mark = d.mark
      /\ e.entries = d.entries /\ d.shots \subseteq e.shots /\ e.skipped = d.skipped
  BY DEF Db
<1> HIDE DEF e
<1>2. HasRead(d, book, d.entries) => HasRead(e, book, e.entries)
  BY <1>1 DEF HasRead
<1>3. CountsUpTo(e, sent, book) /\ CountsMore(d, e)
  BY <1>1, <1>2 DEF CountsUpTo, CountsMore
<1> QED
  BY <1>3 DEF e

(***************************************************************************)
(* What a query promised.                                                  *)
(***************************************************************************)
\* An entry stays when the journal grows.
LEMMA EntriesStay ==
  ASSUME TypeOK, TypeOK', Continues(journal, journal'), NEW s, NEW n \in Nat, NEW m \in Nat,
         n <= Len(journal), n <= m, Entered(s, n)
  PROVE  Entered(s, m)'
<1>1. PICK j \in 1..n : journal[j].of = s
  BY DEF Entered
<1>2. Len(journal) \in Nat
  BY EntriesOf
<1>3. j \in 1..Len(journal) /\ j \in 1..m
  BY <1>2
<1>4. journal'[j] = journal[j]
  BY <1>3 DEF Continues
<1> QED
  BY <1>1, <1>3, <1>4 DEF Entered

\* A query keeps its word while sessions write, journals grow and the database counts
\* more.
LEMMA WordKept ==
  ASSUME TypeOK, TypeOK', NEW r \in Doing, KeepsWord(r, db), UNCHANGED place,
         Continues(journal, journal'), CountsMore(db, db'), db.skipped \subseteq 1..Len(journal),
         r.stage = "holding" => r.of \in Sessions,
         r.stage = "taking" => r.to <= Len(journal),
         \A s \in Sessions : /\ Seen(s) \subseteq Seen(s)' /\ spent[s] \subseteq spent'[s]
                             /\ Len(log[s]) <= Len(log'[s]),
         \A s \in Sessions : \A i \in spent'[s] :
           i \in spent[s] \/ (place[s] = "live" /\ i > Len(log[s]))
  PROVE  KeepsWord(r, db)'
<1>0. /\ \A s \in Sessions : Len(log[s]) \in Nat /\ Len(log'[s]) \in Nat /\ spent'[s] \in SUBSET Nat
      /\ Len(journal) \in Nat /\ Len(journal') \in Nat /\ Len(journal) <= Len(journal')
      /\ r.from \in Nat /\ r.to \in Nat
  <2>1. \A s \in Sessions : Len(log[s]) \in Nat /\ Len(log'[s]) \in Nat /\ spent'[s] \in SUBSET Nat
    BY DEF TypeOK
  <2>2. Len(journal) \in Nat /\ Len(journal') \in Nat
    BY DEF TypeOK
  <2>3. r.from \in Nat /\ r.to \in Nat
    BY DEF Doing
  <2> QED
    BY <2>1, <2>2, <2>3 DEF Continues
<1>1. HeldIsWhole(r)'
  <2> SUFFICES ASSUME r.stage = "holding"
               PROVE  /\ \A i \in spent'[r.of] : i <= r.to => i <= r.was \/ i \in r.calls
                      /\ place[r.of] = "live" => r.to <= Len(log'[r.of])
    BY DEF HeldIsWhole
  <2>1. r.of \in Sessions
    OBVIOUS
  <2>2. /\ \A i \in spent[r.of] : i <= r.to => i <= r.was \/ i \in r.calls
        /\ place[r.of] = "live" => r.to <= Len(log[r.of])
    BY DEF KeepsWord, HeldIsWhole
  <2>3. ASSUME NEW i \in spent'[r.of], i <= r.to
        PROVE  i <= r.was \/ i \in r.calls
    <3>1. i \in Nat
      BY <1>0, <2>1
    <3>2. i \in spent[r.of]
      BY <1>0, <2>1, <2>2, <2>3, <3>1
    <3> QED
      BY <2>2, <2>3, <3>2
  <2>4. place[r.of] = "live" => r.to <= Len(log'[r.of])
    <3>1. Len(log[r.of]) <= Len(log'[r.of])
      BY <2>1
    <3> QED
      BY <1>0, <2>1, <2>2, <3>1
  <2> QED
    BY <2>3, <2>4
<1>2. ASSUME NEW n \in Nat, NEW m \in Nat, n <= Len(journal), n <= m, CanRead(r, n)
      PROVE  CanRead(r, m)'
  BY <1>2, EntriesStay DEF CanRead
<1>3. PromisedIsThere(r)'
  <2>1. CanRead(r, Len(journal))'
    <3>1. CanRead(r, Len(journal))
      BY DEF KeepsWord, PromisedIsThere
    <3>2. PICK m : m = Len(journal')
      OBVIOUS
    <3>3. CanRead(r, m)'
      BY <1>0, <1>2, <3>1, <3>2
    <3> QED
      BY <3>2, <3>3 DEF CanRead, Entered
  <2>2. r.shots \subseteq Calls'
    <3>1. r.shots \subseteq Calls
      BY DEF KeepsWord, PromisedIsThere
    <3>2. DOMAIN journal = 1..Len(journal) /\ DOMAIN journal' = 1..Len(journal')
      BY DEF TypeOK
    <3> QED
      BY <1>0, <3>1, <3>2 DEF Calls, Continues
  <2>3. \A s \in Sessions : r.promised[s] \subseteq spent'[s]
    BY DEF KeepsWord, PromisedIsThere
  <2> QED
    BY <2>1, <2>2, <2>3 DEF PromisedIsThere
<1>4. TakenIsThere(r)'
  <2> SUFFICES ASSUME r.stage = "taking"
               PROVE  TakenIsThere(r)'
    BY DEF TakenIsThere
  <2>1. /\ r.from <= r.to /\ r.shots \subseteq 1..r.to
        /\ CanRead(r, r.to) /\ r.to <= Len(journal)
    BY DEF KeepsWord, TakenIsThere
  <2>2. CanRead(r, r.to)'
    BY <1>0, <1>2, <2>1
  <2> QED
    BY <2>1, <2>2 DEF TakenIsThere
<1>5. PromisedIsCounted(r, db)'
  <2> SUFFICES ASSUME r.stage \in {"dirs", "holding"}, ~r.undercut
               PROVE  /\ r.shots \subseteq db'.shots \union db'.skipped
                      /\ \A s \in Sessions :
                           \/ r.promised[s] \subseteq db'.single[s] \union db'.total[s]
                                                   \union Held(r, s) \union Listed(r, s)'
                           \/ Missed(s, db)'
    BY DEF PromisedIsCounted, Held
  <2>1. /\ r.shots \subseteq db.shots \union db.skipped
        /\ \A s \in Sessions :
             \/ r.promised[s] \subseteq db.single[s] \union db.total[s] \union Held(r, s) \union Listed(r, s)
             \/ Missed(s, db)
        /\ r.shots \subseteq Calls /\ \A s \in Sessions : r.promised[s] \subseteq spent[s]
    BY DEF KeepsWord, PromisedIsCounted, PromisedIsThere
  <2>2. \A s \in Sessions : Listed(r, s) \subseteq Listed(r, s)'
    BY DEF Listed
  <2>3. r.shots \subseteq db'.shots \union db'.skipped
    BY <2>1 DEF CountsMore, IsWhole, Calls
  <2>4. ASSUME NEW s \in Sessions, Missed(s, db)
        PROVE  r.promised[s] \subseteq db'.total[s] \/ Missed(s, db)'
    <3>1. PICK j \in db.skipped : journal[j].of = s
      BY <2>4 DEF Missed
    <3>2. s # NoSession /\ journal'[j].of = s
      BY <3>1, SpendingLimits DEF Continues
    <3>3. j \in db'.skipped \/ spent[s] \subseteq db'.total[s]
      BY <3>1, <3>2 DEF CountsMore, IsWhole
    <3> QED
      BY <2>1, <3>2, <3>3 DEF Missed
  <2> QED
    BY <2>1, <2>2, <2>3, <2>4 DEF CountsMore
<1> QED
  BY <1>1, <1>3, <1>4, <1>5 DEF KeepsWord

\* A query that promised nothing keeps its word.
LEMMA IdleKeeps ==
  ASSUME NEW d
  PROVE  KeepsWord(Idle, d)
<1>1. Idle.stage = "idle" /\ Idle.shots = {} /\ \A s \in Sessions : Idle.promised[s] = {}
  BY DEF Idle
<1> HIDE DEF Idle
<1> QED
  BY <1>1 DEF KeepsWord, HeldIsWhole, PromisedIsThere, TakenIsThere, PromisedIsCounted, CanRead

\* A query that no longer promises a session keeps its word when that session moves
\* or goes.
LEMMA WordDisturbed ==
  ASSUME TypeOK, NEW r \in Doing, KeepsWord(r, db), NEW t, UNCHANGED <<journal, db, spent>>,
         r.stage = "holding" => r.of \in Sessions,
         \A s \in Sessions : s # t => log'[s] = log[s] /\ place'[s] = place[s],
         place'[t] # "live"
  PROVE  KeepsWord([r EXCEPT !.promised[t] = {}], db)'
<1> DEFINE e == [r EXCEPT !.promised = [@ EXCEPT ![t] = {}]]
<1>0. /\ e.stage = r.stage /\ e.todo = r.todo /\ e.of = r.of /\ e.calls = r.calls
      /\ e.was = r.was /\ e.from = r.from /\ e.to = r.to /\ e.shots = r.shots
      /\ e.undercut = r.undercut /\ e.promised = [r.promised EXCEPT ![t] = {}]
  BY DEF Doing
<1>1. \A s \in Sessions : e.promised[s] = IF s = t THEN {} ELSE r.promised[s]
  BY <1>0 DEF Doing
<1>2. e = [r EXCEPT !.promised[t] = {}]
  OBVIOUS
<1> HIDE DEF e
<1>3. \A s \in Sessions : s # t => Seen(s)' = Seen(s)
  BY DEF Seen, Called
<1>4. HeldIsWhole(e)'
  <2>1. r.stage = "holding" => \A i \in spent[r.of] : i <= r.to => i <= r.was \/ i \in r.calls
    BY DEF KeepsWord, HeldIsWhole
  <2>2. r.stage = "holding" /\ place'[r.of] = "live" => r.to <= Len(log'[r.of])
    <3>1. r.stage = "holding" /\ place[r.of] = "live" => r.to <= Len(log[r.of])
      BY DEF KeepsWord, HeldIsWhole
    <3> QED
      BY <3>1
  <2> QED
    BY <1>0, <2>1, <2>2 DEF HeldIsWhole
<1>5. ASSUME NEW n, CanRead(r, n)
      PROVE  CanRead(e, n)'
  BY <1>1, <1>3, <1>5 DEF CanRead, Entered
<1>6. PromisedIsThere(e)'
  <2>1. r.shots \subseteq Calls /\ CanRead(r, Len(journal))
        /\ \A s \in Sessions : r.promised[s] \subseteq spent[s]
    BY DEF KeepsWord, PromisedIsThere
  <2>2. Calls' = Calls
    BY DEF Calls
  <2>3. CanRead(e, Len(journal))'
    <3>1. PICK m : m = Len(journal)
      OBVIOUS
    <3>2. CanRead(e, m)'
      BY <1>5, <2>1, <3>1
    <3> QED
      BY <3>1, <3>2 DEF CanRead, Entered
  <2> QED
    BY <1>0, <1>1, <2>1, <2>2, <2>3 DEF PromisedIsThere
<1>7. TakenIsThere(e)'
  <2> SUFFICES ASSUME r.stage = "taking"
               PROVE  TakenIsThere(e)'
    BY <1>0 DEF TakenIsThere
  <2>1. /\ r.from <= r.to /\ r.shots \subseteq 1..r.to
        /\ CanRead(r, r.to)
    BY DEF KeepsWord, TakenIsThere
  <2>2. CanRead(e, r.to)'
    BY <1>5, <2>1
  <2> QED
    BY <1>0, <2>1, <2>2 DEF TakenIsThere
<1>8. PromisedIsCounted(e, db)'
  <2> SUFFICES ASSUME r.stage \in {"dirs", "holding"}, ~r.undercut
               PROVE  /\ r.shots \subseteq db.shots \union db.skipped
                      /\ \A s \in Sessions :
                           \/ e.promised[s] \subseteq db.single[s] \union db.total[s]
                                                   \union Held(r, s) \union Listed(r, s)'
                           \/ Missed(s, db)
    BY <1>0 DEF PromisedIsCounted, Held, Listed, Missed
  <2>1. /\ r.shots \subseteq db.shots \union db.skipped
        /\ \A s \in Sessions :
             \/ r.promised[s] \subseteq db.single[s] \union db.total[s] \union Held(r, s) \union Listed(r, s)
             \/ Missed(s, db)
    BY DEF KeepsWord, PromisedIsCounted
  <2>2. \A s \in Sessions : s # t => Listed(r, s)' = Listed(r, s)
    BY <1>3 DEF Listed
  <2> QED
    BY <1>1, <2>1, <2>2
<1> QED
  BY <1>2, <1>4, <1>6, <1>7, <1>8 DEF KeepsWord

\* No query breaks its word while sessions write, journals grow and the database
\* counts more.
LEMMA WordsKept ==
  ASSUME IInv, TypeOK', FInv, UNCHANGED <<query, place>>,
         Continues(journal, journal'), CountsMore(db, db'),
         \A s \in Sessions : /\ Seen(s) \subseteq Seen(s)' /\ spent[s] \subseteq spent'[s]
                             /\ Len(log[s]) <= Len(log'[s]),
         \A s \in Sessions : \A i \in spent'[s] :
           i \in spent[s] \/ (place[s] = "live" /\ i > Len(log[s]))
  PROVE  \A q \in Queries : KeepsWord(query[q], db)'
<1> SUFFICES ASSUME NEW q \in Queries
             PROVE  KeepsWord(query[q], db)'
  OBVIOUS
<1>1. PICK r : r = query[q]
  OBVIOUS
<1>2. /\ r \in Doing /\ KeepsWord(r, db)
      /\ r.stage = "holding" => r.of \in Sessions
      /\ r.stage = "taking" => r.to <= Len(journal)
      /\ db.skipped \subseteq 1..Len(journal)
  BY <1>1 DEF IInv, TypeOK, FInv, HeldIsSpent, ReadIsThere, CountsUpTo
<1>3. TypeOK
  BY DEF IInv
<1>4. KeepsWord(r, db)'
  BY <1>2, <1>3, WordKept
<1>5. query'[q] = r
  BY <1>1
<1> QED
  BY <1>4, <1>5 DEF KeepsWord, HeldIsWhole, PromisedIsThere, TakenIsThere,
     PromisedIsCounted, CanRead, Held, Listed, Missed

\* Nor when a session moves or goes.
LEMMA WordsDisturbed ==
  ASSUME IInv, FInv, NEW t, query' = Disturbed(t), UNCHANGED <<journal, db, spent>>,
         \A s \in Sessions : s # t => log'[s] = log[s] /\ place'[s] = place[s],
         place'[t] # "live"
  PROVE  \A q \in Queries : KeepsWord(query[q], db)'
<1> SUFFICES ASSUME NEW q \in Queries
             PROVE  KeepsWord(query[q], db)'
  OBVIOUS
<1>1. PICK r : r = query[q]
  OBVIOUS
<1>2. /\ r \in Doing /\ KeepsWord(r, db)
      /\ r.stage = "holding" => r.of \in Sessions
  BY <1>1 DEF IInv, TypeOK, FInv, HeldIsSpent
<1>3. TypeOK
  BY DEF IInv
<1>6. PICK u : u = t
  OBVIOUS
<1>7. PICK e : e = [r EXCEPT !.promised[u] = {}]
  OBVIOUS
<1>4. KeepsWord([r EXCEPT !.promised[u] = {}], db)'
  BY <1>2, <1>3, <1>6, WordDisturbed
<1>8. KeepsWord(e, db)'
  BY <1>4, <1>7
<1>5. query'[q] = e
  BY <1>1, <1>6, <1>7 DEF Disturbed
<1> QED
  BY <1>8, <1>5 DEF KeepsWord, HeldIsWhole, PromisedIsThere, TakenIsThere,
     PromisedIsCounted, CanRead, Held, Listed, Missed

(***************************************************************************)
(* Logs, journal and marks.                                                *)
(***************************************************************************)
\* A journal continues itself.
LEMMA SameJournal ==
  ASSUME TypeOK, UNCHANGED journal
  PROVE  Continues(journal, journal')
<1>1. Len(journal) \in Nat
  BY DEF TypeOK
<1> QED
  BY <1>1 DEF Continues

\* Nothing less is counted when nothing is counted.
LEMMA SameCounts ==
  ASSUME NEW d
  PROVE  CountsMore(d, d)
  BY DEF CountsMore

\* A longer journal has one more entry.
LEMMA OneMoreEntry ==
  ASSUME TypeOK, NEW e \in [of : Sessions \union {NoSession}, calls : SUBSET Nat],
         journal' = Append(journal, e)
  PROVE  /\ Continues(journal, journal') /\ Len(journal') = Len(journal) + 1
         /\ journal'[Len(journal')] = e /\ DOMAIN journal' = 1..(Len(journal) + 1)
<1> DEFINE R == [of : Sessions \union {NoSession}, calls : SUBSET Nat]
<1>1. journal \in Seq(R) /\ e \in R
  BY DEF TypeOK
<1> HIDE DEF R
<1>2. Len(journal) \in Nat
  BY <1>1
<1>3. /\ Len(Append(journal, e)) = Len(journal) + 1
      /\ Append(journal, e)[Len(journal) + 1] = e
      /\ DOMAIN Append(journal, e) = 1..(Len(journal) + 1)
      /\ \A j \in 1..Len(journal) : Append(journal, e)[j] = journal[j]
  BY <1>1, <1>2
<1> QED
  BY <1>2, <1>3 DEF Continues

\* Logs and entries that nobody touches stay whole.
LEMMA LogsKept ==
  ASSUME DInv, UNCHANGED <<disk, bound>>
  PROVE  bound' \in Bounds /\ LogsAreWhole'
<1>1. \A s \in Sessions : Seen(s)' = Seen(s)
  BY DEF disk, Seen, Called
<1> QED
  BY <1>1 DEF DInv, LogsAreWhole, disk

LEMMA EntriesKept ==
  ASSUME IInv, DInv, UNCHANGED journal,
         \A s \in Sessions : place[s] # "live" => spent'[s] = spent[s]
  PROVE  EntriesAreWhole'
<1> SUFFICES ASSUME NEW j \in DOMAIN journal, journal[j].of # NoSession
             PROVE  journal[j].calls = spent'[journal[j].of]
  BY DEF EntriesAreWhole
<1>1. journal[j].of \in Sessions
  BY EntryOf DEF IInv
<1>2. place[journal[j].of] # "live"
  BY DEF IInv, TotalsAreSpent
<1> QED
  BY <1>1, <1>2 DEF DInv, EntriesAreWhole

\* What is entered stays entered.
LEMMA GoneKept ==
  ASSUME IInv, TypeOK', DInv, Continues(journal, journal'), UNCHANGED disk,
         purging' \in {purging, NoSession}
  PROVE  GoneIsEntered'
<1>0. /\ Len(journal) \in Nat /\ Len(journal') \in Nat /\ Len(journal) <= Len(journal')
      /\ TypeOK
  BY DEF IInv, TypeOK, Continues
<1>1. \A s \in Sessions : Seen(s)' = Seen(s)
  BY DEF disk, Seen, Called
<1>2. ASSUME NEW s, Entered(s, Len(journal))
      PROVE  Entered(s, Len(journal))'
  <2>1. PICK m : m = Len(journal')
    OBVIOUS
  <2>2. Entered(s, m)'
    BY <1>0, <1>2, <2>1, EntriesStay
  <2> QED
    BY <2>1, <2>2 DEF Entered
<1>3. PICK p : p = purging
  OBVIOUS
<1>4. purging # NoSession => spent[p] = {} \/ Entered(p, Len(journal))
  BY <1>3 DEF DInv, GoneIsEntered
<1>5. purging' # NoSession => spent'[p] = {} \/ Entered(p, Len(journal))'
  BY <1>2, <1>3, <1>4 DEF disk
<1>6. purging' # NoSession => spent'[purging'] = {} \/ Entered(purging, Len(journal))'
  BY <1>3, <1>5 DEF Entered
<1>7. \A s \in Sessions : spent'[s] \subseteq Seen(s)' \/ Entered(s, Len(journal))'
  BY <1>1, <1>2 DEF DInv, GoneIsEntered, disk
<1> QED
  BY <1>6, <1>7 DEF GoneIsEntered

\* Marks fit as long as logs of sessions that live only grow.
LEMMA MarksKept ==
  ASSUME IInv, TypeOK', FInv, UNCHANGED <<db, saved>>,
         \A s \in Sessions : place'[s] = "live" =>
           place[s] = "live" /\ Len(log[s]) <= Len(log'[s]) /\ synced[s] <= synced'[s]
  PROVE  MarksFit'
<1> SUFFICES ASSUME NEW s \in Sessions, place'[s] = "live"
             PROVE  db.mark[s].at <= Len(log'[s]) /\ saved.mark[s].at <= synced'[s]
  BY DEF MarksFit
<1>1. db.mark[s].at <= Len(log[s]) /\ saved.mark[s].at <= synced[s]
  BY DEF FInv, MarksFit
<1>2. db.mark[s].at \in Nat /\ saved.mark[s].at \in Nat
  BY DEF IInv, TypeOK, Db
<1>3. /\ Len(log[s]) \in Nat /\ Len(log'[s]) \in Nat
      /\ synced[s] \in Nat /\ synced'[s] \in Nat
  BY DEF IInv, TypeOK
<1>4. Len(log[s]) <= Len(log'[s]) /\ synced[s] <= synced'[s]
  OBVIOUS
<1> QED
  BY <1>1, <1>2, <1>3, <1>4

\* Both databases go on counting what they did when the journal grows.
LEMMA CountsKept ==
  ASSUME IInv, TypeOK', FInv, Continues(journal, journal'), UNCHANGED <<db, saved, spent>>
  PROVE  CountsUpTo(db, spent, journal)' /\ CountsUpTo(saved, spent, journal)'
<1> DEFINE R == [of : Sessions \union {NoSession}, calls : SUBSET Nat]
<1>1. journal \in Seq(R) /\ journal' \in Seq(R) /\ db \in Db /\ saved \in Db
  BY DEF IInv, TypeOK
<1>2. CountsUpTo(db, spent, journal) /\ CountsUpTo(saved, spent, journal)
  BY DEF FInv
<1> HIDE DEF R
<1>3. CountsUpTo(db, spent, journal') /\ CountsUpTo(saved, spent, journal')
  BY <1>1, <1>2, LongerJournal
<1> QED
  BY <1>3

(***************************************************************************)
(* Logs and journal, step by step.                                         *)
(***************************************************************************)
\* The numbers of what there is.
LEMMA Sizes ==
  ASSUME TypeOK
  PROVE  /\ \A s \in Sessions : /\ Len(log[s]) \in Nat /\ synced[s] \in Nat
                                /\ spent[s] \in SUBSET Nat /\ db.mark[s].at \in Nat
                                /\ saved.mark[s].at \in Nat
         /\ Len(journal) \in Nat
<1>1. \A s \in Sessions : Len(log[s]) \in Nat /\ synced[s] \in Nat /\ spent[s] \in SUBSET Nat
  BY DEF TypeOK
<1>2. \A s \in Sessions : db.mark[s].at \in Nat /\ saved.mark[s].at \in Nat
  BY DEF TypeOK, Db
<1> QED
  BY <1>1, <1>2 DEF TypeOK

\* A line of a batch.
LEMMA DInvWrite ==
  ASSUME IInv, IInv', DInv, NEW s \in Sessions, Write(s)
  PROVE  DInv'
<1>0. TypeOK /\ TypeOK'
  BY DEF IInv
<1>1. /\ place[s] = "live" /\ Len(log[s]) < bound.events
      /\ UNCHANGED <<synced, place, journal, db, saved, query, purging, bound>>
  BY DEF Write, counts
<1>2. /\ \A t \in Sessions : t # s => log'[t] = log[t] /\ spent'[t] = spent[t]
      /\ Len(log'[s]) = Len(log[s]) + 1
      /\ \A i \in 1..Len(log[s]) : log'[s][i] = log[s][i]
      /\ spent'[s] = spent[s] \/ spent'[s] = spent[s] \union {Len(log[s]) + 1}
  <2>1. log[s] \in Seq({"created", "called"}) /\ log \in [Sessions -> Seq({"created", "called"})]
    BY <1>0 DEF TypeOK
  <2>2. spent \in [Sessions -> SUBSET Nat]
    BY <1>0 DEF TypeOK
  <2>3. CASE log[s] = << >>
    BY <2>1, <2>3 DEF Write
  <2>4. CASE log[s] # << >>
    <3>1. log' = [log EXCEPT ![s] = Append(log[s], "called")]
      BY <2>4 DEF Write
    <3>2. spent' = [spent EXCEPT ![s] = spent[s] \union {Len(log[s]) + 1}]
      BY <2>4 DEF Write
    <3>3. log'[s] = Append(log[s], "called")
      BY <2>1, <3>1
    <3>4. /\ Len(log'[s]) = Len(log[s]) + 1
          /\ \A i \in 1..Len(log[s]) : log'[s][i] = log[s][i]
      BY <2>1, <3>3
    <3> QED
      BY <2>1, <2>2, <3>1, <3>2, <3>4
  <2> QED
    BY <2>3, <2>4
<1>3. /\ \A t \in Sessions : Len(log[t]) \in Nat /\ synced[t] \in Nat /\ spent[t] \in SUBSET Nat
                             /\ db.mark[t].at \in Nat /\ saved.mark[t].at \in Nat
      /\ bound.events \in Nat
  BY <1>0, Sizes, SpendingLimits DEF DInv
<1>4. \A t \in Sessions : /\ Seen(t) \subseteq Seen(t)' /\ spent[t] \subseteq spent'[t]
                          /\ Len(log[t]) <= Len(log'[t])
  <2> SUFFICES ASSUME NEW t \in Sessions
               PROVE  /\ Seen(t) \subseteq Seen(t)' /\ spent[t] \subseteq spent'[t]
                      /\ Len(log[t]) <= Len(log'[t])
    OBVIOUS
  <2>1. CASE t = s
    BY <1>2, <1>3, <2>1 DEF Seen, Called
  <2>2. CASE t # s
    BY <1>2, <1>3, <2>2 DEF Seen, Called
  <2> QED
    BY <2>1, <2>2
<1>7. bound' \in Bounds /\ LogsAreWhole'
  <2>1. ASSUME NEW t \in Sessions
        PROVE  /\ Len(log'[t]) <= bound'.events
               /\ \A i \in spent'[t] : i >= 1
               /\ log'[t] = << >> \/ spent'[t] \subseteq Seen(t)'
               /\ place'[t] # "live" => synced'[t] = Len(log'[t])
               /\ place'[t] = "gone" => log'[t] = << >>
    <3>1. CASE t = s
      <4>1. spent'[s] \subseteq Seen(s)'
        BY <1>1 DEF IInv, LogsAreSpent, Seen
      <4>2. \A i \in spent'[s] : i >= 1
        BY <1>2, <1>3 DEF DInv, LogsAreWhole
      <4>3. Len(log'[s]) <= bound'.events
        BY <1>1, <1>2, <1>3
      <4> QED
        BY <1>1, <3>1, <4>1, <4>2, <4>3
    <3>2. CASE t # s
      <4>1. Seen(t)' = Seen(t)
        BY <1>2, <3>2 DEF Seen, Called
      <4> QED
        BY <1>1, <1>2, <3>2, <4>1 DEF DInv, LogsAreWhole
    <3> QED
      BY <3>1, <3>2
  <2> QED
    BY <1>1, <2>1 DEF LogsAreWhole, DInv
<1>8. EntriesAreWhole'
  BY <1>1, <1>2, EntriesKept
<1>9. GoneIsEntered'
  <2>1. \A t \in Sessions : spent'[t] \subseteq Seen(t)' \/ Entered(t, Len(journal))'
    <3> SUFFICES ASSUME NEW t \in Sessions
                 PROVE  spent'[t] \subseteq Seen(t)' \/ Entered(t, Len(journal))'
      OBVIOUS
    <3>1. CASE t = s
      BY <1>1, <3>1 DEF IInv, LogsAreSpent, Seen
    <3>2. CASE t # s
      <4>1. spent[t] \subseteq Seen(t) \/ Entered(t, Len(journal))
        BY DEF DInv, GoneIsEntered
      <4>2. spent'[t] = spent[t] /\ Seen(t) \subseteq Seen(t)'
        BY <1>2, <1>4, <3>2
      <4>3. Entered(t, Len(journal))' = Entered(t, Len(journal))
        BY <1>1 DEF Entered
      <4> QED
        BY <4>1, <4>2, <4>3
    <3> QED
      BY <3>1, <3>2
  <2>2. purging # NoSession => spent'[purging] = {} \/ Entered(purging, Len(journal))'
    <3>1. purging # NoSession => purging \in Sessions /\ purging # s
      BY <1>0, <1>1 DEF TypeOK, IInv, DeletedAreRemoved
    <3>2. purging # NoSession => spent[purging] = {} \/ Entered(purging, Len(journal))
      BY DEF DInv, GoneIsEntered
    <3>3. Entered(purging, Len(journal))' = Entered(purging, Len(journal))
      BY <1>1 DEF Entered
    <3> QED
      BY <1>2, <3>1, <3>2, <3>3
  <2> QED
    BY <1>1, <2>1, <2>2 DEF GoneIsEntered
<1> QED
  BY <1>7, <1>8, <1>9 DEF DInv

\* The end of a batch.
LEMMA DInvLand ==
  ASSUME IInv, IInv', DInv, NEW s \in Sessions, NEW indexed \in BOOLEAN, Land(s, indexed)
  PROVE  DInv'
<1>0. TypeOK /\ TypeOK'
  BY DEF IInv
<1>1. /\ place[s] = "live" /\ UNCHANGED <<log, place, journal, saved, query, purging, spent, bound>>
      /\ synced' = [synced EXCEPT ![s] = Len(log[s])]
  BY DEF Land, counts
<1>11. \A t \in Sessions : Seen(t)' = Seen(t)
  BY <1>1 DEF Seen, Called
<1>14. bound' \in Bounds /\ LogsAreWhole'
  BY <1>1, <1>11 DEF DInv, LogsAreWhole
<1>15. EntriesAreWhole'
  BY <1>1, EntriesKept
<1>16. GoneIsEntered'
  BY <1>1, <1>11 DEF DInv, GoneIsEntered, Entered
<1> QED
  BY <1>14, <1>15, <1>16 DEF DInv

\* An entry of the journal: of a call, or the total of a session, perhaps of one that
\* is to be removed.
LEMMA DInvEntry ==
  ASSUME IInv, IInv', DInv, NEW e \in [of : Sessions \union {NoSession}, calls : SUBSET Nat],
         journal' = Append(journal, e), e.of # NoSession => e.calls = spent[e.of],
         UNCHANGED <<disk, bound>>, purging' \in {purging, e.of}
  PROVE  DInv' /\ Continues(journal, journal')
<1>0. TypeOK /\ TypeOK' /\ Len(journal) \in Nat
  BY DEF IInv, TypeOK
<1>1. /\ Continues(journal, journal') /\ Len(journal') = Len(journal) + 1
      /\ journal'[Len(journal')] = e /\ DOMAIN journal' = 1..(Len(journal) + 1)
  BY <1>0, OneMoreEntry
<1>2. EntriesAreWhole'
  <2> SUFFICES ASSUME NEW j \in DOMAIN journal', journal'[j].of # NoSession
               PROVE  journal'[j].calls = spent[journal'[j].of]
    BY DEF EntriesAreWhole, disk
  <2>1. CASE j = Len(journal')
    BY <1>1, <2>1
  <2>2. CASE j # Len(journal')
    <3>1. j \in 1..Len(journal) /\ DOMAIN journal = 1..Len(journal)
      BY <1>0, <1>1, <2>2 DEF TypeOK
    <3>2. journal'[j] = journal[j]
      BY <1>1, <3>1 DEF Continues
    <3> QED
      BY <3>1, <3>2 DEF DInv, EntriesAreWhole
  <2> QED
    BY <2>1, <2>2
<1>3. \A s : Entered(s, Len(journal)) => Entered(s, Len(journal))'
  <2> SUFFICES ASSUME NEW s, Entered(s, Len(journal))
               PROVE  Entered(s, Len(journal))'
    OBVIOUS
  <2>1. PICK j \in 1..Len(journal) : journal[j].of = s
    BY DEF Entered
  <2>2. journal'[j] = journal[j] /\ j \in 1..Len(journal')
    BY <1>0, <1>1 DEF Continues
  <2> QED
    BY <2>1, <2>2 DEF Entered
<1>4. Entered(e.of, Len(journal))'
  BY <1>0, <1>1 DEF Entered
<1>5. GoneIsEntered'
  <2>1. \A s \in Sessions : spent'[s] \subseteq Seen(s)' \/ Entered(s, Len(journal))'
    BY <1>3 DEF DInv, GoneIsEntered, disk, Seen, Called
  <2>2. PICK p : p = purging'
    OBVIOUS
  <2>3. p # NoSession => spent[p] = {} \/ Entered(p, Len(journal))'
    BY <1>3, <1>4, <2>2 DEF DInv, GoneIsEntered
  <2>4. purging' # NoSession => spent'[purging'] = {} \/ Entered(purging, Len(journal))'
    BY <2>2, <2>3 DEF Entered, disk
  <2> QED
    BY <2>1, <2>4 DEF GoneIsEntered
<1> QED
  BY <1>1, <1>2, <1>5, LogsKept DEF DInv

\* Steps that leave the disk as it is: what is removed was entered, if it had anything.
LEMMA DInvQuiet ==
  ASSUME IInv, DInv, UNCHANGED <<disk, journal, bound>>,
         NEW p, p = purging',
         p # NoSession => spent[p] = {} \/ Entered(p, Len(journal))
  PROVE  DInv'
<1>1. EntriesAreWhole'
  BY EntriesKept DEF disk
<1>2. purging' # NoSession => spent'[purging'] = {} \/ Entered(purging, Len(journal))'
  BY DEF Entered, disk
<1>3. \A s \in Sessions : spent'[s] \subseteq Seen(s)' \/ Entered(s, Len(journal))'
  BY DEF DInv, GoneIsEntered, disk, Seen, Called, Entered
<1> QED
  BY <1>1, <1>2, <1>3, LogsKept DEF DInv, GoneIsEntered

\* The total of a session that is to be removed.
LEMMA DInvKeepUsage ==
  ASSUME IInv, IInv', DInv, NEW s \in Sessions, KeepUsage(s)
  PROVE  DInv' /\ Continues(journal, journal')
<1> DEFINE calls == Seen(s)
           e == [of |-> s, calls |-> calls]
<1>1. UNCHANGED <<disk, bound>> /\ TypeOK
  BY DEF KeepUsage, counts, IInv
<1>2. \/ UNCHANGED <<journal, purging>>
      \/ purging' = s /\ journal' = IF calls = {} THEN journal ELSE Append(journal, e)
  BY DEF KeepUsage, Seen
<1>3. CASE UNCHANGED <<journal, purging>>
  <2>1. PICK p : p = purging'
    OBVIOUS
  <2>2. p # NoSession => spent[p] = {} \/ Entered(p, Len(journal))
    BY <1>3, <2>1 DEF DInv, GoneIsEntered
  <2> QED
    BY <1>1, <1>3, <2>1, <2>2, DInvQuiet, SameJournal
<1>4. CASE purging' = s /\ calls = {} /\ journal' = journal
  <2>1. spent[s] = {} \/ Entered(s, Len(journal))
    BY <1>4 DEF DInv, GoneIsEntered
  <2> QED
    BY <1>1, <1>4, <2>1, DInvQuiet, SameJournal
<1>5. CASE purging' = s /\ calls # {} /\ journal' = Append(journal, e)
  <2>1. calls = spent[s]
    <3>1. calls \subseteq spent[s]
      BY DEF IInv, LogsAreSpent, Seen
    <3>2. log[s] # << >>
      <4>1. log[s] = << >> => Len(log[s]) = 0
        OBVIOUS
      <4> QED
        BY <1>5, <4>1 DEF Seen, Called
    <3> QED
      BY <3>1, <3>2 DEF DInv, LogsAreWhole
  <2>2. /\ e \in [of : Sessions \union {NoSession}, calls : SUBSET Nat]
        /\ e.of = s /\ e.calls = spent[s]
    BY <1>1, <2>1 DEF TypeOK
  <2> HIDE DEF e, calls
  <2> QED
    BY <1>1, <1>5, <2>2, DInvEntry
<1> QED
  BY <1>2, <1>3, <1>4, <1>5

\* What a deletion and a removal do: one session is disturbed, its log stays as it is
\* or is gone altogether.
LEMMA Disturbs ==
  ASSUME IInv, DInv, OneSegment,
         (\E s \in Sessions : Discard(s)) \/ RemoveSome \/ Removed
  PROVE  \E t \in Sessions :
        /\ query' = Disturbed(t) /\ UNCHANGED <<journal, db, saved, spent, bound>>
        /\ \A s \in Sessions : s # t => /\ log'[s] = log[s] /\ place'[s] = place[s]
                                        /\ synced'[s] = synced[s]
        /\ place'[t] # "live" /\ synced'[t] = Len(log'[t])
        /\ place'[t] = "gone" => log'[t] = << >>
        /\ \/ log'[t] = log[t]
           \/ log'[t] = << >> /\ (spent[t] = {} \/ Entered(t, Len(journal)))
        /\ purging' \in {purging, NoSession}
<1>0. /\ TypeOK /\ bound \in Bounds
      /\ \A s \in Sessions : Len(log[s]) \in Nat /\ synced[s] \in Nat
  BY Sizes DEF IInv, DInv
<1>1. CASE \E s \in Sessions : Discard(s)
  <2>1. PICK t \in Sessions : Discard(t)
    BY <1>1
  <2>2. /\ query' = Disturbed(t)
        /\ UNCHANGED <<log, synced, journal, db, saved, spent, bound, purging>>
        /\ synced[t] = Len(log[t]) /\ place' = [place EXCEPT ![t] = "trash"]
    BY <2>1 DEF Discard, counts
  <2>3. place'[t] = "trash" /\ \A s \in Sessions : s # t => place'[s] = place[s]
    BY <1>0, <2>2 DEF TypeOK
  <2> QED
    BY <2>2, <2>3
<1>2. CASE RemoveSome
  <2> DEFINE t == purging
  <2>1. /\ t \in Sessions /\ place[t] # "live"
        /\ spent[t] = {} \/ Entered(t, Len(journal))
    BY <1>0, <1>2 DEF RemoveSome, TypeOK, IInv, DeletedAreRemoved, DInv, GoneIsEntered
  <2>2. /\ query' = Disturbed(t)
        /\ UNCHANGED <<place, journal, db, saved, spent, bound, purging>>
    BY <1>2 DEF RemoveSome, counts
  <2>3. /\ Len(log[t]) <= bound.events /\ synced[t] = Len(log[t])
        /\ place[t] = "gone" => log[t] = << >>
    BY <2>1 DEF DInv, LogsAreWhole
  <2>4. \/ UNCHANGED <<log, synced>>
        \/ \E n \in 0..Len(log[t]) - 1 :
             /\ n % SegmentLimit = 0
             /\ log' = [log EXCEPT ![t] = SubSeq(@, 1, n)]
             /\ synced' = [synced EXCEPT ![t] = n]
    BY <1>2 DEF RemoveSome
  <2>5. CASE UNCHANGED <<log, synced>>
    BY <2>1, <2>2, <2>3, <2>5
  <2>6. ASSUME NEW n \in 0..Len(log[t]) - 1, n % SegmentLimit = 0,
               log' = [log EXCEPT ![t] = SubSeq(@, 1, n)],
               synced' = [synced EXCEPT ![t] = n]
        PROVE  /\ log'[t] = << >> /\ synced'[t] = Len(log'[t])
               /\ \A s \in Sessions : s # t => log'[s] = log[s] /\ synced'[s] = synced[s]
    <3>1. bound.events \in Nat /\ SegmentLimit \in Nat \ {0} /\ bound.events <= SegmentLimit
      BY <1>0, SpendingLimits DEF OneSegment
    <3>2. n \in 0..(SegmentLimit - 1)
      BY <1>0, <2>1, <2>3, <2>6, <3>1
    <3>3. n = 0
      BY <2>6, <3>1, <3>2
    <3>4. log[t] \in Seq({"created", "called"}) /\ log \in [Sessions -> Seq({"created", "called"})]
      BY <1>0, <2>1 DEF TypeOK
    <3>5. SubSeq(log[t], 1, 0) = << >> /\ Len(<< >>) = 0
      BY <3>4
    <3>6. log'[t] = << >> /\ \A s \in Sessions : s # t => log'[s] = log[s]
      BY <2>1, <2>6, <3>3, <3>4, <3>5
    <3>7. synced'[t] = 0 /\ \A s \in Sessions : s # t => synced'[s] = synced[s]
      BY <1>0, <2>1, <2>6, <3>3 DEF TypeOK
    <3> QED
      BY <3>5, <3>6, <3>7
  <2> QED
    BY <2>1, <2>2, <2>4, <2>5, <2>6
<1>3. CASE Removed
  <2> DEFINE t == purging
  <2>1. /\ t \in Sessions
        /\ spent[t] = {} \/ Entered(t, Len(journal))
    BY <1>0, <1>3 DEF Removed, TypeOK, DInv, GoneIsEntered
  <2>2. /\ query' = Disturbed(t) /\ UNCHANGED <<journal, db, saved, spent, bound>>
        /\ purging' = NoSession
        /\ place' = [place EXCEPT ![t] = "gone"] /\ log' = [log EXCEPT ![t] = << >>]
        /\ synced' = [synced EXCEPT ![t] = 0]
    BY <1>3 DEF Removed, counts
  <2>3. /\ place'[t] = "gone" /\ log'[t] = << >> /\ synced'[t] = 0
        /\ \A s \in Sessions : s # t => /\ log'[s] = log[s] /\ place'[s] = place[s]
                                        /\ synced'[s] = synced[s]
    BY <1>0, <2>1, <2>2 DEF TypeOK
  <2>4. Len(log'[t]) = 0
    BY <2>3
  <2>5. synced'[t] = Len(log'[t]) /\ place'[t] # "live" /\ purging' \in {purging, NoSession}
    BY <2>2, <2>3, <2>4
  <2> HIDE DEF t
  <2> QED
    BY <2>1, <2>2, <2>3, <2>5
<1> QED
  BY <1>1, <1>2, <1>3

\* A session that is deleted, and a directory that goes.
LEMMA DInvDisturb ==
  ASSUME IInv, IInv', DInv, OneSegment,
         (\E s \in Sessions : Discard(s)) \/ RemoveSome \/ Removed
  PROVE  DInv'
<1>0. /\ TypeOK /\ TypeOK' /\ bound \in Bounds
      /\ \A s \in Sessions : Len(log[s]) \in Nat /\ synced[s] \in Nat
  BY Sizes DEF IInv, DInv
<1>1. PICK t \in Sessions :
        /\ query' = Disturbed(t) /\ UNCHANGED <<journal, db, saved, spent, bound>>
        /\ \A s \in Sessions : s # t => /\ log'[s] = log[s] /\ place'[s] = place[s]
                                        /\ synced'[s] = synced[s]
        /\ place'[t] # "live" /\ synced'[t] = Len(log'[t])
        /\ place'[t] = "gone" => log'[t] = << >>
        /\ \/ log'[t] = log[t]
           \/ log'[t] = << >> /\ (spent[t] = {} \/ Entered(t, Len(journal)))
        /\ purging' \in {purging, NoSession}
  BY Disturbs
<1>2. \A s \in Sessions : s # t => Seen(s)' = Seen(s)
  BY <1>1 DEF Seen, Called
<1>3. log'[t] = log[t] => Seen(t)' = Seen(t)
  BY DEF Seen, Called
<1>4. \A s : Entered(s, Len(journal))' = Entered(s, Len(journal))
  BY <1>1 DEF Entered
<1>6. bound' \in Bounds /\ LogsAreWhole'
  <2>1. ASSUME NEW s \in Sessions
        PROVE  /\ Len(log'[s]) <= bound'.events
               /\ \A i \in spent'[s] : i >= 1
               /\ log'[s] = << >> \/ spent'[s] \subseteq Seen(s)'
               /\ place'[s] # "live" => synced'[s] = Len(log'[s])
               /\ place'[s] = "gone" => log'[s] = << >>
    <3>0. bound.events \in Nat /\ Len(<< >>) = 0
      BY <1>0, SpendingLimits
    <3>1. CASE s # t
      BY <1>1, <1>2, <3>1 DEF DInv, LogsAreWhole
    <3>2. CASE s = t /\ log'[t] = log[t]
      BY <1>1, <1>3, <3>2 DEF DInv, LogsAreWhole
    <3>3. CASE s = t /\ log'[t] = << >>
      BY <1>1, <3>0, <3>3 DEF DInv, LogsAreWhole
    <3> QED
      BY <1>1, <3>1, <3>2, <3>3
  <2> QED
    BY <1>0, <1>1, <2>1 DEF LogsAreWhole
<1>7. EntriesAreWhole'
  BY <1>1, EntriesKept
<1>8. GoneIsEntered'
  <2>1. ASSUME NEW s \in Sessions
        PROVE  spent'[s] \subseteq Seen(s)' \/ Entered(s, Len(journal))'
    <3>1. spent[s] \subseteq Seen(s) \/ Entered(s, Len(journal))
      BY DEF DInv, GoneIsEntered
    <3>2. CASE s # t \/ log'[t] = log[t]
      BY <1>1, <1>2, <1>3, <1>4, <3>1, <3>2
    <3>3. CASE s = t /\ (spent[t] = {} \/ Entered(t, Len(journal)))
      BY <1>1, <1>4, <3>3
    <3> QED
      BY <1>1, <3>2, <3>3
  <2>2. purging' # NoSession => spent'[purging'] = {} \/ Entered(purging, Len(journal))'
    <3>1. purging' # NoSession => purging' = purging
      BY <1>1
    <3>2. purging # NoSession => spent[purging] = {} \/ Entered(purging, Len(journal))
      BY DEF DInv, GoneIsEntered
    <3> QED
      BY <1>1, <3>1, <3>2 DEF Entered
  <2> QED
    BY <2>1, <2>2 DEF GoneIsEntered
<1> QED
  BY <1>6, <1>7, <1>8 DEF DInv

\* What a crash leaves of the logs, and that a database that goes on has no mark behind it.
LEMMA WhatIsLeft ==
  ASSUME IInv, DInv, Killed \/ PowerFails
  PROVE  /\ \A s \in Sessions : /\ synced[s] <= synced'[s] /\ synced'[s] = Len(log'[s])
                                /\ Len(log'[s]) <= bound.events
                                /\ spent'[s] \subseteq spent[s]
                                /\ place[s] # "live" => log'[s] = log[s] /\ spent'[s] = spent[s]
         /\ \/ db' \in {saved, EmptyDb}
            \/ db' = db /\ log' = log
<1>0. TypeOK
  BY DEF IInv
<1>1. /\ UNCHANGED <<place, journal, bound>> /\ purging' = NoSession
      /\ query' = [q \in Queries |-> Idle]
      /\ db' \in {db, saved, EmptyDb} /\ saved' \in {saved, EmptyDb}
  BY DEF Killed, PowerFails, Restarted
<1>2. /\ \A s \in Sessions : /\ Len(log[s]) \in Nat /\ synced[s] \in Nat /\ spent[s] \in SUBSET Nat
                             /\ db.mark[s].at \in Nat /\ saved.mark[s].at \in Nat
                             /\ synced[s] <= Len(log[s])
      /\ bound \in Bounds /\ bound.events \in Nat
  BY <1>0, Sizes, SpendingLimits DEF DInv, IInv, LogsAreSpent
<1>3. CASE Killed
  <2>1. log' = log /\ spent' = spent /\ synced' = [s \in Sessions |-> Len(log[s])]
    BY <1>3 DEF Killed
  <2>2. \A s \in Sessions : Len(log[s]) <= bound.events
    BY DEF DInv, LogsAreWhole
  <2> QED
    BY <1>1, <1>2, <2>1, <2>2
<1>4. CASE PowerFails
  <2>1. PICK kept \in [Sessions -> 0..bound.events] :
          /\ \A s \in Sessions : kept[s] \in synced[s]..Len(log[s])
          /\ synced' = kept
          /\ log' = [s \in Sessions |-> SubSeq(log[s], 1, kept[s])]
          /\ spent' = [s \in Sessions |->
               IF place[s] = "live" THEN Called(s, 0, kept[s]) ELSE spent[s]]
    BY <1>4 DEF PowerFails
  <2>2. db' \in {saved, EmptyDb}
    BY <1>4 DEF PowerFails, Restarted
  <2>3. ASSUME NEW s \in Sessions
        PROVE  /\ synced[s] <= synced'[s] /\ synced'[s] = Len(log'[s])
               /\ Len(log'[s]) <= bound.events
               /\ spent'[s] \subseteq spent[s]
               /\ place[s] # "live" => log'[s] = log[s] /\ spent'[s] = spent[s]
    <3>1. kept[s] \in synced[s]..Len(log[s]) /\ kept[s] \in 0..bound.events
      BY <2>1
    <3>2. log[s] \in Seq({"created", "called"}) /\ log'[s] = SubSeq(log[s], 1, kept[s])
      BY <1>0, <2>1 DEF TypeOK
    <3>3. Len(log'[s]) = kept[s]
      BY <1>2, <3>1, <3>2
    <3>4. Called(s, 0, kept[s]) \subseteq spent[s]
      <4>1. Called(s, 0, kept[s]) \subseteq Called(s, 0, Len(log[s]))
        BY <1>2, <3>1 DEF Called
      <4> QED
        BY <4>1 DEF IInv, LogsAreSpent
    <3>5. place[s] # "live" => kept[s] = Len(log[s])
      BY <1>2, <3>1 DEF DInv, LogsAreWhole
    <3>6. SubSeq(log[s], 1, Len(log[s])) = log[s]
      BY <3>2
    <3> QED
      BY <1>2, <2>1, <3>1, <3>2, <3>3, <3>4, <3>5, <3>6
  <2> QED
    BY <2>2, <2>3
<1> QED
  BY <1>3, <1>4

\* The end of the process.
LEMMA DInvCrash ==
  ASSUME IInv, IInv', DInv, Killed \/ PowerFails
  PROVE  DInv'
<1>0. TypeOK /\ TypeOK'
  BY DEF IInv
<1>1. /\ UNCHANGED <<place, journal, bound>> /\ purging' = NoSession
      /\ query' = [q \in Queries |-> Idle]
      /\ db' \in {db, saved, EmptyDb} /\ saved' \in {saved, EmptyDb}
  BY DEF Killed, PowerFails, Restarted
<1>2. /\ \A s \in Sessions : /\ Len(log[s]) \in Nat /\ synced[s] \in Nat /\ spent[s] \in SUBSET Nat
                             /\ db.mark[s].at \in Nat /\ saved.mark[s].at \in Nat
                             /\ synced[s] <= Len(log[s])
      /\ bound \in Bounds /\ bound.events \in Nat
  BY <1>0, Sizes, SpendingLimits DEF DInv, IInv, LogsAreSpent
<1>3. /\ \A s \in Sessions : /\ synced[s] <= synced'[s] /\ synced'[s] = Len(log'[s])
                             /\ Len(log'[s]) <= bound.events
                             /\ spent'[s] \subseteq spent[s]
                             /\ place[s] # "live" => log'[s] = log[s] /\ spent'[s] = spent[s]
      /\ \/ db' \in {saved, EmptyDb}
         \/ db' = db /\ log' = log
  BY WhatIsLeft
<1>4. \A s \in Sessions : place[s] = "live" => spent'[s] \subseteq Seen(s)'
  BY <1>1 DEF IInv, LogsAreSpent, Seen
<1>5. \A s \in Sessions : place[s] # "live" => Seen(s)' = Seen(s)
  BY <1>3 DEF Seen, Called
<1>7. bound' \in Bounds /\ LogsAreWhole'
  <2>1. ASSUME NEW s \in Sessions
        PROVE  /\ Len(log'[s]) <= bound.events
               /\ \A i \in spent'[s] : i >= 1
               /\ log'[s] = << >> \/ spent'[s] \subseteq Seen(s)'
               /\ place[s] # "live" => synced'[s] = Len(log'[s])
               /\ place[s] = "gone" => log'[s] = << >>
    BY <1>3, <1>4, <1>5 DEF DInv, LogsAreWhole
  <2> QED
    BY <1>1, <1>2, <2>1 DEF LogsAreWhole
<1>8. EntriesAreWhole'
  BY <1>1, <1>3, EntriesKept
<1>9. GoneIsEntered'
  <2>1. ASSUME NEW s \in Sessions
        PROVE  spent'[s] \subseteq Seen(s)' \/ Entered(s, Len(journal))'
    <3>1. spent[s] \subseteq Seen(s) \/ Entered(s, Len(journal))
      BY DEF DInv, GoneIsEntered
    <3> QED
      BY <1>1, <1>3, <1>4, <1>5, <3>1 DEF Entered
  <2> QED
    BY <1>1, <2>1 DEF GoneIsEntered
<1> QED
  BY <1>7, <1>8, <1>9 DEF DInv

\* Every step keeps what is true of logs and journal, whatever queries and databases do.
LEMMA DInvStep ==
  ASSUME IInv, IInv', DInv, OneSegment, [Next]_vars
  PROVE  DInv'
<1>1. CASE UNCHANGED <<disk, journal, bound>> /\ purging' \in {purging, NoSession}
  <2>1. PICK p : p = purging'
    OBVIOUS
  <2>2. p # NoSession => spent[p] = {} \/ Entered(p, Len(journal))
    BY <1>1, <2>1 DEF DInv, GoneIsEntered
  <2> QED
    BY <1>1, <2>1, <2>2, DInvQuiet
<1>2. CASE OneShot
  <2> DEFINE e == [of |-> NoSession, calls |-> {}]
  <2>1. /\ e \in [of : Sessions \union {NoSession}, calls : SUBSET Nat] /\ e.of = NoSession
        /\ journal' = Append(journal, e) /\ UNCHANGED <<disk, purging, bound>>
    BY <1>2 DEF OneShot, counts
  <2> HIDE DEF e
  <2> QED
    BY <2>1, DInvEntry
<1>3. CASE UNCHANGED vars
  <2>1. UNCHANGED <<disk, journal, bound>> /\ purging' = purging
    BY <1>3 DEF vars, disk
  <2> QED
    BY <1>1, <2>1
<1>4. CASE \E s \in Sessions : Write(s) \/ KeepUsage(s) \/ \E indexed \in BOOLEAN : Land(s, indexed)
  BY <1>4, DInvWrite, DInvKeepUsage, DInvLand
<1>5. CASE (\E s \in Sessions : Discard(s)) \/ RemoveSome \/ Removed
  BY <1>5, DInvDisturb
<1>6. CASE Killed \/ PowerFails
  BY <1>6, DInvCrash
<1>7. CASE RemoveFails \/ Checkpoint
  <2>1. UNCHANGED <<disk, journal, bound>> /\ purging' \in {purging, NoSession}
    BY <1>7 DEF RemoveFails, Checkpoint, counts
  <2> QED
    BY <1>1, <2>1
<1>8. CASE \E j \in DOMAIN journal, indexed \in BOOLEAN : OneShotRow(j, indexed)
  <2>1. UNCHANGED <<disk, journal, bound>> /\ purging' \in {purging, NoSession}
    BY <1>8 DEF OneShotRow, counts
  <2> QED
    BY <1>1, <2>1
<1>9. CASE \E q \in Queries : \/ Begin(q) \/ ReadJournal(q) \/ TakeJournal(q) \/ ReadDir(q)
                               \/ WriteDir(q) \/ AddUp(q) \/ Broken(q)
                               \/ \E s \in Sessions : BeginOne(q, s)
  <2>1. UNCHANGED <<disk, journal, bound>> /\ purging' \in {purging, NoSession}
    BY <1>9 DEF Begin, ReadJournal, TakeJournal, ReadDir, WriteDir, AddUp, Broken, BeginOne, counts
  <2> QED
    BY <1>1, <2>1
<1> QED
  BY <1>2, <1>3, <1>4, <1>5, <1>6, <1>7, <1>8, <1>9 DEF Next

(***************************************************************************)
(* Databases and queries, step by step.                                    *)
(***************************************************************************)
\* A line of a batch.
LEMMA FInvWrite ==
  ASSUME IInv, IInv', FInv, DInv', NEW s \in Sessions, Write(s)
  PROVE  FInv'
<1>0. TypeOK /\ TypeOK'
  BY DEF IInv
<1>1. /\ place[s] = "live" /\ Len(log[s]) < bound.events
      /\ UNCHANGED <<synced, place, journal, db, saved, query, purging, bound>>
  BY DEF Write, counts
<1>2. /\ \A t \in Sessions : t # s => log'[t] = log[t] /\ spent'[t] = spent[t]
      /\ Len(log'[s]) = Len(log[s]) + 1
      /\ \A i \in 1..Len(log[s]) : log'[s][i] = log[s][i]
      /\ spent'[s] = spent[s] \/ spent'[s] = spent[s] \union {Len(log[s]) + 1}
  <2>1. log[s] \in Seq({"created", "called"}) /\ log \in [Sessions -> Seq({"created", "called"})]
    BY <1>0 DEF TypeOK
  <2>2. spent \in [Sessions -> SUBSET Nat]
    BY <1>0 DEF TypeOK
  <2>3. CASE log[s] = << >>
    BY <2>1, <2>3 DEF Write
  <2>4. CASE log[s] # << >>
    <3>1. log' = [log EXCEPT ![s] = Append(log[s], "called")]
      BY <2>4 DEF Write
    <3>2. spent' = [spent EXCEPT ![s] = spent[s] \union {Len(log[s]) + 1}]
      BY <2>4 DEF Write
    <3>3. log'[s] = Append(log[s], "called")
      BY <2>1, <3>1
    <3>4. /\ Len(log'[s]) = Len(log[s]) + 1
          /\ \A i \in 1..Len(log[s]) : log'[s][i] = log[s][i]
      BY <2>1, <3>3
    <3> QED
      BY <2>1, <2>2, <3>1, <3>2, <3>4
  <2> QED
    BY <2>3, <2>4
<1>3. /\ \A t \in Sessions : Len(log[t]) \in Nat /\ synced[t] \in Nat /\ spent[t] \in SUBSET Nat
                             /\ db.mark[t].at \in Nat /\ saved.mark[t].at \in Nat
      /\ bound.events \in Nat
  BY <1>0, Sizes, SpendingLimits DEF FInv, DInv
<1>4. \A t \in Sessions : /\ Seen(t) \subseteq Seen(t)' /\ spent[t] \subseteq spent'[t]
                          /\ Len(log[t]) <= Len(log'[t])
  <2> SUFFICES ASSUME NEW t \in Sessions
               PROVE  /\ Seen(t) \subseteq Seen(t)' /\ spent[t] \subseteq spent'[t]
                      /\ Len(log[t]) <= Len(log'[t])
    OBVIOUS
  <2>1. CASE t = s
    BY <1>2, <1>3, <2>1 DEF Seen, Called
  <2>2. CASE t # s
    BY <1>2, <1>3, <2>2 DEF Seen, Called
  <2> QED
    BY <2>1, <2>2
<1>5. \A t \in Sessions : \A i \in spent'[t] :
        i \in spent[t] \/ (place[t] = "live" /\ i > Len(log[t]))
  BY <1>1, <1>2, <1>3
<1>6. \A q \in Queries : KeepsWord(query[q], db)'
  <2>1. Continues(journal, journal') /\ CountsMore(db, db')
    BY <1>0, <1>1, SameJournal, SameCounts
  <2> QED
    BY <1>0, <1>1, <1>4, <1>5, <2>1, WordsKept
<1>10. MarksFit'
  <2>1. \A t \in Sessions : synced[t] <= synced'[t]
    BY <1>1, <1>3
  <2> QED
    BY <1>0, <1>1, <1>4, <2>1, MarksKept
<1>11. ASSUME NEW d \in Db, CountsUpTo(d, spent, journal), Sound(d),
              d.mark[s].at <= Len(log[s])
       PROVE  CountsUpTo(d, spent', journal)
  <2>1. \A t \in Sessions : d.mark[t].purged => spent'[t] = spent[t]
    BY <1>1, <1>2, <1>11 DEF Sound, SoundFor
  <2>2. \A t \in Sessions : \A i \in spent'[t] : i <= d.mark[t].at => i \in spent[t]
    <3>1. d.mark[s].at \in Nat
      BY DEF Db
    <3> QED
      BY <1>2, <1>3, <1>11, <3>1
  <2>3. PICK sent, more : sent = spent /\ more = spent'
    OBVIOUS
  <2>4. CountsUpTo(d, more, journal)
    BY <1>11, <2>1, <2>2, <2>3, MoreSent
  <2> QED
    BY <2>3, <2>4
<1>12. CountsUpTo(db, spent, journal)' /\ CountsUpTo(saved, spent, journal)'
  <2>1. db.mark[s].at <= Len(log[s])
    BY <1>1 DEF FInv, MarksFit
  <2>2. saved.mark[s].at <= Len(log[s])
    <3>1. saved.mark[s].at <= synced[s] /\ synced[s] <= Len(log[s])
      BY <1>1 DEF FInv, MarksFit, IInv, LogsAreSpent
    <3> QED
      BY <1>3, <3>1
  <2>3. CountsUpTo(db, spent', journal) /\ CountsUpTo(saved, spent', journal)
    BY <1>0, <1>11, <2>1, <2>2 DEF TypeOK, FInv, IInv
  <2> QED
    BY <1>1, <2>3
<1> QED
  BY <1>6, <1>10, <1>12 DEF FInv

\* The end of a batch.
LEMMA FInvLand ==
  ASSUME IInv, IInv', FInv, DInv', NEW s \in Sessions, NEW indexed \in BOOLEAN, Land(s, indexed)
  PROVE  FInv'
<1>0. TypeOK /\ TypeOK'
  BY DEF IInv
<1>1. /\ place[s] = "live" /\ UNCHANGED <<log, place, journal, saved, query, purging, spent, bound>>
      /\ synced' = [synced EXCEPT ![s] = Len(log[s])]
  BY DEF Land, counts
<1>2. \A t \in Sessions : /\ Len(log[t]) \in Nat /\ synced[t] \in Nat /\ spent[t] \in SUBSET Nat
                          /\ db.mark[t].at \in Nat /\ saved.mark[t].at \in Nat
                          /\ synced[t] <= Len(log[t])
  BY <1>0, Sizes DEF IInv, LogsAreSpent
<1> DEFINE calls == Called(s, synced[s], Len(log[s]))
           a == Advance(db, s, synced[s], calls, Len(log[s]))
<1>3. \A i \in spent[s] : i <= Len(log[s]) => i <= synced[s] \/ i \in calls
  <2>1. spent[s] \subseteq Called(s, 0, Len(log[s]))
    BY <1>1 DEF IInv, LogsAreSpent
  <2> QED
    BY <1>2, <2>1 DEF Called
<1>4. calls \in SUBSET Nat
  BY <1>2, CalledType
<1>5. db \in Db /\ CountsUpTo(db, spent, journal)
  BY <1>0 DEF TypeOK, FInv
<1>6. db' = db \/ db' = a
  BY DEF Land
<1> HIDE DEF calls
<1>7. CountsUpTo(a, spent, journal) /\ CountsMore(db, a)
  BY <1>2, <1>3, <1>4, <1>5, AdvanceCounts
<1>8. \A t \in Sessions : a.mark[t].at = db.mark[t].at \/ (t = s /\ a.mark[t].at = Len(log[s]))
  <2>1. a.mark = [db.mark EXCEPT ![s] = Moved(@, synced[s], Len(log[s]))]
    BY <1>5 DEF Advance, Insert, Db
  <2>2. db.mark \in [Sessions -> [at : Nat, purged : BOOLEAN]]
    BY <1>5 DEF Db
  <2> QED
    BY <2>1, <2>2 DEF Moved
<1> HIDE DEF a
<1>9. CountsUpTo(db, spent, journal)' /\ CountsUpTo(saved, spent, journal)' /\ CountsMore(db, db')
  <2>1. CountsUpTo(db', spent, journal) /\ CountsMore(db, db')
    BY <1>5, <1>6, <1>7, SameCounts
  <2>2. CountsUpTo(saved, spent, journal)
    BY DEF FInv
  <2> QED
    BY <1>1, <2>1, <2>2
<1>10. MarksFit'
  <2> SUFFICES ASSUME NEW t \in Sessions, place[t] = "live"
               PROVE  db'.mark[t].at <= Len(log[t]) /\ saved.mark[t].at <= synced'[t]
    BY <1>1 DEF MarksFit
  <2>1. db.mark[t].at <= Len(log[t]) /\ saved.mark[t].at <= synced[t]
    BY DEF FInv, MarksFit
  <2>2. synced[t] <= synced'[t] /\ synced'[t] \in Nat
    BY <1>0, <1>1, <1>2 DEF TypeOK
  <2>3. db'.mark[t].at <= Len(log[t])
    BY <1>2, <1>6, <1>8, <2>1
  <2> QED
    BY <1>2, <2>1, <2>2, <2>3
<1>11. \A t \in Sessions : Seen(t)' = Seen(t)
  BY <1>1 DEF Seen, Called
<1>12. Continues(journal, journal')
  BY <1>0, <1>1, SameJournal
<1>13. \A q \in Queries : KeepsWord(query[q], db)'
  <2>1. \A t \in Sessions : Len(log[t]) <= Len(log'[t])
    BY <1>1, <1>2
  <2> QED
    BY <1>0, <1>1, <1>9, <1>11, <1>12, <2>1, WordsKept
<1> QED
  BY <1>9, <1>10, <1>13 DEF FInv

\* Steps that leave alone what queries and databases are about.
LEMMA FInvSame ==
  ASSUME IInv, IInv', FInv, DInv', Continues(journal, journal'),
         UNCHANGED <<disk, db, saved, query>>
  PROVE  FInv'
<1>0. TypeOK /\ TypeOK'
  BY DEF IInv
<1>1. \A s \in Sessions : /\ Len(log[s]) \in Nat /\ synced[s] \in Nat
                          /\ Len(log'[s]) = Len(log[s]) /\ synced'[s] = synced[s]
                          /\ place'[s] = place[s] /\ Seen(s)' = Seen(s)
  BY <1>0, Sizes DEF disk, Seen, Called
<1>2. MarksFit'
  BY <1>0, <1>1, MarksKept
<1>3. CountsUpTo(db, spent, journal)' /\ CountsUpTo(saved, spent, journal)'
  BY <1>0, CountsKept DEF disk
<1>4. \A q \in Queries : KeepsWord(query[q], db)'
  <2>1. CountsMore(db, db')
    BY SameCounts
  <2>2. /\ UNCHANGED <<query, place>>
        /\ \A s \in Sessions : \A i \in spent'[s] : i \in spent[s]
        /\ \A s \in Sessions : spent[s] \subseteq spent'[s]
    BY DEF disk
  <2> QED
    BY <1>0, <1>1, <2>1, <2>2, WordsKept
<1> QED
  BY <1>2, <1>3, <1>4 DEF FInv

\* The row of a call outside sessions.
LEMMA FInvRow ==
  ASSUME IInv, IInv', FInv, DInv', NEW j, NEW indexed \in BOOLEAN, OneShotRow(j, indexed)
  PROVE  FInv'
<1>0. TypeOK /\ TypeOK'
  BY DEF IInv
<1>2. /\ UNCHANGED <<disk, journal, saved, query, purging, bound>>
      /\ db' = db \/ db' = [db EXCEPT !.shots = @ \union {j}]
  BY DEF OneShotRow, counts
<1>3. db \in Db /\ CountsUpTo(db, spent, journal) /\ CountsUpTo(saved, spent, journal)
  BY <1>0 DEF TypeOK, FInv
<1>4. CountsUpTo(db', spent, journal) /\ CountsMore(db, db')
  <2>1. CASE db' = db
    BY <1>3, <2>1, SameCounts
  <2>2. CASE db' = [db EXCEPT !.shots = @ \union {j}]
    <3>1. PICK e : e = [db EXCEPT !.shots = @ \union {j}]
      OBVIOUS
    <3>2. CountsUpTo(e, spent, journal) /\ CountsMore(db, e)
      BY <1>3, <3>1, ShotCounts
    <3> QED
      BY <2>2, <3>1, <3>2
  <2> QED
    BY <1>2, <2>1, <2>2
<1>5. CountsUpTo(db, spent, journal)' /\ CountsUpTo(saved, spent, journal)'
  BY <1>2, <1>3, <1>4 DEF disk
<1>6. MarksFit'
  <2>1. db'.mark = db.mark
    BY <1>2, <1>3 DEF Db
  <2> QED
    BY <1>2, <2>1 DEF FInv, MarksFit, disk
<1>7. Continues(journal, journal')
  BY <1>0, <1>2, SameJournal
<1>8. \A s \in Sessions : /\ Len(log[s]) \in Nat /\ Len(log'[s]) = Len(log[s])
                          /\ Seen(s)' = Seen(s) /\ spent'[s] = spent[s]
  BY <1>0, <1>2, Sizes DEF disk, Seen, Called
<1>9. \A q \in Queries : KeepsWord(query[q], db)'
  <2>1. UNCHANGED <<query, place>>
    BY <1>2 DEF disk
  <2> QED
    BY <1>0, <1>4, <1>7, <1>8, <2>1, WordsKept
<1> QED
  BY <1>5, <1>6, <1>9 DEF FInv

\* Updates that reach the disk.
LEMMA FInvCheckpoint ==
  ASSUME IInv, IInv', FInv, DInv', Checkpoint
  PROVE  FInv'
<1>0. TypeOK /\ TypeOK'
  BY DEF IInv
<1>1. /\ UNCHANGED <<disk, journal, db, query>> /\ saved' = db
      /\ \A s \in Sessions : synced[s] = Len(log[s])
  BY DEF Checkpoint
<1>2. Continues(journal, journal') /\ CountsMore(db, db')
  BY <1>0, <1>1, SameJournal, SameCounts
<1>3. \A t \in Sessions : /\ Len(log[t]) \in Nat /\ Len(log'[t]) = Len(log[t])
                          /\ Seen(t)' = Seen(t) /\ spent'[t] = spent[t] /\ place'[t] = place[t]
  BY <1>0, <1>1, Sizes DEF disk, Seen, Called
<1>4. \A q \in Queries : KeepsWord(query[q], db)'
  <2>1. UNCHANGED <<query, place>>
    BY <1>1 DEF disk
  <2> QED
    BY <1>0, <1>2, <1>3, <2>1, WordsKept
<1>5. CountsUpTo(db, spent, journal)' /\ CountsUpTo(saved, spent, journal)'
  BY <1>1 DEF FInv, disk
<1>6. MarksFit'
  BY <1>1 DEF FInv, MarksFit, disk
<1> QED
  BY <1>4, <1>5, <1>6 DEF FInv

\* A session that is deleted, and a directory that goes.
LEMMA FInvDisturb ==
  ASSUME IInv, IInv', FInv, DInv', OneSegment,
         (\E s \in Sessions : Discard(s)) \/ RemoveSome \/ Removed
  PROVE  FInv'
<1>0. /\ TypeOK /\ TypeOK' /\ bound \in Bounds
      /\ \A s \in Sessions : Len(log[s]) \in Nat /\ synced[s] \in Nat
  BY Sizes DEF IInv, FInv, DInv
<1>1. PICK t \in Sessions :
        /\ query' = Disturbed(t) /\ UNCHANGED <<journal, db, saved, spent, bound>>
        /\ \A s \in Sessions : s # t => /\ log'[s] = log[s] /\ place'[s] = place[s]
                                        /\ synced'[s] = synced[s]
        /\ place'[t] # "live" /\ synced'[t] = Len(log'[t])
        /\ place'[t] = "gone" => log'[t] = << >>
        /\ \/ log'[t] = log[t]
           \/ log'[t] = << >> /\ (spent[t] = {} \/ Entered(t, Len(journal)))
        /\ purging' \in {purging, NoSession}
  BY Disturbs DEF FInv
<1>5. \A q \in Queries : KeepsWord(query[q], db)'
  BY <1>1, WordsDisturbed
<1>9. MarksFit'
  <2>1. \A s \in Sessions : place'[s] = "live" =>
          place[s] = "live" /\ Len(log[s]) <= Len(log'[s]) /\ synced[s] <= synced'[s]
    BY <1>0, <1>1
  <2> QED
    BY <1>0, <1>1, <2>1, MarksKept
<1>10. CountsUpTo(db, spent, journal)' /\ CountsUpTo(saved, spent, journal)'
  BY <1>1 DEF FInv
<1> QED
  BY <1>5, <1>9, <1>10 DEF FInv

\* The end of the process.
LEMMA FInvCrash ==
  ASSUME IInv, IInv', FInv, DInv', Killed \/ PowerFails
  PROVE  FInv'
<1>0. TypeOK /\ TypeOK'
  BY DEF IInv
<1>1. /\ UNCHANGED <<place, journal, bound>> /\ purging' = NoSession
      /\ query' = [q \in Queries |-> Idle]
      /\ db' \in {db, saved, EmptyDb} /\ saved' \in {saved, EmptyDb}
  BY DEF Killed, PowerFails, Restarted
<1>2. /\ \A s \in Sessions : /\ Len(log[s]) \in Nat /\ synced[s] \in Nat /\ spent[s] \in SUBSET Nat
                             /\ db.mark[s].at \in Nat /\ saved.mark[s].at \in Nat
                             /\ synced[s] <= Len(log[s])
      /\ bound \in Bounds /\ bound.events \in Nat
  BY <1>0, Sizes, SpendingLimits DEF FInv, DInv, IInv, LogsAreSpent
<1>3. /\ \A s \in Sessions : /\ synced[s] <= synced'[s] /\ synced'[s] = Len(log'[s])
                             /\ Len(log'[s]) <= bound.events
                             /\ spent'[s] \subseteq spent[s]
                             /\ place[s] # "live" => log'[s] = log[s] /\ spent'[s] = spent[s]
      /\ \/ db' \in {saved, EmptyDb}
         \/ db' = db /\ log' = log
  BY WhatIsLeft DEF FInv
<1>6. \A q \in Queries : KeepsWord(query[q], db)'
  <2> SUFFICES ASSUME NEW q \in Queries
               PROVE  KeepsWord(query[q], db)'
    OBVIOUS
  <2>1. query'[q] = Idle
    BY <1>1
  <2>2. PICK r : r = Idle
    OBVIOUS
  <2>3. r.stage = "idle" /\ r.shots = {} /\ \A s \in Sessions : r.promised[s] = {}
    BY <2>2 DEF Idle
  <2> QED
    BY <2>1, <2>2, <2>3 DEF KeepsWord, HeldIsWhole, PromisedIsThere, TakenIsThere,
       PromisedIsCounted, CanRead
<1>10. ASSUME NEW d \in Db, CountsUpTo(d, spent, journal), Sound(d)
       PROVE  CountsUpTo(d, spent', journal)
  <2>1. \A t \in Sessions : d.mark[t].purged => spent'[t] = spent[t]
    BY <1>3, <1>10 DEF Sound, SoundFor
  <2>2. \A t \in Sessions : \A i \in spent'[t] : i <= d.mark[t].at => i \in spent[t]
    BY <1>3
  <2>3. PICK sent, more : sent = spent /\ more = spent'
    OBVIOUS
  <2>4. CountsUpTo(d, more, journal)
    BY <1>10, <2>1, <2>2, <2>3, MoreSent
  <2> QED
    BY <2>3, <2>4
<1>11. CountsUpTo(db, spent, journal)' /\ CountsUpTo(saved, spent, journal)'
  <2>1. CountsUpTo(db, spent', journal) /\ CountsUpTo(saved, spent', journal)
    BY <1>0, <1>10 DEF TypeOK, FInv, IInv
  <2>2. CountsUpTo(EmptyDb, spent', journal)
    <3>1. PICK sent : sent = spent'
      OBVIOUS
    <3>2. \A s \in Sessions : sent[s] \in SUBSET Nat /\ \A i \in sent[s] : i >= 1
      BY <1>0, <3>1 DEF TypeOK, DInv, LogsAreWhole
    <3>3. CountsUpTo(EmptyDb, sent, journal)
      BY <3>2, EmptyCounts
    <3> QED
      BY <3>1, <3>3
  <2> QED
    BY <1>1, <2>1, <2>2
<1>12. MarksFit'
  <2> SUFFICES ASSUME NEW s \in Sessions, place[s] = "live"
               PROVE  db'.mark[s].at <= Len(log'[s]) /\ saved'.mark[s].at <= synced'[s]
    BY <1>1 DEF MarksFit
  <2>1. db.mark[s].at <= Len(log[s]) /\ saved.mark[s].at <= synced[s]
    BY DEF FInv, MarksFit
  <2>2. EmptyDb.mark[s].at = 0
    BY DEF EmptyDb, Unmarked
  <2>3. synced'[s] \in Nat /\ synced[s] <= synced'[s] /\ synced'[s] = Len(log'[s])
    BY <1>0, <1>3 DEF TypeOK
  <2>4. saved.mark[s].at <= synced'[s]
    BY <1>2, <2>1, <2>3
  <2>5. saved'.mark[s].at <= synced'[s]
    BY <1>1, <2>2, <2>3, <2>4
  <2>6. db'.mark[s].at <= Len(log'[s])
    BY <1>1, <1>3, <2>1, <2>2, <2>3, <2>4
  <2> QED
    BY <2>5, <2>6
<1> QED
  BY <1>6, <1>11, <1>12 DEF FInv

(***************************************************************************)
(* Queries.                                                                *)
(***************************************************************************)
\* While the logs and the journal are as they are, a query keeps its word as it did.
LEMMA SameDisk ==
  ASSUME UNCHANGED <<disk, journal>>, NEW r, NEW d, KeepsWord(r, d)
  PROVE  KeepsWord(r, d)'
  BY DEF disk, KeepsWord, HeldIsWhole, PromisedIsThere, TakenIsThere, PromisedIsCounted,
     CanRead, Held, Listed, Missed, Seen, Called, Calls, Entered

\* One query does something, and the database counts more.
LEMMA OneWord ==
  ASSUME IInv, TypeOK', FInv, UNCHANGED <<disk, journal>>, CountsMore(db, db'),
         NEW q \in Queries, NEW r, query' = [query EXCEPT ![q] = r],
         NEW d, d = db', KeepsWord(r, d)
  PROVE  \A p \in Queries : KeepsWord(query[p], db)'
<1> SUFFICES ASSUME NEW p \in Queries
             PROVE  KeepsWord(query[p], db)'
  OBVIOUS
<1>0. TypeOK /\ query \in [Queries -> Doing]
  BY DEF IInv, TypeOK
<1>1. PICK e : e = query'[p]
  OBVIOUS
<1>2. KeepsWord(e, db)'
  <2>1. CASE p = q
    <3>1. e = r
      BY <1>0, <1>1, <2>1
    <3>2. KeepsWord(r, d)'
      BY SameDisk
    <3> QED
      BY <3>1, <3>2
  <2>2. CASE p # q
    <3>1. e = query[p]
      BY <1>0, <1>1, <2>2
    <3>2. /\ e \in Doing /\ KeepsWord(e, db)
          /\ e.stage = "holding" => e.of \in Sessions
          /\ e.stage = "taking" => e.to <= Len(journal)
          /\ db.skipped \subseteq 1..Len(journal)
      BY <1>0, <3>1 DEF IInv, FInv, HeldIsSpent, ReadIsThere, CountsUpTo
    <3>3. Continues(journal, journal')
      BY <1>0, SameJournal
    <3>4. \A s \in Sessions : /\ Seen(s)' = Seen(s) /\ spent'[s] = spent[s] /\ log'[s] = log[s]
                              /\ Len(log[s]) \in Nat
      BY <1>0, Sizes DEF disk, Seen, Called
    <3>5. UNCHANGED place
      BY DEF disk
    <3> QED
      BY <1>0, <3>2, <3>3, <3>4, <3>5, WordKept
  <2> QED
    BY <2>1, <2>2
<1> QED
  BY <1>1, <1>2 DEF KeepsWord, HeldIsWhole, PromisedIsThere, TakenIsThere,
     PromisedIsCounted, CanRead, Held, Listed, Missed

\* What no query changes.
LEMMA RestKept ==
  ASSUME IInv, FInv, UNCHANGED <<disk, journal, purging, bound>>
  PROVE  /\ DInv'
         /\ UNCHANGED <<db, saved>> =>
              CountsUpTo(db, spent, journal)' /\ CountsUpTo(saved, spent, journal)' /\ MarksFit'
<1>1. DInv'
  <2>1. PICK p : p = purging'
    OBVIOUS
  <2>2. DInv /\ (p # NoSession => spent[p] = {} \/ Entered(p, Len(journal)))
    BY <2>1 DEF FInv, DInv, GoneIsEntered
  <2> QED
    BY <2>1, <2>2, DInvQuiet
<1>2. ASSUME UNCHANGED <<db, saved>>
      PROVE  CountsUpTo(db, spent, journal)' /\ CountsUpTo(saved, spent, journal)' /\ MarksFit'
  BY <1>2 DEF FInv, MarksFit, disk
<1> QED
  BY <1>1, <1>2

\* Once it has the journal, what it promised is counted or in a log that is listed.
LEMMA AfterJournal ==
  ASSUME IInv, FInv, NEW d, CountsUpTo(d, spent, journal), NEW n \in Nat, n <= Len(journal),
         HasRead(d, journal, n), NEW r \in Doing, r.shots \subseteq Calls, r.shots \subseteq 1..n,
         \A s \in Sessions : r.promised[s] \subseteq spent[s], CanRead(r, n),
         r.todo = Directories
  PROVE  PromisedIsCounted(r, d)
<1>1. r.shots \subseteq d.shots \union d.skipped
  BY DEF Calls, HasRead
<1>2. ASSUME NEW s \in Sessions, ~Missed(s, d)
      PROVE  r.promised[s] \subseteq d.single[s] \union d.total[s] \union Held(r, s) \union Listed(r, s)
  <2>1. CASE Entered(s, n)
    <3>1. PICK j \in 1..n : journal[j].of = s
      BY <2>1 DEF Entered
    <3>2. s # NoSession
      BY SpendingLimits
    <3>3. d.mark[s].purged
      BY <1>2, <3>1, <3>2 DEF HasRead, Missed
    <3>4. d.total[s] = spent[s]
      BY <3>3 DEF CountsUpTo
    <3> QED
      BY <3>4
  <2>2. CASE r.promised[s] \subseteq Seen(s)
    <3>1. CASE place[s] = "gone"
      <4>1. log[s] = << >>
        BY <3>1 DEF FInv, DInv, LogsAreWhole
      <4>2. Len(log[s]) = 0
        BY <4>1
      <4> QED
        BY <2>2, <4>2 DEF Seen, Called
    <3>2. CASE place[s] # "gone"
      BY <2>2, <3>2 DEF Directories, Listed
    <3> QED
      BY <3>1, <3>2
  <2> QED
    BY <2>1, <2>2 DEF CanRead
<1> QED
  BY <1>1, <1>2 DEF PromisedIsCounted

\* What is on record of a session can be read, and was sent.
LEMMA OnRecordIsThere ==
  ASSUME IInv, FInv, NEW s \in Sessions
  PROVE  /\ OnRecord(s) \subseteq spent[s]
         /\ place[s] = "live" => OnRecord(s) \subseteq Seen(s)
         /\ OnRecord(s) \subseteq Seen(s) \/ Entered(s, Len(journal))
<1>1. CASE place[s] = "live"
  <2>1. OnRecord(s) = Called(s, 0, synced[s])
    BY <1>1 DEF OnRecord
  <2>2. Called(s, 0, synced[s]) \subseteq Seen(s)
    <3>1. synced[s] <= Len(log[s]) /\ synced[s] \in Nat /\ Len(log[s]) \in Nat
      BY Sizes DEF IInv, LogsAreSpent
    <3> QED
      BY <3>1 DEF Called, Seen
  <2>3. Seen(s) \subseteq spent[s]
    BY DEF IInv, LogsAreSpent, Seen
  <2> QED
    BY <2>1, <2>2, <2>3
<1>2. CASE place[s] # "live"
  BY <1>2 DEF OnRecord, FInv, DInv, GoneIsEntered
<1> QED
  BY <1>1, <1>2

\* A query begins.
LEMMA FInvBegin ==
  ASSUME IInv, IInv', FInv, NEW q \in Queries,
         Begin(q) \/ AddUp(q) \/ \E s \in Sessions : BeginOne(q, s)
  PROVE  FInv'
<1>0. /\ TypeOK' /\ UNCHANGED <<disk, journal, db, saved, purging, bound>>
      /\ CountsMore(db, db')
  <2>1. UNCHANGED <<disk, journal, db, saved, purging, bound>>
    BY DEF Begin, AddUp, BeginOne, counts
  <2> QED
    BY <2>1, SameCounts DEF IInv
<1>1. ASSUME NEW r, query' = [query EXCEPT ![q] = r], KeepsWord(r, db)
      PROVE  \A p \in Queries : KeepsWord(query[p], db)'
  <2>1. PICK d : d = db
    OBVIOUS
  <2>2. KeepsWord(r, d) /\ d = db'
    BY <1>0, <1>1, <2>1
  <2> QED
    BY <1>0, <1>1, <2>2, OneWord
<1>2. CASE Begin(q)
  <2>1. PICK r : r = [Idle EXCEPT !.stage = "journal", !.again = TRUE, !.shots = Calls,
                                  !.promised = [s \in Sessions |-> OnRecord(s)]]
    OBVIOUS
  <2>2. /\ r.stage = "journal" /\ r.shots = Calls
        /\ \A s \in Sessions : r.promised[s] = OnRecord(s)
    BY <2>1 DEF Idle
  <2>3. PromisedIsThere(r)
    BY <2>2, OnRecordIsThere DEF PromisedIsThere, CanRead
  <2>4. KeepsWord(r, db)
    BY <2>2, <2>3 DEF KeepsWord, HeldIsWhole, TakenIsThere, PromisedIsCounted
  <2>5. query' = [query EXCEPT ![q] = r]
    BY <1>2, <2>1 DEF Begin
  <2> QED
    BY <1>0, <1>1, <2>4, <2>5, RestKept DEF FInv
<1>3. CASE AddUp(q)
  <2>1. PICK r : r = Idle
    OBVIOUS
  <2>2. KeepsWord(r, db) /\ query' = [query EXCEPT ![q] = r]
    BY <1>3, <2>1, IdleKeeps DEF AddUp
  <2> QED
    BY <1>0, <1>1, <2>2, RestKept DEF FInv
<1>4. CASE \E s \in Sessions : BeginOne(q, s)
  <2>0. PICK s \in Sessions : BeginOne(q, s)
    BY <1>4
  <2>1. PICK r : r = [Idle EXCEPT !.stage = "dirs", !.todo = {<<s, "live">>},
                                  !.promised = [Idle.promised EXCEPT ![s] = OnRecord(s)]]
    OBVIOUS
  <2>2. /\ r.stage = "dirs" /\ r.shots = {} /\ r.todo = {<<s, "live">>}
        /\ \A t \in Sessions : r.promised[t] = IF t = s THEN OnRecord(s) ELSE {}
    BY <2>1 DEF Idle
  <2>3. place[s] = "live" /\ query' = [query EXCEPT ![q] = r]
    BY <2>0, <2>1 DEF BeginOne
  <2>4. PromisedIsThere(r)
    BY <2>2, OnRecordIsThere DEF PromisedIsThere, CanRead
  <2>5. PromisedIsCounted(r, db)
    BY <2>2, <2>3, OnRecordIsThere DEF PromisedIsCounted, Listed
  <2>6. KeepsWord(r, db)
    BY <2>2, <2>4, <2>5 DEF KeepsWord, HeldIsWhole, TakenIsThere
  <2> QED
    BY <1>0, <1>1, <2>3, <2>6, RestKept DEF FInv
<1> QED
  BY <1>2, <1>3, <1>4

\* A promise stays one when the query goes to the next stage.
LEMMA PromiseMoves ==
  ASSUME NEW r, NEW e, PromisedIsThere(r), e.shots = r.shots, e.promised = r.promised
  PROVE  PromisedIsThere(e)
  BY DEF PromisedIsThere, CanRead

\* It reads the journal.
LEMMA FInvReadJournal ==
  ASSUME IInv, IInv', FInv, NEW q \in Queries, ReadJournal(q)
  PROVE  FInv'
<1>0. /\ TypeOK /\ TypeOK' /\ UNCHANGED <<disk, journal, db, saved, purging, bound>>
      /\ CountsMore(db, db')
  <2>1. UNCHANGED <<disk, journal, db, saved, purging, bound>>
    BY DEF ReadJournal, counts
  <2> QED
    BY <2>1, SameCounts DEF IInv
<1>1. PICK o : o = query[q]
  OBVIOUS
<1>2. /\ o \in Doing /\ PromisedIsThere(o) /\ db \in Db /\ Len(journal) \in Nat
      /\ DOMAIN journal = 1..Len(journal)
  BY <1>0, <1>1, EntriesOf DEF TypeOK, FInv, KeepsWord
<1>3. /\ o.shots \subseteq 1..Len(journal) /\ CanRead(o, Len(journal))
      /\ o.shots \subseteq Calls /\ \A s \in Sessions : o.promised[s] \subseteq spent[s]
  BY <1>2 DEF PromisedIsThere, Calls
<1>4. PICK from : from = Behind(db)
  OBVIOUS
<1>5. from \in Nat /\ from <= Len(journal) /\ HasRead(db, journal, from)
  <2>1. db.entries \in Nat \union {Never}
    BY <1>2 DEF Db
  <2>2. HasRead(db, journal, 0)
    BY DEF HasRead
  <2> QED
    BY <1>2, <1>4, <2>1, <2>2 DEF FInv, CountsUpTo, Behind
<1>6. ASSUME NEW r, query' = [query EXCEPT ![q] = r], KeepsWord(r, db)
      PROVE  FInv'
  <2>1. PICK d : d = db
    OBVIOUS
  <2>2. KeepsWord(r, d) /\ d = db'
    BY <1>0, <1>6, <2>1
  <2>3. \A p \in Queries : KeepsWord(query[p], db)'
    BY <1>0, <1>6, <2>2, OneWord
  <2> QED
    BY <1>0, <2>3, RestKept DEF FInv
<1>7. CASE db.entries = Len(journal)
  <2>1. PICK r : r = [o EXCEPT !.stage = "dirs", !.todo = Directories]
    OBVIOUS
  <2>2. /\ r.stage = "dirs" /\ r.todo = Directories /\ r.shots = o.shots
        /\ r.promised = o.promised
    BY <1>2, <2>1 DEF Doing
  <2>3. query' = [query EXCEPT ![q] = r]
    BY <1>1, <1>7, <2>1 DEF ReadJournal
  <2>4. r \in Doing
    BY <1>0, <2>3 DEF TypeOK
  <2>5. from = Len(journal)
    BY <1>2, <1>4, <1>7 DEF Never, Behind
  <2>6. CanRead(r, Len(journal))
    BY <1>3, <2>2 DEF CanRead
  <2>7. PromisedIsCounted(r, db)
    BY <1>2, <1>3, <1>5, <2>2, <2>4, <2>5, <2>6, AfterJournal DEF FInv
  <2>8. PromisedIsThere(r)
    BY <1>2, <2>2, PromiseMoves
  <2>9. KeepsWord(r, db)
    BY <2>2, <2>7, <2>8 DEF KeepsWord, HeldIsWhole, TakenIsThere
  <2> QED
    BY <1>6, <2>3, <2>9
<1>8. CASE db.entries # Len(journal)
  <2>1. PICK r : r = [o EXCEPT !.stage = "taking", !.from = from, !.to = Len(journal)]
    OBVIOUS
  <2>2. /\ r.stage = "taking" /\ r.from = from /\ r.to = Len(journal) /\ r.shots = o.shots
        /\ r.promised = o.promised
    BY <1>2, <2>1 DEF Doing
  <2>3. query' = [query EXCEPT ![q] = r]
    BY <1>1, <1>4, <1>8, <2>1 DEF ReadJournal
  <2>4. CanRead(r, Len(journal))
    BY <1>3, <2>2 DEF CanRead
  <2>5. TakenIsThere(r)
    BY <1>3, <1>5, <2>2, <2>4 DEF TakenIsThere
  <2>6. PromisedIsThere(r)
    BY <1>2, <2>2, PromiseMoves
  <2>7. KeepsWord(r, db)
    BY <2>2, <2>5, <2>6 DEF KeepsWord, HeldIsWhole, PromisedIsCounted
  <2> QED
    BY <1>6, <2>3, <2>7
<1> QED
  BY <1>7, <1>8

\* It takes what it read of the journal.
LEMMA FInvTakeJournal ==
  ASSUME IInv, IInv', FInv, NEW q \in Queries, TakeJournal(q)
  PROVE  FInv'
<1>0. TypeOK /\ TypeOK' /\ UNCHANGED <<disk, journal, saved, purging, bound>>
  BY DEF TakeJournal, counts, IInv
<1>1. PICK o : o = query[q]
  OBVIOUS
<1>2. /\ o \in Doing /\ o.stage = "taking" /\ o.to <= Len(journal) /\ KeepsWord(o, db)
      /\ o.from \in Nat /\ o.to \in Nat /\ db \in Db
  BY <1>0, <1>1 DEF TakeJournal, TypeOK, FInv, IInv, ReadIsThere, Doing
<1>3. /\ o.from <= o.to /\ o.shots \subseteq 1..o.to
      /\ CanRead(o, o.to) /\ PromisedIsThere(o)
  BY <1>2 DEF KeepsWord, TakenIsThere
<1>4. PICK last \in [Sessions -> o.from..o.to] :
        IsLast(last, o.from, o.to) /\ db' = Replaced(db, last, o.from, o.to)
  BY <1>1 DEF TakeJournal
<1>5. PICK d : d = Replaced(db, last, o.from, o.to)
  OBVIOUS
<1>6. CountsUpTo(d, spent, journal) /\ CountsMore(db, d) /\ HasRead(d, journal, o.to)
  <2>1. EntriesAreWhole /\ CountsUpTo(db, spent, journal) /\ SoundFor(db, spent, place)
    BY DEF FInv, DInv, IInv, Sound
  <2> QED
    BY <1>0, <1>2, <1>3, <1>4, <1>5, <2>1, ReplacedCounts
<1>7. PICK r : r = [o EXCEPT !.stage = "dirs", !.todo = Directories, !.from = 0, !.to = 0]
  OBVIOUS
<1>8. /\ r.stage = "dirs" /\ r.todo = Directories /\ r.shots = o.shots
      /\ r.promised = o.promised
  BY <1>2, <1>7 DEF Doing
<1>9. query' = [query EXCEPT ![q] = r]
  BY <1>1, <1>7 DEF TakeJournal
<1>10. r \in Doing
  BY <1>0, <1>9 DEF TypeOK
<1>11. KeepsWord(r, d)
  <2>1. CanRead(r, o.to)
    BY <1>3, <1>8 DEF CanRead
  <2>2. r.shots \subseteq Calls /\ \A s \in Sessions : r.promised[s] \subseteq spent[s]
    BY <1>3, <1>8 DEF PromisedIsThere
  <2>3. PromisedIsCounted(r, d)
    BY <1>2, <1>3, <1>6, <1>8, <1>10, <2>1, <2>2, AfterJournal
  <2>4. PromisedIsThere(r)
    BY <1>3, <1>8, PromiseMoves
  <2> QED
    BY <1>8, <2>3, <2>4 DEF KeepsWord, HeldIsWhole, TakenIsThere
<1>12. \A p \in Queries : KeepsWord(query[p], db)'
  <2>1. d = db' /\ CountsMore(db, db')
    BY <1>4, <1>5, <1>6
  <2> QED
    BY <1>0, <1>9, <1>11, <2>1, OneWord
<1>13. CountsUpTo(db, spent, journal)' /\ CountsUpTo(saved, spent, journal)'
  <2>1. CountsUpTo(db', spent, journal) /\ CountsUpTo(saved, spent, journal)
    BY <1>4, <1>5, <1>6 DEF FInv
  <2> QED
    BY <1>0, <2>1 DEF disk
<1>14. MarksFit'
  <2> SUFFICES ASSUME NEW s \in Sessions, place[s] = "live"
               PROVE  db'.mark[s].at <= Len(log[s]) /\ saved.mark[s].at <= synced[s]
    BY <1>0 DEF MarksFit, disk
  <2>1. db.mark[s].at <= Len(log[s]) /\ saved.mark[s].at <= synced[s]
    BY DEF FInv, MarksFit
  <2>2. db'.mark[s].at = 0 \/ db'.mark[s].at = db.mark[s].at
    BY <1>4 DEF Replaced
  <2>3. Len(log[s]) \in Nat
    BY <1>0, Sizes
  <2> QED
    BY <2>1, <2>2, <2>3
<1> QED
  BY <1>0, <1>12, <1>13, <1>14, RestKept DEF FInv

\* It reads what the database misses of a session.
LEMMA FInvReadDir ==
  ASSUME IInv, IInv', FInv, NEW q \in Queries, ReadDir(q)
  PROVE  FInv'
<1>0. /\ TypeOK /\ TypeOK' /\ UNCHANGED <<disk, journal, db, saved, purging, bound>>
      /\ CountsMore(db, db')
  <2>1. UNCHANGED <<disk, journal, db, saved, purging, bound>>
    BY DEF ReadDir, counts
  <2> QED
    BY <2>1, SameCounts DEF IInv
<1>1. PICK o : o = query[q]
  OBVIOUS
<1>2. o \in Doing /\ o.stage = "dirs" /\ PromisedIsThere(o) /\ PromisedIsCounted(o, db)
  BY <1>0, <1>1 DEF ReadDir, TypeOK, FInv, KeepsWord
<1>3. PICK dir \in o.todo :
        query' = [query EXCEPT ![q] =
          IF NothingToRead(dir) THEN [o EXCEPT !.todo = @ \ {dir}]
          ELSE Holding([o EXCEPT !.todo = @ \ {dir}], dir[1])]
  BY <1>1 DEF ReadDir
<1>4. PICK s \in Sessions : s = dir[1]
  BY <1>2, <1>3 DEF Doing
<1>5. dir = <<s, dir[2]>>
  BY <1>2, <1>3, <1>4 DEF Doing
<1>6. /\ Len(log[s]) \in Nat /\ db.mark[s].at \in Nat /\ ReadFrom(s) \in Nat
      /\ spent[s] \in SUBSET Nat /\ ReadFrom(s) \in {0, db.mark[s].at}
      /\ ReadFrom(s) <= Len(log[s])
  BY <1>0, Sizes DEF ReadFrom
\* What is before the beginning of the reading is counted.
<1>7. ~db.mark[s].purged => \A i \in spent[s] : i <= ReadFrom(s) => i \in db.single[s]
  <2> SUFFICES ASSUME ~db.mark[s].purged, NEW i \in spent[s], i <= ReadFrom(s)
               PROVE  i \in db.single[s]
    OBVIOUS
  <2>1. i >= 1 /\ i \in Nat
    BY <1>6 DEF FInv, DInv, LogsAreWhole
  <2>2. ReadFrom(s) = db.mark[s].at
    BY <1>6, <2>1
  <2> QED
    BY <2>2 DEF FInv, CountsUpTo
<1>8. Seen(s) \subseteq spent[s] /\ (log[s] = << >> \/ spent[s] = Seen(s))
  BY DEF IInv, LogsAreSpent, FInv, DInv, LogsAreWhole, Seen
<1>9. ASSUME NEW r, query' = [query EXCEPT ![q] = r], KeepsWord(r, db)
      PROVE  FInv'
  <2>1. PICK d : d = db
    OBVIOUS
  <2>2. KeepsWord(r, d) /\ d = db'
    BY <1>0, <1>9, <2>1
  <2>3. \A p \in Queries : KeepsWord(query[p], db)'
    BY <1>0, <1>9, <2>2, OneWord
  <2> QED
    BY <1>0, <2>3, RestKept DEF FInv
<1>10. PICK left : left = [o EXCEPT !.todo = @ \ {dir}]
  OBVIOUS
<1>11. /\ left.stage = "dirs" /\ left.todo = o.todo \ {dir} /\ left.shots = o.shots
       /\ left.undercut = o.undercut /\ left.promised = o.promised /\ left \in Doing
  BY <1>2, <1>10 DEF Doing
<1>12. \A t \in Sessions : t # s => Listed(left, t) = Listed(o, t)
  BY <1>5, <1>11 DEF Listed
<1>13. ~o.undercut =>
         /\ o.shots \subseteq db.shots \union db.skipped
         /\ \A t \in Sessions :
              \/ o.promised[t] \subseteq db.single[t] \union db.total[t] \union Listed(o, t)
              \/ Missed(t, db)
  BY <1>2 DEF PromisedIsCounted, Held
<1>14. o.promised[s] \subseteq spent[s]
  BY <1>2 DEF PromisedIsThere
<1>15. CASE NothingToRead(dir)
  <2>1. \/ o.undercut \/ Missed(s, db)
        \/ o.promised[s] \subseteq db.single[s] \union db.total[s] \union Listed(left, s)
    <3>1. CASE db.mark[s].purged
      <4>1. db.total[s] = spent[s]
        BY <3>1 DEF FInv, CountsUpTo
      <4> QED
        BY <1>14, <4>1
    <3>2. CASE place[s] # dir[2]
      <4>1. Listed(left, s) = Listed(o, s)
        BY <1>5, <1>11, <3>2 DEF Listed
      <4> QED
        BY <1>13, <4>1
    <3>3. CASE ~db.mark[s].purged /\ ReadFrom(s) = Len(log[s])
      <4>1. Seen(s) \subseteq db.single[s]
        BY <1>6, <1>7, <1>8, <3>3 DEF Seen, Called
      <4>2. Listed(o, s) \subseteq Seen(s)
        BY DEF Listed
      <4> QED
        BY <1>13, <4>1, <4>2
    <3> QED
      BY <1>4, <1>15, <3>1, <3>2, <3>3 DEF NothingToRead
  <2>2. PromisedIsCounted(left, db)
    BY <1>11, <1>12, <1>13, <2>1 DEF PromisedIsCounted
  <2>3. PromisedIsThere(left)
    BY <1>2, <1>11, PromiseMoves
  <2>4. KeepsWord(left, db)
    BY <1>11, <2>2, <2>3 DEF KeepsWord, HeldIsWhole, TakenIsThere
  <2>5. query' = [query EXCEPT ![q] = left]
    BY <1>3, <1>10, <1>15
  <2> QED
    BY <1>9, <2>4, <2>5
<1>16. CASE ~NothingToRead(dir)
  <2>1. PICK r : r = Holding(left, s)
    OBVIOUS
  <2>2. /\ r.stage = "holding" /\ r.of = s /\ r.was = db.mark[s].at /\ r.to = Len(log[s])
        /\ r.undercut = o.undercut
        /\ r.calls = Called(s, ReadFrom(s), Len(log[s]))
        /\ r.todo = left.todo /\ r.shots = o.shots /\ r.promised = o.promised
    BY <1>11, <2>1 DEF Holding, Doing
  <2>3. query' = [query EXCEPT ![q] = r]
    BY <1>3, <1>4, <1>10, <1>16, <2>1
  <2>4. ~db.mark[s].purged /\ Len(log[s]) # 0
    BY <1>4, <1>6, <1>16 DEF NothingToRead
  <2>5. spent[s] = Seen(s)
    BY <1>8, <2>4
  <2>6. \A i \in Seen(s) : i <= ReadFrom(s) \/ i \in r.calls
    BY <1>6, <2>2 DEF Seen, Called
  <2>7. HeldIsWhole(r)
    <3>1. ASSUME NEW i \in spent[s]
          PROVE  i <= db.mark[s].at \/ i \in r.calls
      BY <1>6, <2>5, <2>6, <3>1
    <3>2. r.to <= Len(log[s])
      BY <1>6, <2>2
    <3> QED
      BY <2>2, <3>1, <3>2 DEF HeldIsWhole
  <2>8. o.promised[s] \subseteq db.single[s] \union db.total[s] \union r.calls
    BY <1>7, <1>14, <2>4, <2>5, <2>6
  <2>9. PromisedIsCounted(r, db)
    <3>1. \A t \in Sessions : t # s => Listed(r, t) = Listed(o, t)
      BY <1>12, <2>2 DEF Listed
    <3>2. Held(r, s) = r.calls
      BY <2>2 DEF Held
    <3> QED
      BY <1>13, <2>2, <2>8, <3>1, <3>2 DEF PromisedIsCounted
  <2>10. PromisedIsThere(r)
    BY <1>2, <2>2, PromiseMoves
  <2>11. KeepsWord(r, db)
    BY <2>2, <2>7, <2>9, <2>10 DEF KeepsWord, TakenIsThere
  <2> QED
    BY <1>9, <2>3, <2>11
<1> QED
  BY <1>15, <1>16

\* It writes what it read of a session.
LEMMA FInvWriteDir ==
  ASSUME IInv, IInv', FInv, NEW q \in Queries, WriteDir(q)
  PROVE  FInv'
<1>0. TypeOK /\ TypeOK' /\ UNCHANGED <<disk, journal, saved, purging, bound>>
  BY DEF WriteDir, counts, IInv
<1>1. PICK o : o = query[q]
  OBVIOUS
<1>2. /\ o \in Doing /\ o.stage = "holding" /\ o.of \in Sessions
      /\ HeldIsWhole(o) /\ PromisedIsThere(o) /\ PromisedIsCounted(o, db)
      /\ o.calls \subseteq spent[o.of]
  BY <1>0, <1>1 DEF WriteDir, TypeOK, FInv, KeepsWord, IInv, HeldIsSpent
<1>3. PICK s \in Sessions : s = o.of
  BY <1>2
<1>4. /\ o.was \in Nat /\ o.to \in Nat /\ o.calls \in SUBSET Nat /\ db \in Db
      /\ CountsUpTo(db, spent, journal)
  BY <1>0, <1>2 DEF Doing, TypeOK, FInv
<1>5. PICK d : d = db'
  OBVIOUS
<1>6. d = IF db.mark[s].purged THEN db ELSE Advance(db, s, o.was, o.calls, o.to)
  BY <1>1, <1>3, <1>5 DEF WriteDir
<1>7. \A i \in spent[s] : i <= o.to => i <= o.was \/ i \in o.calls
  BY <1>2, <1>3 DEF HeldIsWhole
<1>8. /\ CountsUpTo(d, spent, journal) /\ CountsMore(db, d)
      /\ o.calls \subseteq d.single[s] \union d.total[s]
  <2>1. CASE db.mark[s].purged
    <3>1. db.total[s] = spent[s]
      BY <2>1 DEF FInv, CountsUpTo
    <3> QED
      BY <1>2, <1>3, <1>4, <1>6, <2>1, <3>1, SameCounts
  <2>2. CASE ~db.mark[s].purged
    BY <1>4, <1>6, <1>7, <2>2, AdvanceCounts
  <2> QED
    BY <2>1, <2>2
<1>9. PICK r : r = Released(o)
  OBVIOUS
<1>10. /\ r.stage = "dirs" /\ r.todo = o.todo /\ r.shots = o.shots
       /\ r.promised = o.promised /\ r.undercut = o.undercut
  BY <1>2, <1>9 DEF Released, Doing
<1>11. query' = [query EXCEPT ![q] = r]
  BY <1>1, <1>9 DEF WriteDir
<1>12. KeepsWord(r, d)
  <2>1. PromisedIsThere(r)
    BY <1>2, <1>10, PromiseMoves
  <2>2. PromisedIsCounted(r, d)
    <3>0. d.skipped = db.skipped
      BY <1>4, <1>6 DEF Advance, Insert, Db
    <3>1. ASSUME NEW t \in Sessions, ~o.undercut, ~Missed(t, d)
          PROVE  o.promised[t] \subseteq d.single[t] \union d.total[t] \union Listed(r, t)
      <4>1. o.promised[t] \subseteq db.single[t] \union db.total[t] \union Held(o, t) \union Listed(o, t)
        BY <1>2, <3>0, <3>1 DEF PromisedIsCounted, Missed
      <4>2. Listed(r, t) = Listed(o, t)
        BY <1>10 DEF Listed
      <4>3. Held(o, t) \subseteq d.single[t] \union d.total[t]
        BY <1>3, <1>8 DEF Held
      <4>4. db.single[t] \union db.total[t] \subseteq d.single[t] \union d.total[t]
        BY <1>8 DEF CountsMore
      <4> QED
        BY <4>1, <4>2, <4>3, <4>4
    <3>2. ~o.undercut => o.shots \subseteq d.shots \union d.skipped
      BY <1>2, <1>8, <3>0 DEF PromisedIsCounted, CountsMore
    <3> QED
      BY <1>10, <3>1, <3>2 DEF PromisedIsCounted
  <2> QED
    BY <1>10, <2>1, <2>2 DEF KeepsWord, HeldIsWhole, TakenIsThere
<1>13. \A p \in Queries : KeepsWord(query[p], db)'
  <2>1. CountsMore(db, db')
    BY <1>5, <1>8
  <2> QED
    BY <1>0, <1>5, <1>11, <1>12, <2>1, OneWord
<1>14. CountsUpTo(db, spent, journal)' /\ CountsUpTo(saved, spent, journal)'
  <2>1. CountsUpTo(db', spent, journal) /\ CountsUpTo(saved, spent, journal)
    BY <1>5, <1>8 DEF FInv
  <2> QED
    BY <1>0, <2>1 DEF disk
<1>15. MarksFit'
  <2> SUFFICES ASSUME NEW t \in Sessions, place[t] = "live"
               PROVE  d.mark[t].at <= Len(log[t]) /\ saved.mark[t].at <= synced[t]
    BY <1>0, <1>5 DEF MarksFit, disk
  <2>1. db.mark[t].at <= Len(log[t]) /\ saved.mark[t].at <= synced[t]
    BY DEF FInv, MarksFit
  <2>2. d.mark[t].at = db.mark[t].at \/ (t = s /\ d.mark[t].at = o.to)
    <3>1. CASE d = db
      BY <3>1
    <3>2. CASE d = Advance(db, s, o.was, o.calls, o.to)
      <4>1. d.mark = [db.mark EXCEPT ![s] = Moved(@, o.was, o.to)]
        BY <1>4, <3>2 DEF Advance, Insert, Db
      <4>2. db.mark \in [Sessions -> [at : Nat, purged : BOOLEAN]]
        BY <1>4 DEF Db
      <4> QED
        BY <4>1, <4>2 DEF Moved
    <3> QED
      BY <1>6, <3>1, <3>2
  <2>3. t = s => o.to <= Len(log[s])
    BY <1>2, <1>3 DEF HeldIsWhole
  <2> QED
    BY <2>1, <2>2, <2>3
<1> QED
  BY <1>0, <1>13, <1>14, <1>15, RestKept DEF FInv

\* It finds the database broken.  The others keep what they hold, and once they have the
\* journal promise nothing more.
LEMMA FInvBroken ==
  ASSUME IInv, IInv', FInv, NEW q \in Queries, Broken(q)
  PROVE  FInv'
<1>0. TypeOK /\ TypeOK' /\ UNCHANGED <<disk, journal, purging, bound>>
  BY DEF Broken, IInv
<1>1. PICK o : o = query[q]
  OBVIOUS
<1>2. o \in Doing /\ PromisedIsThere(o)
  BY <1>0, <1>1 DEF TypeOK, FInv, KeepsWord
<1>3. CASE o.again
  <2>1. PICK r : r = Renewed(o)
    OBVIOUS
  <2>2. r.stage = "journal" /\ r.shots = o.shots /\ r.promised = o.promised
    BY <1>2, <2>1 DEF Renewed, Released, Doing
  <2>3. /\ query' = [p \in Queries |-> IF p = q THEN Renewed(query[p]) ELSE Undercut(query[p])]
        /\ db' = EmptyDb /\ saved' = EmptyDb
    BY <1>1, <1>3 DEF Broken
  <2>4. \A p \in Queries : KeepsWord(query[p], db)'
    <3> SUFFICES ASSUME NEW p \in Queries
                 PROVE  KeepsWord(query[p], db)'
      OBVIOUS
    <3>1. PICK e, d : e = query'[p] /\ d = db'
      OBVIOUS
    <3>2. KeepsWord(e, d)
      <4>1. CASE p = q
        <5>1. e = r
          BY <1>1, <2>1, <2>3, <3>1, <4>1
        <5>2. PromisedIsThere(e)
          BY <1>2, <2>2, <5>1, PromiseMoves
        <5> QED
          BY <2>2, <5>1, <5>2 DEF KeepsWord, HeldIsWhole, TakenIsThere, PromisedIsCounted
      <4>2. CASE p # q
        <5>1. PICK u : u = query[p]
          OBVIOUS
        <5>2. e = Undercut(u) /\ u \in Doing /\ KeepsWord(u, db)
          BY <1>0, <2>3, <3>1, <4>2, <5>1 DEF TypeOK, FInv
        <5>3. /\ e.stage = u.stage /\ e.of = u.of /\ e.calls = u.calls /\ e.was = u.was
              /\ e.from = u.from /\ e.to = u.to /\ e.promised = u.promised /\ e.shots = u.shots
          BY <5>2, UndercutType
        <5>4. e.stage \in {"dirs", "holding"} => e.undercut
          BY <5>2 DEF Undercut, Doing
        <5>5. HeldIsWhole(e) /\ TakenIsThere(e) /\ PromisedIsThere(e)
          BY <5>2, <5>3 DEF KeepsWord, HeldIsWhole, TakenIsThere, PromisedIsThere, CanRead
        <5> QED
          BY <5>4, <5>5 DEF KeepsWord, PromisedIsCounted
      <4> QED
        BY <4>1, <4>2
    <3>4. KeepsWord(e, d)'
      BY <1>0, <3>2, SameDisk
    <3> QED
      BY <3>1, <3>4 DEF KeepsWord, HeldIsWhole, PromisedIsThere, TakenIsThere,
         PromisedIsCounted, CanRead, Held, Listed, Missed
  <2>5. CountsUpTo(db, spent, journal)' /\ CountsUpTo(saved, spent, journal)'
    <3>1. \A s \in Sessions : spent[s] \in SUBSET Nat /\ \A i \in spent[s] : i >= 1
      BY <1>0, Sizes DEF FInv, DInv, LogsAreWhole
    <3>2. CountsUpTo(EmptyDb, spent, journal)
      BY <3>1, EmptyCounts
    <3> QED
      BY <1>0, <2>3, <3>2 DEF disk
  <2>6. MarksFit'
    <3> SUFFICES ASSUME NEW s \in Sessions
                 PROVE  EmptyDb.mark[s].at <= Len(log[s]) /\ EmptyDb.mark[s].at <= synced[s]
      BY <1>0, <2>3 DEF MarksFit, disk
    <3>1. EmptyDb.mark[s].at = 0
      BY DEF EmptyDb, Unmarked
    <3> QED
      BY <1>0, <3>1, Sizes
  <2> QED
    BY <1>0, <2>4, <2>5, <2>6, RestKept DEF FInv
<1>4. CASE ~o.again
  <2>1. PICK r, d : r = Idle /\ d = db
    OBVIOUS
  <2>2. query' = [query EXCEPT ![q] = r] /\ UNCHANGED <<db, saved>>
    BY <1>1, <1>4, <2>1 DEF Broken
  <2>3. KeepsWord(r, d) /\ d = db' /\ CountsMore(db, db')
    BY <2>1, <2>2, IdleKeeps, SameCounts
  <2>4. \A p \in Queries : KeepsWord(query[p], db)'
    BY <1>0, <2>2, <2>3, OneWord
  <2> QED
    BY <1>0, <2>2, <2>4, RestKept DEF FInv
<1> QED
  BY <1>3, <1>4

\* Of some of the first n entries one is the last.
LEMMA LastOfSome ==
  ASSUME NEW n \in Nat, NEW some \in SUBSET (1..n), some # {}
  PROVE  \E last \in some : \A j \in some : j <= last
<1> DEFINE Distances == {n - j : j \in some}
<1>1. Distances \subseteq Nat /\ Distances # {}
  <2>1. \A j \in some : j \in Nat /\ j <= n
    OBVIOUS
  <2>2. \A j \in some : n - j \in Nat
    BY <2>1
  <2> QED
    BY <2>2
<1>2. PICK least \in Distances : \A m \in Distances : least <= m
  <2> HIDE DEF Distances
  <2>1. PICK least \in Distances : \A m \in Distances : ~(<<m, least>> \in OpToRel(<, Nat))
    BY <1>1, WFMin, NatLessThanWellFounded
  <2>2. ASSUME NEW m \in Distances PROVE least <= m
    <3>1. m \in Nat /\ least \in Nat
      BY <1>1
    <3>2. ~(m < least)
      BY <2>1, <3>1 DEF OpToRel
    <3> QED
      BY <3>1, <3>2
  <2> QED
    BY <2>2
<1>3. PICK last \in some : least = n - last
  OBVIOUS
<1>4. ASSUME NEW j \in some PROVE j <= last
  <2>1. j \in Int /\ last \in Int
    OBVIOUS
  <2>2. n - j \in Distances
    OBVIOUS
  <2>3. n - last <= n - j
    BY <1>2, <1>3, <2>2
  <2> QED
    BY <2>1, <2>3
<1> QED
  BY <1>4

(***************************************************************************)
(* The theorems.                                                           *)
(***************************************************************************)
\* At first there is nothing to count.
LEMMA FInvInit == Init => FInv
<1> SUFFICES ASSUME Init PROVE FInv
  OBVIOUS
<1>1. /\ \A s \in Sessions : Len(log[s]) = 0 /\ log[s] = << >> /\ spent[s] = {}
                             /\ synced[s] = 0 /\ place[s] = "live"
      /\ bound \in Bounds /\ db = EmptyDb /\ saved = EmptyDb /\ purging = NoSession
      /\ DOMAIN journal = {} /\ query = [q \in Queries |-> Idle]
  BY DEF Init
<1>2. LogsAreWhole
  <2>1. 0 <= bound.events
    <3>1. bound.events \in Nat
      BY <1>1, SpendingLimits
    <3> QED
      BY <3>1
  <2> SUFFICES ASSUME NEW s \in Sessions
               PROVE  /\ Len(log[s]) <= bound.events
                      /\ \A i \in spent[s] : i >= 1
                      /\ log[s] = << >> \/ spent[s] \subseteq Seen(s)
                      /\ place[s] # "live" => synced[s] = Len(log[s])
                      /\ place[s] = "gone" => log[s] = << >>
    BY DEF LogsAreWhole
  <2>2. Len(log[s]) = 0 /\ log[s] = << >> /\ spent[s] = {} /\ place[s] = "live"
    BY <1>1
  <2> QED
    BY <2>1, <2>2
<1>3. EntriesAreWhole /\ GoneIsEntered
  BY <1>1 DEF EntriesAreWhole, GoneIsEntered
<1>4. CountsUpTo(EmptyDb, spent, journal)
  BY <1>1, EmptyCounts
<1>5. MarksFit
  BY <1>1 DEF MarksFit, EmptyDb, Unmarked
<1>6. \A q \in Queries : KeepsWord(query[q], db)
  BY <1>1, IdleKeeps
<1> QED
  BY <1>1, <1>2, <1>3, <1>4, <1>5, <1>6 DEF FInv, DInv

\* Every step keeps the invariant.
LEMMA FInvStep ==
  ASSUME IInv, IInv', DInv', FInv, OneSegment, [Next]_vars
  PROVE  FInv'
<1>0. TypeOK /\ TypeOK'
  BY DEF IInv
<1>1. CASE UNCHANGED <<disk, journal, db, saved, query>>
  BY <1>0, <1>1, FInvSame, SameJournal
<1>2. CASE UNCHANGED vars
  BY <1>1, <1>2 DEF vars, disk
<1>3. CASE \E s \in Sessions : Write(s) \/ \E indexed \in BOOLEAN : Land(s, indexed)
  BY <1>3, FInvWrite, FInvLand
<1>4. CASE OneShot
  <2> DEFINE e == [of |-> NoSession, calls |-> {}]
  <2>1. /\ e \in [of : Sessions \union {NoSession}, calls : SUBSET Nat]
        /\ journal' = Append(journal, e) /\ UNCHANGED <<disk, db, saved, query>>
    BY <1>4 DEF OneShot
  <2> HIDE DEF e
  <2>2. Continues(journal, journal')
    BY <1>0, <2>1, OneMoreEntry
  <2> QED
    BY <2>1, <2>2, FInvSame
<1>5. CASE \E j \in DOMAIN journal, indexed \in BOOLEAN : OneShotRow(j, indexed)
  BY <1>5, FInvRow
<1>6. CASE \E s \in Sessions : KeepUsage(s)
  <2>1. PICK s \in Sessions : KeepUsage(s)
    BY <1>6
  <2>2. Continues(journal, journal')
    BY <2>1, DInvKeepUsage DEF FInv
  <2>3. UNCHANGED <<disk, db, saved, query>>
    BY <2>1 DEF KeepUsage
  <2> QED
    BY <2>2, <2>3, FInvSame
<1>7. CASE (\E s \in Sessions : Discard(s)) \/ RemoveSome \/ Removed
  BY <1>7, FInvDisturb
<1>8. CASE RemoveFails
  <2>1. UNCHANGED <<disk, journal, db, saved, query>>
    BY <1>8 DEF RemoveFails
  <2> QED
    BY <1>1, <2>1
<1>9. CASE Checkpoint
  BY <1>9, FInvCheckpoint
<1>10. CASE Killed \/ PowerFails
  BY <1>10, FInvCrash
<1>11. CASE \E q \in Queries : Begin(q) \/ AddUp(q) \/ \E s \in Sessions : BeginOne(q, s)
  BY <1>11, FInvBegin
<1>12. CASE \E q \in Queries : ReadJournal(q) \/ TakeJournal(q)
  BY <1>12, FInvReadJournal, FInvTakeJournal
<1>13. CASE \E q \in Queries : ReadDir(q) \/ WriteDir(q) \/ Broken(q)
  BY <1>13, FInvReadDir, FInvWriteDir, FInvBroken
<1> QED
  BY <1>2, <1>3, <1>4, <1>5, <1>6, <1>7, <1>8, <1>9, <1>10, <1>11, <1>12, <1>13 DEF Next

\* What is true of logs and journal holds at all times.
LEMMA DInvAlways ==
  ASSUME OneSegment
  PROVE  Spec => []DInv
<1>1. Init => DInv
  BY FInvInit DEF FInv
<1>2. IInv /\ IInv' /\ DInv /\ [Next]_vars => DInv'
  BY DInvStep
<1> QED
  BY <1>1, <1>2, IInvAlways, PTL DEF Spec

\* The invariant does.
LEMMA FInvAlways ==
  ASSUME OneSegment
  PROVE  Spec => []FInv
<1>1. IInv /\ IInv' /\ DInv' /\ FInv /\ [Next]_vars => FInv'
  BY FInvStep
<1> QED
  BY <1>1, FInvInit, IInvAlways, DInvAlways, PTL DEF Spec

\* Who asks what was spent is told of every request that was on disk when he asked:
\* what a batch, a call or a removal failed to tell the database, or the database lost,
\* is read from the logs and the journal before it adds up (usage/catch_up.rs), however
\* many queries do so at the same time, and also when one of them makes the database
\* again while others read.  It takes logs of one segment, whose total is whole or
\* empty when a removal was interrupted.
THEOREM NothingUncounted ==
  ASSUME OneSegment
  PROVE  Spec => []CountedInFull
<1>1. FInv => CountedInFull
  <2> SUFFICES ASSUME FInv, NEW q \in Queries, CaughtUp(q), ~query[q].undercut
               PROVE  /\ \A s \in Sessions :
                           \/ query[q].promised[s] \subseteq db.single[s] \union db.total[s]
                           \/ \E j \in db.skipped : journal[j].of = s
                      /\ query[q].shots \subseteq db.shots \union db.skipped
    BY DEF CountedInFull
  <2>1. query[q].stage = "dirs" /\ query[q].todo = {}
    BY DEF CaughtUp
  <2>2. PromisedIsCounted(query[q], db)
    BY DEF FInv, KeepsWord
  <2> QED
    BY <2>1, <2>2 DEF PromisedIsCounted, Held, Listed, Missed
<1> QED
  BY <1>1, FInvAlways, PTL

\* A session of one segment that is gone has left every request it sent in the journal,
\* in each entry about it and so in the last (usage/purged.rs), wherever its removal was
\* interrupted and begun again.  That some sessions have more segments is why the run on
\* UsageKept finds it violated.
THEOREM OneSegmentIsKept ==
  ASSUME OneSegment
  PROVE  Spec => []UsageKept
<1>1. IInv /\ DInv => UsageKept
  <2> SUFFICES ASSUME IInv, DInv, NEW s \in Sessions, place[s] = "gone", spent[s] # {}
               PROVE  \E j \in DOMAIN journal :
                        /\ journal[j].of = s /\ journal[j].calls = spent[s]
                        /\ \A later \in DOMAIN journal : later > j => journal[later].of # s
    BY DEF UsageKept
  <2> DEFINE about == {j \in DOMAIN journal : journal[j].of = s}
  <2>1. DOMAIN journal = 1..Len(journal) /\ Len(journal) \in Nat
    BY DEF IInv, TypeOK
  <2>2. Entered(s, Len(journal))
    <3>1. log[s] = << >>
      BY DEF DInv, LogsAreWhole
    <3>2. Seen(s) = {}
      <4>1. Len(log[s]) = 0
        BY <3>1
      <4> QED
        BY <4>1 DEF Seen, Called
    <3> QED
      BY <3>2 DEF DInv, GoneIsEntered
  <2>3. about # {} /\ about \subseteq Nat /\ \A j \in about : j <= Len(journal)
    BY <2>1, <2>2 DEF Entered
  <2>4. PICK last \in about : \A j \in about : j <= last
    <3>1. about \in SUBSET (1..Len(journal))
      BY <2>1
    <3> HIDE DEF about
    <3> QED
      BY <2>1, <2>3, <3>1, LastOfSome
  <2>5. journal[last].calls = spent[s]
    <3>1. s # NoSession
      BY SpendingLimits
    <3> QED
      BY <3>1 DEF DInv, EntriesAreWhole
  <2>6. \A later \in DOMAIN journal : later > last => journal[later].of # s
    BY <2>1, <2>3, <2>4
  <2> QED
    BY <2>4, <2>5, <2>6
<1> QED
  BY <1>1, DInvAlways, IInvAlways, PTL

----------------------------------------------------------------------------
(***************************************************************************)
(* Only a database made again leaves something out.                        *)
(***************************************************************************)
\* A query that takes entries began behind entries that are in the database.
TakesTheRest(r) == r.stage = "taking" => \A j \in 1..r.from : HasEntry(db, j)

\* The inductive invariant, on top of FInv: until a database is made again nothing is
\* skipped, and no query loses what it caught up.
UInv ==
  /\ resets \in Nat
  /\ resets = 0 =>
       /\ db.skipped = {} /\ saved.skipped = {}
       /\ \A q \in Queries : ~query[q].undercut /\ TakesTheRest(query[q])

\* The mark of the journal says what is in it when nothing was skipped.
LEMMA ReadToTheMark ==
  ASSUME IInv, FInv, db.skipped = {}
  PROVE  JournalIsRead /\ \A j \in 1..Behind(db) : HasEntry(db, j)
<1>1. db.entries \in Nat \union {Never}
  BY DEF IInv, TypeOK, Db
<1>2. db.entries # Never => \A j \in 1..db.entries : HasEntry(db, j)
  BY DEF FInv, CountsUpTo, HasRead, HasEntry
<1>3. db.entries = Never => 1..db.entries = {} /\ Behind(db) = 0
  BY DEF Never, Behind
<1>4. db.entries # Never => Behind(db) = db.entries
  BY DEF Behind
<1> QED
  BY <1>1, <1>2, <1>3, <1>4 DEF JournalIsRead

\* What is in the database stays there while neither loses anything.
LEMMA EntryStays ==
  ASSUME IInv, Continues(journal, journal'), CountsMore(db, db'),
         NEW j \in 1..Len(journal), HasEntry(db, j)
  PROVE  HasEntry(db, j)'
<1>1. journal'[j] = journal[j]
  BY DEF Continues
<1>2. journal[j].of # NoSession => journal[j].of \in Sessions
  BY EntriesOf DEF IInv
<1> QED
  BY <1>1, <1>2 DEF HasEntry, CountsMore

\* A step that keeps queries where they are in the journal, and skips nothing.
LEMMA UInvKept ==
  ASSUME IInv, FInv, UInv, UNCHANGED resets, Continues(journal, journal'),
         CountsMore(db, db'),
         db.skipped = {} => db'.skipped = {},
         db.skipped = {} /\ saved.skipped = {} => saved'.skipped = {},
         \A q \in Queries :
           /\ query[q].undercut = FALSE => query'[q].undercut = FALSE
           /\ query'[q].stage = "taking" =>
                query[q].stage = "taking" /\ query'[q].from = query[q].from
  PROVE  UInv'
<1> SUFFICES ASSUME resets = 0
             PROVE  /\ db'.skipped = {} /\ saved'.skipped = {}
                    /\ \A q \in Queries : ~query'[q].undercut /\ TakesTheRest(query[q])'
  BY DEF UInv
<1>1. query \in [Queries -> Doing] /\ Len(journal) \in Nat
  BY DEF IInv, TypeOK
<1>2. ASSUME NEW q \in Queries
      PROVE  ~query'[q].undercut
  <2>1. query[q].undercut \in BOOLEAN /\ ~query[q].undercut
    BY <1>1 DEF UInv, Doing
  <2> QED
    BY <2>1
<1>3. ASSUME NEW q \in Queries, query'[q].stage = "taking", NEW j \in 1..query'[q].from
      PROVE  HasEntry(db, j)'
  <2>1. query[q].stage = "taking" /\ query'[q].from = query[q].from
    BY <1>3
  <2>2. query[q].from \in Nat /\ query[q].to \in Nat
    BY <1>1 DEF Doing
  <2>3. query[q].from <= query[q].to /\ query[q].to <= Len(journal)
    BY <2>1 DEF FInv, KeepsWord, TakenIsThere, IInv, ReadIsThere
  <2>4. j \in 1..Len(journal) /\ HasEntry(db, j)
    BY <1>1, <1>3, <2>1, <2>2, <2>3 DEF UInv, TakesTheRest
  <2> QED
    BY <2>4, EntryStays
<1> QED
  BY <1>2, <1>3 DEF UInv, TakesTheRest

\* A database that is told of a session has skipped no more.
LEMMA AdvanceSkips ==
  ASSUME NEW d \in Db, NEW s \in Sessions, NEW was \in Nat, NEW calls \in SUBSET Nat,
         NEW to \in Nat
  PROVE  /\ Advance(d, s, was, calls, to).skipped = d.skipped
         /\ CountsMore(d, Advance(d, s, was, calls, to))
<1> DEFINE a == Advance(d, s, was, calls, to)
<1>1. /\ a.single = [d.single EXCEPT ![s] = @ \union calls] /\ a.total = d.total
      /\ a.shots = d.shots /\ a.skipped = d.skipped
  BY DEF Advance, Insert, Db
<1>2. a.mark = [d.mark EXCEPT ![s] = Moved(@, was, to)]
  BY DEF Advance, Insert, Db
<1>3. \A t \in Sessions : a.mark[t].purged = d.mark[t].purged
  BY <1>2 DEF Moved, Db
<1>4. \A t \in Sessions : d.single[t] \subseteq a.single[t]
  BY <1>1 DEF Db
<1> QED
  BY <1>1, <1>3, <1>4 DEF CountsMore

\* Sessions and calls.
LEMMA UInvSessions ==
  ASSUME IInv, IInv', FInv, UInv,
         \/ \E s \in Sessions : Write(s) \/ KeepUsage(s) \/ Discard(s)
         \/ \E s \in Sessions, indexed \in BOOLEAN : Land(s, indexed)
         \/ OneShot
         \/ \E j \in DOMAIN journal, indexed \in BOOLEAN : OneShotRow(j, indexed)
         \/ RemoveSome \/ Removed \/ RemoveFails
  PROVE  UInv'
<1>0. TypeOK /\ db \in Db /\ query \in [Queries -> Doing] /\ CountsMore(db, db)
  BY SameCounts DEF IInv, TypeOK
<1>1. ASSUME UNCHANGED <<db, saved, query, resets>>, Continues(journal, journal')
      PROVE  UInv'
  BY <1>0, <1>1, UInvKept
<1>2. ASSUME UNCHANGED <<journal, db, saved, resets>>, NEW s, query' = Disturbed(s)
      PROVE  UInv'
  <2>1. \A q \in Queries : /\ query'[q].undercut = query[q].undercut
                           /\ query'[q].stage = query[q].stage
                           /\ query'[q].from = query[q].from
    BY <1>0, <1>2 DEF Disturbed, Doing
  <2> QED
    BY <1>0, <1>2, <2>1, SameJournal, UInvKept
<1>3. CASE \E s \in Sessions : Write(s)
  BY <1>0, <1>1, <1>3, SameJournal DEF Write, counts
<1>4. CASE \E s \in Sessions : KeepUsage(s)
  <2>1. PICK s \in Sessions : KeepUsage(s)
    BY <1>4
  <2>2. Continues(journal, journal')
    BY <2>1, DInvKeepUsage DEF FInv
  <2> QED
    BY <1>1, <2>1, <2>2 DEF KeepUsage, counts
<1>5. CASE \E s \in Sessions : Discard(s)
  BY <1>2, <1>5 DEF Discard, counts
<1>6. CASE \E s \in Sessions, indexed \in BOOLEAN : Land(s, indexed)
  <2>1. PICK s \in Sessions, indexed \in BOOLEAN : Land(s, indexed)
    BY <1>6
  <2>2. UNCHANGED <<journal, saved, query, resets>>
    BY <2>1 DEF Land, counts
  <2>3. synced[s] \in Nat /\ Len(log[s]) \in Nat /\ Called(s, synced[s], Len(log[s])) \in SUBSET Nat
    BY <1>0, CalledType DEF TypeOK
  <2>4. db'.skipped = db.skipped /\ CountsMore(db, db')
    BY <1>0, <2>1, <2>3, AdvanceSkips DEF Land
  <2> QED
    BY <1>0, <2>2, <2>4, SameJournal, UInvKept
<1>7. CASE OneShot
  <2> DEFINE e == [of |-> NoSession, calls |-> {}]
  <2>1. /\ e \in [of : Sessions \union {NoSession}, calls : SUBSET Nat]
        /\ journal' = Append(journal, e)
        /\ UNCHANGED <<db, saved, query, resets>>
    BY <1>7 DEF OneShot, counts
  <2> HIDE DEF e
  <2>2. Continues(journal, journal')
    BY <1>0, <2>1, OneMoreEntry
  <2> QED
    BY <1>1, <2>1, <2>2
<1>8. CASE \E j \in DOMAIN journal, indexed \in BOOLEAN : OneShotRow(j, indexed)
  <2>1. PICK j \in DOMAIN journal, indexed \in BOOLEAN : OneShotRow(j, indexed)
    BY <1>8
  <2>2. UNCHANGED <<journal, saved, query, resets>>
    BY <2>1 DEF OneShotRow, counts
  <2>3. /\ db'.skipped = db.skipped /\ db'.single = db.single /\ db'.total = db.total
        /\ db'.mark = db.mark /\ db.shots \subseteq db'.shots
    BY <1>0, <2>1 DEF OneShotRow, Db
  <2>4. CountsMore(db, db')
    BY <2>3 DEF CountsMore
  <2> QED
    BY <1>0, <2>2, <2>3, <2>4, SameJournal, UInvKept
<1>9. CASE RemoveSome \/ Removed
  BY <1>2, <1>9 DEF RemoveSome, Removed, counts
<1>10. CASE RemoveFails
  BY <1>0, <1>1, <1>10, SameJournal DEF RemoveFails, counts
<1> QED
  BY <1>3, <1>4, <1>5, <1>6, <1>7, <1>8, <1>9, <1>10

\* Queries.
LEMMA UInvQueries ==
  ASSUME IInv, IInv', FInv, UInv, NEW q \in Queries,
         \/ Begin(q) \/ ReadJournal(q) \/ TakeJournal(q) \/ ReadDir(q) \/ WriteDir(q)
         \/ AddUp(q) \/ Broken(q) \/ \E s \in Sessions : BeginOne(q, s)
  PROVE  UInv'
<1>0. /\ TypeOK /\ db \in Db /\ query \in [Queries -> Doing] /\ query[q] \in Doing
      /\ CountsMore(db, db) /\ Idle \in Doing
  BY SameCounts, IdleType DEF IInv, TypeOK
<1>1. ASSUME NEW r, query' = [query EXCEPT ![q] = r], r.stage # "taking",
             r.undercut = FALSE \/ r.undercut = query[q].undercut,
             UNCHANGED <<journal, saved, resets>>,
             db.skipped = {} => db'.skipped = {}, CountsMore(db, db')
      PROVE  UInv'
  <2>1. \A p \in Queries : p # q => query'[p] = query[p]
    BY <1>0, <1>1
  <2>2. query'[q] = r
    BY <1>0, <1>1
  <2>3. \A p \in Queries :
           /\ query[p].undercut = FALSE => query'[p].undercut = FALSE
           /\ query'[p].stage = "taking" =>
                query[p].stage = "taking" /\ query'[p].from = query[p].from
    BY <1>1, <2>1, <2>2
  <2> QED
    BY <1>0, <1>1, <2>3, SameJournal, UInvKept
<1>2. CASE Begin(q) \/ AddUp(q) \/ \E s \in Sessions : BeginOne(q, s)
  <2>1. \E r : query' = [query EXCEPT ![q] = r] /\ r.stage # "taking" /\ r.undercut = FALSE
    <3>1. CASE Begin(q)
      <4> DEFINE r == [Idle EXCEPT !.stage = "journal", !.again = TRUE, !.shots = Calls,
                                   !.promised = [s \in Sessions |-> OnRecord(s)]]
      <4>1. query' = [query EXCEPT ![q] = r] /\ r.stage # "taking" /\ r.undercut = FALSE
        BY <3>1 DEF Begin, Idle
      <4> QED
        BY <4>1
    <3>2. CASE AddUp(q)
      <4>1. query' = [query EXCEPT ![q] = Idle]
        BY <3>2 DEF AddUp
      <4>2. Idle.stage # "taking" /\ Idle.undercut = FALSE
        BY DEF Idle
      <4> QED
        BY <4>1, <4>2
    <3>3. CASE \E s \in Sessions : BeginOne(q, s)
      <4>1. PICK s \in Sessions : BeginOne(q, s)
        BY <3>3
      <4> DEFINE r == [Idle EXCEPT !.stage = "dirs", !.todo = {<<s, "live">>},
                                   !.promised = [Idle.promised EXCEPT ![s] = OnRecord(s)]]
      <4>2. query' = [query EXCEPT ![q] = r] /\ r.stage # "taking" /\ r.undercut = FALSE
        BY <4>1 DEF BeginOne, Idle
      <4> QED
        BY <4>2
    <3> QED
      BY <1>2, <3>1, <3>2, <3>3
  <2>2. UNCHANGED <<journal, db, saved, resets>>
    BY <1>2 DEF Begin, AddUp, BeginOne, counts
  <2> QED
    BY <1>0, <1>1, <2>1, <2>2
<1>3. CASE ReadJournal(q)
  <2>1. UNCHANGED <<journal, db, saved, resets>>
    BY <1>3 DEF ReadJournal, counts
  <2>2. CASE db.entries = Len(journal)
    <3>1. PICK r : r = [query[q] EXCEPT !.stage = "dirs", !.todo = Directories]
      OBVIOUS
    <3>2. r.stage # "taking" /\ r.undercut = query[q].undercut
      BY <1>0, <3>1 DEF Doing
    <3>3. query' = [query EXCEPT ![q] = r]
      BY <1>3, <2>2, <3>1 DEF ReadJournal
    <3> QED
      BY <1>0, <1>1, <2>1, <3>2, <3>3
  <2>3. CASE db.entries # Len(journal)
    <3>1. PICK r : r = [query[q] EXCEPT !.stage = "taking", !.from = Behind(db), !.to = Len(journal)]
      OBVIOUS
    <3>2. r.undercut = query[q].undercut /\ r.from = Behind(db)
      BY <1>0, <3>1 DEF Doing
    <3>3. query' = [query EXCEPT ![q] = r]
      BY <1>3, <2>3, <3>1 DEF ReadJournal
    <3>4. \A p \in Queries : query'[p] = IF p = q THEN r ELSE query[p]
      BY <1>0, <3>3
    <3>5. ASSUME resets = 0
          PROVE  \A p \in Queries : ~query'[p].undercut /\ TakesTheRest(query'[p])
      <4>1. \A j \in 1..Behind(db) : HasEntry(db, j)
        BY <3>5, ReadToTheMark DEF UInv
      <4>2. TakesTheRest(r) /\ ~r.undercut
        BY <3>2, <3>5, <4>1 DEF UInv, TakesTheRest
      <4> QED
        BY <3>4, <3>5, <4>2 DEF UInv
    <3> QED
      BY <2>1, <3>5 DEF UInv, TakesTheRest, HasEntry
  <2> QED
    BY <2>2, <2>3
<1>4. CASE TakeJournal(q)
  <2>1. /\ UNCHANGED <<journal, saved, resets>> /\ query[q].stage = "taking"
    BY <1>4 DEF TakeJournal, counts
  <2>2. PICK last \in [Sessions -> query[q].from..query[q].to] :
          /\ IsLast(last, query[q].from, query[q].to)
          /\ db' = Replaced(db, last, query[q].from, query[q].to)
    BY <1>4 DEF TakeJournal
  <2>3. PICK r : r = [query[q] EXCEPT !.stage = "dirs", !.todo = Directories, !.from = 0, !.to = 0]
    OBVIOUS
  <2>4. r.stage # "taking" /\ r.undercut = query[q].undercut
    BY <1>0, <2>3 DEF Doing
  <2>5. query' = [query EXCEPT ![q] = r]
    BY <1>4, <2>3 DEF TakeJournal
  <2>6. CountsMore(db, db')
    <3>1. EntriesAreWhole /\ CountsUpTo(db, spent, journal) /\ SoundFor(db, spent, place)
      BY DEF FInv, DInv, IInv, Sound
    <3>2. /\ query[q].from \in Nat /\ query[q].to \in Nat
          /\ query[q].from <= query[q].to /\ query[q].to <= Len(journal)
      BY <1>0, <2>1 DEF FInv, KeepsWord, TakenIsThere, IInv, ReadIsThere, Doing
    <3> QED
      BY <1>0, <2>2, <3>1, <3>2, ReplacedCounts
  <2>7. CASE resets = 0
    <3>1. db.skipped = {} /\ \A j \in 1..query[q].from : HasEntry(db, j)
      BY <2>1, <2>7 DEF UInv, TakesTheRest
    <3>2. Behind(db) \in Nat /\ query[q].from \in Nat
      BY <1>0 DEF Behind, Db, Doing
    <3>3. (Behind(db) + 1)..query[q].from \subseteq 1..query[q].from
      BY <3>2
    <3>4. db'.skipped = {}
      BY <2>2, <3>1, <3>3 DEF Replaced
    <3> QED
      BY <1>1, <2>1, <2>4, <2>5, <2>6, <3>4
  <2>8. CASE resets # 0
    BY <2>1, <2>8 DEF UInv
  <2> QED
    BY <2>7, <2>8
<1>5. CASE ReadDir(q)
  <2>1. PICK dir \in query[q].todo :
          LET held == [query[q] EXCEPT !.todo = @ \ {dir}]
          IN  query' = [query EXCEPT ![q] = IF NothingToRead(dir) THEN held
                                            ELSE Holding(held, dir[1])]
    BY <1>5 DEF ReadDir
  <2>2. PICK held : held = [query[q] EXCEPT !.todo = @ \ {dir}]
    OBVIOUS
  <2>3. PICK r : r = IF NothingToRead(dir) THEN held ELSE Holding(held, dir[1])
    OBVIOUS
  <2>4. query[q].stage = "dirs" /\ UNCHANGED <<journal, db, saved, resets>>
    BY <1>5 DEF ReadDir, counts
  <2>5. held \in Doing /\ held.stage = "dirs" /\ held.undercut = query[q].undercut
    BY <1>0, <2>2, <2>4 DEF Doing
  <2>6. r.stage # "taking" /\ r.undercut = query[q].undercut
    BY <2>3, <2>5 DEF Holding, Doing
  <2>7. query' = [query EXCEPT ![q] = r]
    BY <2>1, <2>2, <2>3
  <2> QED
    BY <1>0, <1>1, <2>4, <2>6, <2>7
<1>6. CASE WriteDir(q)
  <2>1. PICK r : r = Released(query[q])
    OBVIOUS
  <2>2. r.stage # "taking" /\ r.undercut = query[q].undercut
    BY <1>0, <2>1 DEF Released, Doing
  <2>3. query' = [query EXCEPT ![q] = r] /\ UNCHANGED <<journal, saved, resets>>
    BY <1>6, <2>1 DEF WriteDir, counts
  <2>4. PICK s : s = query[q].of
    OBVIOUS
  <2>5. /\ s \in Sessions /\ query[q].was \in Nat /\ query[q].calls \in SUBSET Nat
        /\ query[q].to \in Nat
    BY <1>0, <1>6, <2>4 DEF WriteDir, IInv, HeldIsSpent, Doing
  <2>6. db' = db \/ db' = Advance(db, s, query[q].was, query[q].calls, query[q].to)
    BY <1>6, <2>4 DEF WriteDir
  <2>7. db'.skipped = db.skipped /\ CountsMore(db, db')
    BY <1>0, <2>5, <2>6, AdvanceSkips
  <2> QED
    BY <1>1, <2>2, <2>3, <2>7
<1>7. CASE Broken(q)
  BY <1>7 DEF Broken, UInv
<1> QED
  BY <1>2, <1>3, <1>4, <1>5, <1>6, <1>7

\* Every step keeps the invariant.
LEMMA UInvStep ==
  ASSUME IInv, IInv', FInv, UInv, [Next]_vars
  PROVE  UInv'
<1>0. TypeOK /\ CountsMore(db, db)
  BY SameCounts DEF IInv
<1>1. CASE UNCHANGED vars
  BY <1>0, <1>1, SameJournal, UInvKept DEF vars
<1>2. CASE Checkpoint
  BY <1>0, <1>2, SameJournal, UInvKept DEF Checkpoint, counts
<1>3. CASE Killed \/ PowerFails
  <2>1. /\ query' = [q \in Queries |-> Idle]
        /\ \/ (db' = db \/ db' = saved) /\ saved' = saved /\ UNCHANGED resets
           \/ resets' = resets + 1
    BY <1>3 DEF Killed, PowerFails, Restarted
  <2>2. \A q \in Queries : ~query'[q].undercut /\ query'[q].stage # "taking"
    BY <2>1 DEF Idle
  <2> QED
    BY <2>1, <2>2 DEF UInv, TakesTheRest
<1> QED
  BY <1>1, <1>2, <1>3, UInvSessions, UInvQueries DEF Next

\* Only a database that is found broken and made again while others read it leaves a
\* query with less than it was promised, or the journal with entries that are never
\* read: until that happens, "first caught up, then asked" and "read back from the
\* journal" hold as they are written (usage/catch_up.rs, endpoint usage.rs), whatever
\* updates the database misses or loses.
THEOREM ToldUntilMadeAgain ==
  ASSUME OneSegment
  PROVE  Spec => [](resets = 0 => ToldInFull /\ JournalIsRead)
<1>1. Init => UInv
  BY DEF Init, UInv, EmptyDb, Idle, TakesTheRest
<1>2. IInv /\ IInv' /\ FInv /\ UInv /\ [Next]_vars => UInv'
  BY UInvStep
<1>3. IInv /\ FInv /\ UInv => (resets = 0 => ToldInFull /\ JournalIsRead)
  <2> SUFFICES ASSUME IInv, FInv, UInv, resets = 0
               PROVE  ToldInFull /\ JournalIsRead
    OBVIOUS
  <2>1. db.skipped = {} /\ \A q \in Queries : ~query[q].undercut
    BY DEF UInv
  <2>2. ASSUME NEW q \in Queries, CaughtUp(q)
        PROVE  /\ \A s \in Sessions : query[q].promised[s] \subseteq db.single[s] \union db.total[s]
               /\ query[q].shots \subseteq db.shots
    <3>1. query[q].stage = "dirs" /\ query[q].todo = {}
      BY <2>2 DEF CaughtUp
    <3>2. PromisedIsCounted(query[q], db)
      BY DEF FInv, KeepsWord
    <3> QED
      BY <2>1, <3>1, <3>2 DEF PromisedIsCounted, Held, Listed, Missed
  <2> QED
    BY <2>1, <2>2, ReadToTheMark DEF ToldInFull
<1> QED
  BY <1>1, <1>2, <1>3, IInvAlways, FInvAlways, PTL DEF Spec
=============================================================================
