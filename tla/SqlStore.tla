------------------------------ MODULE SqlStore ------------------------------
(***************************************************************************)
(* Sqlstore (src/modules/localstorage/sqlstore): objects, snapshots, diffs *)
(* and a key-value table in an SQLite database behind the generated        *)
(* classes of sqldb.cc.  All threads share one connection.  A store or a   *)
(* removal is begin, some statements, commit; when one of them throws, the *)
(* operation returns false and nobody rolls back.                          *)
(***************************************************************************)
EXTENDS Naturals, FiniteSets, SequencesExt

CONSTANTS
  Workers,     \* threads that call the store
  AnIds,       \* identifiers of objects, snapshots and diffs
  Texts,       \* contents
  Keys,        \* keys of the key-value table
  NoRow,       \* no row
  MaxRow,      \* bound: rows in ObjID_
  MaxPair,     \* bound: rows in HT_
  MaxCalls     \* bound: transactions that are begun

\* bound: diffs of a snapshot, snapshots of an object, predecessors of a diff;
\* the records in such a list come with empty lists of their own
MaxList == 1

ASSUME SqlAssumption == MaxRow \in Nat /\ MaxPair \in Nat /\ MaxCalls \in Nat

VARIABLES
  live,        \* the database as the connection sees it
  disk,        \* the database as the last commit left it
  tx,          \* a transaction is open on the connection
  prog,        \* prog[w]: the statements worker w has still to execute
  last,        \* last[w]: the id of the record w updated last
  owner,       \* owner[w]: the id of the object w stores
  wrote,       \* history, wrote[w]: the rows w has written in its transaction
  kept,        \* history: rows whose store was acknowledged and is durable
  unsure,      \* history: rows acknowledged inside somebody's transaction
  seen,        \* rows whose id (_db_id) a caller got and may store again
  gone,        \* history: rows removed while a caller had their id
  stale,       \* history: such a row was stored again
  calls,       \* transactions begun so far
  found,       \* found[w]: the key w removes and the row it has selected, if any
  reused       \* history: pairs put into a row selected for another key's removal

kvs == <<found, reused>>
vars == <<live, disk, tx, prog, last, owner, wrote, kept, unsure, seen, gone,
          stale, calls, found, reused>>
history == <<wrote, kept, unsure, gone, stale>>

Rows == 1..MaxRow
Pairs == 1..MaxPair
Classes == {"object", "snapshot", "diff"}

\* SQLDB::getSchema: the tables, empty.  Object_, Snapshot_ and Diff_ share
\* their ids with ObjID_, the class they inherit; the relations hold pairs of
\* ids.
Schema ==
  LET empty == [r \in Rows |-> NoRow]
  IN  [objID |-> empty, object |-> empty, snapshot |-> empty, diff |-> empty,
       ht |-> [r \in Pairs |-> NoRow], objectSnapshot |-> {}, diffObject |-> {},
       diffSnapshot |-> {}, diffObjID |-> {}]

Init ==
  /\ live = Schema /\ disk = Schema /\ tx = FALSE
  /\ prog = [w \in Workers |-> <<>>]
  /\ last = [w \in Workers |-> 0] /\ owner = [w \in Workers |-> 0]
  /\ wrote = [w \in Workers |-> {}]
  /\ kept = {} /\ unsure = {} /\ seen = {} /\ gone = {} /\ stale = FALSE
  /\ calls = 0
  /\ found = [w \in Workers |-> {}] /\ reused = {}

\* What a statement leaves is durable at once unless a transaction is open.
Apply(t) == live' = t /\ disk' = IF tx THEN disk ELSE t
-----------------------------------------------------------------------------
(* The statements of the generated classes, on the tables t.                *)

\* ObjectSnapshotRelation::link, DiffSnapshotRelation::link and
\* DiffObjIDRelation::link insert the ids that the two records have by now;
\* a record that is not in the database yet has id 0.
ObjectSnapshotLink(t, o, s) == [t EXCEPT !.objectSnapshot = @ \cup {<<o, s>>}]
DiffSnapshotLink(t, d, s) == [t EXCEPT !.diffSnapshot = @ \cup {<<d, s>>}]
DiffObjIDLink(t, d, i) == [t EXCEPT !.diffObjID = @ \cup {<<d, i>>}]

\* update() of a new record creates a row of ObjID_ and, for the derived
\* classes, one with the same id in the table of the class; update() of a
\* record that is marked as being in the database changes the rows with its
\* id, if there are any.  The two INSERTs are one step: both are inside the
\* transaction of the operation, the single statements that another thread
\* can send in between touch HT_ or join the two tables, and a failure
\* between them leaves half a record in a transaction that nobody commits.
Write(t, class, r, an, text, new) ==
  LET row == [type |-> class, an |-> an]
  IN  [t EXCEPT !.objID[r] = IF new \/ @ # NoRow THEN row ELSE @,
                ![class][r] = IF new \/ @ # NoRow THEN text ELSE @]

UpdateObjID(t, r, an) == [t EXCEPT !.objID[r] = [type |-> "objID", an |-> an]]
UpdateObject(t, r, an, new) == Write(t, "object", r, an, TRUE, new)
UpdateSnapshot(t, r, an, text, new) == Write(t, "snapshot", r, an, text, new)
UpdateDiff(t, r, an, text, new) == Write(t, "diff", r, an, text, new)

\* delRelations of the three derived classes
DelObjectRelations(t, r) ==
  [t EXCEPT !.objectSnapshot = {p \in @ : p[1] # r},
            !.diffObject = {p \in @ : p[2] # r}]

DelSnapshotRelations(t, r) ==
  [t EXCEPT !.objectSnapshot = {p \in @ : p[2] # r},
            !.diffSnapshot = {p \in @ : p[2] # r}]

\* Mutation: the links to snapshots are forgotten.
DelDiffRelationsPrevOnly(t, r) ==
  [t EXCEPT !.diffObjID = {p \in @ : p[1] # r}]

DelDiffRelations(t, r) ==
  [t EXCEPT !.diffObject = {p \in @ : p[1] # r},
            !.diffSnapshot = {p \in @ : p[1] # r},
            !.diffObjID = {p \in @ : p[1] # r}]

\* Mutation: every row is deleted as a plain ObjID.
DelObjIDPlain(t, r) == [t EXCEPT !.objID[r] = NoRow]

\* delRecord of every class: the row of the class and the one in ObjID_.
DelRecord(t, class, r) == [t EXCEPT ![class][r] = NoRow, !.objID[r] = NoRow]

\* ObjID::del: a row of a derived class is deleted as what it is, with its
\* relations; the relations of a plain ObjID stay.
DelObjID(t, r) ==
  LET class == t.objID[r].type
      rest == CASE class = "object" -> DelObjectRelations(t, r)
                [] class = "snapshot" -> DelSnapshotRelations(t, r)
                [] class = "diff" -> DelDiffRelations(t, r)
                [] OTHER -> t
  IN  DelRecord(rest, class, r)

\* HT::update of a new record, the only kind the store writes, and HT::del
UpdateHT(t, r, key, value) == [t EXCEPT !.ht[r] = <<key, value>>]
DelHT(t, r) == [t EXCEPT !.ht[r] = NoRow]
-----------------------------------------------------------------------------
(* What the functions of sqlstore.cc execute between begin and commit.      *)

\* _db_store_diff: each predecessor gets a row of its own and is linked to
\* the id the diff has, before the diff itself is written.
DiffStatements(d) ==
  FlattenSeq([i \in DOMAIN d.prev |->
    << [do |-> "objID", an |-> d.prev[i]], [do |-> "linkPrev", row |-> d.row] >>])
  \o << [do |-> "diff", row |-> d.row, an |-> d.an, text |-> d.text] >>

\* _db_store_snapshot: the diffs are stored and linked before the snapshot.
SnapshotStatements(s) ==
  FlattenSeq([i \in DOMAIN s.diffs |->
    DiffStatements(s.diffs[i]) \o << [do |-> "linkDiff", row |-> s.row] >>])
  \o << [do |-> "snapshot", row |-> s.row, an |-> s.an, text |-> s.text] >>

\* Mutation: the snapshots are linked before the object has its id.
ObjectStatementsLinkFirst(o) ==
  FlattenSeq([i \in DOMAIN o.snapshots |->
    SnapshotStatements(o.snapshots[i]) \o << [do |-> "linkSnapshot"] >>])
  \o << [do |-> "object", row |-> o.row, an |-> o.an] >>

\* db_store_obj: the object is written first; its diffs are not stored.  The
\* second update() at the end finds its fields written and changes nothing.
ObjectStatements(o) ==
  << [do |-> "object", row |-> o.row, an |-> o.an] >>
  \o FlattenSeq([i \in DOMAIN o.snapshots |->
       SnapshotStatements(o.snapshots[i]) \o << [do |-> "linkSnapshot"] >>])
-----------------------------------------------------------------------------
Idle(w) == prog[w] = <<>>
\* A worker that is in no call.
Ready(w) == Idle(w) /\ found[w] = {}

\* begin throws when a transaction is open, by whomever; the operation then
\* returns false and has changed nothing.
Begin(w, stmts) ==
  /\ Ready(w) /\ calls < MaxCalls
  /\ ~tx /\ tx' = TRUE
  /\ prog' = [prog EXCEPT ![w] = stmts \o << [do |-> "commit"] >>]
  /\ calls' = calls + 1
  /\ UNCHANGED <<live, disk, last, owner, history, seen, kvs>>

\* A caller stores a new record, whose _db_id is 0, or one that it got.
RowsFor(class, an) == {0} \cup {h[2] : h \in {x \in seen : x[1] = class /\ x[3] = an}}
Records(class) == {h \in AnIds \X (Rows \cup {0}) : h[2] \in RowsFor(class, h[1])}
\* The lists that it passes along: a longer one repeats the same statements.
Lists(S) == SeqOf(S, MaxList)

Diffs(Prevs) == {[an |-> h[1], row |-> h[2], text |-> c, prev |-> p] :
                   h \in Records("diff"), c \in Texts, p \in Prevs}
Snapshots(Ds) == {[an |-> h[1], row |-> h[2], text |-> c, diffs |-> ds] :
                    h \in Records("snapshot"), c \in Texts, ds \in Ds}

\* Mutation: db_store_diff forgets begin.
db_store_diffUnbegun(w) ==
  /\ Ready(w) /\ calls < MaxCalls
  /\ \E d \in Diffs(Lists(AnIds)) :
       prog' = [prog EXCEPT ![w] = DiffStatements(d) \o << [do |-> "commit"] >>]
  /\ calls' = calls + 1
  /\ UNCHANGED <<live, disk, tx, last, owner, history, seen, kvs>>

db_store_diff(w) ==
  \E d \in Diffs(Lists(AnIds)) : Begin(w, DiffStatements(d))

db_store_snapshot(w) ==
  \E s \in Snapshots(Lists(Diffs({<<>>}))) : Begin(w, SnapshotStatements(s))

db_store_obj(w) ==
  \E h \in Records("object"), ss \in Lists(Snapshots({<<>>})) :
    Begin(w, ObjectStatements([an |-> h[1], row |-> h[2], snapshots |-> ss]))

db_remove(w) == \E an \in AnIds : Begin(w, << [do |-> "remove", an |-> an] >>)

\* A worker executes its next statement.
Executes(w, kind) ==
  /\ ~Idle(w) /\ Head(prog[w]).do = kind
  /\ prog' = [prog EXCEPT ![w] = Tail(@)]
  /\ UNCHANGED <<tx, unsure, seen, calls, kvs>>

\* SQLite picks an id that no row has.
Free(t, class) == {r \in Rows : t.objID[r] = NoRow /\ t[class][r] = NoRow}

\* The id under which a record of a class is written, and what is known of it.
Target(w, class, r) ==
  LET h == Head(prog[w])
  IN  /\ IF h.row = 0 THEN r \in Free(live, class) ELSE r = h.row
      /\ stale' = (stale \/ <<class, h.row, h.an>> \in gone)

\* The row is written if it is new or still there.  The store of a record
\* whose row was removed writes nothing; it is acknowledged all the same, and
\* counts for nothing here.
Wrote(w, class, r, text) ==
  wrote' = [wrote EXCEPT ![w] = {x \in @ : <<x[1], x[2]>> # <<class, r>>} \cup
    (IF Head(prog[w]).row = 0 \/ live[class][r] # NoRow THEN {<<class, r, text>>} ELSE {})]

ExecObjID(w) ==
  /\ Executes(w, "objID")
  /\ \E r \in Free(live, "objID") :
       /\ Apply(UpdateObjID(live, r, Head(prog[w]).an))
       /\ last' = [last EXCEPT ![w] = r]
  /\ UNCHANGED <<owner, history>>

ExecDiff(w) ==
  LET h == Head(prog[w]) IN
  /\ Executes(w, "diff")
  /\ \E r \in Rows :
       /\ Target(w, "diff", r) /\ Wrote(w, "diff", r, h.text)
       /\ Apply(UpdateDiff(live, r, h.an, h.text, h.row = 0))
       /\ last' = [last EXCEPT ![w] = r]
  /\ UNCHANGED <<owner, kept, gone>>

ExecSnapshot(w) ==
  LET h == Head(prog[w]) IN
  /\ Executes(w, "snapshot")
  /\ \E r \in Rows :
       /\ Target(w, "snapshot", r) /\ Wrote(w, "snapshot", r, h.text)
       /\ Apply(UpdateSnapshot(live, r, h.an, h.text, h.row = 0))
       /\ last' = [last EXCEPT ![w] = r]
  /\ UNCHANGED <<owner, kept, gone>>

ExecObject(w) ==
  LET h == Head(prog[w]) IN
  /\ Executes(w, "object")
  /\ \E r \in Rows :
       /\ Target(w, "object", r) /\ Wrote(w, "object", r, TRUE)
       /\ Apply(UpdateObject(live, r, h.an, h.row = 0))
       /\ owner' = [owner EXCEPT ![w] = r]
  /\ UNCHANGED <<last, kept, gone>>

ExecLink(w) ==
  /\ \/ Executes(w, "linkPrev") /\ Apply(DiffObjIDLink(live, Head(prog[w]).row, last[w]))
     \/ Executes(w, "linkDiff") /\ Apply(DiffSnapshotLink(live, last[w], Head(prog[w]).row))
     \/ Executes(w, "linkSnapshot") /\ Apply(ObjectSnapshotLink(live, owner[w], last[w]))
  /\ UNCHANGED <<last, owner, history>>

\* select ... one() gives some row of ObjID_ with the identifier
ExecRemove(w) ==
  /\ Executes(w, "remove")
  /\ \E r \in Rows :
       /\ live.objID[r] # NoRow /\ live.objID[r].an = Head(prog[w]).an
       /\ Apply(DelObjID(live, r))
       /\ gone' = gone \cup {h \in seen : h[2] = r}
       /\ kept' = {k \in kept : k[1] = "ht" \/ k[2] # r}
  /\ UNCHANGED <<last, owner, wrote, unsure, stale>>

\* The objects of the operation are destroyed.
Return(w) ==
  /\ prog' = [prog EXCEPT ![w] = <<>>]
  /\ last' = [last EXCEPT ![w] = 0] /\ owner' = [owner EXCEPT ![w] = 0]
  /\ wrote' = [wrote EXCEPT ![w] = {}]

\* Mutation: the acknowledgement does not wait for the commit.
CommitEarly(w) ==
  /\ ~Idle(w) /\ Head(prog[w]).do = "commit"
  /\ Return(w)
  /\ kept' = {k \in kept : \A x \in wrote[w] : <<x[1], x[2]>> # <<k[1], k[2]>>}
             \cup wrote[w] \cup unsure
  /\ unsure' = {}
  /\ UNCHANGED <<live, disk, tx, seen, gone, stale, calls, kvs>>

\* commit, and the operation returns true
Commit(w) ==
  /\ ~Idle(w) /\ Head(prog[w]).do = "commit"
  /\ Return(w)
  /\ disk' = live /\ tx' = FALSE
  /\ kept' = {k \in kept : \A x \in wrote[w] : <<x[1], x[2]>> # <<k[1], k[2]>>}
             \cup wrote[w] \cup unsure
  /\ unsure' = {}
  /\ UNCHANGED <<live, seen, gone, stale, calls, kvs>>

\* A statement throws: the row to remove is not found, or SQLite reports an
\* error.  The operation returns false and the transaction stays open.
Throw(w) ==
  /\ ~Idle(w)
  /\ Return(w)
  /\ UNCHANGED <<live, disk, tx, kept, unsure, gone, stale, seen, calls, kvs>>
-----------------------------------------------------------------------------
(* Reading gives the caller the records with their ids.                     *)
Handles(class, rows) ==
  {<<class, r, live.objID[r].an>> :
     r \in {x \in rows : live[class][x] # NoRow /\ live.objID[x] # NoRow}}

DiffsOfSnapshot(s) == Handles("diff", {p[1] : p \in {q \in live.diffSnapshot : q[2] = s}} \cap Rows)
DiffsOfObject(o) == Handles("diff", {p[1] : p \in {q \in live.diffObject : q[2] = o}})
SnapshotsOfObject(o) == Handles("snapshot", {p[2] : p \in {q \in live.objectSnapshot : q[1] = o}})

Got(handles) ==
  /\ seen' = seen \cup handles
  /\ gone' = gone \ handles
  /\ UNCHANGED <<live, disk, tx, prog, last, owner, wrote, kept, unsure, stale, calls, kvs>>

db_get_diff(w) == Ready(w) /\ \E h \in Handles("diff", Rows) : Got({h})

db_get_snapshot(w) ==
  Ready(w) /\ \E h \in Handles("snapshot", Rows) : Got({h} \cup DiffsOfSnapshot(h[2]))

db_get_obj(w) ==
  Ready(w) /\ \E h \in Handles("object", Rows) :
    LET ss == SnapshotsOfObject(h[2])
    IN  Got({h} \cup ss \cup DiffsOfObject(h[2])
              \cup UNION {DiffsOfSnapshot(s[2]) : s \in ss})
-----------------------------------------------------------------------------
(* The key-value table: single statements, without begin and commit.        *)
\* Mutation: the pair is durable even inside a transaction.
kv_putThrough(w) ==
  /\ Ready(w)
  /\ \E k \in Keys, c \in Texts, r \in {x \in Pairs : live.ht[x] = NoRow} :
       /\ live' = UpdateHT(live, r, k, c)
       /\ disk' = UpdateHT(disk, r, k, c)
  /\ UNCHANGED <<tx, prog, last, owner, history, seen, calls, kvs>>

\* A kv_remove of another key has selected row r, which it will delete.
Selected(r, k) == \E v \in Workers : \E f \in found[v] : f[2] = r /\ f[1] # k

\* SQLite may give the pair the id of a row that was deleted.
kv_put(w) ==
  /\ Ready(w)
  /\ \E k \in Keys, c \in Texts, r \in {x \in Pairs : live.ht[x] = NoRow} :
       /\ Apply(UpdateHT(live, r, k, c))
       /\ LET row == {<<"ht", r, <<k, c>>>>}
          IN  /\ IF tx THEN unsure' = unsure \cup row /\ UNCHANGED kept
                       ELSE kept' = kept \cup row /\ UNCHANGED unsure
              /\ reused' = IF Selected(r, k) THEN reused \cup row ELSE reused \ row
  /\ UNCHANGED <<tx, prog, last, owner, wrote, seen, gone, stale, calls, found>>

\* the values kv_get may answer with: select ... one() gives one of the rows
kv_get(k) == {live.ht[r][2] : r \in {x \in Pairs : live.ht[x] # NoRow /\ live.ht[x][1] = k}}

\* kv_remove of a key selects one of its rows, whichever one() gives; without
\* any it returns false.
kv_remove(w) ==
  /\ Ready(w)
  /\ \E r \in {x \in Pairs : live.ht[x] # NoRow} :
       found' = [found EXCEPT ![w] = {<<live.ht[r][1], r>>}]
  /\ UNCHANGED <<live, disk, tx, prog, last, owner, history, seen, calls, reused>>

\* Then ht.del() deletes the row that has the id by now, or throws.  A pair of
\* the key in that row was to be removed; one of another key that was put into
\* it in between goes too.
kv_delete(w) ==
  /\ \E f \in found[w] :
       LET taken(k) == k[1] = "ht" /\ k[2] = f[2] /\ (k[3][1] = f[1] \/ k \in reused)
       IN  \/ /\ Apply(DelHT(live, f[2]))
              /\ kept' = {k \in kept : ~taken(k)}
              /\ unsure' = {k \in unsure : ~taken(k)}
              /\ reused' = {k \in reused : ~taken(k)}
           \/ UNCHANGED <<live, disk, kept, unsure, reused>>
  /\ found' = [found EXCEPT ![w] = {}]
  /\ UNCHANGED <<tx, prog, last, owner, wrote, seen, gone, stale, calls>>

\* The process ends and initialise opens the database again.
Restart ==
  /\ live' = disk /\ tx' = FALSE
  /\ prog' = [w \in Workers |-> <<>>]
  /\ last' = [w \in Workers |-> 0] /\ owner' = [w \in Workers |-> 0]
  /\ wrote' = [w \in Workers |-> {}]
  /\ unsure' = {} /\ seen' = {} /\ gone' = {}
  /\ found' = [w \in Workers |-> {}] /\ reused' = {}
  /\ UNCHANGED <<disk, kept, stale, calls>>

Next ==
  \/ \E w \in Workers :
       \/ db_store_diff(w) \/ db_store_snapshot(w) \/ db_store_obj(w) \/ db_remove(w)
       \/ ExecObjID(w) \/ ExecDiff(w) \/ ExecSnapshot(w) \/ ExecObject(w)
       \/ ExecLink(w) \/ ExecRemove(w) \/ Commit(w) \/ Throw(w)
       \/ db_get_diff(w) \/ db_get_snapshot(w) \/ db_get_obj(w)
       \/ kv_put(w) \/ kv_remove(w) \/ kv_delete(w)
  \/ Restart

Spec == Init /\ [][Next]_vars
-----------------------------------------------------------------------------
(* The columns of the generated classes: what is told apart of a row.  An   *)
(* object has nothing but its id; times and rights are left out.            *)
ObjIDRow == [type : Classes \cup {"objID"}, an : AnIds]
ObjectRow == {TRUE}
SnapshotRow == Texts
DiffRow == Texts
HTRow == Keys \X Texts
ObjectSnapshotRelation == Rows \X Rows
DiffObjectRelation == Rows \X Rows
DiffSnapshotRelation == Rows \X (Rows \cup {0})
DiffObjIDRelation == (Rows \cup {0}) \X Rows

\* No row is told apart from every row.
ASSUME RowAssumption == NoRow \notin ObjIDRow \cup ObjectRow \cup Texts \cup HTRow

Databases ==
  [objID : [Rows -> ObjIDRow \cup {NoRow}],
   object : [Rows -> ObjectRow \cup {NoRow}],
   snapshot : [Rows -> SnapshotRow \cup {NoRow}],
   diff : [Rows -> DiffRow \cup {NoRow}],
   ht : [Pairs -> HTRow \cup {NoRow}],
   objectSnapshot : SUBSET ObjectSnapshotRelation,
   diffObject : SUBSET DiffObjectRelation,
   diffSnapshot : SUBSET DiffSnapshotRelation,
   diffObjID : SUBSET DiffObjIDRelation]

\* The tables hold what their columns can: only the second column of
\* Diff_Snapshot_ and the first of Diff_ObjID_ ever hold an id 0, of a
\* record that was linked before it was written.
TypeOK ==
  /\ live \in Databases /\ disk \in Databases
  /\ tx \in BOOLEAN /\ stale \in BOOLEAN
  /\ \A w \in Workers : last[w] \in Rows \cup {0} /\ owner[w] \in Rows \cup {0}
  /\ \A w \in Workers : found[w] \subseteq Keys \X Pairs
  /\ calls \in 0..MaxCalls
  /\ gone \subseteq seen

\* All threads share one connection, and nothing but the failure of begin
\* keeps their statements apart: at most one operation is between begin and
\* commit, and the transaction is open for it.
OneTransaction ==
  \A v, w \in Workers : ~Idle(v) /\ ~Idle(w) => v = w /\ tx

\* What db_store_* wrote and acknowledged is on disk, across failed operations
\* and restarts, until it is stored again or removed.  So is a pair that kv_put
\* acknowledged, and kv_get can answer with it, until a kv_remove of its key
\* deletes it: unless it was put while a transaction was open that never
\* committed, or into a row that a kv_remove of another key had selected and
\* deletes afterwards.
AckedKept ==
  \A k \in kept :
    /\ disk[k[1]][k[2]] = k[3]
    /\ k[1] = "ht" => k[3][2] \in kv_get(k[3][1])

\* In the committed database a row of a derived class and its row in ObjID_
\* come and go together, whatever statements failed: unless a caller stored
\* a record again whose row had been removed, which updates nothing, or the
\* row that has the id by now.
RowsWhole ==
  ~stale => \A class \in Classes, r \in Rows :
    (disk[class][r] # NoRow) <=> (disk.objID[r] # NoRow /\ disk.objID[r].type = class)

\* In the committed database a relation names no row that was removed, but
\* for the predecessors of a diff; with the same exception.
RelationsSound ==
  ~stale =>
    /\ \A p \in disk.objectSnapshot : disk.object[p[1]] # NoRow /\ disk.snapshot[p[2]] # NoRow
    /\ \A p \in disk.diffSnapshot :
         disk.diff[p[1]] # NoRow /\ (p[2] = 0 \/ disk.snapshot[p[2]] # NoRow)
    /\ \A p \in disk.diffObjID : p[1] = 0 \/ disk.diff[p[1]] # NoRow

\* After an operation has failed inside its transaction nothing reaches the
\* disk any more, acknowledged or not, until the process is restarted.
Abandoned == tx /\ \A w \in Workers : Idle(w)
StuckUntilRestart == [][Abandoned => disk' = disk /\ (tx' \/ live' = disk)]_vars
=============================================================================
