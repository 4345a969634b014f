--------------------------- MODULE SqlStoreProofs ---------------------------
(***************************************************************************)
(* The one connection of the SQL store, for any number of threads, rows    *)
(* and records: transactions exclude each other although nothing but the   *)
(* failure of begin keeps them apart, and a transaction that an operation  *)
(* abandoned holds back everything until the restart.                      *)
(***************************************************************************)
EXTENDS SqlStore, TLAPS

\* The operations a worker can begin, the statements of a transaction and
\* the calls that are a single statement or none.
Begins(w) == db_store_diff(w) \/ db_store_snapshot(w) \/ db_store_obj(w) \/ db_remove(w)
Statement(w) == \/ ExecObjID(w) \/ ExecDiff(w) \/ ExecSnapshot(w) \/ ExecObject(w)
                \/ ExecLink(w) \/ ExecRemove(w)
Kv(w) == kv_put(w) \/ kv_remove(w) \/ kv_delete(w)
Single(w) == db_get_diff(w) \/ db_get_snapshot(w) \/ db_get_obj(w) \/ Kv(w)

\* OneTransaction is inductive once prog is known to be a function.
TxInv == prog = [w \in Workers |-> prog[w]] /\ OneTransaction

\* A worker begins only when no transaction is open: what it executes is not
\* looked at.
LEMMA BeginsNeedNone ==
  ASSUME NEW w \in Workers, Begins(w)
  PROVE  /\ Idle(w) /\ ~tx /\ tx'
         /\ \E p : prog' = [prog EXCEPT ![w] = p]
         /\ UNCHANGED <<live, disk>>
<1>1. CASE db_store_diff(w)  BY <1>1 DEF db_store_diff, Begin, Ready
<1>2. CASE db_store_snapshot(w)  BY <1>2 DEF db_store_snapshot, Begin, Ready
<1>3. CASE db_store_obj(w)  BY <1>3 DEF db_store_obj, Begin, Ready
<1>4. CASE db_remove(w)  BY <1>4 DEF db_remove, Begin, Ready
<1> QED  BY <1>1, <1>2, <1>3, <1>4 DEF Begins

\* A statement is executed by a worker that is inside its transaction.
LEMMA StatementsInside ==
  ASSUME NEW w \in Workers, Statement(w)
  PROVE  /\ ~Idle(w) /\ tx' = tx
         /\ prog' = [prog EXCEPT ![w] = Tail(@)]
<1>1. \E kind : Executes(w, kind)
  BY DEF Statement, ExecObjID, ExecDiff, ExecSnapshot, ExecObject, ExecLink, ExecRemove
<1> QED  BY <1>1 DEF Executes

\* Reading and the key-value table leave the transaction alone, and inside
\* one they leave the disk alone.
LEMMA SinglesPassBy ==
  ASSUME NEW w \in Workers, Single(w)
  PROVE  UNCHANGED <<tx, prog>> /\ (tx => UNCHANGED disk)
<1>1. CASE db_get_diff(w)  BY <1>1 DEF db_get_diff, Got
<1>2. CASE db_get_snapshot(w)  BY <1>2 DEF db_get_snapshot, Got
<1>3. CASE db_get_obj(w)  BY <1>3 DEF db_get_obj, Got
<1>4. CASE kv_put(w)  BY <1>4 DEF kv_put, Apply
<1>5. CASE kv_remove(w)  BY <1>5 DEF kv_remove
<1>6. CASE kv_delete(w)  BY <1>6 DEF kv_delete, Apply
<1> QED  BY <1>1, <1>2, <1>3, <1>4, <1>5, <1>6 DEF Single, Kv

\* Every step is of one of these kinds.
LEMMA StepKinds ==
  ASSUME Next
  PROVE  \/ \E w \in Workers : Begins(w) \/ Statement(w) \/ Commit(w) \/ Throw(w) \/ Single(w)
         \/ Restart
BY DEF Next, Begins, Statement, Single, Kv

LEMMA TxStep ==
  ASSUME TxInv, [Next]_vars
  PROVE  TxInv'
<1> USE DEF TxInv, OneTransaction, Idle
<1>idle. CASE UNCHANGED vars  BY <1>idle DEF vars
<1>begin. ASSUME NEW w \in Workers, Begins(w) PROVE TxInv'
  <2> PICK p : prog' = [prog EXCEPT ![w] = p]  BY <1>begin, BeginsNeedNone
  <2>1. \A v \in Workers : prog[v] = << >>  BY <1>begin, BeginsNeedNone
  <2>2. \A v \in Workers : v # w => prog'[v] = << >>  BY <2>1
  <2> QED  BY <2>2, <1>begin, BeginsNeedNone
<1>statement. ASSUME NEW w \in Workers, Statement(w) PROVE TxInv'
  <2>1. \A v \in Workers : prog'[v] # << >> => prog[v] # << >>
    BY <1>statement, StatementsInside
  <2> QED  BY <2>1, <1>statement, StatementsInside
<1>return. ASSUME NEW w \in Workers, Commit(w) \/ Throw(w) PROVE TxInv'
  <2>1. prog' = [prog EXCEPT ![w] = << >>] /\ prog[w] # << >>
    BY <1>return DEF Commit, Throw, Return
  <2>2. \A v \in Workers : prog'[v] = << >>  BY <2>1
  <2> QED  BY <2>1, <2>2
<1>single. ASSUME NEW w \in Workers, Single(w) PROVE TxInv'
  BY <1>single, SinglesPassBy
<1>restart. CASE Restart  BY <1>restart DEF Restart
<1> QED  BY <1>idle, <1>begin, <1>statement, <1>return, <1>single, <1>restart, StepKinds

\* At most one operation is between begin and commit, and the transaction is
\* open for it (OneTransaction), however many threads share the connection:
\* the statements of two operations never mix (sqlstore.cc:81-263).
THEOREM TransactionsExclude == Spec => []OneTransaction
<1>init. Init => TxInv  BY DEF Init, TxInv, OneTransaction, Idle
<1>strong. TxInv => OneTransaction  BY DEF TxInv
<1> QED  BY <1>init, TxStep, <1>strong, PTL DEF Spec

\* After an operation failed inside its transaction nothing reaches the disk
\* until the process is restarted (StuckUntilRestart), since nobody rolls
\* back (sqlstore.cc:87-90, 130-133, 145-148, 258-261).
THEOREM AbandonedTransactionStays == Spec => StuckUntilRestart
<1>1. ASSUME [Next]_vars, Abandoned
      PROVE  disk' = disk /\ (tx' \/ live' = disk)
  <2> USE <1>1 DEF Abandoned
  <2>idle. CASE UNCHANGED vars  BY <2>idle DEF vars
  <2>begin. ASSUME NEW w \in Workers, Begins(w) PROVE FALSE
    BY <2>begin, BeginsNeedNone
  <2>statement. ASSUME NEW w \in Workers, Statement(w) PROVE FALSE
    BY <2>statement, StatementsInside
  <2>return. ASSUME NEW w \in Workers, Commit(w) \/ Throw(w) PROVE FALSE
    BY <2>return DEF Commit, Throw
  <2>single. ASSUME NEW w \in Workers, Single(w) PROVE disk' = disk /\ tx'
    BY <2>single, SinglesPassBy
  <2>restart. CASE Restart  BY <2>restart DEF Restart
  <2> QED  BY <2>idle, <2>begin, <2>statement, <2>return, <2>single, <2>restart, StepKinds
<1>2. [Next]_vars => [Abandoned => disk' = disk /\ (tx' \/ live' = disk)]_vars  BY <1>1
<1> QED  BY <1>2, PTL DEF Spec, StuckUntilRestart
-----------------------------------------------------------------------------
(* What a transaction executes.                                              *)

Ids == Rows \cup {0}
Links == {"linkPrev", "linkDiff", "linkSnapshot"}
Stmt ==
  [do : {"objID", "remove"}, an : AnIds]
  \cup [do : {"linkPrev", "linkDiff"}, row : Ids]
  \cup [do : {"object"}, row : Ids, an : AnIds]
  \cup [do : {"snapshot", "diff"}, row : Ids, an : AnIds, text : Texts]
  \cup [do : {"linkSnapshot", "commit"}]

\* The order of the statements: a link follows the record that was updated last,
\* one to a predecessor or from a diff comes right before the record it names
\* (which may still have no id), and a removal is alone before its commit.
Ordered(p) ==
  \A i \in 1..Len(p) :
    /\ p[i].do = "linkPrev" => i < Len(p) /\ p[i + 1].do = "diff" /\ p[i + 1].row = p[i].row
    /\ p[i].do = "linkDiff" => i < Len(p) /\ p[i + 1].do = "snapshot" /\ p[i + 1].row = p[i].row
    /\ p[i].do = "remove" => i = 1 /\ Len(p) = 2 /\ p[2].do = "commit"
    /\ p[i].do = "object" => i = 1
    /\ p[i].do = "commit" => i = Len(p)
    /\ i > 1 /\ p[i].do = "linkPrev" => p[i - 1].do = "objID"
    /\ i > 1 /\ p[i].do = "linkDiff" => p[i - 1].do = "diff"
    /\ i > 1 /\ p[i].do = "linkSnapshot" => p[i - 1].do = "snapshot"

LinksSnapshot(p) == \E i \in 1..Len(p) : p[i].do = "linkSnapshot"

\* The ids that statements name belong to records in H, got by callers.
NamedAt(p, i, H) ==
  p[i].do \in Classes /\ p[i].row # 0 => <<p[i].do, p[i].row, p[i].an>> \in H
Named(p, H) == \A i \in 1..Len(p) : NamedAt(p, i, H)

\* A whole program, before its first statement.
Fresh(p, H) ==
  /\ p \in Seq(Stmt) /\ p # << >> /\ Ordered(p) /\ Named(p, H)
  /\ p[1].do \notin Links
  /\ LinksSnapshot(p) => p[1].do = "object"
  /\ p[Len(p)].do = "commit"

LEMMA Join ==
  ASSUME NEW S, NEW s \in Seq(S), NEW t \in Seq(S)
  PROVE  /\ s \o t \in Seq(S) /\ Len(s \o t) = Len(s) + Len(t)
         /\ \A i \in 1..Len(s) : (s \o t)[i] = s[i]
         /\ \A i \in 1..Len(t) : (s \o t)[Len(s) + i] = t[i]
OBVIOUS

LEMMA JoinOne ==
  ASSUME NEW S, NEW s \in Seq(S), NEW x \in S
  PROVE  /\ s \o <<x>> \in Seq(S) /\ Len(s \o <<x>>) = Len(s) + 1
         /\ \A i \in 1..Len(s) : (s \o <<x>>)[i] = s[i]
         /\ (s \o <<x>>)[Len(s) + 1] = x
<1>1. <<x>> \in Seq(S) /\ Len(<<x>>) = 1 /\ <<x>>[1] = x  OBVIOUS
<1> QED  BY <1>1, Join

LEMMA TailShifts ==
  ASSUME NEW S, NEW p \in Seq(S), p # << >>
  PROVE  /\ Tail(p) \in Seq(S) /\ Len(Tail(p)) = Len(p) - 1 /\ Len(p) >= 1 /\ Len(p) \in Nat
         /\ Head(p) = p[1] /\ p[1] \in S
         /\ \A i \in 1..(Len(p) - 1) : Tail(p)[i] = p[i + 1]
OBVIOUS

LEMMA FlattenOne ==
  ASSUME NEW p
  PROVE  FlattenSeq(<<p>>) = p
<1> DEFINE Solves(f) ==
             f = [i \in 1..Len(<<p>>) |-> IF i = 1 THEN <<p>>[i] ELSE f[i - 1] \o <<p>>[i]]
           g == CHOOSE f : Solves(f)
<1>1. Len(<<p>>) = 1 /\ <<p>>[1] = p  OBVIOUS
<1>2. Solves([i \in 1..Len(<<p>>) |-> p])  BY <1>1
<1>3. \E f : Solves(f)
  <2> HIDE DEF Solves
  <2> QED  BY <1>2
<1>4. Solves(g)  BY <1>3, Zenon
<1>5. FlattenSeq(<<p>>) = g[Len(<<p>>)]  BY <1>1 DEF FlattenSeq
<1> HIDE DEF g
<1> QED  BY <1>1, <1>4, <1>5

LEMMA FlattenNone == FlattenSeq(<< >>) = << >>
BY DEF FlattenSeq

\* A list of records is empty or has one element.
LEMMA ShortLists ==
  ASSUME NEW S
  PROVE  /\ << >> \in Lists(S)
         /\ \A l \in Lists(S) : l = << >> \/ \E x \in S : l = <<x>>
<1>1. Lists(S) = UNION {[1..n -> S] : n \in 0..1}  BY DEF Lists, SeqOf, MaxList
<1>2. << >> \in [1..0 -> S] /\ 0 \in 0..1  OBVIOUS
<1>3. ASSUME NEW l \in Lists(S) PROVE l = << >> \/ \E x \in S : l = <<x>>
  <2>1. PICK n \in 0..1 : l \in [1..n -> S]  BY <1>1
  <2>2. CASE n = 0  BY <2>1, <2>2
  <2>3. CASE n = 1
    <3>1. l[1] \in S /\ l = <<l[1]>>  BY <2>1, <2>3
    <3> QED  BY <3>1
  <2> QED  BY <2>2, <2>3
<1> QED  BY <1>1, <1>2, <1>3

DiffStmt(d) == [do |-> "diff", row |-> d.row, an |-> d.an, text |-> d.text]
SnapshotStmt(s) == [do |-> "snapshot", row |-> s.row, an |-> s.an, text |-> s.text]

\* _db_store_diff, with at most one predecessor
LEMMA DiffProgram ==
  ASSUME NEW d, DiffStmt(d) \in Stmt, d.prev \in Lists(AnIds)
  PROVE  LET p == DiffStatements(d) IN
         /\ p \in Seq(Stmt)
         /\ \/ d.prev = << >> /\ Len(p) = 1 /\ p[1] = DiffStmt(d)
            \/ /\ d.prev # << >> /\ Len(p) = 3 /\ p[1].do = "objID"
               /\ p[2].do = "linkPrev" /\ p[2].row = d.row /\ p[3] = DiffStmt(d)
<1> DEFINE last1 == <<DiffStmt(d)>>
           P(i) == << [do |-> "objID", an |-> d.prev[i]], [do |-> "linkPrev", row |-> d.row] >>
<1>0. last1 \in Seq(Stmt) /\ Len(last1) = 1 /\ last1[1] = DiffStmt(d)  OBVIOUS
<1>p. DiffStatements(d) = FlattenSeq([i \in DOMAIN d.prev |-> P(i)]) \o last1
  BY DEF DiffStatements, DiffStmt
<1>r. d.row \in Ids  BY DEF Stmt, DiffStmt
<1>1. CASE d.prev = << >>
  <2>1. [i \in DOMAIN d.prev |-> P(i)] = << >>  BY <1>1
  <2>2. << >> \in Seq(Stmt) /\ Len(<< >>) = 0  OBVIOUS
  <2>3. DiffStatements(d) = << >> \o last1  BY <1>p, <2>1, FlattenNone
  <2> HIDE DEF last1
  <2> QED  BY <1>0, <1>1, <2>2, <2>3, Join
<1>2. ASSUME NEW x \in AnIds, d.prev = <<x>>
      PROVE  LET p == DiffStatements(d) IN
             /\ p \in Seq(Stmt)
             /\ Len(p) = 3 /\ p[1].do = "objID"
             /\ p[2].do = "linkPrev" /\ p[2].row = d.row /\ p[3] = DiffStmt(d)
  <2> DEFINE a == [do |-> "objID", an |-> x]
             b == [do |-> "linkPrev", row |-> d.row]
  <2>1. [i \in DOMAIN d.prev |-> P(i)] = << <<a, b>> >>  BY <1>2
  <2>2. DiffStatements(d) = <<a, b>> \o last1  BY <1>p, <2>1, FlattenOne
  <2>3. a \in Stmt /\ b \in Stmt /\ a.do = "objID" /\ b.do = "linkPrev" /\ b.row = d.row
    BY <1>r DEF Stmt
  <2> HIDE DEF a, b, last1
  <2>4. <<a, b>> \in Seq(Stmt) /\ Len(<<a, b>>) = 2 /\ <<a, b>>[1] = a /\ <<a, b>>[2] = b
    BY <2>3
  <2> QED  BY <1>0, <2>2, <2>3, <2>4, Join
<1> QED  BY <1>1, <1>2, ShortLists

\* _db_store_snapshot, with at most one diff
LEMMA SnapshotProgram ==
  ASSUME NEW s, SnapshotStmt(s) \in Stmt, NEW D, s.diffs \in Lists(D),
         \A d \in D : DiffStmt(d) \in Stmt /\ d.prev = << >>
  PROVE  LET p == SnapshotStatements(s) IN
         /\ p \in Seq(Stmt)
         /\ \/ s.diffs = << >> /\ Len(p) = 1 /\ p[1] = SnapshotStmt(s)
            \/ /\ s.diffs # << >> /\ Len(p) = 3 /\ \E d \in D : p[1] = DiffStmt(d)
               /\ p[2].do = "linkDiff" /\ p[2].row = s.row /\ p[3] = SnapshotStmt(s)
<1> DEFINE last1 == <<SnapshotStmt(s)>>
           link == [do |-> "linkDiff", row |-> s.row]
           P(i) == DiffStatements(s.diffs[i]) \o <<link>>
<1>0. last1 \in Seq(Stmt) /\ Len(last1) = 1 /\ last1[1] = SnapshotStmt(s)  OBVIOUS
<1>p. SnapshotStatements(s) = FlattenSeq([i \in DOMAIN s.diffs |-> P(i)]) \o last1
  BY DEF SnapshotStatements, SnapshotStmt
<1>r. link \in Stmt /\ link.do = "linkDiff" /\ link.row = s.row
  <2>1. s.row \in Ids  BY DEF Stmt, SnapshotStmt
  <2> QED  BY <2>1 DEF Stmt
<1>1. CASE s.diffs = << >>
  <2>1. [i \in DOMAIN s.diffs |-> P(i)] = << >>  BY <1>1
  <2>2. << >> \in Seq(Stmt) /\ Len(<< >>) = 0  OBVIOUS
  <2>3. SnapshotStatements(s) = << >> \o last1  BY <1>p, <2>1, FlattenNone
  <2> HIDE DEF last1
  <2> QED  BY <1>0, <1>1, <2>2, <2>3, Join
<1>2. ASSUME NEW d \in D, s.diffs = <<d>>
      PROVE  LET p == SnapshotStatements(s) IN
             /\ p \in Seq(Stmt) /\ Len(p) = 3 /\ p[1] = DiffStmt(d)
             /\ p[2].do = "linkDiff" /\ p[2].row = s.row /\ p[3] = SnapshotStmt(s)
  <2> DEFINE q == DiffStatements(d)
  <2>1. q \in Seq(Stmt) /\ Len(q) = 1 /\ q[1] = DiffStmt(d)
    <3>1. DiffStmt(d) \in Stmt /\ d.prev = << >> /\ d.prev \in Lists(AnIds)  BY ShortLists
    <3> QED  BY <3>1, DiffProgram
  <2>2. [i \in DOMAIN s.diffs |-> P(i)] = << q \o <<link>> >>  BY <1>2
  <2>3. SnapshotStatements(s) = (q \o <<link>>) \o last1  BY <1>p, <2>2, FlattenOne
  <2> HIDE DEF q, link, last1
  <2>4. <<link>> \in Seq(Stmt) /\ Len(<<link>>) = 1 /\ <<link>>[1] = link  BY <1>r
  <2>5. /\ q \o <<link>> \in Seq(Stmt) /\ Len(q \o <<link>>) = 2
        /\ (q \o <<link>>)[1] = DiffStmt(d) /\ (q \o <<link>>)[2] = link
    <3>1. 1 \in 1..Len(q)  BY <2>1
    <3>2. /\ q \o <<link>> \in Seq(Stmt) /\ Len(q \o <<link>>) = Len(q) + 1
          /\ \A i \in 1..Len(q) : (q \o <<link>>)[i] = q[i]
          /\ (q \o <<link>>)[Len(q) + 1] = link
      BY <2>1, <1>r, JoinOne
    <3> QED  BY <2>1, <3>1, <3>2
  <2> QED  BY <1>0, <1>r, <2>3, <2>5, Join
<1> QED  BY <1>1, <1>2, ShortLists

\* db_store_obj, with at most one snapshot
LEMMA ObjectProgram ==
  ASSUME NEW o, [do |-> "object", row |-> o.row, an |-> o.an] \in Stmt,
         NEW S, o.snapshots \in Lists(S),
         \A s \in S : SnapshotStmt(s) \in Stmt /\ s.diffs = << >>
  PROVE  LET p == ObjectStatements(o) IN
         /\ p \in Seq(Stmt)
         /\ p[1] = [do |-> "object", row |-> o.row, an |-> o.an]
         /\ \/ Len(p) = 1
            \/ /\ Len(p) = 3 /\ \E s \in S : p[2] = SnapshotStmt(s)
               /\ p[3].do = "linkSnapshot"
<1> DEFINE obj == [do |-> "object", row |-> o.row, an |-> o.an]
           link == [do |-> "linkSnapshot"]
           P(i) == SnapshotStatements(o.snapshots[i]) \o <<link>>
<1>0. <<obj>> \in Seq(Stmt) /\ Len(<<obj>>) = 1 /\ <<obj>>[1] = obj  OBVIOUS
<1>p. ObjectStatements(o) = <<obj>> \o FlattenSeq([i \in DOMAIN o.snapshots |-> P(i)])
  BY DEF ObjectStatements
<1>1. CASE o.snapshots = << >>
  <2>1. [i \in DOMAIN o.snapshots |-> P(i)] = << >>  BY <1>1
  <2>2. << >> \in Seq(Stmt) /\ Len(<< >>) = 0  OBVIOUS
  <2>3. ObjectStatements(o) = <<obj>> \o << >>  BY <1>p, <2>1, FlattenNone
  <2> HIDE DEF obj
  <2>4. ObjectStatements(o) \in Seq(Stmt) /\ Len(ObjectStatements(o)) = 1
        /\ ObjectStatements(o)[1] = obj
    BY <1>0, <2>2, <2>3, Join
  <2> QED  BY <2>4 DEF obj
<1>2. ASSUME NEW s \in S, o.snapshots = <<s>>
      PROVE  LET p == ObjectStatements(o) IN
             /\ p \in Seq(Stmt) /\ Len(p) = 3 /\ p[1] = obj /\ p[2] = SnapshotStmt(s)
             /\ p[3].do = "linkSnapshot"
  <2> DEFINE q == SnapshotStatements(s)
  <2>1. q \in Seq(Stmt) /\ Len(q) = 1 /\ q[1] = SnapshotStmt(s)
    <3>1. SnapshotStmt(s) \in Stmt /\ s.diffs = << >> /\ s.diffs \in Lists({})  BY ShortLists
    <3> QED  BY <3>1, SnapshotProgram
  <2>2. [i \in DOMAIN o.snapshots |-> P(i)] = << q \o <<link>> >>  BY <1>2
  <2>3. ObjectStatements(o) = <<obj>> \o (q \o <<link>>)  BY <1>p, <2>2, FlattenOne
  <2>r. link \in Stmt /\ link.do = "linkSnapshot"  BY DEF Stmt
  <2> HIDE DEF q, link, obj
  <2>4. <<link>> \in Seq(Stmt) /\ Len(<<link>>) = 1 /\ <<link>>[1] = link  BY <2>r
  <2>5. /\ q \o <<link>> \in Seq(Stmt) /\ Len(q \o <<link>>) = 2
        /\ (q \o <<link>>)[1] = SnapshotStmt(s) /\ (q \o <<link>>)[2] = link
    <3>1. 1 \in 1..Len(q)  BY <2>1
    <3>2. /\ q \o <<link>> \in Seq(Stmt) /\ Len(q \o <<link>>) = Len(q) + 1
          /\ \A i \in 1..Len(q) : (q \o <<link>>)[i] = q[i]
          /\ (q \o <<link>>)[Len(q) + 1] = link
      BY <2>1, <2>r, JoinOne
    <3> QED  BY <2>1, <3>1, <3>2
  <2> QED  BY <1>0, <2>r, <2>3, <2>5, Join
<1> QED  BY <1>1, <1>2, ShortLists
-----------------------------------------------------------------------------
(* Types.                                                                    *)

Contents(class) == IF class = "object" THEN {TRUE} ELSE Texts
HandleSet == Classes \X Rows \X AnIds
WrittenSet == Classes \X Rows \X (Texts \cup {TRUE})

\* A worker that is about to link has updated a record, and one that will link
\* a snapshot has written its object or is about to.
Linkable(w) ==
  /\ prog[w] # << >> /\ prog[w][1].do \in Links => last[w] \in Rows
  /\ LinksSnapshot(prog[w]) => prog[w][1].do = "object" \/ owner[w] \in Rows

SqlType ==
  /\ live \in Databases /\ disk \in Databases
  /\ tx \in BOOLEAN /\ stale \in BOOLEAN
  /\ calls \in 0..MaxCalls
  /\ last \in [Workers -> Ids] /\ owner \in [Workers -> Ids]
  /\ wrote \in [Workers -> SUBSET WrittenSet]
  /\ prog \in [Workers -> Seq(Stmt)]
  /\ seen \subseteq HandleSet /\ gone \subseteq seen
  /\ \A w \in Workers : Ordered(prog[w]) /\ Linkable(w)
  /\ found \in [Workers -> SUBSET (Keys \X Pairs)]

LEMMA RecordsNamed ==
  ASSUME SqlType, NEW class \in Classes, NEW h \in Records(class)
  PROVE  h[1] \in AnIds /\ h[2] \in Ids /\ (h[2] # 0 => <<class, h[2], h[1]>> \in seen)
<1>1. h[1] \in AnIds /\ h[2] \in Ids /\ h[2] \in RowsFor(class, h[1])  BY DEF Records, Ids
<1>2. ASSUME h[2] # 0 PROVE <<class, h[2], h[1]>> \in seen
  <2>1. PICK x \in seen : x[1] = class /\ x[3] = h[1] /\ h[2] = x[2]
    BY <1>1, <1>2 DEF RowsFor
  <2>2. x = <<x[1], x[2], x[3]>>  BY <2>1 DEF SqlType, HandleSet
  <2> QED  BY <2>1, <2>2
<1> QED  BY <1>1, <1>2

\* What a caller passes is made of records it got or made.
LEMMA DiffInputs ==
  ASSUME SqlType, NEW P, NEW d \in Diffs(P)
  PROVE  /\ DiffStmt(d) \in Stmt /\ d.prev \in P
         /\ DiffStmt(d).do = "diff" /\ DiffStmt(d).row = d.row
         /\ d.row # 0 => <<"diff", DiffStmt(d).row, DiffStmt(d).an>> \in seen
<1>1. PICK h \in Records("diff"), c \in Texts, p \in P :
        d = [an |-> h[1], row |-> h[2], text |-> c, prev |-> p]
  BY DEF Diffs
<1>2. h[1] \in AnIds /\ h[2] \in Ids /\ (h[2] # 0 => <<"diff", h[2], h[1]>> \in seen)
  BY RecordsNamed DEF Classes
<1> QED  BY <1>1, <1>2 DEF DiffStmt, Stmt

LEMMA SnapshotInputs ==
  ASSUME SqlType, NEW D, NEW s \in Snapshots(D)
  PROVE  /\ SnapshotStmt(s) \in Stmt /\ s.diffs \in D
         /\ SnapshotStmt(s).do = "snapshot" /\ SnapshotStmt(s).row = s.row
         /\ s.row # 0 => <<"snapshot", SnapshotStmt(s).row, SnapshotStmt(s).an>> \in seen
<1>1. PICK h \in Records("snapshot"), c \in Texts, ds \in D :
        s = [an |-> h[1], row |-> h[2], text |-> c, diffs |-> ds]
  BY DEF Snapshots
<1>2. h[1] \in AnIds /\ h[2] \in Ids /\ (h[2] # 0 => <<"snapshot", h[2], h[1]>> \in seen)
  BY RecordsNamed DEF Classes
<1> QED  BY <1>1, <1>2 DEF SnapshotStmt, Stmt

\* Begin with the statements q gives w the program p.
Starts(w, p) ==
  /\ Idle(w) /\ calls < MaxCalls /\ ~tx /\ tx' = TRUE
  /\ prog' = [prog EXCEPT ![w] = p] /\ calls' = calls + 1
  /\ UNCHANGED <<live, disk, last, owner, history, seen, kvs>>

LEMMA ShortFresh ==
  ASSUME NEW p \in Seq(Stmt), NEW H, Len(p) = 2, p[2].do = "commit",
         p[1].do \in Classes \cup {"remove"},
         NamedAt(p, 1, H)
  PROVE  Fresh(p, H)
<1>1. \A i \in 1..Len(p) : i = 1 \/ i = 2  OBVIOUS
<1>2. Ordered(p)  BY <1>1 DEF Ordered, Classes
<1>3. Named(p, H)  BY <1>1 DEF Named, NamedAt, Classes
<1>0. Len(<< >>) = 0  OBVIOUS
<1>4. p # << >>  BY <1>0
<1>5. p[1].do \notin Links /\ p[1].do # "linkSnapshot"  BY DEF Links, Classes
<1>6. ~LinksSnapshot(p)  BY <1>1, <1>5 DEF LinksSnapshot
<1> QED  BY <1>2, <1>3, <1>4, <1>5, <1>6 DEF Fresh

LEMMA LongFresh ==
  ASSUME NEW p \in Seq(Stmt), NEW H, Len(p) = 4, p[4].do = "commit",
         \/ p[1].do = "objID" /\ p[2].do = "linkPrev" /\ p[3].do = "diff" /\ p[2].row = p[3].row
         \/ p[1].do = "diff" /\ p[2].do = "linkDiff" /\ p[3].do = "snapshot" /\ p[2].row = p[3].row
         \/ p[1].do = "object" /\ p[2].do = "snapshot" /\ p[3].do = "linkSnapshot",
         NamedAt(p, 1, H), NamedAt(p, 2, H), NamedAt(p, 3, H)
  PROVE  Fresh(p, H)
<1>1. \A i \in 1..Len(p) : i = 1 \/ i = 2 \/ i = 3 \/ i = 4  OBVIOUS
<1>2. Ordered(p)
  <2>1. ASSUME NEW i \in 1..Len(p) PROVE Ordered(p)!(i)
    <3>1. CASE i = 1  BY <3>1
    <3>2. CASE i = 2  BY <3>2
    <3>3. CASE i = 3  BY <3>3
    <3>4. CASE i = 4  BY <3>4
    <3> QED  BY <1>1, <3>1, <3>2, <3>3, <3>4
  <2> QED  BY <2>1 DEF Ordered
<1>3. Named(p, H)  BY <1>1 DEF Named, NamedAt, Classes
<1>0. Len(<< >>) = 0  OBVIOUS
<1>e. p # << >>  BY <1>0
<1>4. p[1].do \notin Links  BY DEF Links
<1>5. LinksSnapshot(p) => p[1].do = "object"  BY <1>1 DEF LinksSnapshot
<1> QED  BY <1>2, <1>3, <1>e, <1>4, <1>5 DEF Fresh

LEMMA BeginsFresh ==
  ASSUME SqlType, NEW w \in Workers, Begins(w)
  PROVE  \E p : Starts(w, p) /\ Fresh(p, seen)
<1> DEFINE c == [do |-> "commit"]
<1>c. c \in Stmt /\ c.do = "commit"  BY DEF Stmt
<1>b. ASSUME NEW q, Begin(w, q) PROVE Starts(w, q \o <<c>>)  BY <1>b DEF Begin, Starts, Ready
<1> HIDE DEF c
<1>1. ASSUME db_store_diff(w) PROVE \E p : Starts(w, p) /\ Fresh(p, seen)
  <2>1. PICK d \in Diffs(Lists(AnIds)) : Begin(w, DiffStatements(d))  BY <1>1 DEF db_store_diff
  <2> DEFINE q == DiffStatements(d)
             p == q \o <<c>>
  <2>2. /\ DiffStmt(d) \in Stmt /\ d.prev \in Lists(AnIds) /\ DiffStmt(d).row = d.row
        /\ DiffStmt(d).do = "diff"
        /\ d.row # 0 => <<"diff", DiffStmt(d).row, DiffStmt(d).an>> \in seen
    BY DiffInputs
  <2>3. /\ q \in Seq(Stmt)
        /\ \/ Len(q) = 1 /\ q[1] = DiffStmt(d)
           \/ /\ Len(q) = 3 /\ q[1].do = "objID" /\ q[2].do = "linkPrev" /\ q[2].row = d.row
              /\ q[3] = DiffStmt(d)
    BY <2>2, DiffProgram
  <2>4. /\ p \in Seq(Stmt) /\ Len(p) = Len(q) + 1 /\ p[Len(q) + 1] = c
        /\ \A i \in 1..Len(q) : p[i] = q[i]
    BY <1>c, <2>3, JoinOne
  <2> HIDE DEF p, q
  <2>5. Fresh(p, seen)
    <3>1. CASE Len(q) = 1  BY <1>c, <2>2, <2>3, <2>4, <3>1, ShortFresh DEF Classes, NamedAt
    <3>2. CASE Len(q) = 3
      <4>1. p[1] = q[1] /\ p[2] = q[2] /\ p[3] = q[3] /\ p[4] = c /\ Len(p) = 4
        BY <2>4, <3>2
      <4>3. /\ p[1].do = "objID" /\ p[2].do = "linkPrev" /\ p[3] = DiffStmt(d)
            /\ p[2].row = d.row /\ p[4].do = "commit"
        BY <1>c, <2>3, <3>2, <4>1
      <4>2. NamedAt(p, 1, seen) /\ NamedAt(p, 2, seen) /\ NamedAt(p, 3, seen)
        BY <2>2, <4>3 DEF NamedAt, Classes
      <4> QED  BY <2>2, <2>4, <4>1, <4>2, <4>3, LongFresh
    <3> QED  BY <2>3, <3>1, <3>2
  <2> QED  BY <2>1, <2>5, <1>b DEF p, q
<1>2. ASSUME db_store_snapshot(w) PROVE \E p : Starts(w, p) /\ Fresh(p, seen)
  <2> DEFINE D == Diffs({<< >>})
  <2>1. PICK s \in Snapshots(Lists(D)) : Begin(w, SnapshotStatements(s))
    BY <1>2 DEF db_store_snapshot
  <2> DEFINE q == SnapshotStatements(s)
             p == q \o <<c>>
  <2>2. /\ SnapshotStmt(s) \in Stmt /\ s.diffs \in Lists(D) /\ SnapshotStmt(s).row = s.row
        /\ SnapshotStmt(s).do = "snapshot"
        /\ s.row # 0 => <<"snapshot", SnapshotStmt(s).row, SnapshotStmt(s).an>> \in seen
    BY SnapshotInputs
  <2>d. \A d \in D : /\ DiffStmt(d) \in Stmt /\ d.prev = << >> /\ DiffStmt(d).row = d.row
                     /\ DiffStmt(d).do = "diff"
                     /\ d.row # 0 => <<"diff", DiffStmt(d).row, DiffStmt(d).an>> \in seen
    BY DiffInputs
  <2> HIDE DEF D
  <2>3. /\ q \in Seq(Stmt)
        /\ \/ Len(q) = 1 /\ q[1] = SnapshotStmt(s)
           \/ /\ Len(q) = 3 /\ \E d \in D : q[1] = DiffStmt(d)
              /\ q[2].do = "linkDiff" /\ q[2].row = s.row /\ q[3] = SnapshotStmt(s)
    BY <2>2, <2>d, SnapshotProgram
  <2>4. /\ p \in Seq(Stmt) /\ Len(p) = Len(q) + 1 /\ p[Len(q) + 1] = c
        /\ \A i \in 1..Len(q) : p[i] = q[i]
    BY <1>c, <2>3, JoinOne
  <2> HIDE DEF p, q
  <2>5. Fresh(p, seen)
    <3>1. CASE Len(q) = 1  BY <1>c, <2>2, <2>3, <2>4, <3>1, ShortFresh DEF Classes, NamedAt
    <3>2. CASE Len(q) = 3
      <4>1. p[1] = q[1] /\ p[2] = q[2] /\ p[3] = q[3] /\ p[4] = c /\ Len(p) = 4
        BY <2>4, <3>2
      <4>d. PICK d \in D : q[1] = DiffStmt(d)  BY <2>3, <3>2
      <4>2. NamedAt(p, 1, seen) /\ NamedAt(p, 2, seen) /\ NamedAt(p, 3, seen)
        BY <2>2, <2>3, <2>d, <3>2, <4>d, <4>1 DEF NamedAt, Classes
      <4>3. /\ p[1].do = "diff" /\ p[2].do = "linkDiff" /\ p[3].do = "snapshot"
            /\ p[2].row = p[3].row /\ p[4].do = "commit"
        BY <1>c, <2>2, <2>3, <2>d, <3>2, <4>d, <4>1
      <4> QED  BY <2>4, <4>1, <4>2, <4>3, LongFresh
    <3> QED  BY <2>3, <3>1, <3>2
  <2> QED  BY <2>1, <2>5, <1>b DEF p, q
<1>3. ASSUME db_store_obj(w) PROVE \E p : Starts(w, p) /\ Fresh(p, seen)
  <2> DEFINE S == Snapshots({<< >>})
  <2>1. PICK h \in Records("object"), ss \in Lists(S) :
          Begin(w, ObjectStatements([an |-> h[1], row |-> h[2], snapshots |-> ss]))
    BY <1>3 DEF db_store_obj
  <2> DEFINE o == [an |-> h[1], row |-> h[2], snapshots |-> ss]
             x == [do |-> "object", row |-> h[2], an |-> h[1]]
             q == ObjectStatements(o)
             p == q \o <<c>>
  <2>h. h[1] \in AnIds /\ h[2] \in Ids /\ (h[2] # 0 => <<"object", h[2], h[1]>> \in seen)
    BY RecordsNamed DEF Classes
  <2>2. /\ x \in Stmt /\ x.do = "object" /\ (x.row # 0 => <<"object", x.row, x.an>> \in seen)
        /\ x = [do |-> "object", row |-> o.row, an |-> o.an] /\ o.snapshots \in Lists(S)
    BY <2>h DEF Stmt
  <2>d. \A s \in S : /\ SnapshotStmt(s) \in Stmt /\ s.diffs = << >> /\ SnapshotStmt(s).row = s.row
                     /\ SnapshotStmt(s).do = "snapshot"
                     /\ s.row # 0 => <<"snapshot", SnapshotStmt(s).row, SnapshotStmt(s).an>> \in seen
    BY SnapshotInputs
  <2> HIDE DEF S, o, x
  <2>3. /\ q \in Seq(Stmt) /\ q[1] = x
        /\ \/ Len(q) = 1
           \/ Len(q) = 3 /\ (\E s \in S : q[2] = SnapshotStmt(s)) /\ q[3].do = "linkSnapshot"
    BY <2>2, <2>d, ObjectProgram
  <2>4. /\ p \in Seq(Stmt) /\ Len(p) = Len(q) + 1 /\ p[Len(q) + 1] = c
        /\ \A i \in 1..Len(q) : p[i] = q[i]
    BY <1>c, <2>3, JoinOne
  <2> HIDE DEF p, q
  <2>5. Fresh(p, seen)
    <3>1. CASE Len(q) = 1  BY <1>c, <2>2, <2>3, <2>4, <3>1, ShortFresh DEF Classes, NamedAt
    <3>2. CASE Len(q) = 3
      <4>1. p[1] = q[1] /\ p[2] = q[2] /\ p[3] = q[3] /\ p[4] = c /\ Len(p) = 4
        BY <2>4, <3>2
      <4>d. PICK s \in S : q[2] = SnapshotStmt(s)  BY <2>3, <3>2
      <4>2. NamedAt(p, 1, seen) /\ NamedAt(p, 2, seen) /\ NamedAt(p, 3, seen)
        BY <2>2, <2>3, <2>d, <3>2, <4>d, <4>1 DEF NamedAt, Classes
      <4>3. /\ p[1].do = "object" /\ p[2].do = "snapshot" /\ p[3].do = "linkSnapshot"
            /\ p[4].do = "commit"
        BY <1>c, <2>2, <2>3, <2>d, <3>2, <4>d, <4>1
      <4> QED  BY <2>4, <4>1, <4>2, <4>3, LongFresh
    <3> QED  BY <2>3, <3>1, <3>2
  <2> QED  BY <2>1, <2>5, <1>b DEF p, q, o
<1>4. ASSUME db_remove(w) PROVE \E p : Starts(w, p) /\ Fresh(p, seen)
  <2>1. PICK an \in AnIds : Begin(w, << [do |-> "remove", an |-> an] >>)  BY <1>4 DEF db_remove
  <2> DEFINE x == [do |-> "remove", an |-> an]
             p == <<x>> \o <<c>>
  <2>2. x \in Stmt /\ x.do = "remove"  BY DEF Stmt
  <2> HIDE DEF x
  <2>3. <<x>> \in Seq(Stmt) /\ Len(<<x>>) = 1 /\ <<x>>[1] = x  BY <2>2
  <2>4. p \in Seq(Stmt) /\ Len(p) = 2 /\ p[1] = x /\ p[2] = c  BY <1>c, <2>3, JoinOne
  <2> HIDE DEF p
  <2>5. Fresh(p, seen)
    BY <1>c, <2>2, <2>4, ShortFresh DEF Classes, NamedAt
  <2> QED  BY <2>1, <2>5, <1>b DEF p, x
<1> QED  BY <1>1, <1>2, <1>3, <1>4 DEF Begins
-----------------------------------------------------------------------------
(* What the statements do to the tables.                                     *)

Relations == {"objectSnapshot", "diffObject", "diffSnapshot", "diffObjID"}

\* u is t with the record written, if it is new or still there.
Changed(t, u, class, r, an, text, row) ==
  /\ u \in Databases
  /\ u.objID = [t.objID EXCEPT ![r] =
       IF row = 0 \/ @ # NoRow THEN [type |-> class, an |-> an] ELSE @]
  /\ u[class] = [t[class] EXCEPT ![r] = IF row = 0 \/ @ # NoRow THEN text ELSE @]
  /\ \A c \in Classes \ {class} : u[c] = t[c]
  /\ u.ht = t.ht
  /\ \A rel \in Relations : u[rel] = t[rel]

LEMMA WriteEffect ==
  ASSUME NEW t \in Databases, NEW class \in Classes, NEW r \in Rows, NEW an \in AnIds,
         NEW text \in Contents(class), NEW row
  PROVE  Changed(t, Write(t, class, r, an, text, row = 0), class, r, an, text, row)
<1> USE DEF Databases, Write, Classes, Contents, ObjIDRow, ObjectRow, Relations, Changed
<1>1. CASE class = "object"  BY <1>1
<1>2. CASE class = "diff"  BY <1>2 DEF DiffRow
<1>3. CASE class = "snapshot"  BY <1>3 DEF SnapshotRow
<1> QED  BY <1>1, <1>2, <1>3

\* u is t with a plain row of ObjID_.
PlainRow(t, u, r, an) ==
  /\ u \in Databases
  /\ u.objID = [t.objID EXCEPT ![r] = [type |-> "objID", an |-> an]]
  /\ \A c \in Classes : u[c] = t[c]
  /\ u.ht = t.ht
  /\ \A rel \in Relations : u[rel] = t[rel]

LEMMA PlainEffect ==
  ASSUME NEW t \in Databases, NEW r \in Rows, NEW an \in AnIds
  PROVE  PlainRow(t, UpdateObjID(t, r, an), r, an)
BY DEF Databases, UpdateObjID, Classes, ObjIDRow, Relations, PlainRow

\* u is t without the record with id r of the class, and without its relations.
Deleted(t, u, r, class) ==
  /\ u \in Databases /\ class \in Classes \cup {"objID"}
  /\ u.objID = [t.objID EXCEPT ![r] = NoRow]
  /\ \A c \in Classes :
       u[c] = IF c = class THEN [t[c] EXCEPT ![r] = NoRow] ELSE t[c]
  /\ u.ht = t.ht
  /\ \A rel \in Relations : u[rel] \subseteq t[rel]
  /\ class = "object" => \A p \in u.objectSnapshot : p[1] # r
  /\ class = "snapshot" => /\ \A p \in u.objectSnapshot : p[2] # r
                           /\ \A p \in u.diffSnapshot : p[2] # r
  /\ class = "diff" => /\ \A p \in u.diffSnapshot : p[1] # r
                       /\ \A p \in u.diffObjID : p[1] # r

LEMMA DelEffect ==
  ASSUME NEW t \in Databases, NEW r \in Rows, t.objID[r] # NoRow
  PROVE  Deleted(t, DelObjID(t, r), r, t.objID[r].type)
<1>1. t.objID[r] \in ObjIDRow  BY DEF Databases
<1>2. t.objID[r].type \in Classes \cup {"objID"}  BY <1>1 DEF ObjIDRow
<1> USE DEF Databases, DelObjID, DelRecord, Classes, Relations, Deleted
<1>3. CASE t.objID[r].type = "object"  BY <1>3 DEF DelObjectRelations
<1>4. CASE t.objID[r].type = "snapshot"  BY <1>4 DEF DelSnapshotRelations
<1>5. CASE t.objID[r].type = "diff"  BY <1>5 DEF DelDiffRelations
<1>6. CASE t.objID[r].type = "objID"  BY <1>6
<1> QED  BY <1>2, <1>3, <1>4, <1>5, <1>6

\* u is t with the pair <<x, y>> in one relation.
Linked(t, u, rel, x, y) ==
  /\ u \in Databases
  /\ u.objID = t.objID /\ u.ht = t.ht
  /\ \A c \in Classes : u[c] = t[c]
  /\ u[rel] = t[rel] \cup {<<x, y>>}
  /\ \A other \in Relations \ {rel} : u[other] = t[other]

LEMMA LinkEffect ==
  ASSUME NEW t \in Databases
  PROVE  /\ \A d \in Ids, i \in Rows : Linked(t, DiffObjIDLink(t, d, i), "diffObjID", d, i)
         /\ \A d \in Rows, s \in Ids : Linked(t, DiffSnapshotLink(t, d, s), "diffSnapshot", d, s)
         /\ \A o, s \in Rows : Linked(t, ObjectSnapshotLink(t, o, s), "objectSnapshot", o, s)
<1> USE DEF Databases, Classes, Relations, Linked, Ids
<1>1. ASSUME NEW d \in Ids, NEW i \in Rows
      PROVE  Linked(t, DiffObjIDLink(t, d, i), "diffObjID", d, i)
  BY DEF DiffObjIDLink, DiffObjIDRelation
<1>2. ASSUME NEW d \in Rows, NEW s \in Ids
      PROVE  Linked(t, DiffSnapshotLink(t, d, s), "diffSnapshot", d, s)
  BY DEF DiffSnapshotLink, DiffSnapshotRelation
<1>3. ASSUME NEW o \in Rows, NEW s \in Rows
      PROVE  Linked(t, ObjectSnapshotLink(t, o, s), "objectSnapshot", o, s)
  BY DEF ObjectSnapshotLink, ObjectSnapshotRelation
<1> HIDE DEF Linked
<1> QED  BY <1>1, <1>2, <1>3

\* u is t with the row x at r of the key-value table.
PairAt(t, u, r, x) ==
  /\ u \in Databases
  /\ u.ht = [t.ht EXCEPT ![r] = x]
  /\ u.objID = t.objID /\ \A c \in Classes : u[c] = t[c]
  /\ \A rel \in Relations : u[rel] = t[rel]

LEMMA HTEffect ==
  ASSUME NEW t \in Databases, NEW r \in Pairs
  PROVE  /\ \A k \in Keys, c \in Texts : PairAt(t, UpdateHT(t, r, k, c), r, <<k, c>>)
         /\ PairAt(t, DelHT(t, r), r, NoRow)
<1> USE DEF Databases, Classes, Relations, PairAt
<1>1. ASSUME NEW k \in Keys, NEW c \in Texts PROVE PairAt(t, UpdateHT(t, r, k, c), r, <<k, c>>)
  BY DEF UpdateHT, HTRow
<1>2. PairAt(t, DelHT(t, r), r, NoRow)  BY DEF DelHT
<1> HIDE DEF PairAt
<1> QED  BY <1>1, <1>2
\* The calls on the key-value table change one row of it, or none.
LEMMA KvEffect ==
  ASSUME SqlType, NEW w \in Workers, Kv(w)
  PROVE  /\ UNCHANGED <<tx, prog, last, owner, wrote, seen, gone, stale, calls>>
         /\ found' \in [Workers -> SUBSET (Keys \X Pairs)]
         /\ \/ UNCHANGED <<live, disk>>
            \/ \E r \in Pairs, x \in HTRow \cup {NoRow} :
                 PairAt(live, live', r, x) /\ disk' = IF tx THEN disk ELSE live'
<1>t. live \in Databases /\ found \in [Workers -> SUBSET (Keys \X Pairs)]  BY DEF SqlType
<1>1. CASE kv_put(w)
  <2>1. PICK k \in Keys, c \in Texts, r \in Pairs : Apply(UpdateHT(live, r, k, c))
    BY <1>1 DEF kv_put
  <2>2. PairAt(live, UpdateHT(live, r, k, c), r, <<k, c>>) /\ <<k, c>> \in HTRow
    BY <1>t, HTEffect DEF HTRow
  <2> QED  BY <1>1, <1>t, <2>1, <2>2 DEF kv_put, Apply
<1>2. CASE kv_remove(w)
  <2>1. PICK r \in Pairs : live.ht[r] # NoRow /\ found' = [found EXCEPT ![w] = {<<live.ht[r][1], r>>}]
    BY <1>2 DEF kv_remove
  <2>2. live.ht[r] \in HTRow  BY <1>t, <2>1 DEF Databases
  <2>3. <<live.ht[r][1], r>> \in Keys \X Pairs  BY <2>2 DEF HTRow
  <2> QED  BY <1>2, <1>t, <2>1, <2>3 DEF kv_remove, history
<1>3. CASE kv_delete(w)
  <2>1. PICK f \in found[w] : Apply(DelHT(live, f[2])) \/ UNCHANGED <<live, disk>>
    BY <1>3 DEF kv_delete
  <2>2. f[2] \in Pairs  BY <1>t
  <2>3. PairAt(live, DelHT(live, f[2]), f[2], NoRow)  BY <1>t, <2>2, HTEffect
  <2> QED  BY <1>3, <1>t, <2>1, <2>2, <2>3 DEF kv_delete, Apply
<1> QED  BY <1>1, <1>2, <1>3 DEF Kv
-----------------------------------------------------------------------------
(* Types are kept.                                                           *)

LEMMA TailKeeps ==
  ASSUME NEW p \in Seq(Stmt), p # << >>, Ordered(p)
  PROVE  LET q == Tail(p) IN
         /\ q \in Seq(Stmt) /\ Ordered(q)
         /\ LinksSnapshot(q) => LinksSnapshot(p)
         /\ \A H : Named(p, H) => Named(q, H)
         /\ q # << >> => /\ q[1] = p[2] /\ Len(p) >= 2
                         /\ q[1].do = "linkPrev" => p[1].do = "objID"
                         /\ q[1].do = "linkDiff" => p[1].do = "diff"
                         /\ q[1].do = "linkSnapshot" => p[1].do = "snapshot"
                         /\ q[1].do # "object" /\ q[1].do # "remove"
<1> DEFINE q == Tail(p)
<1>1. /\ q \in Seq(Stmt) /\ Len(q) = Len(p) - 1 /\ Len(p) >= 1 /\ Len(p) \in Nat
      /\ \A i \in 1..(Len(p) - 1) : q[i] = p[i + 1]
  BY TailShifts
<1> HIDE DEF q
<1>2. \A i \in 1..Len(q) : i + 1 \in 1..Len(p) /\ q[i] = p[i + 1]  BY <1>1
<1>3. Ordered(q)
  <2>1. ASSUME NEW i \in 1..Len(q) PROVE Ordered(q)!(i)
    <3>1. i + 1 \in 1..Len(p) /\ q[i] = p[i + 1] /\ i + 1 > 1  BY <1>2
    <3>2. i < Len(q) => q[i + 1] = p[(i + 1) + 1]  BY <1>1
    <3>3. i > 1 => q[i - 1] = p[(i + 1) - 1]  BY <1>1
    <3>4. Ordered(p)!(i + 1)  BY <3>1 DEF Ordered
    <3> QED  BY <1>1, <3>1, <3>2, <3>3, <3>4
  <2> QED  BY <2>1 DEF Ordered
<1>4. LinksSnapshot(q) => LinksSnapshot(p)  BY <1>2 DEF LinksSnapshot
<1>5. \A H : Named(p, H) => Named(q, H)  BY <1>2 DEF Named, NamedAt
<1>6. ASSUME q # << >>
      PROVE  /\ q[1] = p[2] /\ Len(p) >= 2
             /\ q[1].do = "linkPrev" => p[1].do = "objID"
             /\ q[1].do = "linkDiff" => p[1].do = "diff"
             /\ q[1].do = "linkSnapshot" => p[1].do = "snapshot"
             /\ q[1].do # "object" /\ q[1].do # "remove"
  <2>1. Len(q) >= 1  BY <1>1, <1>6
  <2>2. 2 \in 1..Len(p) /\ q[1] = p[2]  BY <1>1, <2>1
  <2>3. Ordered(p)!(2)  BY <2>2 DEF Ordered
  <2> QED  BY <2>2, <2>3
<1> QED  BY <1>1, <1>3, <1>4, <1>5, <1>6 DEF q

\* The three statements that write a record of a derived class.
Writes(w, class, r, text) ==
  LET h == Head(prog[w]) IN
  /\ Executes(w, class)
  /\ Target(w, class, r) /\ Wrote(w, class, r, text)
  /\ Apply(Write(live, class, r, h.an, text, h.row = 0))
  /\ IF class = "object" THEN owner' = [owner EXCEPT ![w] = r] /\ last' = last
                         ELSE last' = [last EXCEPT ![w] = r] /\ owner' = owner
  /\ UNCHANGED <<kept, gone>>

\* The first statement of a worker that is not idle.
LEMMA FirstStatement ==
  ASSUME SqlType, NEW w \in Workers, ~Idle(w)
  PROVE  LET h == Head(prog[w]) IN
         /\ h = prog[w][1] /\ h \in Stmt /\ prog[w] \in Seq(Stmt) /\ Ordered(prog[w])
         /\ prog[w] # << >> /\ 1 \in 1..Len(prog[w])
         /\ h.do \in {"objID", "remove"} => h.an \in AnIds
         /\ h.do \in {"linkPrev", "linkDiff"} => h.row \in Ids
         /\ h.do \in Classes => h.row \in Ids /\ h.an \in AnIds
         /\ h.do \in {"snapshot", "diff"} => h.text \in Texts
<1> DEFINE h == Head(prog[w])
<1>1. prog[w] \in Seq(Stmt) /\ prog[w] # << >> /\ Ordered(prog[w])  BY DEF SqlType, Idle
<1>2. h = prog[w][1] /\ h \in Stmt /\ 1 \in 1..Len(prog[w])  BY <1>1, TailShifts
<1> HIDE DEF h
<1>3. /\ h.do \in {"objID", "remove"} => h.an \in AnIds
      /\ h.do \in {"linkPrev", "linkDiff"} => h.row \in Ids
      /\ h.do \in Classes => h.row \in Ids /\ h.an \in AnIds
      /\ h.do \in {"snapshot", "diff"} => h.text \in Texts
  BY <1>2 DEF Stmt, Classes
<1> QED  BY <1>1, <1>2, <1>3 DEF h

LEMMA StatementCases ==
  ASSUME SqlType, NEW w \in Workers, Statement(w)
  PROVE  \/ \E class \in Classes, r \in Rows, text \in Texts \cup {TRUE} :
              text \in Contents(class) /\ Writes(w, class, r, text)
         \/ ExecObjID(w) \/ ExecLink(w) \/ ExecRemove(w)
<1> DEFINE h == Head(prog[w])
<1>0. ~Idle(w)  BY StatementsInside
<1>1. CASE ExecDiff(w)
  <2>1. h.do = "diff" /\ h.text \in Texts  BY <1>0, <1>1, FirstStatement DEF ExecDiff, Executes
  <2>2. PICK r \in Rows : Writes(w, "diff", r, h.text)
    BY <1>1 DEF ExecDiff, Writes, UpdateDiff
  <2> QED  BY <2>1, <2>2 DEF Classes, Contents
<1>2. CASE ExecSnapshot(w)
  <2>1. h.do = "snapshot" /\ h.text \in Texts
    BY <1>0, <1>2, FirstStatement DEF ExecSnapshot, Executes
  <2>2. PICK r \in Rows : Writes(w, "snapshot", r, h.text)
    BY <1>2 DEF ExecSnapshot, Writes, UpdateSnapshot
  <2> QED  BY <2>1, <2>2 DEF Classes, Contents
<1>3. CASE ExecObject(w)
  <2>2. PICK r \in Rows : Writes(w, "object", r, TRUE)
    BY <1>3 DEF ExecObject, Writes, UpdateObject
  <2> QED  BY <2>2 DEF Classes, Contents
<1> QED  BY <1>1, <1>2, <1>3 DEF Statement

\* After a statement the rest of the program is still in order.
LEMMA StatementLinkable ==
  ASSUME SqlType, NEW w \in Workers, NEW kind, Executes(w, kind),
         NEW r \in Rows,
         last' = IF kind \in {"objID", "snapshot", "diff"} THEN [last EXCEPT ![w] = r] ELSE last,
         owner' = IF kind = "object" THEN [owner EXCEPT ![w] = r] ELSE owner
  PROVE  /\ last' \in [Workers -> Ids] /\ owner' \in [Workers -> Ids]
         /\ prog' \in [Workers -> Seq(Stmt)]
         /\ \A v \in Workers : Ordered(prog'[v]) /\ Linkable(v)'
<1>0. ~Idle(w) /\ Head(prog[w]).do = kind /\ prog' = [prog EXCEPT ![w] = Tail(prog[w])]
  BY DEF Executes
<1>1. last' \in [Workers -> Ids] /\ owner' \in [Workers -> Ids]  BY DEF SqlType, Ids
<1>t. prog \in [Workers -> Seq(Stmt)]  BY DEF SqlType
<1>2. prog[w] \in Seq(Stmt) /\ prog[w] # << >> /\ Ordered(prog[w]) /\ prog[w][1].do = kind
  BY <1>0, FirstStatement
<1> DEFINE q == Tail(prog[w])
<1>3. /\ q \in Seq(Stmt) /\ Ordered(q)
      /\ LinksSnapshot(q) => LinksSnapshot(prog[w])
      /\ q # << >> => /\ q[1].do = "linkPrev" => kind = "objID"
                      /\ q[1].do = "linkDiff" => kind = "diff"
                      /\ q[1].do = "linkSnapshot" => kind = "snapshot"
  BY <1>2, TailKeeps
<1> HIDE DEF q
<1>4. prog' \in [Workers -> Seq(Stmt)] /\ prog'[w] = q /\ \A v \in Workers \ {w} : prog'[v] = prog[v]
  BY <1>0, <1>3, <1>t DEF q
<1>5. ASSUME NEW v \in Workers, v # w PROVE Ordered(prog'[v]) /\ Linkable(v)'
  <2>1. prog'[v] = prog[v] /\ last'[v] = last[v] /\ owner'[v] = owner[v]
    BY <1>4, <1>5 DEF SqlType
  <2>2. Ordered(prog[v]) /\ Linkable(v)  BY DEF SqlType
  <2> QED  BY <2>1, <2>2 DEF Linkable
<1>6. Linkable(w)'
  <2>1. q # << >> /\ q[1].do \in Links => last'[w] \in Rows
    <3>1. q # << >> /\ q[1].do \in Links => last'[w] = r  BY <1>3 DEF Links, SqlType
    <3> QED  BY <3>1
  <2>2. LinksSnapshot(q) => owner'[w] \in Rows
    <3>1. LinksSnapshot(prog[w]) => prog[w][1].do = "object" \/ owner[w] \in Rows
      BY DEF SqlType, Linkable
    <3>2. kind = "object" => owner'[w] = r  BY DEF SqlType
    <3>3. kind # "object" => owner'[w] = owner[w]  OBVIOUS
    <3> QED  BY <1>2, <1>3, <3>1, <3>2, <3>3
  <2> QED  BY <1>4, <2>1, <2>2 DEF Linkable
<1> QED  BY <1>1, <1>3, <1>4, <1>5, <1>6

LEMMA StatementType ==
  ASSUME SqlType, NEW w \in Workers, Statement(w)
  PROVE  SqlType'
<1> DEFINE h == Head(prog[w])
<1>0. ~Idle(w)  BY StatementsInside
<1>h. /\ h.do \in {"objID", "remove"} => h.an \in AnIds
      /\ h.do \in {"linkPrev", "linkDiff"} => h.row \in Ids
      /\ h.do \in Classes => h.row \in Ids /\ h.an \in AnIds
      /\ h = prog[w][1] /\ 1 \in 1..Len(prog[w]) /\ prog[w] # << >>
  BY <1>0, FirstStatement
<1>t. /\ live \in Databases /\ disk \in Databases /\ tx \in BOOLEAN /\ stale \in BOOLEAN
      /\ calls \in 0..MaxCalls /\ wrote \in [Workers -> SUBSET WrittenSet]
      /\ seen \subseteq HandleSet /\ gone \subseteq seen
      /\ last \in [Workers -> Ids] /\ owner \in [Workers -> Ids]
  BY DEF SqlType
<1>f. found' \in [Workers -> SUBSET (Keys \X Pairs)]
  <2>1. found' = found
    BY DEF Statement, ExecObjID, ExecDiff, ExecSnapshot, ExecObject, ExecLink, ExecRemove,
           Executes, kvs
  <2> QED  BY <2>1 DEF SqlType
<1>1. ASSUME NEW class \in Classes, NEW r \in Rows, NEW text \in Texts \cup {TRUE},
             text \in Contents(class), Writes(w, class, r, text)
      PROVE  SqlType'
  <2>1. Executes(w, class) /\ h.do = class  BY <1>1 DEF Writes, Executes
  <2>2. /\ last' \in [Workers -> Ids] /\ owner' \in [Workers -> Ids]
        /\ prog' \in [Workers -> Seq(Stmt)]
        /\ \A v \in Workers : Ordered(prog'[v]) /\ Linkable(v)'
    <3>1. /\ last' = IF class \in {"objID", "snapshot", "diff"} THEN [last EXCEPT ![w] = r] ELSE last
          /\ owner' = IF class = "object" THEN [owner EXCEPT ![w] = r] ELSE owner
      BY <1>1 DEF Writes, Classes
    <3> QED  BY <2>1, <3>1, StatementLinkable
  <2>3. live' = Write(live, class, r, h.an, text, h.row = 0) /\ disk' = IF tx THEN disk ELSE live'
    BY <1>1 DEF Writes, Apply
  <2>4. h.an \in AnIds /\ (h.row = 0) \in BOOLEAN  BY <1>h, <2>1
  <2>5. live' \in Databases /\ disk' \in Databases
    <3> HIDE DEF h
    <3>1. Write(live, class, r, h.an, text, h.row = 0) \in Databases
      BY <1>1, <1>t, <2>4, WriteEffect DEF Changed
    <3> QED  BY <1>t, <2>3, <3>1
  <2>6. wrote' \in [Workers -> SUBSET WrittenSet]
    <3>1. <<class, r, text>> \in WrittenSet  BY DEF WrittenSet
    <3>2. wrote[w] \subseteq WrittenSet  BY <1>t
    <3> DEFINE W == {x \in wrote[w] : <<x[1], x[2]>> # <<class, r>>} \cup
                      (IF h.row = 0 \/ live[class][r] # NoRow THEN {<<class, r, text>>} ELSE {})
    <3>3. wrote' = [wrote EXCEPT ![w] = W] /\ W \subseteq wrote[w] \cup {<<class, r, text>>}
      BY <1>1 DEF Writes, Wrote
    <3> HIDE DEF W
    <3> QED  BY <1>t, <3>1, <3>2, <3>3
  <2>7. stale' \in BOOLEAN /\ gone' = gone /\ seen' = seen /\ tx' = tx /\ calls' = calls
    BY <1>1 DEF Writes, Target, Executes
  <2> QED  BY <1>f, <1>t, <2>2, <2>5, <2>6, <2>7 DEF SqlType
<1>2. CASE ExecObjID(w)
  <2>1. PICK r \in Free(live, "objID") : Apply(UpdateObjID(live, r, h.an)) /\ last' = [last EXCEPT ![w] = r]
    BY <1>2 DEF ExecObjID
  <2>2. r \in Rows /\ Executes(w, "objID") /\ h.do = "objID" /\ owner' = owner /\ h.an \in AnIds
    BY <1>2, <1>h DEF Free, ExecObjID, Executes
  <2>3. /\ last' \in [Workers -> Ids] /\ owner' \in [Workers -> Ids]
        /\ prog' \in [Workers -> Seq(Stmt)]
        /\ \A v \in Workers : Ordered(prog'[v]) /\ Linkable(v)'
    BY <2>1, <2>2, StatementLinkable
  <2>4. live' \in Databases /\ disk' \in Databases
    BY <1>t, <2>1, <2>2, PlainEffect DEF Apply, PlainRow
  <2>5. UNCHANGED <<tx, seen, gone, calls, wrote, stale>>  BY <1>2 DEF ExecObjID, Executes, history
  <2> QED  BY <1>f, <1>t, <2>3, <2>4, <2>5 DEF SqlType
<1>3. CASE ExecLink(w)
  <2>1. PICK kind \in Links : Executes(w, kind) /\ h.do = kind  BY <1>3 DEF ExecLink, Executes, Links
  <2>2. last[w] \in Rows  BY <1>h, <2>1 DEF SqlType, Linkable
  <2>3. UNCHANGED <<last, owner, wrote, gone, stale, tx, seen, calls>>
    BY <1>3 DEF ExecLink, Executes, history
  <2>4. /\ last' \in [Workers -> Ids] /\ owner' \in [Workers -> Ids]
        /\ prog' \in [Workers -> Seq(Stmt)]
        /\ \A v \in Workers : Ordered(prog'[v]) /\ Linkable(v)'
    BY <2>1, <2>2, <2>3, StatementLinkable DEF Links
  <2>5. h.do = "linkSnapshot" => owner[w] \in Rows
    <3>1. h.do = "linkSnapshot" => LinksSnapshot(prog[w])  BY <1>h DEF LinksSnapshot
    <3> QED  BY <1>h, <3>1 DEF SqlType, Linkable
  <2>6. live' \in Databases /\ disk' \in Databases
    <3>1. PICK u \in Databases : Apply(u)
      BY <1>3, <1>t, <1>h, <2>2, <2>5, LinkEffect DEF ExecLink, Executes, Linked
    <3> QED  BY <1>t, <3>1 DEF Apply
  <2> QED  BY <1>f, <1>t, <2>3, <2>4, <2>6 DEF SqlType
<1>4. CASE ExecRemove(w)
  <2>1. PICK r \in Rows : /\ live.objID[r] # NoRow /\ Apply(DelObjID(live, r))
                          /\ gone' = gone \cup {x \in seen : x[2] = r}
    BY <1>4 DEF ExecRemove
  <2>2. Executes(w, "remove") /\ UNCHANGED <<last, owner, wrote, stale, tx, seen, calls>>
    BY <1>4 DEF ExecRemove, Executes
  <2>3. /\ last' \in [Workers -> Ids] /\ owner' \in [Workers -> Ids]
        /\ prog' \in [Workers -> Seq(Stmt)]
        /\ \A v \in Workers : Ordered(prog'[v]) /\ Linkable(v)'
    BY <2>2, StatementLinkable
  <2>4. live' \in Databases /\ disk' \in Databases  BY <1>t, <2>1, DelEffect DEF Apply, Deleted
  <2>5. gone' \subseteq seen'  BY <1>t, <2>1, <2>2
  <2> QED  BY <1>f, <1>t, <2>2, <2>3, <2>4, <2>5 DEF SqlType
<1> QED  BY <1>1, <1>2, <1>3, <1>4, StatementCases

\* A caller gets handles of rows that are there.
LEMMA HandlesLive ==
  ASSUME SqlType, NEW class \in Classes, NEW rows, rows \subseteq Rows,
         NEW h \in Handles(class, rows)
  PROVE  h \in HandleSet /\ live[h[1]][h[2]] # NoRow /\ h[2] \in Rows
<1>1. PICK r \in rows : /\ live[class][r] # NoRow /\ live.objID[r] # NoRow
                        /\ h = <<class, r, live.objID[r].an>>
  BY DEF Handles
<1>2. live.objID[r] \in ObjIDRow  BY <1>1 DEF SqlType, Databases
<1>3. live.objID[r].an \in AnIds  BY <1>2 DEF ObjIDRow
<1> QED  BY <1>1, <1>3 DEF HandleSet

Gets(w) == db_get_diff(w) \/ db_get_snapshot(w) \/ db_get_obj(w)

LEMMA GetsGot ==
  ASSUME SqlType, NEW w \in Workers, Gets(w)
  PROVE  \E H : Got(H) /\ H \subseteq HandleSet /\ \A h \in H : live[h[1]][h[2]] # NoRow
<1> DEFINE Good(H) == H \subseteq HandleSet /\ \A h \in H : live[h[1]][h[2]] # NoRow
<1>t. live.diffSnapshot \subseteq Rows \X Ids /\ live.diffObject \subseteq Rows \X Rows
      /\ live.objectSnapshot \subseteq Rows \X Rows
  BY DEF SqlType, Databases, DiffSnapshotRelation, DiffObjectRelation, ObjectSnapshotRelation, Ids
<1>1. ASSUME NEW class \in Classes, NEW rows, rows \subseteq Rows PROVE Good(Handles(class, rows))
  BY <1>1, HandlesLive
<1>2. \A s : Good(DiffsOfSnapshot(s))  BY <1>1 DEF DiffsOfSnapshot, Classes
<1>3. \A o : Good(DiffsOfObject(o))
  <2>1. ASSUME NEW o PROVE {p[1] : p \in {q \in live.diffObject : q[2] = o}} \subseteq Rows
    BY <1>t
  <2> QED  BY <1>1, <2>1 DEF DiffsOfObject, Classes
<1>4. \A o : Good(SnapshotsOfObject(o))
  <2>1. ASSUME NEW o PROVE {p[2] : p \in {q \in live.objectSnapshot : q[1] = o}} \subseteq Rows
    BY <1>t
  <2> QED  BY <1>1, <2>1 DEF SnapshotsOfObject, Classes
<1>5. \A class \in Classes : Good(Handles(class, Rows))  BY <1>1
<1>6. CASE db_get_diff(w)
  <2>1. PICK h \in Handles("diff", Rows) : Got({h})  BY <1>6 DEF db_get_diff
  <2>2. Good({h})  BY <1>5 DEF Classes
  <2> QED  BY <2>1, <2>2
<1>7. CASE db_get_snapshot(w)
  <2>1. PICK h \in Handles("snapshot", Rows) : Got({h} \cup DiffsOfSnapshot(h[2]))
    BY <1>7 DEF db_get_snapshot
  <2>2. Good({h} \cup DiffsOfSnapshot(h[2]))  BY <1>2, <1>5 DEF Classes
  <2> QED  BY <2>1, <2>2
<1>8. CASE db_get_obj(w)
  <2>1. PICK h \in Handles("object", Rows) :
          Got({h} \cup SnapshotsOfObject(h[2]) \cup DiffsOfObject(h[2])
                \cup UNION {DiffsOfSnapshot(s[2]) : s \in SnapshotsOfObject(h[2])})
    BY <1>8 DEF db_get_obj
  <2>2. Good({h})  BY <1>5 DEF Classes
  <2>3. Good(UNION {DiffsOfSnapshot(s[2]) : s \in SnapshotsOfObject(h[2])})  BY <1>2
  <2>4. Good({h} \cup SnapshotsOfObject(h[2]) \cup DiffsOfObject(h[2])
                \cup UNION {DiffsOfSnapshot(s[2]) : s \in SnapshotsOfObject(h[2])})
    BY <1>3, <1>4, <2>2, <2>3
  <2> QED  BY <2>1, <2>4
<1> QED  BY <1>6, <1>7, <1>8 DEF Gets

LEMMA SqlTypeStep ==
  ASSUME SqlType, [Next]_vars
  PROVE  SqlType'
<1>t. /\ live \in Databases /\ disk \in Databases /\ tx \in BOOLEAN /\ stale \in BOOLEAN
      /\ calls \in 0..MaxCalls /\ wrote \in [Workers -> SUBSET WrittenSet]
      /\ seen \subseteq HandleSet /\ gone \subseteq seen
      /\ last \in [Workers -> Ids] /\ owner \in [Workers -> Ids]
      /\ prog \in [Workers -> Seq(Stmt)]
      /\ \A v \in Workers : Ordered(prog[v]) /\ Linkable(v)
      /\ found \in [Workers -> SUBSET (Keys \X Pairs)]
  BY DEF SqlType
<1>e. << >> \in Seq(Stmt) /\ Ordered(<< >>) /\ ~LinksSnapshot(<< >>)  BY DEF Ordered, LinksSnapshot
<1>idle. CASE UNCHANGED vars  BY <1>idle, <1>t DEF vars, SqlType, Linkable
<1>begin. ASSUME NEW w \in Workers, Begins(w) PROVE SqlType'
  <2>1. PICK p : Starts(w, p) /\ Fresh(p, seen)  BY <1>begin, BeginsFresh
  <2>2. prog' = [prog EXCEPT ![w] = p] /\ tx' = TRUE
        /\ UNCHANGED <<live, disk, last, owner, wrote, gone, stale, seen, found>>
    BY <2>1 DEF Starts, history, kvs
  <2>3. calls' \in 0..MaxCalls  BY <2>1, <1>t, SqlAssumption DEF Starts
  <2>4. p \in Seq(Stmt) /\ Ordered(p) /\ p[1].do \notin Links
        /\ (LinksSnapshot(p) => p[1].do = "object")
    BY <2>1 DEF Fresh
  <2>5. prog' \in [Workers -> Seq(Stmt)] /\ prog'[w] = p /\ \A v \in Workers \ {w} : prog'[v] = prog[v]
    BY <1>t, <2>2, <2>4
  <2>6. \A v \in Workers : Ordered(prog'[v]) /\ Linkable(v)'
    BY <1>t, <2>2, <2>4, <2>5 DEF Linkable
  <2> QED  BY <1>t, <2>2, <2>3, <2>5, <2>6 DEF SqlType
<1>statement. ASSUME NEW w \in Workers, Statement(w) PROVE SqlType'
  BY <1>statement, StatementType
<1>return. ASSUME NEW w \in Workers, Commit(w) \/ Throw(w) PROVE SqlType'
  <2>1. /\ prog' = [prog EXCEPT ![w] = << >>] /\ last' = [last EXCEPT ![w] = 0]
        /\ owner' = [owner EXCEPT ![w] = 0] /\ wrote' = [wrote EXCEPT ![w] = {}]
        /\ live' = live /\ (disk' = disk \/ disk' = live) /\ (tx' = tx \/ tx' = FALSE)
        /\ UNCHANGED <<seen, gone, stale, calls, found>>
    BY <1>return DEF Commit, Throw, Return, kvs
  <2>2. prog' \in [Workers -> Seq(Stmt)] /\ prog'[w] = << >> /\ \A v \in Workers \ {w} : prog'[v] = prog[v]
    BY <1>t, <1>e, <2>1
  <2>3. last' \in [Workers -> Ids] /\ owner' \in [Workers -> Ids]
        /\ \A v \in Workers \ {w} : last'[v] = last[v] /\ owner'[v] = owner[v]
    BY <1>t, <2>1 DEF Ids
  <2>4. \A v \in Workers : Ordered(prog'[v]) /\ Linkable(v)'
    BY <1>t, <1>e, <2>2, <2>3 DEF Linkable
  <2>5. wrote' \in [Workers -> SUBSET WrittenSet]  BY <1>t, <2>1
  <2> QED  BY <1>t, <2>1, <2>2, <2>3, <2>4, <2>5 DEF SqlType
<1>get. ASSUME NEW w \in Workers, Gets(w) PROVE SqlType'
  <2>1. PICK H : Got(H) /\ H \subseteq HandleSet  BY <1>get, GetsGot
  <2> QED  BY <1>t, <2>1 DEF Got, SqlType, Linkable, kvs
<1>kv. ASSUME NEW w \in Workers, Kv(w) PROVE SqlType'
  <2>1. /\ UNCHANGED <<tx, prog, last, owner, wrote, seen, gone, stale, calls>>
        /\ found' \in [Workers -> SUBSET (Keys \X Pairs)]
    BY <1>kv, KvEffect
  <2>2. live' \in Databases /\ disk' \in Databases  BY <1>t, <1>kv, KvEffect DEF PairAt
  <2> QED  BY <1>t, <2>1, <2>2 DEF SqlType, Linkable
<1>restart. CASE Restart
  BY <1>restart, <1>t, <1>e DEF Restart, SqlType, Linkable, Ids
<1> QED  BY <1>idle, <1>begin, <1>statement, <1>return, <1>get, <1>kv, <1>restart, StepKinds
         DEF Single, Gets

LEMMA SqlTypeInit == Init => SqlType
<1> SUFFICES ASSUME Init PROVE SqlType
  OBVIOUS
<1>1. Schema \in Databases
  BY DEF Schema, Databases
<1>2. << >> \in Seq(Stmt) /\ Ordered(<< >>) /\ ~LinksSnapshot(<< >>)  BY DEF Ordered, LinksSnapshot
<1>3. 0 \in 0..MaxCalls  BY SqlAssumption
<1>4. /\ prog = [w \in Workers |-> << >>] /\ prog \in [Workers -> Seq(Stmt)]
      /\ last \in [Workers -> Ids] /\ owner \in [Workers -> Ids]
      /\ wrote \in [Workers -> SUBSET WrittenSet] /\ found \in [Workers -> SUBSET (Keys \X Pairs)]
  BY <1>2 DEF Init, Ids
<1>5. \A w \in Workers : Ordered(prog[w]) /\ Linkable(w)  BY <1>2, <1>4 DEF Linkable
<1> QED  BY <1>1, <1>3, <1>4, <1>5 DEF Init, SqlType

\* Every table holds only what its columns can (TypeOK), for any number of rows
\* and threads: a relation holds the id 0 only on the side of a record that is
\* linked before it is written.
THEOREM TablesTyped == Spec => []TypeOK
<1>1. SqlType => TypeOK  BY DEF SqlType, TypeOK, Ids
<1> QED  BY <1>1, SqlTypeInit, SqlTypeStep, PTL DEF Spec
-----------------------------------------------------------------------------
(* What was acknowledged.                                                    *)

PairSet == {"ht"} \X Pairs \X HTRow

WorkerAck(w) ==
  /\ Idle(w) => wrote[w] = {}
  /\ ~Idle(w) => prog[w][Len(prog[w])].do = "commit"
  /\ ~Idle(w) /\ prog[w][1].do = "remove" => wrote[w] = {}
  /\ \A x \in wrote[w] : live[x[1]][x[2]] = x[3]
  /\ ~Idle(w) => \A k \in kept \cap WrittenSet :
       live[k[1]][k[2]] = k[3] \/ \E x \in wrote[w] : x[1] = k[1] /\ x[2] = k[2]

\* What is on disk was acknowledged or not, but what was acknowledged is there;
\* the connection sees it too, except what the open transaction has written over.
AckInv ==
  /\ ~tx => live = disk /\ unsure = {}
  /\ kept \subseteq WrittenSet \cup PairSet /\ unsure \subseteq PairSet
  /\ \A k \in kept : disk[k[1]][k[2]] = k[3]
  /\ \A k \in kept \cup unsure : k[1] = "ht" => live.ht[k[2]] = k[3]
  /\ \A w \in Workers : WorkerAck(w)

LEMMA KindsApart == WrittenSet \cap PairSet = {}
BY DEF WrittenSet, PairSet, Classes

\* A statement is followed by another one: the commit at the end.
LEMMA NotTheLast ==
  ASSUME SqlType, AckInv, NEW w \in Workers, NEW kind, Executes(w, kind), kind # "commit"
  PROVE  LET q == Tail(prog[w]) IN
         /\ q # << >> /\ q[Len(q)].do = "commit" /\ q[1].do # "remove" /\ prog'[w] = q
         /\ \A v \in Workers \ {w} : prog'[v] = prog[v]
<1> DEFINE p == prog[w]
           q == Tail(p)
<1>1. ~Idle(w) /\ Head(p).do = kind /\ prog' = [prog EXCEPT ![w] = q]  BY DEF Executes
<1>2. p \in Seq(Stmt) /\ p # << >> /\ Ordered(p) /\ p[1].do = kind  BY <1>1, FirstStatement
<1>3. p[Len(p)].do = "commit"  BY <1>1 DEF AckInv, WorkerAck
<1>t. prog \in [Workers -> Seq(Stmt)]  BY DEF SqlType
<1> HIDE DEF p
<1>4. /\ q \in Seq(Stmt) /\ Len(q) = Len(p) - 1 /\ Len(p) >= 1 /\ Len(p) \in Nat
      /\ \A i \in 1..(Len(p) - 1) : q[i] = p[i + 1]
  BY <1>2, TailShifts
<1>5. Len(p) # 1  BY <1>2, <1>3
<1>6. q[Len(q)] = p[Len(p)]
  <2>1. Len(q) \in 1..(Len(p) - 1) /\ Len(q) + 1 = Len(p)  BY <1>4, <1>5
  <2> QED  BY <1>4, <2>1
<1>7. q # << >>
  <2>1. Len(<< >>) = 0  OBVIOUS
  <2> QED  BY <1>4, <1>5, <2>1
<1>8. q[1].do # "remove"  BY <1>2, <1>7, TailKeeps
<1> QED  BY <1>1, <1>3, <1>6, <1>7, <1>8, <1>t DEF p

\* Inside a transaction nobody else is active.
LEMMA Alone ==
  ASSUME TxInv, NEW w \in Workers, ~Idle(w)
  PROVE  tx /\ \A v \in Workers : v # w => Idle(v)
BY DEF TxInv, OneTransaction

LEMMA AckWrites ==
  ASSUME SqlType, TxInv, AckInv, NEW w \in Workers, NEW class \in Classes, NEW r \in Rows,
         NEW text \in Contents(class), Writes(w, class, r, text)
  PROVE  AckInv'
<1> DEFINE h == Head(prog[w])
           done == h.row = 0 \/ live[class][r] # NoRow
           W == {x \in wrote[w] : <<x[1], x[2]>> # <<class, r>>} \cup
                  (IF done THEN {<<class, r, text>>} ELSE {})
<1>1. ~Idle(w) /\ Executes(w, class) /\ class # "commit" /\ h.do = class
  BY DEF Writes, Executes, Classes
<1>2. tx /\ \A v \in Workers : v # w => Idle(v)  BY <1>1, Alone
<1>3. /\ wrote' = [wrote EXCEPT ![w] = W] /\ disk' = disk /\ tx' = tx
      /\ kept' = kept /\ unsure' = unsure
      /\ live' = Write(live, class, r, h.an, text, h.row = 0)
  BY <1>2 DEF Writes, Wrote, Executes, Apply
<1>4. h.an \in AnIds /\ live \in Databases /\ (h.row = 0) \in BOOLEAN
  BY <1>1, FirstStatement DEF SqlType
<1>5. /\ live'[class] = [live[class] EXCEPT ![r] = IF h.row = 0 \/ @ # NoRow THEN text ELSE @]
      /\ \A c \in Classes \ {class} : live'[c] = live[c]
      /\ live'.ht = live.ht
  <2> HIDE DEF h, W
  <2>1. Changed(live, live', class, r, h.an, text, h.row)  BY <1>3, <1>4, WriteEffect
  <2> QED  BY <2>1 DEF Changed
<1>6. live[class] \in [Rows -> Contents(class) \cup {NoRow}]
  BY <1>4 DEF Databases, Classes, Contents, ObjectRow, SnapshotRow, DiffRow
<1>7. /\ done => live'[class][r] = text
      /\ ~done => live'[class][r] = live[class][r]
      /\ \A s \in Rows \ {r} : live'[class][s] = live[class][s]
  BY <1>5, <1>6
<1>8. \A x \in WrittenSet : <<x[1], x[2]>> # <<class, r>> => live'[x[1]][x[2]] = live[x[1]][x[2]]
  BY <1>5, <1>7 DEF WrittenSet
<1>9. \A x \in WrittenSet : x[3] # NoRow /\ x[1] \in Classes /\ x[2] \in Rows
  BY RowAssumption DEF WrittenSet, ObjectRow
<1>w. /\ wrote[w] \subseteq WrittenSet /\ wrote'[w] = W /\ \A v \in Workers \ {w} : wrote'[v] = wrote[v]
      /\ wrote \in [Workers -> SUBSET WrittenSet]
  BY <1>3 DEF SqlType
<1>o. /\ \A x \in wrote[w] : live[x[1]][x[2]] = x[3]
      /\ \A k \in kept \cap WrittenSet :
           live[k[1]][k[2]] = k[3] \/ \E x \in wrote[w] : x[1] = k[1] /\ x[2] = k[2]
      /\ \A v \in Workers \ {w} : wrote[v] = {}
  BY <1>1, <1>2 DEF AckInv, WorkerAck
<1>n. LET q == Tail(prog[w]) IN
      /\ q # << >> /\ q[Len(q)].do = "commit" /\ q[1].do # "remove" /\ prog'[w] = q
      /\ \A v \in Workers \ {w} : prog'[v] = prog[v]
  BY <1>1, NotTheLast
<1>11. \A x \in W : live'[x[1]][x[2]] = x[3]
  BY <1>7, <1>8, <1>o, <1>w
<1>12. ASSUME NEW k \in kept \cap WrittenSet
       PROVE  live'[k[1]][k[2]] = k[3] \/ \E x \in W : x[1] = k[1] /\ x[2] = k[2]
  <2>1. CASE <<k[1], k[2]>> # <<class, r>>  BY <1>8, <1>o, <2>1
  <2>2. CASE <<k[1], k[2]>> = <<class, r>> /\ done
    <3>1. <<class, r, text>> \in W  BY <2>2
    <3> HIDE DEF W
    <3> QED  BY <2>2, <3>1
  <2>3. CASE <<k[1], k[2]>> = <<class, r>> /\ ~done
    <3>1. live[k[1]][k[2]] = NoRow  BY <2>3
    <3>2. live[k[1]][k[2]] # k[3]  BY <1>9, <3>1
    <3>3. PICK x \in wrote[w] : x[1] = k[1] /\ x[2] = k[2]  BY <1>o, <3>2
    <3>4. x[3] = NoRow  BY <1>o, <3>1, <3>3
    <3> QED  BY <1>9, <1>w, <3>3, <3>4
  <2> QED  BY <2>1, <2>2, <2>3
<1> HIDE DEF W
<1>13. \A v \in Workers : WorkerAck(v)'
  <2>1. ASSUME NEW v \in Workers, v # w PROVE wrote'[v] = {} /\ Idle(v)'
    BY <1>2, <1>n, <1>w, <1>o, <2>1 DEF Idle
  <2>2. ~Idle(w)'  BY <1>n DEF Idle
  <2> QED  BY <1>3, <1>11, <1>12, <1>n, <1>w, <2>1, <2>2 DEF WorkerAck
<1>14. \A k \in kept' \cup unsure' : k[1] = "ht" => live'.ht[k[2]] = k[3]
  BY <1>3, <1>5 DEF AckInv, WorkerAck
<1>15. \A k \in kept' : disk'[k[1]][k[2]] = k[3]  BY <1>3 DEF AckInv, WorkerAck
<1> QED  BY <1>2, <1>3, <1>13, <1>14, <1>15 DEF AckInv, WorkerAck

\* A statement that touches no row of a derived class: of ObjID_ or a relation.
LEMMA AckBesides ==
  ASSUME SqlType, TxInv, AckInv, NEW w \in Workers, NEW kind, Executes(w, kind), kind # "commit",
         kind # "remove",
         tx => disk' = disk, UNCHANGED <<wrote, kept, unsure>>,
         live'.ht = live.ht, \A c \in Classes : live'[c] = live[c]
  PROVE  AckInv'
<1>1. ~Idle(w) /\ tx' = tx  BY DEF Executes
<1>2. tx /\ \A v \in Workers : v # w => Idle(v)  BY <1>1, Alone
<1>n. LET q == Tail(prog[w]) IN
      /\ q # << >> /\ q[Len(q)].do = "commit" /\ q[1].do # "remove" /\ prog'[w] = q
      /\ \A v \in Workers \ {w} : prog'[v] = prog[v]
  BY <1>1, NotTheLast
<1>w. \A x \in WrittenSet : live'[x[1]][x[2]] = live[x[1]][x[2]]  BY DEF WrittenSet
<1>t. wrote \in [Workers -> SUBSET WrittenSet]  BY DEF SqlType
<1>3. \A v \in Workers : WorkerAck(v)'
  <2>1. ASSUME NEW v \in Workers, v # w PROVE wrote'[v] = {} /\ Idle(v)'
    BY <1>2, <1>n, <2>1 DEF Idle, AckInv, WorkerAck
  <2>2. ~Idle(w)'  BY <1>n DEF Idle
  <2>3. \A x \in wrote'[w] : live'[x[1]][x[2]] = x[3]  BY <1>w, <1>t DEF AckInv, WorkerAck
  <2>4. \A k \in kept' \cap WrittenSet :
              live'[k[1]][k[2]] = k[3] \/ \E x \in wrote'[w] : x[1] = k[1] /\ x[2] = k[2]
    BY <1>1, <1>w DEF AckInv, WorkerAck
  <2> QED  BY <1>n, <2>1, <2>2, <2>3, <2>4 DEF WorkerAck
<1>4. \A k \in kept' \cup unsure' : k[1] = "ht" => live'.ht[k[2]] = k[3]  BY DEF AckInv, WorkerAck
<1>5. \A k \in kept' : disk'[k[1]][k[2]] = k[3]  BY <1>2 DEF AckInv, WorkerAck
<1> QED  BY <1>1, <1>2, <1>3, <1>4, <1>5 DEF AckInv, WorkerAck

LEMMA AckRemove ==
  ASSUME SqlType, TxInv, AckInv, NEW w \in Workers, ExecRemove(w)
  PROVE  AckInv'
<1>1. PICK r \in Rows : /\ live.objID[r] # NoRow /\ Apply(DelObjID(live, r))
                        /\ kept' = {k \in kept : k[1] = "ht" \/ k[2] # r}
  BY DEF ExecRemove
<1>2. Executes(w, "remove") /\ UNCHANGED <<wrote, unsure>>  BY DEF ExecRemove
<1>3. ~Idle(w) /\ tx' = tx /\ Head(prog[w]).do = "remove"  BY <1>2 DEF Executes
<1>4. tx /\ \A v \in Workers : v # w => Idle(v)  BY <1>3, Alone
<1>5. disk' = disk /\ live' = DelObjID(live, r)  BY <1>1, <1>4 DEF Apply
<1>6. live'.ht = live.ht /\ \A c \in Classes : \A s \in Rows \ {r} : live'[c][s] = live[c][s]
  <2>1. live \in Databases  BY DEF SqlType
  <2>2. \A c \in Classes : live[c] \in [Rows -> Contents(c) \cup {NoRow}]
    BY <2>1 DEF Databases, Classes, Contents, ObjectRow, SnapshotRow, DiffRow
  <2>3. Deleted(live, live', r, live.objID[r].type)  BY <1>1, <1>5, <2>1, DelEffect
  <2> QED  BY <2>2, <2>3 DEF Deleted
<1>n. LET q == Tail(prog[w]) IN
      /\ q # << >> /\ q[Len(q)].do = "commit" /\ q[1].do # "remove" /\ prog'[w] = q
      /\ \A v \in Workers \ {w} : prog'[v] = prog[v]
  BY <1>2, NotTheLast
<1>7. \A v \in Workers : wrote'[v] = {}
  <2>1. prog[w][1].do = "remove"  BY <1>3, FirstStatement
  <2> QED  BY <1>2, <1>3, <1>4, <2>1 DEF AckInv, WorkerAck
<1>8. \A k \in kept' \cap WrittenSet : live'[k[1]][k[2]] = k[3]
  <2>1. ASSUME NEW k \in kept' \cap WrittenSet PROVE live'[k[1]][k[2]] = k[3]
    <3>1. k \in kept \cap WrittenSet /\ k[1] \in Classes /\ k[2] \in Rows \ {r}
      BY <1>1, <2>1 DEF WrittenSet, Classes
    <3>2. wrote[w] = {}  BY <1>2, <1>7
    <3>3. live[k[1]][k[2]] = k[3]  BY <1>3, <3>1, <3>2 DEF AckInv, WorkerAck
    <3> QED  BY <1>6, <3>1, <3>3
  <2> QED  BY <2>1
<1>9. \A v \in Workers : v # w => Idle(v)'  BY <1>4, <1>n DEF Idle
<1>10. \A v \in Workers : WorkerAck(v)'
  BY <1>n, <1>7, <1>8, <1>9 DEF WorkerAck
<1>11. \A k \in kept' \cup unsure' : k[1] = "ht" => live'.ht[k[2]] = k[3]
  BY <1>1, <1>2, <1>6 DEF AckInv, WorkerAck
<1>12. \A k \in kept' : disk'[k[1]][k[2]] = k[3]  BY <1>1, <1>5 DEF AckInv, WorkerAck
<1>13. kept' \subseteq WrittenSet \cup PairSet /\ unsure' \subseteq PairSet
  BY <1>1, <1>2 DEF AckInv, WorkerAck
<1> QED  BY <1>3, <1>4, <1>10, <1>11, <1>12, <1>13 DEF AckInv, WorkerAck

LEMMA AckStatement ==
  ASSUME SqlType, TxInv, AckInv, NEW w \in Workers, Statement(w)
  PROVE  AckInv'
<1>t. live \in Databases /\ ~Idle(w)  BY StatementsInside DEF SqlType
<1>1. ASSUME NEW class \in Classes, NEW r \in Rows, NEW text \in Contents(class),
             Writes(w, class, r, text)
      PROVE  AckInv'
  BY <1>1, AckWrites
<1>2. CASE ExecObjID(w)
  <2>1. PICK r \in Free(live, "objID") : Apply(UpdateObjID(live, r, Head(prog[w]).an))
    BY <1>2 DEF ExecObjID
  <2>2. Executes(w, "objID") /\ UNCHANGED <<wrote, kept, unsure>>
    BY <1>2 DEF ExecObjID, history
  <2>3. r \in Rows /\ Head(prog[w]).an \in AnIds
    BY <1>t, <2>2, FirstStatement DEF Free, Executes
  <2>5. PlainRow(live, live', r, Head(prog[w]).an)  BY <1>t, <2>1, <2>3, PlainEffect DEF Apply
  <2>4. live'.ht = live.ht /\ \A c \in Classes : live'[c] = live[c]  BY <2>5 DEF PlainRow
  <2> QED  BY <2>1, <2>2, <2>4, AckBesides DEF Apply
<1>3. CASE ExecLink(w)
  <2>1. PICK kind \in Links : Executes(w, kind)  BY <1>3 DEF ExecLink, Links
  <2>2. UNCHANGED <<wrote, kept, unsure>>  BY <1>3 DEF ExecLink, Executes, history
  <2>3. /\ tx => disk' = disk
        /\ live'.ht = live.ht /\ \A c \in Classes : live'[c] = live[c]
    BY <1>3, <1>t DEF ExecLink, Apply, DiffObjIDLink, DiffSnapshotLink, ObjectSnapshotLink,
                      Databases, Classes
  <2> QED  BY <2>1, <2>2, <2>3, AckBesides DEF Links
<1>4. CASE ExecRemove(w)  BY <1>4, AckRemove
<1> QED  BY <1>1, <1>2, <1>3, <1>4, StatementCases

LEMMA AckCommit ==
  ASSUME SqlType, TxInv, AckInv, NEW w \in Workers, Commit(w)
  PROVE  AckInv'
<1>1. /\ ~Idle(w) /\ prog' = [prog EXCEPT ![w] = << >>] /\ wrote' = [wrote EXCEPT ![w] = {}]
      /\ disk' = live /\ live' = live /\ tx' = FALSE /\ unsure' = {}
      /\ kept' = {k \in kept : \A x \in wrote[w] : <<x[1], x[2]>> # <<k[1], k[2]>>}
                   \cup wrote[w] \cup unsure
  BY DEF Commit, Return
<1>2. \A v \in Workers : v # w => Idle(v)  BY <1>1, Alone
<1>t. prog \in [Workers -> Seq(Stmt)] /\ wrote \in [Workers -> SUBSET WrittenSet]  BY DEF SqlType
<1>3. \A v \in Workers : Idle(v)' /\ wrote'[v] = {}  BY <1>1, <1>2, <1>t DEF AckInv, WorkerAck, Idle
<1>4. kept' \subseteq WrittenSet \cup PairSet  BY <1>1, <1>t DEF AckInv, WorkerAck
<1>5. ASSUME NEW k \in kept' PROVE live[k[1]][k[2]] = k[3]
  <2>1. CASE k \in wrote[w]  BY <2>1 DEF AckInv, WorkerAck
  <2>2. CASE k \in unsure  BY <2>2 DEF AckInv, WorkerAck, PairSet
  <2>3. CASE k \in kept /\ \A x \in wrote[w] : <<x[1], x[2]>> # <<k[1], k[2]>>
    <3>1. CASE k \in PairSet  BY <2>3, <3>1 DEF AckInv, WorkerAck, PairSet
    <3>2. CASE k \in WrittenSet  BY <1>1, <2>3, <3>2 DEF AckInv, WorkerAck
    <3> QED  BY <1>4, <3>1, <3>2
  <2> QED  BY <1>1, <2>1, <2>2, <2>3
<1>6. \A k \in kept' \cup unsure' : k[1] = "ht" => live'.ht[k[2]] = k[3]  BY <1>1, <1>5
<1> QED  BY <1>1, <1>3, <1>4, <1>5, <1>6 DEF AckInv, WorkerAck

LEMMA AckPut ==
  ASSUME SqlType, AckInv, NEW w \in Workers, kv_put(w)
  PROVE  AckInv'
<1>1. PICK k \in Keys, c \in Texts, r \in Pairs :
        /\ live.ht[r] = NoRow /\ Apply(UpdateHT(live, r, k, c))
        /\ LET row == {<<"ht", r, <<k, c>>>>}
           IN  IF tx THEN unsure' = unsure \cup row /\ UNCHANGED kept
                     ELSE kept' = kept \cup row /\ UNCHANGED unsure
  BY DEF kv_put
<1>2. UNCHANGED <<tx, prog, wrote>>  BY DEF kv_put
<1>3. live \in Databases /\ wrote \in [Workers -> SUBSET WrittenSet]  BY DEF SqlType
<1>4. PairAt(live, live', r, <<k, c>>)  BY <1>1, <1>3, HTEffect DEF Apply
<1>5. live.ht \in [Pairs -> HTRow \cup {NoRow}]  BY <1>3 DEF Databases
<1> DEFINE x == <<"ht", r, <<k, c>>>>
<1>6. x \in PairSet /\ x[1] = "ht" /\ x[2] = r /\ x[3] = <<k, c>> /\ live'.ht[r] = <<k, c>>
  BY <1>4, <1>5 DEF PairSet, HTRow, PairAt
<1>7. ASSUME NEW y \in kept \cup unsure, y[1] = "ht" PROVE live'.ht[y[2]] = y[3]
  <2>1. y \in PairSet  BY <1>7, KindsApart DEF AckInv, WorkerAck, WrittenSet, Classes
  <2>2. live.ht[y[2]] = y[3] /\ y[3] # NoRow /\ y[2] \in Pairs
    BY <1>7, <2>1, RowAssumption DEF AckInv, WorkerAck, PairSet
  <2> QED  BY <1>1, <1>4, <1>5, <2>2 DEF PairAt
<1>8. \A y \in WrittenSet : live'[y[1]][y[2]] = live[y[1]][y[2]]
  BY <1>4 DEF WrittenSet, PairAt
<1>9. \A y \in kept' \cup unsure' : y[1] = "ht" => live'.ht[y[2]] = y[3]
  <2> HIDE DEF x
  <2>1. \A y \in kept' \cup unsure' : y \in kept \cup unsure \/ y = x  BY <1>1 DEF x
  <2> QED  BY <1>6, <1>7, <2>1
<1>10. ASSUME NEW y \in kept' PROVE disk'[y[1]][y[2]] = y[3]
  <2>1. CASE tx  BY <1>1, <2>1 DEF Apply, AckInv, WorkerAck
  <2>2. CASE ~tx
    <3>1. disk' = live' /\ live = disk /\ kept' = kept \cup {x}  BY <1>1, <2>2 DEF Apply, AckInv, WorkerAck
    <3>2. CASE y = x  BY <1>6, <3>1, <3>2
    <3>3. CASE y \in PairSet  BY <1>9, <3>1, <3>3 DEF PairSet
    <3>4. CASE y \in kept /\ y \in WrittenSet  BY <1>8, <3>1, <3>4 DEF AckInv, WorkerAck
    <3> QED  BY <3>1, <3>2, <3>3, <3>4 DEF AckInv, WorkerAck
  <2> QED  BY <2>1, <2>2
<1>11. kept' \subseteq WrittenSet \cup PairSet /\ unsure' \subseteq PairSet
  BY <1>1, <1>6 DEF AckInv, WorkerAck
<1>12. ~tx' => live' = disk' /\ unsure' = {}  BY <1>1, <1>2 DEF Apply, AckInv, WorkerAck
<1>13. kept' \cap WrittenSet = kept \cap WrittenSet  BY <1>1, <1>6, KindsApart
<1>14. \A v \in Workers : WorkerAck(v)'
  <2>1. ASSUME NEW v \in Workers PROVE WorkerAck(v)'
    <3>1. WorkerAck(v)  BY DEF AckInv
    <3>2. wrote[v] \subseteq WrittenSet  BY <1>3
    <3> QED  BY <1>2, <1>8, <1>13, <3>1, <3>2 DEF Idle, WorkerAck
  <2> QED  BY <2>1
<1> QED  BY <1>9, <1>10, <1>11, <1>12, <1>14 DEF AckInv, WorkerAck

\* A row that was selected for a key holds a pair of that key, or one that is
\* known to have been put into it since.
FoundInv ==
  \A w \in Workers : \A f \in found[w] :
    live.ht[f[2]] # NoRow /\ live.ht[f[2]][1] # f[1]
      => <<"ht", f[2], live.ht[f[2]]>> \in reused

\* del() of kv_remove takes the pair that has the row by now, and none of the
\* acknowledged ones stays behind in that row.
LEMMA DeleteTakes ==
  ASSUME SqlType, AckInv, FoundInv, NEW w \in Workers, kv_delete(w)
  PROVE  \/ UNCHANGED <<live, disk, kept, unsure>>
         \/ \E r \in Pairs :
              /\ Apply(DelHT(live, r))
              /\ kept' \subseteq kept /\ unsure' \subseteq unsure
              /\ \A k \in kept' \cup unsure' : k[1] = "ht" => k[2] # r
<1>1. PICK f \in found[w] :
        LET taken(k) == k[1] = "ht" /\ k[2] = f[2] /\ (k[3][1] = f[1] \/ k \in reused)
        IN  \/ /\ Apply(DelHT(live, f[2]))
               /\ kept' = {k \in kept : ~taken(k)}
               /\ unsure' = {k \in unsure : ~taken(k)}
            \/ UNCHANGED <<live, disk, kept, unsure>>
  BY DEF kv_delete
<1>2. f[2] \in Pairs  BY DEF SqlType
<1>3. ASSUME NEW k \in kept \cup unsure, k[1] = "ht", k[2] = f[2]
      PROVE  k[3][1] = f[1] \/ k \in reused
  <2>1. k \in PairSet  BY <1>3 DEF AckInv, WrittenSet, Classes
  <2>2. live.ht[f[2]] = k[3] /\ k[3] # NoRow /\ k = <<"ht", f[2], k[3]>>
    BY <1>3, <2>1, RowAssumption DEF AckInv, PairSet
  <2> QED  BY <2>2 DEF FoundInv
<1> QED  BY <1>1, <1>2, <1>3

LEMMA AckTake ==
  ASSUME SqlType, AckInv, FoundInv, NEW w \in Workers, kv_delete(w),
         ~UNCHANGED <<live, disk, kept, unsure>>
  PROVE  AckInv'
<1>1. PICK r \in Pairs :
        /\ Apply(DelHT(live, r))
        /\ kept' \subseteq kept /\ unsure' \subseteq unsure
        /\ \A k \in kept' \cup unsure' : k[1] = "ht" => k[2] # r
  BY DeleteTakes
<1>2. UNCHANGED <<tx, prog, wrote>>  BY DEF kv_delete
<1>3. live \in Databases /\ wrote \in [Workers -> SUBSET WrittenSet]  BY DEF SqlType
<1>4. PairAt(live, live', r, NoRow)  BY <1>1, <1>3, HTEffect DEF Apply
<1>5. live.ht \in [Pairs -> HTRow \cup {NoRow}]  BY <1>3 DEF Databases
<1>6. kept' \subseteq WrittenSet \cup PairSet /\ unsure' \subseteq PairSet
  BY <1>1 DEF AckInv
<1>7. ASSUME NEW y \in kept' \cup unsure', y[1] = "ht" PROVE live'.ht[y[2]] = y[3]
  <2>1. y \in PairSet  BY <1>6, <1>7 DEF WrittenSet, Classes
  <2>2. y \in kept \cup unsure /\ y[2] # r  BY <1>1, <1>7
  <2>3. live.ht[y[2]] = y[3] /\ y[2] \in Pairs  BY <1>7, <2>1, <2>2 DEF AckInv, PairSet
  <2> QED  BY <1>4, <1>5, <2>2, <2>3 DEF PairAt
<1>8. \A y \in WrittenSet : live'[y[1]][y[2]] = live[y[1]][y[2]]
  BY <1>4 DEF WrittenSet, PairAt
<1>9. ASSUME NEW y \in kept' PROVE disk'[y[1]][y[2]] = y[3]
  <2>1. y \in kept  BY <1>1
  <2>2. CASE tx  BY <1>1, <2>1, <2>2 DEF Apply, AckInv
  <2>3. CASE ~tx
    <3>1. disk' = live' /\ live = disk  BY <1>1, <2>3 DEF Apply, AckInv
    <3>2. CASE y \in PairSet  BY <1>7, <3>1, <3>2 DEF PairSet
    <3>3. CASE y \in WrittenSet  BY <1>8, <2>1, <3>1, <3>3 DEF AckInv
    <3> QED  BY <1>6, <3>2, <3>3
  <2> QED  BY <2>2, <2>3
<1>10. ~tx' => live' = disk' /\ unsure' = {}  BY <1>1, <1>2 DEF Apply, AckInv
<1>11. kept' \cap WrittenSet \subseteq kept  BY <1>1
<1>12. \A v \in Workers : WorkerAck(v)'
  <2>1. ASSUME NEW v \in Workers PROVE WorkerAck(v)'
    <3>1. WorkerAck(v)  BY DEF AckInv
    <3>2. wrote[v] \subseteq WrittenSet  BY <1>3
    <3> QED  BY <1>2, <1>8, <1>11, <3>1, <3>2 DEF Idle, WorkerAck
  <2> QED  BY <2>1
<1> QED  BY <1>6, <1>7, <1>9, <1>10, <1>12 DEF AckInv

LEMMA AckStep ==
  ASSUME SqlType, TxInv, AckInv, FoundInv, [Next]_vars
  PROVE  AckInv'
<1>t. prog \in [Workers -> Seq(Stmt)] /\ wrote \in [Workers -> SUBSET WrittenSet]  BY DEF SqlType
<1>idle. CASE UNCHANGED vars  BY <1>idle DEF vars, AckInv, WorkerAck, Idle
<1>begin. ASSUME NEW w \in Workers, Begins(w) PROVE AckInv'
  <2>1. PICK p : Starts(w, p) /\ Fresh(p, seen)  BY <1>begin, BeginsFresh
  <2>2. /\ prog' = [prog EXCEPT ![w] = p] /\ tx' = TRUE /\ ~tx /\ Idle(w)
        /\ UNCHANGED <<live, disk, wrote, kept, unsure>>
    BY <2>1 DEF Starts, history
  <2>3. p[Len(p)].do = "commit"  BY <2>1 DEF Fresh
  <2>4. prog'[w] = p /\ \A v \in Workers \ {w} : prog'[v] = prog[v] /\ Idle(v)
    BY <1>t, <2>2 DEF TxInv, OneTransaction
  <2>5. \A k \in kept : live[k[1]][k[2]] = k[3]  BY <2>2 DEF AckInv
  <2>6. \A v \in Workers : WorkerAck(v)'  BY <2>2, <2>3, <2>4, <2>5 DEF WorkerAck, Idle, AckInv
  <2> QED  BY <2>2, <2>6 DEF AckInv
<1>statement. ASSUME NEW w \in Workers, Statement(w) PROVE AckInv'
  BY <1>statement, AckStatement
<1>commit. ASSUME NEW w \in Workers, Commit(w) PROVE AckInv'
  BY <1>commit, AckCommit
<1>throw. ASSUME NEW w \in Workers, Throw(w) PROVE AckInv'
  <2>1. /\ ~Idle(w) /\ prog' = [prog EXCEPT ![w] = << >>] /\ wrote' = [wrote EXCEPT ![w] = {}]
        /\ UNCHANGED <<live, disk, tx, kept, unsure>>
    BY <1>throw DEF Throw, Return
  <2>2. \A v \in Workers : v # w => Idle(v)  BY <2>1, Alone
  <2>3. \A v \in Workers : Idle(v)' /\ wrote'[v] = {}
    BY <1>t, <2>1, <2>2 DEF AckInv, WorkerAck, Idle
  <2>4. \A v \in Workers : WorkerAck(v)'  BY <2>3 DEF WorkerAck
  <2> QED  BY <2>1, <2>4 DEF AckInv
<1>get. ASSUME NEW w \in Workers, Gets(w) PROVE AckInv'
  <2>1. PICK H : Got(H)  BY <1>get, GetsGot
  <2> QED  BY <2>1 DEF Got, AckInv, WorkerAck, Idle
<1>put. ASSUME NEW w \in Workers, kv_put(w) PROVE AckInv'
  BY <1>put, AckPut
<1>select. ASSUME NEW w \in Workers, kv_remove(w) PROVE AckInv'
  BY <1>select DEF kv_remove, history, AckInv, WorkerAck, Idle
<1>take. ASSUME NEW w \in Workers, kv_delete(w) PROVE AckInv'
  <2>1. CASE UNCHANGED <<live, disk, kept, unsure>>
    BY <1>take, <2>1 DEF kv_delete, AckInv, WorkerAck, Idle
  <2> QED  BY <1>take, <2>1, AckTake
<1>restart. CASE Restart
  <2>1. /\ live' = disk /\ disk' = disk /\ kept' = kept /\ unsure' = {}
        /\ \A v \in Workers : prog'[v] = << >> /\ wrote'[v] = {}
    BY <1>restart DEF Restart
  <2>2. \A v \in Workers : WorkerAck(v)'  BY <2>1 DEF WorkerAck, Idle
  <2>3. \A k \in kept' : disk'[k[1]][k[2]] = k[3] /\ live'[k[1]][k[2]] = k[3]  BY <2>1 DEF AckInv
  <2> QED  BY <2>1, <2>2, <2>3 DEF AckInv
<1> QED  BY <1>idle, <1>begin, <1>statement, <1>commit, <1>throw, <1>get, <1>put, <1>select,
            <1>take, <1>restart, StepKinds DEF Single, Gets, Kv

\* The statements of a transaction leave the key-value table alone.
LEMMA StatementsKeepPairs ==
  ASSUME SqlType, NEW w \in Workers, Statement(w)
  PROVE  live'.ht = live.ht /\ UNCHANGED <<found, reused>>
<1>t. live \in Databases /\ ~Idle(w)  BY StatementsInside DEF SqlType
<1>k. UNCHANGED <<found, reused>>
  BY DEF Statement, ExecObjID, ExecDiff, ExecSnapshot, ExecObject, ExecLink, ExecRemove,
         Executes, kvs
<1>1. ASSUME NEW class \in Classes, NEW r \in Rows, NEW text \in Contents(class),
             Writes(w, class, r, text)
      PROVE  live'.ht = live.ht
  <2>1. Head(prog[w]).an \in AnIds
    BY <1>t, <1>1, FirstStatement DEF Writes, Executes
  <2> DEFINE h == Head(prog[w])
             u == Write(live, class, r, h.an, text, h.row = 0)
  <2>2. live' = u  BY <1>1 DEF Writes, Apply
  <2>3. Changed(live, u, class, r, h.an, text, h.row)  BY <1>t, <2>1, WriteEffect
  <2> HIDE DEF u
  <2> QED  BY <2>2, <2>3 DEF Changed
<1>2. CASE ExecObjID(w)
  <2>1. PICK r \in Free(live, "objID") : Apply(UpdateObjID(live, r, Head(prog[w]).an))
    BY <1>2 DEF ExecObjID
  <2>2. r \in Rows /\ Head(prog[w]).an \in AnIds
    BY <1>t, <1>2, FirstStatement DEF Free, ExecObjID, Executes
  <2>3. PlainRow(live, live', r, Head(prog[w]).an)  BY <1>t, <2>1, <2>2, PlainEffect DEF Apply
  <2> QED  BY <1>k, <2>3 DEF PlainRow
<1>3. CASE ExecLink(w)
  <2>1. \E d, i : \/ live' = DiffObjIDLink(live, d, i) \/ live' = DiffSnapshotLink(live, d, i)
                 \/ live' = ObjectSnapshotLink(live, d, i)
    BY <1>3 DEF ExecLink, Apply
  <2> QED  BY <1>k, <1>t, <2>1 DEF DiffObjIDLink, DiffSnapshotLink, ObjectSnapshotLink, Databases
<1>4. CASE ExecRemove(w)
  <2>1. PICK r \in Rows : live.objID[r] # NoRow /\ live' = DelObjID(live, r)
    BY <1>4 DEF ExecRemove, Apply
  <2>2. Deleted(live, live', r, live.objID[r].type)  BY <1>t, <2>1, DelEffect
  <2> QED  BY <1>k, <2>2 DEF Deleted
<1> QED  BY <1>k, <1>1, <1>2, <1>3, <1>4, StatementCases

LEMMA FoundStep ==
  ASSUME SqlType, FoundInv, [Next]_vars
  PROVE  FoundInv'
<1>t. live.ht \in [Pairs -> HTRow \cup {NoRow}] /\ found \in [Workers -> SUBSET (Keys \X Pairs)]
      /\ live \in Databases
  BY DEF SqlType, Databases
<1>same. ASSUME live'.ht = live.ht, UNCHANGED <<found, reused>> PROVE FoundInv'
  BY <1>same DEF FoundInv
<1>idle. CASE UNCHANGED vars  BY <1>idle, <1>same DEF vars
<1>begin. ASSUME NEW w \in Workers, Begins(w) PROVE FoundInv'
  <2>1. PICK p : Starts(w, p)  BY <1>begin, BeginsFresh
  <2> QED  BY <2>1, <1>same DEF Starts, kvs
<1>statement. ASSUME NEW w \in Workers, Statement(w) PROVE FoundInv'
  BY <1>statement, <1>same, StatementsKeepPairs
<1>return. ASSUME NEW w \in Workers, Commit(w) \/ Throw(w) PROVE FoundInv'
  BY <1>return, <1>same DEF Commit, Throw, kvs
<1>get. ASSUME NEW w \in Workers, Gets(w) PROVE FoundInv'
  <2>1. PICK H : Got(H)  BY <1>get, GetsGot
  <2> QED  BY <2>1, <1>same DEF Got, kvs
<1>put. ASSUME NEW w \in Workers, kv_put(w) PROVE FoundInv'
  <2>1. PICK k \in Keys, c \in Texts, r \in Pairs :
          /\ Apply(UpdateHT(live, r, k, c))
          /\ LET row == {<<"ht", r, <<k, c>>>>}
             IN  reused' = IF Selected(r, k) THEN reused \cup row ELSE reused \ row
    BY <1>put DEF kv_put
  <2>2. PairAt(live, live', r, <<k, c>>)  BY <1>t, <2>1, HTEffect DEF Apply
  <2>3. live'.ht[r] = <<k, c>> /\ \A x \in Pairs \ {r} : live'.ht[x] = live.ht[x]
    BY <1>t, <2>2 DEF PairAt
  <2>4. found' = found  BY <1>put DEF kv_put
  <2>5. ASSUME NEW v \in Workers, NEW f \in found[v],
               live'.ht[f[2]] # NoRow, live'.ht[f[2]][1] # f[1]
        PROVE  <<"ht", f[2], live'.ht[f[2]]>> \in reused'
    <3>1. f[2] \in Pairs  BY <1>t
    <3>2. CASE f[2] = r
      <4>1. Selected(r, k)  BY <2>3, <2>5, <3>2 DEF Selected
      <4> QED  BY <2>1, <2>3, <3>2, <4>1
    <3>3. CASE f[2] # r
      <4>1. <<"ht", f[2], live.ht[f[2]]>> \in reused  BY <2>3, <2>5, <3>1, <3>3 DEF FoundInv
      <4>2. <<"ht", f[2], live.ht[f[2]]>> # <<"ht", r, <<k, c>>>>  BY <3>3
      <4> QED  BY <2>1, <2>3, <3>1, <3>3, <4>1, <4>2
    <3> QED  BY <3>2, <3>3
  <2> QED  BY <2>4, <2>5 DEF FoundInv
<1>select. ASSUME NEW w \in Workers, kv_remove(w) PROVE FoundInv'
  <2>1. PICK r \in Pairs : found' = [found EXCEPT ![w] = {<<live.ht[r][1], r>>}]
    BY <1>select DEF kv_remove
  <2>2. live' = live /\ reused' = reused  BY <1>select DEF kv_remove
  <2>3. \A v \in Workers : \A f \in found'[v] : f \in found[v] \/ f = <<live.ht[r][1], r>>
    BY <1>t, <2>1
  <2> QED  BY <2>2, <2>3 DEF FoundInv
<1>take. ASSUME NEW w \in Workers, kv_delete(w) PROVE FoundInv'
  <2>1. PICK f \in found[w] :
          \/ /\ Apply(DelHT(live, f[2]))
             /\ \A k \in reused : k[2] # f[2] => k \in reused'
          \/ UNCHANGED <<live, reused>>
    BY <1>take DEF kv_delete
  <2>2. f[2] \in Pairs  BY <1>t
  <2>3. \A v \in Workers : found'[v] \subseteq found[v]  BY <1>take, <1>t DEF kv_delete
  <2>4. CASE UNCHANGED <<live, reused>>  BY <2>3, <2>4 DEF FoundInv
  <2>5. CASE Apply(DelHT(live, f[2])) /\ \A k \in reused : k[2] # f[2] => k \in reused'
    <3>1. PairAt(live, live', f[2], NoRow)  BY <1>t, <2>2, <2>5, HTEffect DEF Apply
    <3>2. live'.ht[f[2]] = NoRow /\ \A x \in Pairs \ {f[2]} : live'.ht[x] = live.ht[x]
      BY <1>t, <2>2, <3>1 DEF PairAt
    <3>3. ASSUME NEW v \in Workers, NEW g \in found'[v],
                 live'.ht[g[2]] # NoRow, live'.ht[g[2]][1] # g[1]
          PROVE  <<"ht", g[2], live'.ht[g[2]]>> \in reused'
      <4>1. g \in found[v] /\ g[2] \in Pairs /\ g[2] # f[2]  BY <1>t, <2>3, <3>2, <3>3
      <4>2. <<"ht", g[2], live.ht[g[2]]>> \in reused  BY <3>2, <3>3, <4>1 DEF FoundInv
      <4> QED  BY <2>5, <3>2, <4>1, <4>2
    <3> QED  BY <3>3 DEF FoundInv
  <2> QED  BY <2>1, <2>4, <2>5
<1>restart. CASE Restart  BY <1>restart DEF Restart, FoundInv
<1> QED  BY <1>idle, <1>begin, <1>statement, <1>return, <1>get, <1>put, <1>select, <1>take,
            <1>restart, StepKinds DEF Single, Gets, Kv

LEMMA TxInit == Init => TxInv
BY DEF Init, TxInv, OneTransaction, Idle

LEMMA AckInit == Init => AckInv /\ FoundInv
BY DEF Init, AckInv, WorkerAck, Idle, FoundInv

LEMMA AckImplies == SqlType /\ AckInv => AckedKept
<1> SUFFICES ASSUME SqlType, AckInv, NEW k \in kept
             PROVE  disk[k[1]][k[2]] = k[3] /\ (k[1] = "ht" => k[3][2] \in kv_get(k[3][1]))
  BY DEF AckedKept
<1>1. ASSUME k[1] = "ht" PROVE k[3][2] \in kv_get(k[3][1])
  <2>1. k \in PairSet  BY <1>1 DEF AckInv, WrittenSet, Classes
  <2>2. live.ht[k[2]] = k[3] /\ k[2] \in Pairs /\ k[3] # NoRow
    BY <1>1, <2>1, RowAssumption DEF AckInv, PairSet
  <2> QED  BY <2>2 DEF kv_get
<1> QED  BY <1>1 DEF AckInv

\* What the store wrote and acknowledged is on disk, across failed operations,
\* abandoned transactions and restarts, until it is stored again or removed; a
\* pair that was put inside somebody's transaction only once that commits
\* (sqlstore.cc:81-148, 238-263, 276-314).  A kv_remove that selects a row and
\* deletes it by its id takes no acknowledged pair of another key, but for one
\* that was put into that row in between (sqlstore.cc:305-306).
THEOREM AcknowledgedIsKept == Spec => []AckedKept
<1>1. SqlType /\ TxInv /\ AckInv /\ FoundInv /\ [Next]_vars
        => (SqlType /\ TxInv /\ AckInv /\ FoundInv)'
  BY SqlTypeStep, TxStep, AckStep, FoundStep
<1>2. Init => SqlType /\ TxInv /\ AckInv /\ FoundInv  BY SqlTypeInit, TxInit, AckInit
<1> QED  BY <1>1, <1>2, AckImplies, PTL DEF Spec
-----------------------------------------------------------------------------
(* Rows and relations are whole.                                             *)

WholeRows(t) ==
  \A class \in Classes, r \in Rows :
    (t[class][r] # NoRow) <=> (t.objID[r] # NoRow /\ t.objID[r].type = class)

NameInv == \A w \in Workers : Named(prog[w], seen)

\* A handle that is not known to be gone names a row that is there.
WholeInv ==
  ~stale => /\ WholeRows(live) /\ WholeRows(disk)
            /\ \A h \in seen \ gone : live[h[1]][h[2]] # NoRow

LEMMA NameStep ==
  ASSUME SqlType, NameInv, [Next]_vars
  PROVE  NameInv'
<1>t. prog \in [Workers -> Seq(Stmt)]  BY DEF SqlType
<1>e. \A H : Named(<< >>, H)  BY DEF Named
<1>idle. CASE UNCHANGED vars  BY <1>idle DEF vars, NameInv
<1>begin. ASSUME NEW w \in Workers, Begins(w) PROVE NameInv'
  <2>1. PICK p : Starts(w, p) /\ Fresh(p, seen)  BY <1>begin, BeginsFresh
  <2>2. prog' = [prog EXCEPT ![w] = p] /\ seen' = seen /\ Named(p, seen)
    BY <2>1 DEF Starts, Fresh
  <2> QED  BY <1>t, <2>2 DEF NameInv
<1>statement. ASSUME NEW w \in Workers, Statement(w) PROVE NameInv'
  <2>1. ~Idle(w) /\ prog' = [prog EXCEPT ![w] = Tail(prog[w])] /\ seen' = seen
    BY <1>statement, StatementsInside
       DEF Statement, ExecObjID, ExecDiff, ExecSnapshot, ExecObject, ExecLink, ExecRemove, Executes
  <2>2. Named(Tail(prog[w]), seen)  BY <2>1, FirstStatement, TailKeeps DEF NameInv
  <2> QED  BY <1>t, <2>1, <2>2 DEF NameInv
<1>return. ASSUME NEW w \in Workers, Commit(w) \/ Throw(w) PROVE NameInv'
  BY <1>return, <1>t, <1>e DEF Commit, Throw, Return, NameInv
<1>get. ASSUME NEW w \in Workers, Gets(w) PROVE NameInv'
  <2>1. PICK H : Got(H)  BY <1>get, GetsGot
  <2> QED  BY <2>1 DEF Got, NameInv, Named, NamedAt
<1>kv. ASSUME NEW w \in Workers, Kv(w) PROVE NameInv'
  BY <1>kv, KvEffect DEF NameInv
<1>restart. CASE Restart  BY <1>restart, <1>e DEF Restart, NameInv
<1> QED  BY <1>idle, <1>begin, <1>statement, <1>return, <1>get, <1>kv, <1>restart, StepKinds
         DEF Single, Gets

\* The rows that update() of a record writes: new ones, or those it has.
Finds(w, class, r, text) ==
  LET h == Head(prog[w]) IN
  /\ ~stale /\ Changed(live, live', class, r, h.an, text, h.row)
  /\ IF h.row = 0 THEN live.objID[r] = NoRow /\ live[class][r] = NoRow
                  ELSE r = h.row /\ live[class][r] # NoRow
  /\ live'[class][r] = text /\ text # NoRow
  /\ \A s \in Rows \ {r} : live'[class][s] = live[class][s]
  /\ live'.objID = [live.objID EXCEPT ![r] = [type |-> class, an |-> h.an]]

\* Unless a removed record is stored again, update() finds its rows: the record
\* is new or still there.
LEMMA WritesFind ==
  ASSUME SqlType, NameInv, WholeInv, NEW w \in Workers, NEW class \in Classes, NEW r \in Rows,
         NEW text \in Contents(class), Writes(w, class, r, text), ~stale'
  PROVE  Finds(w, class, r, text)
<1> DEFINE h == Head(prog[w])
<1>1. ~Idle(w) /\ h.do = class /\ Executes(w, class)  BY DEF Writes, Executes
<1>2. /\ h = prog[w][1] /\ 1 \in 1..Len(prog[w]) /\ h.an \in AnIds /\ h.row \in Ids
      /\ live \in Databases
  BY <1>1, FirstStatement DEF SqlType
<1>3. ~stale /\ <<class, h.row, h.an>> \notin gone  BY DEF Writes, Target
<1>4. IF h.row = 0 THEN r \in Free(live, class) ELSE r = h.row  BY DEF Writes, Target
<1>5. h.row # 0 => <<class, h.row, h.an>> \in seen
  <2>1. NamedAt(prog[w], 1, seen)  BY <1>2 DEF NameInv, Named
  <2> QED  BY <1>1, <1>2, <2>1 DEF NamedAt
<1>6. h.row # 0 => live[class][r] # NoRow
  <2>1. h.row # 0 => <<class, h.row, h.an>> \in seen \ gone  BY <1>3, <1>5
  <2> QED  BY <1>3, <1>4, <2>1 DEF WholeInv
<1>w. WholeRows(live)  BY <1>3 DEF WholeInv
<1>7. live' = Write(live, class, r, h.an, text, h.row = 0)  BY DEF Writes, Apply
<1>8. text # NoRow  BY RowAssumption DEF Contents, ObjectRow
<1> HIDE DEF h
<1>9. Changed(live, live', class, r, h.an, text, h.row)  BY <1>2, <1>7, WriteEffect
<1>10. /\ live[class] \in [Rows -> Contents(class) \cup {NoRow}]
       /\ live.objID \in [Rows -> ObjIDRow \cup {NoRow}]
  BY <1>2 DEF Databases, Classes, Contents, ObjectRow, SnapshotRow, DiffRow
<1>11. live'[class][r] = text /\ \A s \in Rows \ {r} : live'[class][s] = live[class][s]
  BY <1>6, <1>9, <1>10 DEF Changed
<1>12. h.row # 0 => live.objID[r] # NoRow  BY <1>6, <1>w DEF WholeRows
<1>13. live'.objID = [live.objID EXCEPT ![r] = [type |-> class, an |-> h.an]]
  BY <1>9, <1>12 DEF Changed
<1>14. IF h.row = 0 THEN live.objID[r] = NoRow /\ live[class][r] = NoRow
                    ELSE r = h.row /\ live[class][r] # NoRow
  BY <1>4, <1>6 DEF Free
<1> QED  BY <1>3, <1>8, <1>9, <1>11, <1>13, <1>14 DEF h, Finds

LEMMA WholeWrites ==
  ASSUME SqlType, TxInv, NameInv, WholeInv, NEW w \in Workers, NEW class \in Classes,
         NEW r \in Rows, NEW text \in Contents(class), Writes(w, class, r, text)
  PROVE  WholeInv'
<1> SUFFICES ASSUME ~stale'
             PROVE  /\ WholeRows(live') /\ WholeRows(disk')
                    /\ \A h \in seen' \ gone' : live'[h[1]][h[2]] # NoRow
  BY DEF WholeInv
<1> DEFINE an == Head(prog[w]).an
           row == Head(prog[w]).row
<1>1. /\ ~stale /\ Changed(live, live', class, r, an, text, row)
      /\ IF row = 0 THEN live.objID[r] = NoRow /\ live[class][r] = NoRow
                    ELSE live[class][r] # NoRow
      /\ live'[class][r] = text /\ text # NoRow
      /\ \A s \in Rows \ {r} : live'[class][s] = live[class][s]
      /\ live'.objID = [live.objID EXCEPT ![r] = [type |-> class, an |-> an]]
  BY WritesFind DEF Finds
<1>2. ~Idle(w) /\ seen' = seen /\ gone' = gone  BY DEF Writes, Executes
<1>3. disk' = disk  BY <1>2, Alone DEF Writes, Apply
<1>4. live \in Databases /\ seen \subseteq HandleSet  BY DEF SqlType
<1>5. live.objID \in [Rows -> ObjIDRow \cup {NoRow}]  BY <1>4 DEF Databases
<1>6. \A c \in Classes \ {class} : live'[c] = live[c]  BY <1>1 DEF Changed
<1> HIDE DEF an, row
<1>7. [type |-> class, an |-> an] # NoRow
  <2>1. [type |-> class, an |-> an] \in ObjIDRow \cup {NoRow}
    <3>1. live' \in Databases  BY <1>1 DEF Changed
    <3>2. live'.objID[r] = [type |-> class, an |-> an] /\ live'.objID[r] \in ObjIDRow \cup {NoRow}
      BY <1>1, <1>5, <3>1 DEF Databases
    <3> QED  BY <3>2
  <2>2. an \in AnIds
    BY <1>2, FirstStatement DEF Writes, Executes, an
  <2>3. [type |-> class, an |-> an] \in ObjIDRow  BY <2>2 DEF ObjIDRow
  <2> QED  BY <2>3, RowAssumption
<1>w. WholeRows(live) /\ WholeRows(disk)  BY <1>1 DEF WholeInv
<1>8. WholeRows(live')
  <2>1. ASSUME NEW c \in Classes, NEW s \in Rows
        PROVE  (live'[c][s] # NoRow) <=> (live'.objID[s] # NoRow /\ live'.objID[s].type = c)
    <3>0. (live[c][s] # NoRow) <=> (live.objID[s] # NoRow /\ live.objID[s].type = c)
      BY <1>w DEF WholeRows
    <3>1. CASE s # r
      <4>1. live'.objID[s] = live.objID[s] /\ live'[c][s] = live[c][s]  BY <1>1, <1>5, <1>6, <3>1
      <4> QED  BY <3>0, <4>1
    <3>2. CASE s = r /\ c = class
      <4>1. live'.objID[s] = [type |-> class, an |-> an]  BY <1>1, <1>5, <3>2
      <4> QED  BY <1>1, <1>7, <3>2, <4>1
    <3>3. CASE s = r /\ c # class
      <4>1. live'.objID[s] = [type |-> class, an |-> an] /\ live'[c][s] = live[c][s]
        BY <1>1, <1>5, <1>6, <3>3
      <4>2. (live[class][r] # NoRow) <=> (live.objID[r] # NoRow /\ live.objID[r].type = class)
        BY <1>w DEF WholeRows
      <4>3. live[c][s] = NoRow  BY <1>1, <3>0, <3>3, <4>2
      <4> QED  BY <3>3, <4>1, <4>3
    <3> QED  BY <3>1, <3>2, <3>3
  <2> QED  BY <2>1 DEF WholeRows
<1>9. ASSUME NEW h \in seen' \ gone' PROVE live'[h[1]][h[2]] # NoRow
  <2>1. live[h[1]][h[2]] # NoRow /\ h[1] \in Classes /\ h[2] \in Rows
    BY <1>1, <1>2, <1>4 DEF WholeInv, HandleSet
  <2> QED  BY <1>1, <1>6, <2>1
<1> QED  BY <1>3, <1>8, <1>9, <1>w

LEMMA WholeStatement ==
  ASSUME SqlType, TxInv, NameInv, WholeInv, NEW w \in Workers, Statement(w)
  PROVE  WholeInv'
<1>t. live \in Databases /\ ~Idle(w) /\ seen \subseteq HandleSet  BY StatementsInside DEF SqlType
<1>x. tx  BY <1>t, Alone
<1>o. /\ live.objID \in [Rows -> ObjIDRow \cup {NoRow}]
      /\ \A c \in Classes : live[c] \in [Rows -> Contents(c) \cup {NoRow}]
  BY <1>t DEF Databases, Classes, Contents, ObjectRow, SnapshotRow, DiffRow
<1>1. ASSUME NEW class \in Classes, NEW r \in Rows, NEW text \in Contents(class),
             Writes(w, class, r, text)
      PROVE  WholeInv'
  BY <1>1, WholeWrites
<1>2. CASE ExecObjID(w)
  <2>1. PICK r \in Free(live, "objID") : Apply(UpdateObjID(live, r, Head(prog[w]).an))
    BY <1>2 DEF ExecObjID
  <2>2. Executes(w, "objID") /\ UNCHANGED <<stale, seen, gone>>
    BY <1>2 DEF ExecObjID, history, Executes
  <2>3. r \in Rows /\ Head(prog[w]).an \in AnIds /\ live.objID[r] = NoRow
    BY <1>t, <2>2, FirstStatement DEF Free, Executes
  <2>4. PlainRow(live, live', r, Head(prog[w]).an)  BY <1>t, <2>1, <2>3, PlainEffect DEF Apply
  <2>5. disk' = disk  BY <1>x, <2>1 DEF Apply
  <2> SUFFICES ASSUME ~stale
               PROVE  /\ WholeRows(live') /\ WholeRows(disk')
                      /\ \A h \in seen' \ gone' : live'[h[1]][h[2]] # NoRow
    BY <2>2 DEF WholeInv
  <2>w. WholeRows(live) /\ WholeRows(disk)  BY DEF WholeInv
  <2>6. ASSUME NEW c \in Classes, NEW s \in Rows
        PROVE  (live'[c][s] # NoRow) <=> (live'.objID[s] # NoRow /\ live'.objID[s].type = c)
    <3>0. (live[c][s] # NoRow) <=> (live.objID[s] # NoRow /\ live.objID[s].type = c)
      BY <2>w DEF WholeRows
    <3>1. live'[c][s] = live[c][s]  BY <2>4 DEF PlainRow
    <3>2. CASE s # r  BY <1>o, <2>4, <3>0, <3>1, <3>2 DEF PlainRow
    <3>3. CASE s = r
      <4>1. live'.objID[s].type = "objID"  BY <1>o, <2>4, <3>3 DEF PlainRow
      <4> QED  BY <2>3, <3>0, <3>1, <3>3, <4>1 DEF Classes
    <3> QED  BY <3>2, <3>3
  <2>7. WholeRows(live')  BY <2>6 DEF WholeRows
  <2>8. \A h \in seen' \ gone' : live'[h[1]][h[2]] # NoRow
    BY <1>t, <2>2, <2>4 DEF WholeInv, PlainRow, HandleSet
  <2> QED  BY <2>5, <2>7, <2>8, <2>w
<1>3. CASE ExecLink(w)
  <2>1. /\ UNCHANGED <<stale, seen, gone, disk>> /\ live'.objID = live.objID
        /\ \A c \in Classes : live'[c] = live[c]
    BY <1>3, <1>t, <1>x DEF ExecLink, Executes, history, Apply, DiffObjIDLink, DiffSnapshotLink,
                            ObjectSnapshotLink, Databases, Classes
  <2>2. WholeRows(live') <=> WholeRows(live)  BY <2>1 DEF WholeRows
  <2> QED  BY <1>t, <2>1, <2>2 DEF WholeInv, HandleSet
<1>4. CASE ExecRemove(w)
  <2>1. PICK r \in Rows : /\ live.objID[r] # NoRow /\ Apply(DelObjID(live, r))
                          /\ gone' = gone \cup {x \in seen : x[2] = r}
    BY <1>4 DEF ExecRemove
  <2>2. UNCHANGED <<stale, seen>>  BY <1>4 DEF ExecRemove, Executes
  <2> DEFINE class == live.objID[r].type
  <2>3. Deleted(live, live', r, class)  BY <1>t, <2>1, DelEffect DEF Apply
  <2>4. disk' = disk  BY <1>x, <2>1 DEF Apply
  <2> HIDE DEF class
  <2> SUFFICES ASSUME ~stale
               PROVE  /\ WholeRows(live') /\ WholeRows(disk')
                      /\ \A h \in seen' \ gone' : live'[h[1]][h[2]] # NoRow
    BY <2>2 DEF WholeInv
  <2>w. WholeRows(live) /\ WholeRows(disk)  BY DEF WholeInv
  <2>5. /\ live'.objID[r] = NoRow
        /\ \A s \in Rows \ {r} : live'.objID[s] = live.objID[s]
        /\ \A c \in Classes : \A s \in Rows \ {r} : live'[c][s] = live[c][s]
        /\ \A c \in Classes : c = class => live'[c][r] = NoRow
        /\ \A c \in Classes : c # class => live'[c][r] = live[c][r]
    <3>1. \A s \in Rows : live'.objID[s] = IF s = r THEN NoRow ELSE live.objID[s]
      BY <1>o, <2>3 DEF Deleted
    <3>2. ASSUME NEW c \in Classes, NEW s \in Rows
          PROVE  live'[c][s] = IF s = r /\ c = class THEN NoRow ELSE live[c][s]
      <4>1. live'[c] = IF c = class THEN [live[c] EXCEPT ![r] = NoRow] ELSE live[c]
        BY <2>3 DEF Deleted
      <4> QED  BY <1>o, <4>1
    <3> QED  BY <3>1, <3>2
  <2>6. ASSUME NEW c \in Classes, NEW s \in Rows
        PROVE  (live'[c][s] # NoRow) <=> (live'.objID[s] # NoRow /\ live'.objID[s].type = c)
    <3>0. (live[c][s] # NoRow) <=> (live.objID[s] # NoRow /\ live.objID[s].type = c)
      BY <2>w DEF WholeRows
    <3>1. CASE s # r  BY <2>5, <3>0, <3>1
    <3>2. CASE s = r  BY <2>5, <3>0, <3>2 DEF class
    <3> QED  BY <3>1, <3>2
  <2>7. WholeRows(live')  BY <2>6 DEF WholeRows
  <2>8. ASSUME NEW h \in seen' \ gone' PROVE live'[h[1]][h[2]] # NoRow
    <3>1. h \in seen \ gone /\ h[2] # r /\ h[1] \in Classes /\ h[2] \in Rows
      BY <1>t, <2>1, <2>2 DEF HandleSet
    <3>2. live[h[1]][h[2]] # NoRow  BY <3>1 DEF WholeInv
    <3> QED  BY <2>5, <3>1, <3>2
  <2> QED  BY <2>4, <2>7, <2>8, <2>w
<1> QED  BY <1>1, <1>2, <1>3, <1>4, StatementCases

LEMMA WholeStep ==
  ASSUME SqlType, TxInv, AckInv, NameInv, WholeInv, [Next]_vars
  PROVE  WholeInv'
<1>t. seen \subseteq HandleSet /\ live \in Databases  BY DEF SqlType
<1>idle. CASE UNCHANGED vars  BY <1>idle DEF vars, WholeInv
<1>begin. ASSUME NEW w \in Workers, Begins(w) PROVE WholeInv'
  <2>1. PICK p : Starts(w, p)  BY <1>begin, BeginsFresh
  <2> QED  BY <2>1 DEF Starts, history, WholeInv
<1>statement. ASSUME NEW w \in Workers, Statement(w) PROVE WholeInv'
  BY <1>statement, WholeStatement
<1>return. ASSUME NEW w \in Workers, Commit(w) \/ Throw(w) PROVE WholeInv'
  BY <1>return DEF Commit, Throw, WholeInv
<1>get. ASSUME NEW w \in Workers, Gets(w) PROVE WholeInv'
  <2>1. PICK H : Got(H) /\ \A h \in H : live[h[1]][h[2]] # NoRow  BY <1>get, GetsGot
  <2>2. UNCHANGED <<live, disk, stale>> /\ \A h \in seen' \ gone' : h \in H \/ h \in seen \ gone
    BY <2>1 DEF Got
  <2> QED  BY <2>1, <2>2 DEF WholeInv
<1>kv. ASSUME NEW w \in Workers, Kv(w) PROVE WholeInv'
  <2>1. \/ UNCHANGED <<live, disk>>
        \/ \E r \in Pairs, x \in HTRow \cup {NoRow} : PairAt(live, live', r, x)
    BY <1>kv, KvEffect
  <2>2. UNCHANGED <<seen, gone, stale>> /\ (disk' = disk \/ disk' = live')
    BY <1>kv, KvEffect
  <2>3. WholeRows(live') <=> WholeRows(live)
    <3>1. live'.objID = live.objID /\ \A c \in Classes : live'[c] = live[c]  BY <2>1 DEF PairAt
    <3> QED  BY <3>1 DEF WholeRows
  <2>4. \A h \in seen : live'[h[1]][h[2]] = live[h[1]][h[2]]  BY <1>t, <2>1 DEF PairAt, HandleSet
  <2> QED  BY <2>2, <2>3, <2>4 DEF WholeInv
<1>restart. CASE Restart  BY <1>restart DEF Restart, WholeInv
<1> QED  BY <1>idle, <1>begin, <1>statement, <1>return, <1>get, <1>kv, <1>restart, StepKinds
         DEF Single, Gets

LEMMA WholeInit == Init => NameInv /\ WholeInv
<1> SUFFICES ASSUME Init PROVE NameInv /\ WholeInv
  OBVIOUS
<1>1. WholeRows(Schema)  BY DEF WholeRows, Schema, Classes
<1>2. Named(<< >>, seen)  BY DEF Named
<1> QED  BY <1>1, <1>2 DEF Init, NameInv, WholeInv

SqlInv == SqlType /\ TxInv /\ AckInv /\ FoundInv /\ NameInv /\ WholeInv

LEMMA SqlStep == SqlInv /\ [Next]_vars => SqlInv'
BY SqlTypeStep, TxStep, AckStep, FoundStep, NameStep, WholeStep DEF SqlInv

\* In the committed database a row of a derived class and its row in ObjID_ come
\* and go together, whatever statements failed, unless a record that had been
\* removed was stored again (the generated update() and del() of sqldb.cc).
THEOREM CommittedRowsWhole == Spec => []RowsWhole
<1>1. Init => SqlInv  BY SqlTypeInit, TxInit, AckInit, WholeInit DEF SqlInv
<1>2. SqlInv => RowsWhole  BY DEF SqlInv, WholeInv, WholeRows, RowsWhole
<1> QED  BY <1>1, <1>2, SqlStep, PTL DEF Spec
-----------------------------------------------------------------------------
(* Relations name rows that are there.                                       *)

SoundTables(t) ==
  /\ \A p \in t.objectSnapshot : t.object[p[1]] # NoRow /\ t.snapshot[p[2]] # NoRow
  /\ \A p \in t.diffSnapshot : t.diff[p[1]] # NoRow /\ (p[2] = 0 \/ t.snapshot[p[2]] # NoRow)
  /\ \A p \in t.diffObjID : p[1] = 0 \/ t.diff[p[1]] # NoRow

\* The program p is still to write the record of the class with the id r.
Later(p, class, r) == \E i \in 1..Len(p) : p[i].do = class /\ p[i].row = r

\* Inside w's transaction a link may run ahead of the record it names, and the
\* records that w is about to link are there.
Underway(w) ==
  /\ \A p \in live.objectSnapshot : live.object[p[1]] # NoRow /\ live.snapshot[p[2]] # NoRow
  /\ \A p \in live.diffSnapshot :
       /\ live.diff[p[1]] # NoRow
       /\ p[2] = 0 \/ live.snapshot[p[2]] # NoRow \/ Later(prog[w], "snapshot", p[2])
  /\ \A p \in live.diffObjID :
       p[1] = 0 \/ live.diff[p[1]] # NoRow \/ Later(prog[w], "diff", p[1])
  /\ prog[w][1].do = "linkDiff" => live.diff[last[w]] # NoRow
  /\ prog[w][1].do = "linkSnapshot" => live.snapshot[last[w]] # NoRow
  /\ LinksSnapshot(prog[w]) => prog[w][1].do = "object" \/ live.object[owner[w]] # NoRow

SoundInv ==
  ~stale => SoundTables(disk) /\ \A w \in Workers : ~Idle(w) => Underway(w)

LEMMA LaterTail ==
  ASSUME NEW p \in Seq(Stmt), p # << >>, NEW class, NEW r, Later(p, class, r)
  PROVE  (p[1].do = class /\ p[1].row = r) \/ Later(Tail(p), class, r)
<1> DEFINE q == Tail(p)
<1>1. /\ q \in Seq(Stmt) /\ Len(q) = Len(p) - 1 /\ Len(p) >= 1 /\ Len(p) \in Nat
      /\ \A i \in 1..(Len(p) - 1) : q[i] = p[i + 1]
  BY TailShifts
<1> HIDE DEF q
<1>2. PICK i \in 1..Len(p) : p[i].do = class /\ p[i].row = r  BY DEF Later
<1>3. CASE i # 1
  <2>1. i - 1 \in 1..Len(q) /\ q[i - 1] = p[(i - 1) + 1]  BY <1>1, <1>2, <1>3
  <2>2. q[i - 1] = p[i]  BY <2>1
  <2> QED  BY <1>2, <2>1, <2>2 DEF Later, q
<1> QED  BY <1>2, <1>3

\* What w finds in its tables and in the rest of its program after a statement
\* that keeps the rows that are there and adds no relation.
LEMMA UnderwayGoesOn ==
  ASSUME SqlType, NEW w \in Workers, ~Idle(w), Underway(w),
         prog'[w] = Tail(prog[w]),
         \A c \in Classes : \A s \in Rows : live[c][s] # NoRow => live'[c][s] # NoRow,
         \A rel \in Relations : live'[rel] = live[rel],
         LET h == prog[w][1] IN
         /\ h.do = "snapshot" /\ h.row # 0 => live'.snapshot[h.row] # NoRow
         /\ h.do = "diff" /\ h.row # 0 => live'.diff[h.row] # NoRow
         /\ h.do = "diff" => live'.diff[last'[w]] # NoRow
         /\ h.do = "snapshot" => live'.snapshot[last'[w]] # NoRow
         /\ h.do = "object" => live'.object[owner'[w]] # NoRow
         /\ h.do # "object" => owner'[w] = owner[w],
         prog'[w] # << >>
  PROVE  Underway(w)'
<1> DEFINE p == prog[w]
           q == Tail(p)
<1>1. p \in Seq(Stmt) /\ p # << >> /\ Ordered(p)  BY FirstStatement
<1>2. /\ LinksSnapshot(q) => LinksSnapshot(p)
      /\ q[1].do = "linkDiff" => p[1].do = "diff"
      /\ q[1].do = "linkSnapshot" => p[1].do = "snapshot"
  BY <1>1, TailKeeps
<1>3. \A c, r : Later(p, c, r) => (p[1].do = c /\ p[1].row = r) \/ Later(q, c, r)
  BY <1>1, LaterTail
<1>4. /\ live.objectSnapshot \subseteq Rows \X Rows /\ live.diffSnapshot \subseteq Rows \X Ids
      /\ live.diffObjID \subseteq Ids \X Rows
  BY DEF SqlType, Databases, ObjectSnapshotRelation, DiffSnapshotRelation, DiffObjIDRelation, Ids
<1>5. /\ live'.objectSnapshot = live.objectSnapshot /\ live'.diffSnapshot = live.diffSnapshot
      /\ live'.diffObjID = live.diffObjID
  BY DEF Relations
<1>6. \A s \in Rows : /\ live.object[s] # NoRow => live'.object[s] # NoRow
                      /\ live.snapshot[s] # NoRow => live'.snapshot[s] # NoRow
                      /\ live.diff[s] # NoRow => live'.diff[s] # NoRow
  BY DEF Classes
<1>7. LinksSnapshot(q) => live'.object[owner'[w]] # NoRow
  <2>1. CASE p[1].do = "object"  BY <2>1
  <2>2. CASE p[1].do # "object" /\ LinksSnapshot(q)
    <3>1. LinksSnapshot(p)  BY <1>2, <2>2
    <3>2. owner[w] \in Rows /\ live.object[owner[w]] # NoRow
      BY <2>2, <3>1 DEF SqlType, Linkable, Underway
    <3> QED  BY <1>6, <2>2, <3>2
  <2> QED  BY <2>1, <2>2
<1>8. \A e \in live'.objectSnapshot : live'.object[e[1]] # NoRow /\ live'.snapshot[e[2]] # NoRow
  BY <1>4, <1>5, <1>6 DEF Underway
<1>9. ASSUME NEW e \in live'.diffSnapshot
      PROVE  /\ live'.diff[e[1]] # NoRow
             /\ e[2] = 0 \/ live'.snapshot[e[2]] # NoRow \/ Later(q, "snapshot", e[2])
  <2>1. e[1] \in Rows /\ e[2] \in Ids /\ e \in live.diffSnapshot  BY <1>4, <1>5
  <2>2. live.diff[e[1]] # NoRow
        /\ (e[2] = 0 \/ live.snapshot[e[2]] # NoRow \/ Later(p, "snapshot", e[2]))
    BY <2>1 DEF Underway
  <2> QED  BY <1>3, <1>6, <2>1, <2>2 DEF Ids
<1>10. ASSUME NEW e \in live'.diffObjID
      PROVE  e[1] = 0 \/ live'.diff[e[1]] # NoRow \/ Later(q, "diff", e[1])
  <2>1. e[1] \in Ids /\ e \in live.diffObjID  BY <1>4, <1>5
  <2>2. e[1] = 0 \/ live.diff[e[1]] # NoRow \/ Later(p, "diff", e[1])
    BY <2>1 DEF Underway
  <2> QED  BY <1>3, <1>6, <2>1, <2>2 DEF Ids
<1> HIDE DEF q
<1>11. prog'[w] = q  BY DEF q
<1> QED  BY <1>2, <1>7, <1>8, <1>9, <1>10, <1>11 DEF Underway

\* Only w is inside a transaction, before and after one of its statements.
LEMMA SoundFromUnderway ==
  ASSUME SqlType, TxInv, AckInv, SoundInv, NEW w \in Workers, NEW kind, Executes(w, kind),
         kind # "commit", disk' = disk, stale => stale', ~stale' => Underway(w)'
  PROVE  SoundInv'
<1>1. ~Idle(w)  BY DEF Executes
<1>2. \A v \in Workers : v # w => Idle(v)  BY <1>1, Alone
<1>3. \A v \in Workers : v # w => Idle(v)'  BY <1>2, NotTheLast DEF Idle
<1> QED  BY <1>3 DEF SoundInv

LEMMA SoundWrites ==
  ASSUME SqlInv, SoundInv, NEW w \in Workers, NEW class \in Classes, NEW r \in Rows,
         NEW text \in Contents(class), Writes(w, class, r, text)
  PROVE  SoundInv'
<1>1. ~Idle(w) /\ Executes(w, class) /\ Head(prog[w]).do = class /\ class # "commit"
  BY DEF Writes, Executes, Classes
<1>i. SqlType /\ TxInv /\ AckInv /\ NameInv /\ WholeInv  BY DEF SqlInv
<1>2. disk' = disk  BY <1>1, <1>i, Alone DEF Writes, Apply
<1>3. stale => stale'  BY DEF Writes, Target
<1>4. ASSUME ~stale' PROVE Underway(w)'
  <2> DEFINE an == Head(prog[w]).an
             row == Head(prog[w]).row
  <2>1. /\ ~stale /\ Changed(live, live', class, r, an, text, row)
        /\ row # 0 => r = row
        /\ live'[class][r] = text /\ text # NoRow
        /\ \A s \in Rows \ {r} : live'[class][s] = live[class][s]
    <3>1. Finds(w, class, r, text)  BY <1>4, <1>i, WritesFind
    <3> QED  BY <3>1 DEF Finds
  <2>2. row = prog[w][1].row /\ class = prog[w][1].do  BY <1>1, <1>i, FirstStatement
  <2> HIDE DEF an, row
  <2>3. \A c \in Classes : \A s \in Rows : live[c][s] # NoRow => live'[c][s] # NoRow
    BY <2>1 DEF Changed
  <2>4. \A rel \in Relations : live'[rel] = live[rel]  BY <2>1 DEF Changed
  <2>5. prog'[w] = Tail(prog[w]) /\ prog'[w] # << >>  BY <1>1, <1>i, NotTheLast
  <2>6. Underway(w)  BY <1>1, <2>1 DEF SoundInv
  <2>7. /\ class = "object" => owner'[w] = r
        /\ class # "object" => last'[w] = r /\ owner'[w] = owner[w]
    BY <1>i DEF Writes, SqlType
  <2>8. LET x == prog[w][1] IN
        /\ x.do = "snapshot" /\ x.row # 0 => live'.snapshot[x.row] # NoRow
        /\ x.do = "diff" /\ x.row # 0 => live'.diff[x.row] # NoRow
        /\ x.do = "diff" => live'.diff[last'[w]] # NoRow
        /\ x.do = "snapshot" => live'.snapshot[last'[w]] # NoRow
        /\ x.do = "object" => live'.object[owner'[w]] # NoRow
        /\ x.do # "object" => owner'[w] = owner[w]
    BY <1>1, <2>1, <2>2, <2>7
  <2> QED  BY <1>1, <1>i, <2>3, <2>4, <2>5, <2>6, <2>8, UnderwayGoesOn
<1> QED  BY <1>1, <1>i, <1>2, <1>3, <1>4, SoundFromUnderway

LEMMA SoundPlain ==
  ASSUME SqlInv, SoundInv, NEW w \in Workers, ExecObjID(w)
  PROVE  SoundInv'
<1>i. SqlType /\ TxInv /\ AckInv /\ NameInv /\ WholeInv  BY DEF SqlInv
<1>1. PICK r \in Free(live, "objID") : Apply(UpdateObjID(live, r, Head(prog[w]).an))
  BY DEF ExecObjID
<1>2. Executes(w, "objID") /\ UNCHANGED <<stale, owner>>  BY DEF ExecObjID, history
<1>3. ~Idle(w) /\ Head(prog[w]).do = "objID"  BY <1>2 DEF Executes
<1>4. r \in Rows /\ Head(prog[w]).an \in AnIds /\ prog[w][1].do = "objID" /\ live \in Databases
  BY <1>3, <1>i, FirstStatement DEF Free, SqlType
<1>5. PlainRow(live, live', r, Head(prog[w]).an)  BY <1>1, <1>4, PlainEffect DEF Apply
<1>6. disk' = disk  BY <1>1, <1>3, <1>i, Alone DEF Apply
<1>7. ASSUME ~stale' PROVE Underway(w)'
  <2>1. \A c \in Classes : \A s \in Rows : live[c][s] # NoRow => live'[c][s] # NoRow
    BY <1>5 DEF PlainRow
  <2>2. \A rel \in Relations : live'[rel] = live[rel]  BY <1>5 DEF PlainRow
  <2>3. prog'[w] = Tail(prog[w]) /\ prog'[w] # << >>  BY <1>2, <1>i, NotTheLast
  <2>4. Underway(w)  BY <1>2, <1>3, <1>7 DEF SoundInv
  <2> QED  BY <1>2, <1>3, <1>4, <1>i, <2>1, <2>2, <2>3, <2>4, UnderwayGoesOn
<1> QED  BY <1>2, <1>6, <1>7, <1>i, SoundFromUnderway

LEMMA SoundLink ==
  ASSUME SqlInv, SoundInv, NEW w \in Workers, ExecLink(w)
  PROVE  SoundInv'
<1> DEFINE p == prog[w]
           q == Tail(p)
           h == Head(p)
<1>i. SqlType /\ TxInv /\ AckInv /\ NameInv /\ WholeInv  BY DEF SqlInv
<1>1. PICK kind \in Links : Executes(w, kind)  BY DEF ExecLink, Links
<1>2. ~Idle(w) /\ h.do = kind /\ kind # "commit" /\ UNCHANGED <<stale, last, owner>>
  BY <1>1 DEF ExecLink, Executes, Links, history
<1>3. /\ p \in Seq(Stmt) /\ p # << >> /\ Ordered(p) /\ h = p[1] /\ 1 \in 1..Len(p)
      /\ live \in Databases /\ (kind \in {"linkPrev", "linkDiff"} => h.row \in Ids)
  BY <1>2, <1>i, FirstStatement DEF SqlType
<1>4. prog'[w] = q /\ q # << >> /\ disk' = disk
  BY <1>1, <1>2, <1>i, NotTheLast, Alone DEF ExecLink, Apply
<1>5. /\ last[w] \in Rows
      /\ kind = "linkSnapshot" => LinksSnapshot(p) /\ owner[w] \in Rows
  BY <1>2, <1>3, <1>i DEF SqlType, Linkable, LinksSnapshot
<1>6. \/ kind = "linkPrev" /\ Linked(live, live', "diffObjID", h.row, last[w])
      \/ kind = "linkDiff" /\ Linked(live, live', "diffSnapshot", last[w], h.row)
      \/ kind = "linkSnapshot" /\ Linked(live, live', "objectSnapshot", owner[w], last[w])
  <2>1. CASE kind = "linkPrev"
    <3>1. live' = DiffObjIDLink(live, h.row, last[w])  BY <1>2, <2>1 DEF ExecLink, Executes, Apply
    <3> QED  BY <1>3, <1>5, <2>1, <3>1, LinkEffect
  <2>2. CASE kind = "linkDiff"
    <3>1. live' = DiffSnapshotLink(live, last[w], h.row)  BY <1>2, <2>2 DEF ExecLink, Executes, Apply
    <3> QED  BY <1>3, <1>5, <2>2, <3>1, LinkEffect
  <2>3. CASE kind = "linkSnapshot"
    <3>1. live' = ObjectSnapshotLink(live, owner[w], last[w])
      BY <1>2, <2>3 DEF ExecLink, Executes, Apply
    <3> QED  BY <1>3, <1>5, <2>3, <3>1, LinkEffect
  <2> QED  BY <2>1, <2>2, <2>3 DEF Links
<1>7. /\ LinksSnapshot(q) => LinksSnapshot(p)
      /\ q[1] = p[2] /\ Len(p) >= 2
      /\ q[1].do # "linkDiff" /\ q[1].do # "linkSnapshot"
  BY <1>2, <1>3, <1>4, TailKeeps DEF Links
<1>8. \A c, r : Later(p, c, r) => (kind = c \/ Later(q, c, r))
  BY <1>2, <1>3, LaterTail
<1>9. /\ kind = "linkPrev" => Later(q, "diff", h.row)
      /\ kind = "linkDiff" => Later(q, "snapshot", h.row)
  <2>1. /\ kind = "linkPrev" => p[2].do = "diff" /\ p[2].row = h.row
        /\ kind = "linkDiff" => p[2].do = "snapshot" /\ p[2].row = h.row
    BY <1>2, <1>3 DEF Ordered
  <2>2. 1 \in 1..Len(q)  BY <1>3, <1>7, TailShifts
  <2> QED  BY <1>7, <2>1, <2>2 DEF Later
<1>10. ASSUME ~stale' PROVE Underway(w)'
  <2>1. Underway(w)  BY <1>2, <1>10 DEF SoundInv
  <2>2. /\ live'.object = live.object /\ live'.snapshot = live.snapshot /\ live'.diff = live.diff
    BY <1>6 DEF Linked, Classes
  <2>3. LinksSnapshot(q) => live.object[owner[w]] # NoRow
    BY <1>2, <1>3, <1>7, <2>1 DEF Underway, Links
  <2>4. /\ \A e \in live'.objectSnapshot : e \in live.objectSnapshot
             \/ (kind = "linkSnapshot" /\ e[1] = owner[w] /\ e[2] = last[w])
        /\ \A e \in live'.diffSnapshot : e \in live.diffSnapshot
             \/ (kind = "linkDiff" /\ e[1] = last[w] /\ e[2] = h.row)
        /\ \A e \in live'.diffObjID : e \in live.diffObjID
             \/ (kind = "linkPrev" /\ e[1] = h.row)
    BY <1>6 DEF Linked, Relations
  <2>5. /\ kind = "linkSnapshot" => live.object[owner[w]] # NoRow /\ live.snapshot[last[w]] # NoRow
        /\ kind = "linkDiff" => live.diff[last[w]] # NoRow
    BY <1>2, <1>3, <1>5, <2>1 DEF Underway
  <2>6. \A e \in live'.objectSnapshot : live'.object[e[1]] # NoRow /\ live'.snapshot[e[2]] # NoRow
    BY <2>1, <2>2, <2>4, <2>5 DEF Underway
  <2>7. \A e \in live'.diffSnapshot :
          /\ live'.diff[e[1]] # NoRow
          /\ e[2] = 0 \/ live'.snapshot[e[2]] # NoRow \/ Later(q, "snapshot", e[2])
    BY <1>8, <1>9, <2>1, <2>2, <2>4, <2>5 DEF Underway, Links
  <2>8. \A e \in live'.diffObjID :
          e[1] = 0 \/ live'.diff[e[1]] # NoRow \/ Later(q, "diff", e[1])
    BY <1>8, <1>9, <2>1, <2>2, <2>4 DEF Underway, Links
  <2> HIDE DEF q
  <2> QED  BY <1>2, <1>4, <1>7, <2>2, <2>3, <2>6, <2>7, <2>8 DEF Underway
<1> QED  BY <1>1, <1>2, <1>4, <1>10, <1>i, SoundFromUnderway

LEMMA SoundRemove ==
  ASSUME SqlInv, SoundInv, NEW w \in Workers, ExecRemove(w)
  PROVE  SoundInv'
<1> DEFINE p == prog[w]
           q == Tail(p)
<1>i. SqlType /\ TxInv /\ AckInv /\ NameInv /\ WholeInv  BY DEF SqlInv
<1>1. PICK r \in Rows : live.objID[r] # NoRow /\ Apply(DelObjID(live, r))  BY DEF ExecRemove
<1>2. Executes(w, "remove") /\ UNCHANGED <<stale, last, owner>>  BY DEF ExecRemove
<1>3. ~Idle(w) /\ Head(p).do = "remove"  BY <1>2 DEF Executes
<1>4. p \in Seq(Stmt) /\ p # << >> /\ Ordered(p) /\ p[1].do = "remove" /\ 1 \in 1..Len(p)
      /\ live \in Databases
  BY <1>3, <1>i, FirstStatement DEF SqlType
<1>5. prog'[w] = q /\ q # << >> /\ disk' = disk /\ live' = DelObjID(live, r)
  BY <1>1, <1>2, <1>3, <1>i, NotTheLast, Alone DEF Apply
<1>6. Len(p) = 2 /\ p[2].do = "commit"  BY <1>4 DEF Ordered
<1>7. \A c, x : c \in Classes => ~Later(p, c, x)  BY <1>4, <1>6 DEF Later, Classes
<1>8. Len(q) = 1 /\ q[1].do = "commit"  BY <1>4, <1>5, <1>6, TailShifts
<1>9. ~LinksSnapshot(q)  BY <1>8 DEF LinksSnapshot
<1> DEFINE class == live.objID[r].type
<1>10. Deleted(live, live', r, class)  BY <1>1, <1>4, <1>5, DelEffect
<1>11. \A c \in Classes : live[c] \in [Rows -> Contents(c) \cup {NoRow}]
  BY <1>4 DEF Databases, Classes, Contents, ObjectRow, SnapshotRow, DiffRow
<1> HIDE DEF class, q
<1>12. \A c \in Classes : \A s \in Rows : c # class \/ s # r => live'[c][s] = live[c][s]
  BY <1>10, <1>11 DEF Deleted
<1>13. ASSUME ~stale' PROVE Underway(w)'
  <2>1. Underway(w)  BY <1>2, <1>3, <1>13 DEF SoundInv
  <2>2. /\ live'.objectSnapshot \subseteq live.objectSnapshot
        /\ live'.diffSnapshot \subseteq live.diffSnapshot
        /\ live'.diffObjID \subseteq live.diffObjID
    BY <1>10 DEF Deleted, Relations
  <2>3. /\ live.objectSnapshot \subseteq Rows \X Rows /\ live.diffSnapshot \subseteq Rows \X Ids
        /\ live.diffObjID \subseteq Ids \X Rows
    BY <1>4 DEF Databases, ObjectSnapshotRelation, DiffSnapshotRelation, DiffObjIDRelation, Ids
  <2>4. ASSUME NEW e \in live'.objectSnapshot
        PROVE  live'.object[e[1]] # NoRow /\ live'.snapshot[e[2]] # NoRow
    <3>1. live.object[e[1]] # NoRow /\ live.snapshot[e[2]] # NoRow /\ e[1] \in Rows /\ e[2] \in Rows
      BY <2>1, <2>2, <2>3 DEF Underway
    <3>2. (class = "object" => e[1] # r) /\ (class = "snapshot" => e[2] # r)
      BY <1>10 DEF Deleted
    <3> QED  BY <1>12, <3>1, <3>2 DEF Classes
  <2>5. ASSUME NEW e \in live'.diffSnapshot
        PROVE  live'.diff[e[1]] # NoRow /\ (e[2] = 0 \/ live'.snapshot[e[2]] # NoRow)
    <3>1. live.diff[e[1]] # NoRow /\ (e[2] = 0 \/ live.snapshot[e[2]] # NoRow)
          /\ e[1] \in Rows /\ e[2] \in Ids
      BY <1>7, <2>1, <2>2, <2>3 DEF Underway, Classes
    <3>2. (class = "diff" => e[1] # r) /\ (class = "snapshot" => e[2] # r)
      BY <1>10 DEF Deleted
    <3> QED  BY <1>12, <3>1, <3>2 DEF Classes, Ids
  <2>6. ASSUME NEW e \in live'.diffObjID PROVE e[1] = 0 \/ live'.diff[e[1]] # NoRow
    <3>1. (e[1] = 0 \/ live.diff[e[1]] # NoRow) /\ e[1] \in Ids
      BY <1>7, <2>1, <2>2, <2>3 DEF Underway, Classes
    <3>2. class = "diff" => e[1] # r  BY <1>10 DEF Deleted
    <3> QED  BY <1>12, <3>1, <3>2 DEF Classes, Ids
  <2> QED  BY <1>5, <1>8, <1>9, <2>4, <2>5, <2>6 DEF Underway
<1> QED  BY <1>2, <1>5, <1>13, <1>i, SoundFromUnderway

\* The statement before commit has written what the links ran ahead of.
LEMMA SoundCommit ==
  ASSUME SqlInv, SoundInv, NEW w \in Workers, Commit(w)
  PROVE  SoundInv'
<1> DEFINE p == prog[w]
<1>i. SqlType /\ TxInv  BY DEF SqlInv
<1>1. /\ ~Idle(w) /\ Head(p).do = "commit" /\ prog' = [prog EXCEPT ![w] = << >>]
      /\ disk' = live /\ stale' = stale
  BY DEF Commit, Return
<1>2. /\ Ordered(p) /\ p[1].do = "commit" /\ 1 \in 1..Len(p)
      /\ prog \in [Workers -> Seq(Stmt)]
  BY <1>1, <1>i, FirstStatement DEF SqlType
<1>3. Len(p) = 1  BY <1>2 DEF Ordered
<1>4. \A c, x : c \in Classes => ~Later(p, c, x)  BY <1>2, <1>3 DEF Later, Classes
<1>5. \A v \in Workers : Idle(v)'  BY <1>1, <1>2, <1>i, Alone DEF Idle
<1>6. ~stale => SoundTables(live)
  BY <1>1, <1>4 DEF SoundInv, Underway, SoundTables, Classes
<1> QED  BY <1>1, <1>5, <1>6 DEF SoundInv

LEMMA SoundBegin ==
  ASSUME SqlInv, SoundInv, NEW w \in Workers, Begins(w)
  PROVE  SoundInv'
<1>i. SqlType /\ TxInv /\ AckInv  BY DEF SqlInv
<1>1. PICK p : Starts(w, p) /\ Fresh(p, seen)  BY <1>i, BeginsFresh
<1>2. /\ prog' = [prog EXCEPT ![w] = p] /\ ~tx
      /\ UNCHANGED <<live, disk, last, owner, stale>>
  BY <1>1 DEF Starts, history
<1>3. /\ p[1].do \notin Links
      /\ LinksSnapshot(p) => p[1].do = "object"
  BY <1>1 DEF Fresh
<1>4. prog'[w] = p /\ \A v \in Workers \ {w} : prog'[v] = prog[v] /\ Idle(v)
  BY <1>2, <1>i DEF SqlType, TxInv, OneTransaction
<1>5. live = disk  BY <1>2, <1>i DEF AckInv
<1>6. ASSUME ~stale PROVE Underway(w)'
  <2>1. SoundTables(live)  BY <1>5, <1>6 DEF SoundInv
  <2> QED  BY <1>2, <1>3, <1>4, <2>1 DEF SoundTables, Underway, Links
<1> QED  BY <1>2, <1>4, <1>6 DEF SoundInv, Idle

LEMMA SoundStep ==
  ASSUME SqlInv, SoundInv, [Next]_vars
  PROVE  SoundInv'
<1>i. SqlType /\ TxInv /\ AckInv /\ NameInv /\ WholeInv  BY DEF SqlInv
<1>t. live \in Databases /\ prog \in [Workers -> Seq(Stmt)]  BY <1>i DEF SqlType
<1>idle. CASE UNCHANGED vars  BY <1>idle DEF vars, SoundInv, Underway, Idle
<1>begin. ASSUME NEW w \in Workers, Begins(w) PROVE SoundInv'  BY <1>begin, SoundBegin
<1>statement. ASSUME NEW w \in Workers, Statement(w) PROVE SoundInv'
  <2>1. ASSUME NEW class \in Classes, NEW r \in Rows, NEW text \in Contents(class),
               Writes(w, class, r, text)
        PROVE  SoundInv'
    BY <2>1, SoundWrites
  <2> QED  BY <1>i, <1>statement, <2>1, SoundPlain, SoundLink, SoundRemove, StatementCases
<1>commit. ASSUME NEW w \in Workers, Commit(w) PROVE SoundInv'  BY <1>commit, SoundCommit
<1>throw. ASSUME NEW w \in Workers, Throw(w) PROVE SoundInv'
  <2>1. ~Idle(w) /\ prog' = [prog EXCEPT ![w] = << >>] /\ UNCHANGED <<disk, stale>>
    BY <1>throw DEF Throw, Return
  <2>2. \A v \in Workers : Idle(v)'  BY <1>i, <1>t, <2>1, Alone DEF Idle
  <2> QED  BY <2>1, <2>2 DEF SoundInv
<1>get. ASSUME NEW w \in Workers, Gets(w) PROVE SoundInv'
  <2>1. PICK H : Got(H)  BY <1>get, <1>i, GetsGot
  <2> QED  BY <2>1 DEF Got, SoundInv, Underway, Idle
<1>kv. ASSUME NEW w \in Workers, Kv(w) PROVE SoundInv'
  <2>1. \/ UNCHANGED <<live, disk>>
        \/ \E r \in Pairs, x \in HTRow \cup {NoRow} : PairAt(live, live', r, x)
    BY <1>i, <1>kv, KvEffect
  <2>2. /\ UNCHANGED <<stale, prog, last, owner>>
        /\ disk' = disk \/ (disk' = live' /\ live = disk)
    BY <1>kv, <1>i, KvEffect DEF AckInv
  <2>3. /\ live'.object = live.object /\ live'.snapshot = live.snapshot /\ live'.diff = live.diff
        /\ live'.objectSnapshot = live.objectSnapshot /\ live'.diffSnapshot = live.diffSnapshot
        /\ live'.diffObjID = live.diffObjID
    BY <2>1 DEF PairAt, Classes, Relations
  <2>4. SoundTables(live') <=> SoundTables(live)  BY <2>3 DEF SoundTables
  <2>5. \A v \in Workers : Underway(v) => Underway(v)'  BY <2>2, <2>3 DEF Underway
  <2> QED  BY <2>2, <2>4, <2>5 DEF SoundInv, Idle
<1>restart. CASE Restart  BY <1>restart DEF Restart, SoundInv, Idle
<1> QED  BY <1>idle, <1>begin, <1>statement, <1>commit, <1>throw, <1>get, <1>kv, <1>restart,
            StepKinds DEF Single, Gets

LEMMA SoundInit == Init => SoundInv
BY DEF Init, Schema, SoundInv, SoundTables, Idle

\* In the committed database a relation names no row that was removed, but for
\* the predecessors of a diff: the links that run ahead of their record are
\* followed by it before the commit (sqlstore.cc:81-148), and del() takes the
\* relations along (sqldb.cc).
THEOREM CommittedRelationsSound == Spec => []RelationsSound
<1>1. Init => SqlInv /\ SoundInv
  BY SqlTypeInit, TxInit, AckInit, WholeInit, SoundInit DEF SqlInv
<1>2. SqlInv /\ SoundInv /\ [Next]_vars => (SqlInv /\ SoundInv)'  BY SqlStep, SoundStep
<1>3. SoundInv => RelationsSound  BY DEF SoundInv, SoundTables, RelationsSound
<1> QED  BY <1>1, <1>2, <1>3, PTL DEF Spec
=============================================================================
