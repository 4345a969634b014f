------------------------ MODULE ObjectServiceProofs ------------------------
(***************************************************************************)
(* Proofs about ObjectService, for any number of workers, ids, texts and   *)
(* requests, any interleaving of their steps and any number of deaths and  *)
(* restarts of the process.  The one hypothesis is ObjectsStorable: what   *)
(* the handlers store is a value of the flat-file store.                   *)
(*                                                                         *)
(* The invariant has two halves.  Tracked says where a request stands: the *)
(* store's call it waits for, on which key and with which object, and that *)
(* every object on disk is one that create or update_object made.  It is   *)
(* inductive by itself.  The other half speaks of the keys that are not    *)
(* muddled: at most one create works on such a key, DirInv says what the   *)
(* key holds at each of its steps, and SureInv what a get that no create   *)
(* overlaps has read of it.                                                *)
(***************************************************************************)
EXTENDS ObjectService, FFStoreProofs, WellFoundedInduction, TLAPS

USE DEF At, Goto, Finish, Forget, disk, call, proc, hist

(* What Replay computes, as in ObjectHistoryProofs, whose module speaks of  *)
(* another state and cannot be extended here.                               *)

\* If some element of T is minimal for a relation that contains <, it is the
\* least.
LEMMA MinimalIsLeast ==
  ASSUME NEW R, \A x, y \in Nat : x < y => <<x, y>> \in R,
         NEW T, T \subseteq Nat, \E x \in T : \A y \in T : ~(<<y, x>> \in R)
  PROVE  \E x \in T : \A y \in T : x <= y
<1> PICK x \in T : \A y \in T : ~(<<y, x>> \in R)  OBVIOUS
<1>1. ASSUME NEW y \in T PROVE x <= y
  <2>1. x \in Nat /\ y \in Nat  OBVIOUS
  <2>2. ~(y < x)  BY <2>1, Zenon
  <2> QED  BY <2>1, <2>2
<1> QED  BY <1>1

LEMMA LeastNat ==
  ASSUME NEW T, T \subseteq Nat, T # {}
  PROVE  \E x \in T : \A y \in T : x <= y
<1> DEFINE R == OpToRel(<, Nat)
<1>1. IsWellFoundedOn(R, Nat)  BY NatLessThanWellFounded
<1>2. \A x, y \in Nat : x < y => <<x, y>> \in R  BY DEF OpToRel
<1> HIDE DEF R
<1>3. \E x \in T : \A y \in T : ~(<<y, x>> \in R)  BY <1>1, WFMin
<1> QED  BY <1>2, <1>3, MinimalIsLeast, Zenon

LEMMA NatInductionSet ==
  ASSUME NEW S, 0 \in S, \A n \in Nat : n \in S => n + 1 \in S
  PROVE  Nat \subseteq S
<1> DEFINE T == Nat \ S
<1>1. CASE T # {}
  <2> PICK x \in T : \A y \in T : x <= y  BY <1>1, LeastNat
  <2>1. x # 0  OBVIOUS
  <2>2. x - 1 \in Nat /\ x - 1 \notin T  BY <2>1
  <2> QED  BY <2>2
<1> QED  BY <1>1
----------------------------------------------------------------------------
(* What Replay computes.                                                    *)

\* One step of the replay.
ReplayStep(d, g, n) == IF n = 0 THEN EmptyText ELSE patch_apply(d[n].content, g[n - 1])

\* A function on 0..m that satisfies the recursive equation exists for every m,
\* so the one Replay chooses satisfies it.
LEMMA ReplayEquation ==
  ASSUME NEW D, NEW d \in Seq(D)
  PROVE  Replay(d) = [n \in 0..Len(d) |-> ReplayStep(d, Replay(d), n)]
<1> DEFINE Solves(g, m) == g = [n \in 0..m |-> ReplayStep(d, g, n)]
           S == {m \in Nat : \E g : Solves(g, m)}
<1>1. 0 \in S
  <2>1. Solves([n \in 0..0 |-> EmptyText], 0)  BY DEF ReplayStep
  <2> QED  BY <2>1
<1>2. ASSUME NEW m \in Nat, m \in S PROVE m + 1 \in S
  <2> PICK g : Solves(g, m)  BY <1>2
  <2> DEFINE h == [n \in 0..(m + 1) |->
                     IF n = m + 1 THEN patch_apply(d[n].content, g[m]) ELSE g[n]]
  <2>1. Solves(h, m + 1)  BY DEF ReplayStep
  <2> HIDE DEF h, Solves
  <2> QED  BY <2>1
<1>3. Nat \subseteq S
  <2> HIDE DEF S
  <2> QED  BY <1>1, <1>2, NatInductionSet
<1>4. \E g : Solves(g, Len(d))  BY <1>3
<1>5. Solves(CHOOSE g : Solves(g, Len(d)), Len(d))  BY <1>4, Zenon
<1> QED  BY <1>5 DEF Replay, ReplayStep

\* A patch applied to the text it was made from gives the text it was made for.
LEMMA ApplyMake ==
  ASSUME NEW old, NEW new, old = [r \in Regions |-> old[r]], new = [r \in Regions |-> new[r]]
  PROVE  patch_apply(patch_make(old, new), old) = new
<1> DEFINE p == patch_make(old, new)
           Hunk(r) == [at |-> r, from |-> old[r], to |-> new[r]]
<1>1. ASSUME NEW r \in Regions
      PROVE  patch_apply(p, old)[r] = new[r]
  <2> DEFINE P(h) == h.at = r /\ h.from = old[r]
             c == CHOOSE h \in p : P(h)
  <2>0. patch_apply(p, old)[r] = IF \E h \in p : P(h) THEN c.to ELSE old[r]
    BY DEF patch_apply
  <2>1. ASSUME NEW h \in p, h.at = r PROVE h.to = new[r] /\ old[r] # new[r]
    <3> PICK s \in Regions : old[s] # new[s] /\ h = Hunk(s)  BY DEF patch_make
    <3> QED  BY <2>1
  <2>2. CASE old[r] = new[r]  BY <2>0, <2>1, <2>2
  <2>3. CASE old[r] # new[r]
    <3>1. Hunk(r) \in p  BY <2>3 DEF patch_make
    <3>2. \E h \in p : P(h)  BY <3>1
    <3>3. c \in p /\ P(c)
      <4> HIDE DEF P, p
      <4> QED  BY <3>2
    <3>4. c.to = new[r]
      <4> HIDE DEF c, p
      <4> QED  BY <3>3, <2>1
    <3> QED  BY <2>0, <3>2, <3>4
  <2> QED  BY <2>2, <2>3
<1>2. \A q : patch_apply(q, old) = [r \in Regions |-> patch_apply(q, old)[r]]
  BY DEF patch_apply
<1>3. patch_apply(p, old) = [r \in Regions |-> new[r]]
  <2> HIDE DEF p
  <2> QED  BY <1>1, <1>2
<1> QED  BY <1>3, Zenon

\* Appending a diff leaves the texts before it as they were.
LEMMA ReplayAppend ==
  ASSUME NEW D, NEW d \in Seq(D), NEW x \in D
  PROVE  /\ \A n \in 0..Len(d) : Replay(Append(d, x))[n] = Replay(d)[n]
         /\ Replay(Append(d, x))[Len(d) + 1] = patch_apply(x.content, Replay(d)[Len(d)])
<1> DEFINE e == Append(d, x)
           S == {n \in Nat : n <= Len(d) => Replay(e)[n] = Replay(d)[n]}
<1>e. e \in Seq(D) /\ Len(e) = Len(d) + 1 /\ e[Len(d) + 1] = x /\ \A i \in 1..Len(d) : e[i] = d[i]
  OBVIOUS
<1> HIDE DEF e
<1>1. \A n \in 0..Len(d) : Replay(d)[n] = ReplayStep(d, Replay(d), n)  BY ReplayEquation
<1>2. \A n \in 0..(Len(d) + 1) : Replay(e)[n] = ReplayStep(e, Replay(e), n)  BY ReplayEquation, <1>e
<1>3. 0 \in S  BY <1>1, <1>2 DEF ReplayStep
<1>4. ASSUME NEW n \in Nat, n \in S PROVE n + 1 \in S
  <2> SUFFICES ASSUME n + 1 <= Len(d) PROVE Replay(e)[n + 1] = Replay(d)[n + 1]
    OBVIOUS
  <2>1. Replay(e)[n + 1] = patch_apply(e[n + 1].content, Replay(e)[n])  BY <1>2 DEF ReplayStep
  <2>2. Replay(d)[n + 1] = patch_apply(d[n + 1].content, Replay(d)[n])  BY <1>1 DEF ReplayStep
  <2> QED  BY <1>4, <1>e, <2>1, <2>2
<1>5. Nat \subseteq S
  <2> HIDE DEF S
  <2> QED  BY <1>3, <1>4, NatInductionSet
<1>6. \A n \in 0..Len(d) : Replay(e)[n] = Replay(d)[n]  BY <1>5
<1>7. Replay(e)[Len(d) + 1] = patch_apply(x.content, Replay(d)[Len(d)])
  BY <1>2, <1>6, <1>e DEF ReplayStep
<1> QED  BY <1>6, <1>7 DEF e

LEMMA MakePatch ==
  ASSUME NEW old \in Texts, NEW new \in Texts
  PROVE  patch_make(old, new) \in Patches
BY DEF patch_make, Patches, Texts

\* Replaying one diff more.
LEMMA ReplayInitial ==
  ASSUME NEW D, NEW d \in Seq(D)
  PROVE  Replay(d)[0] = EmptyText
<1>1. Replay(d)[0] = ReplayStep(d, Replay(d), 0)  BY ReplayEquation
<1> QED  BY <1>1 DEF ReplayStep
----------------------------------------------------------------------------
(* Objects.                                                                 *)

Key(v) == validate_key(v.id)

\* An object as the handlers make it: its head is what its diffs replay to.
Proper(o) ==
  /\ o \in StoredObjects /\ o.head \in Inputs
  /\ o.diffs # <<>> /\ Replay(o.diffs)[Len(o.diffs)] = o.head

\* The diffs of o replay to the texts.
Records(o, texts) ==
  Len(o.diffs) = Len(texts) /\ \A i \in 1..Len(texts) : Replay(o.diffs)[i] = texts[i]

LEMMA InputsAreTexts == Inputs \subseteq Texts /\ EmptyText \in Texts
BY DEF Inputs, Texts, EmptyText

LEMMA DiffType ==
  ASSUME NEW patch \in Patches, NEW prev \in RevIds, NEW time \in Stamps
  PROVE  /\ Diff(patch, prev, time) \in Diffs
         /\ Diff(patch, prev, time).id = patch
         /\ Diff(patch, prev, time).content = patch
BY DEF Diff, Diffs, RevIds

\* Object::create makes a proper object whose history is the one text.
LEMMA CreateProper ==
  ASSUME NEW text \in Inputs, NEW id \in Names, NEW time \in Stamps
  PROVE  /\ Proper(create(text, id, time))
         /\ create(text, id, time).id = id /\ create(text, id, time).head = text
         /\ Records(create(text, id, time), Append(<<>>, text))
<1> DEFINE o == create(text, id, time)
           p == patch_make(EmptyText, text)
           diff == Diff(p, NoRev, time)
<1>1. p \in Patches  BY MakePatch, InputsAreTexts
<1>2. diff \in Diffs /\ diff.id = p /\ diff.content = p  BY <1>1, DiffType DEF RevIds
<1>3. o = [id |-> id, master |-> diff.id, diffs |-> <<diff>>, head |-> text]
  BY DEF create
<1>4. o \in StoredObjects
  <2>1. diff.id \in RevIds  BY <1>1, <1>2 DEF RevIds
  <2>2. <<diff>> \in Seq(Diffs)  BY <1>2
  <2>3. text \in Texts  BY InputsAreTexts
  <2> HIDE DEF diff, o
  <2> QED  BY <1>3, <2>1, <2>2, <2>3 DEF StoredObjects, ObjectsOver, Ids
<1>5. Replay(o.diffs)[1] = text
  <2>1. <<>> \in Seq(Diffs) /\ Len(<<>>) = 0  OBVIOUS
  <2>2. Replay(Append(<<>>, diff))[0 + 1] = patch_apply(p, Replay(<<>>)[0])
    BY <2>1, <1>2, ReplayAppend
  <2>3. Replay(<<>>)[0] = EmptyText  BY <2>1, ReplayInitial
  <2>4. patch_apply(p, EmptyText) = text  BY ApplyMake DEF EmptyText, Inputs
  <2>5. Append(<<>>, diff) = <<diff>> /\ o.diffs = <<diff>> /\ 0 + 1 = 1
    BY <1>3
  <2> HIDE DEF diff, o, p
  <2> QED  BY <2>2, <2>3, <2>4, <2>5
<1>6. Len(o.diffs) = 1 /\ o.diffs # <<>> /\ o.head = text /\ o.id = id
  BY <1>3
<1> HIDE DEF o
<1>7. Append(<<>>, text) = <<text>>  OBVIOUS
<1>8. Records(o, <<text>>)  BY <1>5, <1>6 DEF Records
<1> QED  BY <1>4, <1>5, <1>6, <1>7, <1>8 DEF Proper, o

\* update_object extends the history by the text and keeps the texts before it.
LEMMA UpdateProper ==
  ASSUME NEW o, Proper(o), NEW text \in Inputs, NEW time \in Stamps,
         NEW texts \in Seq(Inputs)
  PROVE  /\ Proper(update_object(o, text, time))
         /\ update_object(o, text, time).id = o.id
         /\ update_object(o, text, time).head = text
         /\ Records(o, texts) => Records(update_object(o, text, time), Append(texts, text))
<1> DEFINE u == update_object(o, text, time)
           p == patch_make(o.head, text)
           diff == Diff(p, o.master, time)
<1>0. o \in StoredObjects /\ o.head \in Inputs /\ o.head \in Texts /\ o.diffs \in Seq(Diffs)
      /\ o.master \in RevIds /\ o.id \in Names /\ Replay(o.diffs)[Len(o.diffs)] = o.head
  BY InputsAreTexts DEF Proper, StoredObjects, ObjectsOver, Ids
<1>1. p \in Patches  BY <1>0, MakePatch, InputsAreTexts
<1>2. diff \in Diffs /\ diff.id = p /\ diff.content = p  BY <1>0, <1>1, DiffType
<1>3. u = [o EXCEPT !.diffs = Append(@, diff), !.master = diff.id, !.head = text]
  BY DEF update_object
<1> HIDE DEF diff, u, p
<1>4. /\ u \in StoredObjects
      /\ u.diffs = Append(o.diffs, diff) /\ u.id = o.id /\ u.head = text
  <2>1. diff.id \in RevIds  BY <1>1, <1>2 DEF RevIds
  <2>2. Append(o.diffs, diff) \in Seq(Diffs)  BY <1>0, <1>2
  <2>3. text \in Texts  BY InputsAreTexts
  <2> QED  BY <1>0, <1>3, <2>1, <2>2, <2>3 DEF StoredObjects, ObjectsOver, Ids
<1>5. Len(u.diffs) = Len(o.diffs) + 1 /\ Len(o.diffs) \in Nat /\ u.diffs # <<>>
  BY <1>0, <1>2, <1>4
<1>6. /\ \A n \in 0..Len(o.diffs) : Replay(u.diffs)[n] = Replay(o.diffs)[n]
      /\ Replay(u.diffs)[Len(o.diffs) + 1] = text
  <2>1. /\ \A n \in 0..Len(o.diffs) : Replay(u.diffs)[n] = Replay(o.diffs)[n]
        /\ Replay(u.diffs)[Len(o.diffs) + 1] = patch_apply(p, o.head)
    BY <1>0, <1>2, <1>4, ReplayAppend
  <2>2. patch_apply(p, o.head) = text  BY <1>0, ApplyMake DEF Inputs, p
  <2> QED  BY <2>1, <2>2
<1>7. Proper(u)  BY <1>4, <1>5, <1>6 DEF Proper
<1>8. ASSUME Records(o, texts) PROVE Records(u, Append(texts, text))
  <2>1. Len(o.diffs) = Len(texts) /\ \A i \in 1..Len(texts) : Replay(o.diffs)[i] = texts[i]
    BY <1>8 DEF Records
  <2>2. /\ Len(Append(texts, text)) = Len(texts) + 1
        /\ Append(texts, text)[Len(texts) + 1] = text
        /\ \A i \in 1..Len(texts) : Append(texts, text)[i] = texts[i]
    OBVIOUS
  <2>3. ASSUME NEW i \in 1..(Len(texts) + 1)
        PROVE  Replay(u.diffs)[i] = Append(texts, text)[i]
    <3>1. CASE i \in 1..Len(texts)  BY <2>1, <2>2, <1>5, <1>6, <3>1
    <3>2. CASE i = Len(texts) + 1  BY <2>1, <2>2, <1>6, <3>2
    <3> QED  BY <3>1, <3>2, <1>5, <2>1
  <2> QED  BY <2>1, <2>2, <2>3, <1>5 DEF Records
<1> QED  BY <1>4, <1>7, <1>8 DEF u
----------------------------------------------------------------------------
(* The steps of the store, seen from outside.                               *)

\* x's call is where it was.
KeepsCall(x) ==
  /\ pc'[x] = pc[x] /\ dir'[x] = dir[x] /\ val'[x] = val[x] /\ size'[x] = size[x]
  /\ todo'[x] = todo[x] /\ ok'[x] = ok[x] /\ res'[x] = res[x]

\* A step of w's kv_put touches the value's file and the key's directory, ...
PutShape(w) ==
  /\ pc[w] \in PutSteps /\ pc'[w] \in PutSteps
  /\ dir'[w] = dir[w] /\ val'[w] = val[w]
  /\ raw \subseteq raw' /\ raw' \subseteq raw \cup {val[w]}
  /\ \A v : v # val[w] => (v \in torn' <=> v \in torn) /\ (v \in rawDirs' <=> v \in rawDirs)
  /\ \A d : d # dir[w] => (d \in linkDirs' <=> d \in linkDirs)
  /\ \A d \in Dirs : d # dir[w] => link'[d] = link[d]
  /\ link'[dir[w]] \subseteq link[dir[w]] \cup {val[w]}

\* ... one of its kv_get changes nothing on disk, ...
GetShape(w) ==
  /\ pc[w] \in GetSteps /\ pc'[w] \in GetSteps
  /\ dir'[w] = dir[w]
  /\ UNCHANGED disk

\* ... and one of its kv_remove takes links out of the key's directory.
RemoveShape(w) ==
  /\ pc[w] \in RemoveSteps /\ pc'[w] \in RemoveSteps
  /\ dir'[w] = dir[w]
  /\ UNCHANGED <<rawDirs, raw, torn>>
  /\ \A d : d # dir[w] => (d \in linkDirs' <=> d \in linkDirs)
  /\ \A d \in Dirs : d # dir[w] => link'[d] = link[d]
  /\ link'[dir[w]] \subseteq link[dir[w]]

LEMMA AbortDown == Abort => status' = "aborted" /\ UNCHANGED disk
BY DEF Abort, GoDown

LEMMA CallLocal ==
  ASSUME TypeOK, NEW w \in Workers, NEW x \in Workers, x # w,
         \/ \E d, v : CallPut(w, d, v)
         \/ \E d : CallGet(w, d) \/ CallRemove(w, d)
         \/ PutReturn(w) \/ Return(w)
  PROVE  KeepsCall(x)
BY DEF TypeOK, KeepsCall, CallPut, CallGet, CallRemove, PutReturn, Return

LEMMA PutStepShape ==
  ASSUME TypeOK, NEW w \in Workers, status' = "up",
         \/ PutRawDir(w) \/ PutMkRaw(w) \/ PutOpen(w) \/ PutOpenFails(w) \/ PutWrite(w)
         \/ PutLinkDir(w) \/ PutMkLink(w) \/ PutExists(w) \/ PutSymlink(w)
  PROVE  PutShape(w) /\ \A x \in Workers \ {w} : KeepsCall(x)
<1> USE DEF TypeOK, PutShape, KeepsCall, PutSteps
<1>1. CASE PutRawDir(w)  BY <1>1 DEF PutRawDir
<1>2. CASE PutMkRaw(w)
  <2>1. CASE val[w] \in rawDirs  BY <1>2, <2>1 DEF PutMkRaw
  <2>2. CASE val[w] \notin rawDirs  BY <1>2, <2>2 DEF PutMkRaw
  <2> QED  BY <2>1, <2>2
<1>3. CASE PutOpen(w) \/ PutOpenFails(w)  BY <1>3 DEF PutOpen, PutOpenFails
<1>4. CASE PutWrite(w)  BY <1>4 DEF PutWrite
<1>5. CASE PutLinkDir(w)  BY <1>5 DEF PutLinkDir
<1>6. CASE PutMkLink(w)
  <2>1. CASE dir[w] \in linkDirs  BY <1>6, <2>1 DEF PutMkLink
  <2>2. CASE dir[w] \notin linkDirs  BY <1>6, <2>2 DEF PutMkLink
  <2> QED  BY <2>1, <2>2
<1>7. CASE PutExists(w)
  <2>1. CASE val[w] \in link[dir[w]] /\ val[w] \in raw  BY <1>7, <2>1 DEF PutExists
  <2>2. CASE ~(val[w] \in link[dir[w]] /\ val[w] \in raw)  BY <1>7, <2>2 DEF PutExists
  <2> QED  BY <2>1, <2>2
<1>8. CASE PutSymlink(w)
  <2>1. dir[w] \in linkDirs /\ val[w] \notin link[dir[w]]
    BY <1>8, AbortDown DEF PutSymlink
  <2> QED  BY <1>8, <2>1 DEF PutSymlink
<1> QED  BY <1>1, <1>2, <1>3, <1>4, <1>5, <1>6, <1>7, <1>8

LEMMA GetStepShape ==
  ASSUME TypeOK, NEW w \in Workers, status' = "up",
         GetIsDir(w) \/ GetIter(w) \/ GetOpen(w) \/ GetSize(w) \/ GetRead(w)
  PROVE  GetShape(w) /\ \A x \in Workers \ {w} : KeepsCall(x)
<1> USE DEF TypeOK, GetShape, KeepsCall, GetSteps
<1>1. CASE GetIsDir(w)  BY <1>1 DEF GetIsDir
<1>2. CASE GetIter(w)
  <2>1. GetShape(w)  BY <1>2 DEF GetIter
  <2>2. \A x \in Workers \ {w} : KeepsCall(x)  BY <1>2 DEF GetIter
  <2> QED  BY <2>1, <2>2
<1>3. CASE GetOpen(w)  BY <1>3 DEF GetOpen
<1>4. CASE GetSize(w)
  <2>1. CASE EntryOpens(w)  BY <1>4, <2>1 DEF GetSize
  <2>2. CASE ~EntryOpens(w)  BY <1>4, <2>2 DEF GetSize
  <2> QED  BY <2>1, <2>2
<1>5. CASE GetRead(w)  BY <1>5 DEF GetRead
<1> QED  BY <1>1, <1>2, <1>3, <1>4, <1>5

LEMMA RemoveStepShape ==
  ASSUME TypeOK, NEW w \in Workers, status' = "up",
         \/ RemoveStat(w) \/ RemoveOpenDir(w) \/ RemoveEntry(w) \/ RemoveDir(w)
         \/ RemoveAgain(w) \/ RemoveHandEntry(w) \/ RemoveHandDir(w)
  PROVE  RemoveShape(w) /\ \A x \in Workers \ {w} : KeepsCall(x)
<1> USE DEF TypeOK, RemoveShape, KeepsCall, RemoveSteps
<1>1. CASE RemoveStat(w)  BY <1>1 DEF RemoveStat
<1>2. CASE RemoveOpenDir(w)
  <2>1. dir[w] \in linkDirs  BY <1>2, AbortDown DEF RemoveOpenDir
  <2> QED  BY <1>2, <2>1 DEF RemoveOpenDir
<1>3. CASE RemoveEntry(w)  BY <1>3 DEF RemoveEntry
<1>4. CASE RemoveDir(w)
  <2>1. link[dir[w]] = {}  BY <1>4, AbortDown DEF RemoveDir
  <2> QED  BY <1>4, <2>1 DEF RemoveDir
<1>5. CASE RemoveAgain(w)
  <2>1. dir[w] \in linkDirs  BY <1>5, AbortDown DEF RemoveAgain
  <2> QED  BY <1>5, <2>1 DEF RemoveAgain
<1>6. CASE RemoveHandEntry(w)
  <2>1. PICK v \in todo[w] :
          /\ todo' = [todo EXCEPT ![w] = @ \ {v}]
          /\ link' = [link EXCEPT ![dir[w]] = @ \ {v}]
          /\ IF v \in link[dir[w]]
               THEN UNCHANGED <<pc, ok>>
               ELSE Finish(w, "rm_done", FALSE)
    BY <1>6 DEF RemoveHandEntry
  <2>2. CASE v \in link[dir[w]]  BY <1>6, <2>1, <2>2 DEF RemoveHandEntry
  <2>3. CASE v \notin link[dir[w]]  BY <1>6, <2>1, <2>3 DEF RemoveHandEntry
  <2> QED  BY <2>2, <2>3
<1>7. CASE RemoveHandDir(w)
  <2>1. link[dir[w]] = {}  BY <1>7, AbortDown DEF RemoveHandDir
  <2> QED  BY <1>7, <2>1 DEF RemoveHandDir
<1> QED  BY <1>1, <1>2, <1>3, <1>4, <1>5, <1>6, <1>7

LEMMA StepShape ==
  ASSUME TypeOK, NEW w \in Workers, Step(w), status' = "up"
  PROVE  /\ status = "up" /\ pc[w] # "idle"
         /\ PutShape(w) \/ GetShape(w) \/ RemoveShape(w)
         /\ \A x \in Workers \ {w} : KeepsCall(x)
<1>1. CASE \/ PutRawDir(w) \/ PutMkRaw(w) \/ PutOpen(w) \/ PutOpenFails(w) \/ PutWrite(w)
           \/ PutLinkDir(w) \/ PutMkLink(w) \/ PutExists(w) \/ PutSymlink(w)
  BY <1>1, PutStepShape
     DEF PutRawDir, PutMkRaw, PutOpen, PutOpenFails, PutWrite, PutLinkDir, PutMkLink, PutExists, PutSymlink
<1>2. CASE GetIsDir(w) \/ GetIter(w) \/ GetOpen(w) \/ GetSize(w) \/ GetRead(w)
  BY <1>2, GetStepShape DEF GetIsDir, GetIter, GetOpen, GetSize, GetRead
<1>3. CASE \/ RemoveStat(w) \/ RemoveOpenDir(w) \/ RemoveEntry(w) \/ RemoveDir(w)
           \/ RemoveAgain(w) \/ RemoveHandEntry(w) \/ RemoveHandDir(w)
  BY <1>3, RemoveStepShape
     DEF RemoveStat, RemoveOpenDir, RemoveEntry, RemoveDir, RemoveAgain, RemoveHandEntry,
         RemoveHandDir
<1> QED  BY <1>1, <1>2, <1>3 DEF Step
----------------------------------------------------------------------------
(* Where a request stands.                                                  *)

Jobs ==
  [op : {"none", "create", "get"},
   stage : {"none", "load", "put", "again", "delete", "save", "reply"},
   id : Names \cup {NoId}, text : Inputs \cup {NoText},
   obj : StoredObjects \cup {NoText}, good : BOOLEAN, sure : BOOLEAN]

Putting == {"put", "again", "save"}

\* The stage of w's request, the call of the store it is in and the arguments
\* of that call belong together; the object a create is about to store is one
\* it has made for its key, with its text as the head.
Tracks(w) ==
  LET j == job[w] IN
  /\ j.op = "none" \/ status # "up" => j = NoJob
  /\ j.stage = "none" => j.op = "none"
  /\ j.stage \in {"none", "reply"} => pc[w] = "idle"
  /\ j.op = "get" => j.stage \in {"load", "reply"} /\ j.id \in Names
  /\ j.op = "create" => j.text \in Inputs
  /\ j.stage = "load" =>
       /\ j.id \in Names /\ pc[w] \in {"idle"} \cup GetSteps
       /\ pc[w] # "idle" => dir[w] = JobDir(j)
  /\ j.stage \in Putting \cup {"delete"} =>
       /\ j.op = "create" /\ Proper(j.obj) /\ Key(j.obj) = JobDir(j) /\ j.obj.head = j.text
       /\ pc[w] # "idle" => dir[w] = JobDir(j)
  /\ j.stage \in Putting =>
       /\ pc[w] \in {"idle"} \cup PutSteps
       /\ pc[w] # "idle" => val[w] = j.obj
  /\ j.stage = "delete" => pc[w] \in {"idle"} \cup RemoveSteps

\* The files hold proper objects, and a link is in its object's directory.
Placed ==
  /\ \A v \in raw : Proper(v)
  /\ \A d \in Dirs : \A v \in link[d] : Key(v) = d

\* A get has its hands on such an object only.
Reads(w) ==
  /\ pc[w] \in {"get_open", "get_size", "get_read"} => val[w] \in raw /\ Key(val[w]) = dir[w]
  /\ pc[w] \in GetSteps => \A v \in res[w] :
       v \in {Empty, Garbage} \/ (v \in raw /\ Key(v) = dir[w])

Tracked ==
  /\ TypeOK /\ Links
  /\ job \in [Workers -> Jobs] /\ log \in [Dirs -> Seq(Inputs)] /\ muddled \subseteq Dirs
  /\ Placed
  /\ \A w \in Workers : Tracks(w) /\ Reads(w)

\* Another worker's request goes on, at most no longer sure of what it reads.
SameJob(x) ==
  \/ job'[x] = job[x]
  \/ job[x].op = "get" /\ job'[x] = [job[x] EXCEPT !.sure = FALSE]

LEMMA JobDirType ==
  ASSUME NEW j \in Jobs, j.id \in Names \/ j.text \in Inputs
  PROVE  JobDir(j) \in Dirs
<1>1. CASE j.id = NoId
  <2>1. j.text \in Inputs  BY <1>1, ServiceAssumption
  <2>2. ContentId[j.text] \in Names  BY <2>1, ServiceAssumption, NamesAssumption
  <2> QED  BY <1>1, <2>2, ValidKey DEF JobDir
<1>2. CASE j.id # NoId
  <2>1. j.id \in Names  BY <1>2 DEF Jobs
  <2> QED  BY <1>2, <2>1, ValidKey DEF JobDir
<1> QED  BY <1>1, <1>2

LEMMA JobDirOfTracked ==
  ASSUME Tracked, NEW w \in Workers, job[w].op # "none"
  PROVE  JobDir(job[w]) \in Dirs
<1>1. job[w] \in Jobs /\ job[w].op \in {"create", "get"}  BY DEF Tracked, Jobs
<1>2. job[w].id \in Names \/ job[w].text \in Inputs  BY <1>1 DEF Tracked, Tracks
<1> QED  BY <1>1, <1>2, JobDirType

LEMMA NoJobType == NoJob \in Jobs
BY DEF NoJob, Jobs

\* Every step of the service is one of the store, or leaves the store alone.
LEMMA ServiceIsStore ==
  ASSUME ObjectsStorable, Tracked, SNext
  PROVE  [Next]_vars
<1>1. ASSUME NEW w \in Workers, CallLoad(w) PROVE Next
  <2>1. job[w].id \in Names  BY <1>1 DEF CallLoad, Stage, Tracked, Tracks
  <2> QED  BY <1>1, <2>1 DEF CallLoad, Next, Calls
<1>2. ASSUME NEW w \in Workers, CallDelete(w) PROVE Next
  <2>1. job[w].obj.id \in Names
    BY <1>2 DEF CallDelete, Stage, Tracked, Tracks, Proper, StoredObjects, ObjectsOver, Ids
  <2> QED  BY <1>2, <2>1 DEF CallDelete, Next, Calls
<1>3. ASSUME NEW w \in Workers, CallStore(w) PROVE Next
  <2>1. Proper(job[w].obj)  BY <1>3 DEF CallStore, Stage, Tracked, Tracks, Putting
  <2>2. job[w].obj.id \in Names /\ job[w].obj \in Values
    BY <2>1 DEF Proper, StoredObjects, ObjectsOver, Ids, ObjectsStorable
  <2> QED  BY <1>3, <2>2 DEF CallStore, Next, Calls
<1>4. ASSUME NEW w \in Workers, (\E time \in Stamps : LoadDone(w, time)) \/ DeleteDone(w)
                                 \/ StoreDone(w)
      PROVE  Next
  BY <1>4 DEF LoadDone, DeleteDone, StoreDone, Next, Finishes
<1>5. ASSUME NEW w \in Workers, StoreStep(w) PROVE Next
  BY <1>5 DEF StoreStep, Next
<1>6. ASSUME NEW w \in Workers,
             \/ \E id \in RequestIds, text \in Inputs, time \in Stamps :
                  ReceiveCreate(w, id, text, time)
             \/ \E id \in RequestIds \ {NoId} : ReceiveGet(w, id)
             \/ Reply(w)
      PROVE  UNCHANGED vars
  BY <1>6 DEF ReceiveCreate, ReceiveGet, Reply
<1>7. CASE SKill  BY <1>7 DEF SKill, Next
<1>8. CASE SRestart  BY <1>8 DEF SRestart, Next
<1> QED  BY <1>1, <1>2, <1>3, <1>4, <1>5, <1>6, <1>7, <1>8 DEF SNext, Handle

\* What the other workers' part of Tracked needs.
LEMMA OthersTracked ==
  ASSUME Tracked, NEW x \in Workers, KeepsCall(x), SameJob(x), status' = status,
         raw \subseteq raw'
  PROVE  Tracks(x)' /\ Reads(x)'
<1>1. Tracks(x) /\ Reads(x) /\ job[x] \in Jobs  BY DEF Tracked
<1>2. Reads(x)'  BY <1>1 DEF Reads, KeepsCall
<1>3. CASE job'[x] = job[x]
  BY <1>1, <1>2, <1>3 DEF Tracks, KeepsCall, JobDir
<1>4. CASE job[x].op = "get" /\ job'[x] = [job[x] EXCEPT !.sure = FALSE]
  <2>1. /\ job'[x].op = "get" /\ job'[x].stage = job[x].stage /\ job'[x].id = job[x].id
        /\ job'[x].text = job[x].text /\ job'[x].obj = job[x].obj
    BY <1>1, <1>4 DEF Jobs
  <2>2. job[x].stage \in {"load", "reply"} /\ status = "up" /\ job[x].id \in Names
    BY <1>1, <1>4 DEF Tracks, NoJob
  <2> QED  BY <1>1, <1>2, <1>4, <2>1, <2>2 DEF Tracks, KeepsCall, JobDir, Putting
<1> QED  BY <1>2, <1>3, <1>4 DEF SameJob

\* A step of one worker keeps Tracked if it does so for that worker.
LEMMA TrackedBy ==
  ASSUME ObjectsStorable, Tracked, SNext, NEW w \in Workers,
         \A x \in Workers \ {w} : KeepsCall(x) /\ SameJob(x),
         status' = status, raw \subseteq raw', Placed',
         job' \in [Workers -> Jobs], log' \in [Dirs -> Seq(Inputs)], muddled' \subseteq Dirs,
         Tracks(w)', Reads(w)'
  PROVE  Tracked'
<1>1. TypeOK' /\ Links'  BY ServiceIsStore, NextType, NextLinks DEF Tracked
<1>2. \A x \in Workers : Tracks(x)' /\ Reads(x)'  BY OthersTracked
<1> QED  BY <1>1, <1>2 DEF Tracked
----------------------------------------------------------------------------
(* Tracked is inductive.                                                    *)

NewJob(id, text) == [NoJob EXCEPT !.op = "create", !.id = id, !.text = text]

LEMMA CreateReceived ==
  ASSUME Tracked, NEW w \in Workers, NEW id \in RequestIds, NEW text \in Inputs,
         NEW time \in Stamps, ReceiveCreate(w, id, text, time)
  PROVE  /\ JobDir(NewJob(id, text)) \in Dirs
         /\ job' \in [Workers -> Jobs] /\ JobDir(job'[w]) = JobDir(NewJob(id, text))
         /\ job'[w].id = id /\ job'[w].text = text /\ job'[w].op = "create"
         /\ id = NoId => job'[w].stage = "put" /\ job'[w].obj = create(text, ContentId[text], time)
         /\ id # NoId => job'[w].stage = "load"
         /\ \A x \in Workers \ {w} :
              job'[x] = IF x \in JobsOn("get", JobDir(NewJob(id, text)))
                          THEN [job[x] EXCEPT !.sure = FALSE] ELSE job[x]
         /\ \A x \in Workers \ {w} : SameJob(x)
<1> DEFINE j == NewJob(id, text)
           o == create(text, ContentId[text], time)
           d == JobDir(j)
<1>1. id \in Names \cup {NoId}  BY ServiceAssumption
<1>2. j \in Jobs /\ j.id = id /\ j.text = text /\ j.op = "create"
  BY <1>1 DEF NoJob, Jobs, NewJob
<1>3. JobDir(j) \in Dirs  BY <1>2, JobDirType
<1>4. ContentId[text] \in Names  BY ServiceAssumption, NamesAssumption
<1>5. o \in StoredObjects  BY <1>4, CreateProper DEF Proper
<1>6. job' = [x \in Workers |->
              IF x = w THEN IF id = NoId THEN [j EXCEPT !.stage = "put", !.obj = o]
                                         ELSE [j EXCEPT !.stage = "load"]
              ELSE IF x \in JobsOn("get", d) THEN [job[x] EXCEPT !.sure = FALSE]
              ELSE job[x]]
  BY DEF ReceiveCreate, NewJob
<1> HIDE DEF j, d, o
<1>7. /\ id = NoId => job'[w] = [j EXCEPT !.stage = "put", !.obj = o]
      /\ id # NoId => job'[w] = [j EXCEPT !.stage = "load"]
  BY <1>6
<1>8. /\ job'[w] \in Jobs /\ job'[w].id = id /\ job'[w].text = text /\ job'[w].op = "create"
      /\ id = NoId => job'[w].stage = "put" /\ job'[w].obj = o
      /\ id # NoId => job'[w].stage = "load"
  BY <1>7, <1>2, <1>5 DEF Jobs
<1>9. ASSUME NEW x \in Workers \ {w} PROVE job'[x] \in Jobs /\ SameJob(x)
  <2>0. job[x] \in Jobs  BY DEF Tracked
  <2>1. CASE x \in JobsOn("get", d)
    <3>1. job'[x] = [job[x] EXCEPT !.sure = FALSE]  BY <1>6, <2>1
    <3>2. job'[x] \in Jobs  BY <2>0, <3>1 DEF Jobs
    <3>3. job[x].op = "get"  BY <2>1 DEF JobsOn
    <3> QED  BY <3>1, <3>2, <3>3 DEF SameJob
  <2>2. CASE x \notin JobsOn("get", d)  BY <1>6, <2>0, <2>2 DEF SameJob
  <2> QED  BY <2>1, <2>2
<1>10. job' \in [Workers -> Jobs]  BY <1>6, <1>8, <1>9
<1>11. JobDir(job'[w]) = JobDir(j)  BY <1>2, <1>8 DEF JobDir
<1>12. \A x \in Workers \ {w} :
         job'[x] = IF x \in JobsOn("get", d) THEN [job[x] EXCEPT !.sure = FALSE] ELSE job[x]
  BY <1>6
<1> QED  BY <1>3, <1>8, <1>9, <1>10, <1>11, <1>12 DEF j, d, o

LEMMA TrackedReceiveCreate ==
  ASSUME ObjectsStorable, Tracked, SNext, NEW w \in Workers, NEW id \in RequestIds,
         NEW text \in Inputs, NEW time \in Stamps, ReceiveCreate(w, id, text, time)
  PROVE  Tracked'
<1>1. UNCHANGED vars /\ log' = log /\ status = "up" /\ job[w] = NoJob
  BY DEF ReceiveCreate
<1> USE DEF vars
<1>2. pc[w] = "idle" /\ pc \in [Workers -> Steps]
  BY <1>1 DEF Tracked, Tracks, NoJob, TypeOK
<1>3. \A x \in Workers : KeepsCall(x)  BY <1>1 DEF KeepsCall
<1>4. /\ job' \in [Workers -> Jobs]
      /\ job'[w].id = id /\ job'[w].text = text /\ job'[w].op = "create"
      /\ id = NoId => job'[w].stage = "put" /\ job'[w].obj = create(text, ContentId[text], time)
      /\ id # NoId => job'[w].stage = "load"
      /\ \A x \in Workers \ {w} : SameJob(x)
  BY CreateReceived
<1>5. Placed'  BY <1>1 DEF Tracked, Placed
<1>6. Reads(w)'  BY <1>1, <1>2 DEF Reads, GetSteps
<1>7. Tracks(w)'
  <2>1. CASE id = NoId
    <3>1. ContentId[text] \in Names  BY ServiceAssumption, NamesAssumption
    <3>2. /\ Proper(job'[w].obj) /\ job'[w].obj.id = ContentId[text]
          /\ job'[w].obj.head = text
      <4>1. Proper(create(text, ContentId[text], time))  BY <3>1, CreateProper
      <4>2. create(text, ContentId[text], time).id = ContentId[text]  BY <3>1, CreateProper
      <4>3. create(text, ContentId[text], time).head = text  BY <3>1, CreateProper
      <4> QED  BY <1>4, <2>1, <4>1, <4>2, <4>3
    <3> QED  BY <1>1, <1>2, <1>4, <2>1, <3>2 DEF Tracks, Key, JobDir, Putting
  <2>2. CASE id # NoId
    <3>1. id \in Names  BY <2>2, ServiceAssumption
    <3> QED  BY <1>1, <1>2, <1>4, <2>2, <3>1 DEF Tracks, Putting
  <2> QED  BY <2>1, <2>2
<1>8. muddled' \subseteq Dirs
  <2>1. muddled' \in {muddled, muddled \cup {JobDir(NewJob(id, text))}}
    BY DEF ReceiveCreate, NewJob
  <2>2. JobDir(NewJob(id, text)) \in Dirs  BY CreateReceived
  <2> QED  BY <2>1, <2>2 DEF Tracked
<1>9. log' \in [Dirs -> Seq(Inputs)] /\ status' = status /\ raw' = raw  BY <1>1 DEF Tracked
<1> QED  BY <1>3, <1>4, <1>5, <1>6, <1>7, <1>8, <1>9, TrackedBy

LEMMA TrackedReceiveGet ==
  ASSUME ObjectsStorable, Tracked, SNext, NEW w \in Workers, NEW id \in RequestIds \ {NoId},
         ReceiveGet(w, id)
  PROVE  Tracked'
<1> DEFINE b == JobsOn("create", validate_key(id)) = {}
           j == [NoJob EXCEPT !.op = "get", !.stage = "load", !.id = id, !.sure = b]
<1>1. UNCHANGED vars /\ log' = log /\ muddled' = muddled /\ status = "up" /\ job[w] = NoJob
      /\ job' = [job EXCEPT ![w] = j]
  BY DEF ReceiveGet
<1> USE DEF vars
<1>0. b \in BOOLEAN  OBVIOUS
<1> HIDE DEF b
<1>2. pc[w] = "idle" /\ id \in Names
  BY <1>1, ServiceAssumption DEF Tracked, Tracks, NoJob
<1>3. j \in Jobs /\ j.op = "get" /\ j.stage = "load" /\ j.id = id
  BY <1>0, <1>2 DEF Jobs, NoJob
<1> HIDE DEF j
<1>4. job' \in [Workers -> Jobs] /\ job'[w] = j /\ \A x \in Workers \ {w} : SameJob(x)
  BY <1>1, <1>3 DEF Tracked, SameJob
<1>5. \A x \in Workers : KeepsCall(x)  BY <1>1 DEF KeepsCall
<1>6. Placed'  BY <1>1 DEF Tracked, Placed
<1>7. Reads(w)'  BY <1>1, <1>2 DEF Reads, GetSteps
<1>8. Tracks(w)'  BY <1>1, <1>2, <1>3, <1>4 DEF Tracks, Putting
<1>9. log' \in [Dirs -> Seq(Inputs)] /\ muddled' \subseteq Dirs /\ status' = status /\ raw' = raw
  BY <1>1 DEF Tracked
<1> QED  BY <1>4, <1>5, <1>6, <1>7, <1>8, <1>9, TrackedBy

\* The handler calls the store.
LEMMA TrackedCall ==
  ASSUME ObjectsStorable, Tracked, SNext, NEW w \in Workers,
         CallLoad(w) \/ CallDelete(w) \/ CallStore(w)
  PROVE  Tracked'
<1>0. Tracks(w) /\ Reads(w) /\ job[w] \in Jobs  BY DEF Tracked
<1>1. /\ UNCHANGED <<disk, proc, job, log, muddled>> /\ status = "up" /\ pc[w] = "idle"
      /\ \A x \in Workers \ {w} : KeepsCall(x)
  <2>1. \A x \in Workers \ {w} : KeepsCall(x)
    BY CallLocal DEF CallLoad, CallDelete, CallStore, Tracked
  <2> QED
    BY <2>1 DEF CallLoad, CallDelete, CallStore, CallGet, CallRemove, CallPut
<1>2. Placed' /\ raw' = raw /\ status' = status  BY <1>1 DEF Tracked, Placed
<1>3. Tracks(w)' /\ Reads(w)'
  <2>1. CASE CallLoad(w)
    <3>1. pc'[w] = "get_isdir" /\ dir'[w] = JobDir(job[w]) /\ res'[w] = {}
          /\ job[w].stage = "load"
      <4>1. job[w].stage = "load"  BY <2>1 DEF CallLoad, Stage
      <4>2. validate_key(job[w].id) = JobDir(job[w])
        BY <1>0, <4>1, ServiceAssumption DEF JobDir, Tracks
      <4> QED  BY <2>1, <4>1, <4>2 DEF CallLoad, CallGet, Tracked, TypeOK
    <3> QED  BY <1>0, <1>1, <3>1 DEF Tracks, Reads, GetSteps, Putting, JobDir
  <2>2. CASE CallDelete(w)
    <3>1. job[w].stage = "delete"  BY <2>2 DEF CallDelete, Stage
    <3>2. pc'[w] = "rm_stat" /\ dir'[w] = Key(job[w].obj)
      BY <2>2 DEF CallDelete, CallRemove, Tracked, TypeOK, Key
    <3> QED  BY <1>0, <1>1, <3>1, <3>2 DEF Tracks, Reads, GetSteps, RemoveSteps, Putting, JobDir
  <2>3. CASE CallStore(w)
    <3>1. job[w].stage \in Putting  BY <2>3 DEF CallStore, Stage, Putting
    <3>2. pc'[w] = "put_rawdir" /\ dir'[w] = Key(job[w].obj) /\ val'[w] = job[w].obj
      BY <2>3 DEF CallStore, CallPut, Tracked, TypeOK, Key
    <3> QED  BY <1>0, <1>1, <3>1, <3>2 DEF Tracks, Reads, GetSteps, PutSteps, Putting, JobDir
  <2> QED  BY <2>1, <2>2, <2>3
<1> QED  BY <1>1, <1>2, <1>3, TrackedBy DEF Tracked, SameJob

\* What a load finds is a proper object of the request's key.
LEMMA LoadedProper ==
  ASSUME ObjectsStorable, Tracked, NEW w \in Workers, Stage(w, {"load"}, "get_done"),
         NEW o \in Loaded(w)
  PROVE  Proper(o) /\ Key(o) = JobDir(job[w]) /\ o \in res[w] /\ ok[w]
<1>1. o \in res[w] /\ o \in StoredObjects /\ ok[w]  BY DEF Loaded
<1>2. o \notin {Empty, Garbage}  BY <1>1, ValuesAssumption DEF ObjectsStorable
<1>3. o \in raw /\ Key(o) = dir[w]  BY <1>1, <1>2 DEF Tracked, Reads, Stage, GetSteps
<1>4. dir[w] = JobDir(job[w])  BY DEF Stage, Tracked, Tracks
<1> QED  BY <1>1, <1>3, <1>4 DEF Tracked, Placed

\* The request after a load: answered, updating what was found, or creating.
LEMMA AfterLoadJob ==
  ASSUME ObjectsStorable, Tracked, NEW w \in Workers, NEW time \in Stamps, LoadDone(w, time)
  PROVE  /\ job[w] \in Jobs /\ job[w].stage = "load" /\ job[w].op \in {"create", "get"}
         /\ job' \in [Workers -> Jobs] /\ \A x \in Workers \ {w} : job'[x] = job[x]
         /\ job'[w].op = job[w].op /\ job'[w].id = job[w].id /\ job'[w].sure = job[w].sure
         /\ job[w].op = "create" => job[w].text \in Inputs /\ job'[w].text = job[w].text
         /\ job[w].op = "get" /\ Loaded(w) = {} =>
              job'[w].stage = "reply" /\ job'[w].text = NoText
         /\ job[w].op = "get" /\ Loaded(w) # {} =>
              job'[w].stage = "reply" /\ \E o \in Loaded(w) : job'[w].text = o.head
         /\ job[w].op = "create" /\ Loaded(w) = {} =>
              job'[w].stage = "put" /\ job'[w].obj = create(job[w].text, job[w].id, time)
         /\ job[w].op = "create" /\ Loaded(w) # {} =>
              /\ job'[w].stage = "delete"
              /\ \E o \in Loaded(w) : job'[w].obj = update_object(o, job[w].text, time)
<1> DEFINE j == job[w]
           found == Loaded(w) # {}
           loaded == CHOOSE o \in Loaded(w) : TRUE
           k == AfterLoad(j, found, loaded, time)
<1>1. /\ Stage(w, {"load"}, "get_done") /\ j \in Jobs /\ j.stage = "load"
      /\ job' = [job EXCEPT ![w] = k]
  BY DEF LoadDone, Tracked, Stage
<1>2. j.op \in {"create", "get"} /\ j.id \in Names /\ (j.op = "create" => j.text \in Inputs)
  <2>1. Tracks(w)  BY DEF Tracked
  <2>2. j.op # "none"  BY <1>1, <2>1 DEF Tracks, NoJob
  <2> QED  BY <1>1, <2>1, <2>2 DEF Tracks, Jobs
<1>3. found => loaded \in Loaded(w) /\ Proper(loaded)
  <2>1. found => loaded \in Loaded(w)  OBVIOUS
  <2> HIDE DEF found, loaded
  <2> QED  BY <2>1, <1>1, LoadedProper
<1> HIDE DEF loaded
<1>4. CASE j.op = "get"
  <2> DEFINE t == IF found THEN loaded.head ELSE NoText
  <2>1. t \in Inputs \cup {NoText} /\ (found => t = loaded.head) /\ (~found => t = NoText)
    BY <1>3 DEF Proper
  <2>2. k = [j EXCEPT !.stage = "reply", !.good = found, !.text = t]
    BY <1>4 DEF AfterLoad, Answer
  <2>3. found \in BOOLEAN  OBVIOUS
  <2> HIDE DEF t, found, k, j
  <2>4. /\ k \in Jobs /\ k.op = j.op /\ k.id = j.id /\ k.sure = j.sure
        /\ k.stage = "reply" /\ k.text = t
    BY <2>1, <2>2, <2>3, <1>1 DEF Jobs
  <2>5. job' \in [Workers -> Jobs] /\ job'[w] = k /\ \A x \in Workers \ {w} : job'[x] = job[x]
    BY <1>1, <2>4 DEF Tracked
  <2> QED  BY <1>1, <1>2, <1>3, <1>4, <2>1, <2>4, <2>5 DEF found, j
<1>5. CASE j.op = "create" /\ ~found
  <2> DEFINE o == create(j.text, j.id, time)
  <2>1. k = [j EXCEPT !.stage = "put", !.obj = o]  BY <1>5 DEF AfterLoad, Create
  <2>2. o \in StoredObjects  BY <1>2, <1>5, CreateProper DEF Proper
  <2> HIDE DEF o, k, j
  <2>3. /\ k \in Jobs /\ k.op = j.op /\ k.id = j.id /\ k.sure = j.sure /\ k.text = j.text
        /\ k.stage = "put" /\ k.obj = o
    BY <2>1, <2>2, <1>1 DEF Jobs
  <2>4. job' \in [Workers -> Jobs] /\ job'[w] = k /\ \A x \in Workers \ {w} : job'[x] = job[x]
    BY <1>1, <2>3 DEF Tracked
  <2> QED  BY <1>1, <1>2, <1>5, <2>3, <2>4 DEF o, j
<1>6. CASE j.op = "create" /\ found
  <2> DEFINE o == update_object(loaded, j.text, time)
  <2>1. k = [j EXCEPT !.stage = "delete", !.obj = o]  BY <1>6 DEF AfterLoad, Update
  <2>2. <<>> \in Seq(Inputs)  OBVIOUS
  <2>3. o \in StoredObjects  BY <1>2, <1>3, <1>6, <2>2, UpdateProper DEF Proper
  <2> HIDE DEF o, k, j
  <2>4. /\ k \in Jobs /\ k.op = j.op /\ k.id = j.id /\ k.sure = j.sure /\ k.text = j.text
        /\ k.stage = "delete" /\ k.obj = o
    BY <2>1, <2>3, <1>1 DEF Jobs
  <2>5. job' \in [Workers -> Jobs] /\ job'[w] = k /\ \A x \in Workers \ {w} : job'[x] = job[x]
    BY <1>1, <2>4 DEF Tracked
  <2> QED  BY <1>1, <1>2, <1>3, <1>6, <2>4, <2>5 DEF o, j
<1> QED  BY <1>2, <1>4, <1>5, <1>6

LEMMA TrackedLoadDone ==
  ASSUME ObjectsStorable, Tracked, SNext, NEW w \in Workers, NEW time \in Stamps,
         LoadDone(w, time)
  PROVE  Tracked'
<1>0. Tracks(w) /\ Stage(w, {"load"}, "get_done") /\ Return(w) /\ UNCHANGED <<log, muddled>>
  BY DEF Tracked, LoadDone
<1>1. /\ UNCHANGED <<disk, proc>> /\ status = "up" /\ pc'[w] = "idle"
      /\ \A x \in Workers \ {w} : KeepsCall(x)
  <2>1. \A x \in Workers \ {w} : KeepsCall(x)  BY <1>0, CallLocal DEF Tracked
  <2> QED  BY <1>0, <2>1 DEF Return, Tracked, TypeOK
<1>2. Placed' /\ raw' = raw /\ status' = status  BY <1>1 DEF Tracked, Placed
<1>3. Reads(w)'  BY <1>1 DEF Reads, GetSteps
<1>4. job' \in [Workers -> Jobs] /\ \A x \in Workers \ {w} : SameJob(x)
  BY AfterLoadJob DEF SameJob
<1>5. job[w].id \in Names /\ JobDir(job[w]) = validate_key(job[w].id)
      /\ job'[w].id = job[w].id /\ JobDir(job'[w]) = validate_key(job[w].id)
  <2>1. job[w].id \in Names  BY <1>0 DEF Tracks, Stage
  <2>2. job'[w].id = job[w].id  BY AfterLoadJob
  <2> QED  BY <2>1, <2>2, ServiceAssumption DEF JobDir
<1>6. Tracks(w)'
  <2>1. CASE job[w].op = "get"
    <3>1. job'[w].stage = "reply" /\ job'[w].op = "get"  BY <2>1, AfterLoadJob
    <3> QED  BY <1>1, <1>5, <3>1 DEF Tracks, Putting
  <2>2. CASE job[w].op = "create" /\ Loaded(w) = {}
    <3>1. /\ job'[w].stage = "put" /\ job'[w].op = "create" /\ job[w].text \in Inputs
          /\ job'[w].text = job[w].text
          /\ job'[w].obj = create(job[w].text, job[w].id, time)
      BY <2>2, AfterLoadJob
    <3>2. /\ Proper(job'[w].obj) /\ job'[w].obj.id = job[w].id
          /\ job'[w].obj.head = job[w].text
      <4> DEFINE o == create(job[w].text, job[w].id, time)
      <4>1. Proper(o) /\ o.id = job[w].id /\ o.head = job[w].text
        BY <3>1, <1>5, CreateProper
      <4> HIDE DEF o
      <4> QED  BY <3>1, <4>1 DEF o
    <3> QED  BY <1>1, <1>5, <3>1, <3>2 DEF Tracks, Putting, Key
  <2>3. CASE job[w].op = "create" /\ Loaded(w) # {}
    <3>1. /\ job'[w].stage = "delete" /\ job'[w].op = "create" /\ job[w].text \in Inputs
          /\ job'[w].text = job[w].text
      BY <2>3, AfterLoadJob
    <3>2. PICK o \in Loaded(w) : job'[w].obj = update_object(o, job[w].text, time)
      BY <2>3, AfterLoadJob
    <3>3. Proper(o) /\ Key(o) = JobDir(job[w])  BY <1>0, LoadedProper
    <3>4. <<>> \in Seq(Inputs)  OBVIOUS
    <3>5. Proper(job'[w].obj) /\ job'[w].obj.id = o.id /\ job'[w].obj.head = job[w].text
      <4> DEFINE u == update_object(o, job[w].text, time)
      <4>1. Proper(u)  BY <3>1, <3>3, <3>4, UpdateProper
      <4>2. u.id = o.id  BY <3>1, <3>3, <3>4, UpdateProper
      <4>3. u.head = job[w].text  BY <3>1, <3>3, <3>4, UpdateProper
      <4> HIDE DEF u
      <4> QED  BY <3>2, <4>1, <4>2, <4>3 DEF u
    <3> QED  BY <1>1, <1>5, <3>1, <3>3, <3>5 DEF Tracks, Putting, Key
  <2> QED  BY <2>1, <2>2, <2>3, AfterLoadJob
<1> QED  BY <1>0, <1>1, <1>2, <1>3, <1>4, <1>6, TrackedBy DEF Tracked

\* A removal or a put is over.
LEMMA TrackedStoreDone ==
  ASSUME ObjectsStorable, Tracked, SNext, NEW w \in Workers, DeleteDone(w) \/ StoreDone(w)
  PROVE  Tracked'
<1>0. Tracks(w) /\ job[w] \in Jobs /\ ok[w] \in BOOLEAN /\ UNCHANGED <<log, muddled>>
  BY DEF Tracked, TypeOK, DeleteDone, StoreDone
<1>1. /\ UNCHANGED <<disk, proc>> /\ status = "up" /\ pc'[w] = "idle"
      /\ \A x \in Workers \ {w} : KeepsCall(x)
  <2>1. \A x \in Workers \ {w} : KeepsCall(x)
    BY CallLocal DEF DeleteDone, StoreDone, Tracked
  <2> QED  BY <2>1 DEF DeleteDone, StoreDone, Return, PutReturn, Tracked, TypeOK
<1>2. Placed' /\ raw' = raw /\ status' = status  BY <1>1 DEF Tracked, Placed
<1>3. Reads(w)'  BY <1>1 DEF Reads, GetSteps
<1>4. /\ job[w].stage \in Putting \cup {"delete"} /\ job' \in [Workers -> Jobs]
      /\ \A x \in Workers \ {w} : job'[x] = job[x]
      /\ job'[w].stage \in {"save", "again", "reply"} /\ job'[w].op = job[w].op
      /\ job'[w].id = job[w].id /\ job'[w].text = job[w].text /\ job'[w].obj = job[w].obj
  <2>1. CASE DeleteDone(w)
    <3>1. job[w].stage = "delete" /\ job' = [job EXCEPT ![w].stage = IF ok[w] THEN "save" ELSE "reply"]
      BY <2>1 DEF DeleteDone, Stage
    <3> QED  BY <1>0, <3>1 DEF Tracked, Jobs
  <2>2. CASE StoreDone(w)
    <3> DEFINE k == IF job[w].stage = "put" THEN [job[w] EXCEPT !.stage = "again"]
                      ELSE [job[w] EXCEPT !.stage = "reply", !.good = ok[w]]
    <3>1. job[w].stage \in Putting /\ job' = [job EXCEPT ![w] = k]
      BY <2>2 DEF StoreDone, Stage, Putting
    <3>2. k \in Jobs /\ k.stage \in {"save", "again", "reply"} /\ k.op = job[w].op
          /\ k.id = job[w].id /\ k.text = job[w].text /\ k.obj = job[w].obj
      BY <1>0 DEF Jobs
    <3> HIDE DEF k
    <3> QED  BY <3>1, <3>2 DEF Tracked
  <2> QED  BY <2>1, <2>2
<1>5. Tracks(w)'
  BY <1>0, <1>1, <1>4 DEF Tracks, Putting, JobDir
<1> QED  BY <1>0, <1>1, <1>2, <1>3, <1>4, <1>5, TrackedBy DEF Tracked, SameJob

LEMMA TrackedReply ==
  ASSUME ObjectsStorable, Tracked, SNext, NEW w \in Workers, Reply(w)
  PROVE  Tracked'
<1>0. Tracks(w) /\ job[w] \in Jobs /\ UNCHANGED vars /\ status = "up" /\ pc[w] = "idle"
      /\ job[w].stage = "reply" /\ job' = [job EXCEPT ![w] = NoJob]
  BY DEF Tracked, Reply, Stage
<1> USE DEF vars
<1>1. Placed' /\ raw' = raw /\ status' = status  BY <1>0 DEF Tracked, Placed
<1>2. Reads(w)'  BY <1>0 DEF Reads, GetSteps
<1>3. job' \in [Workers -> Jobs] /\ job'[w] = NoJob /\ \A x \in Workers \ {w} : SameJob(x)
  BY <1>0, NoJobType DEF Tracked, SameJob
<1>4. \A x \in Workers \ {w} : KeepsCall(x)  BY <1>0 DEF KeepsCall
<1>5. Tracks(w)'  BY <1>0, <1>3 DEF Tracks, Putting, NoJob
<1>6. log' \in [Dirs -> Seq(Inputs)] /\ muddled' \subseteq Dirs
  <2>1. CASE job[w].op = "get"  BY <2>1 DEF Reply, Tracked
  <2>2. CASE job[w].op # "get"
    <3>1. job[w].op = "create" /\ job[w].text \in Inputs
      BY <1>0, <2>2 DEF Tracks, Jobs, NoJob
    <3>2. JobDir(job[w]) \in Dirs  BY <3>1, JobDirOfTracked
    <3>3. /\ log' = log \/ log' = [log EXCEPT ![JobDir(job[w])] = Append(@, job[w].text)]
          /\ muddled' \in {muddled, muddled \cup {JobDir(job[w])}}
      BY <2>2 DEF Reply
    <3>4. Append(log[JobDir(job[w])], job[w].text) \in Seq(Inputs)
      BY <3>1, <3>2 DEF Tracked
    <3> QED  BY <3>2, <3>3, <3>4 DEF Tracked
  <2> QED  BY <2>1, <2>2
<1> QED  BY <1>1, <1>2, <1>3, <1>4, <1>5, <1>6, TrackedBy

\* The call a worker is in tells the stage of its request.
LEMMA StageOfCall ==
  ASSUME Tracked, NEW w \in Workers
  PROVE  /\ pc[w] \in PutSteps =>
              /\ job[w].stage \in Putting /\ job[w].op = "create"
              /\ val[w] = job[w].obj /\ Proper(val[w]) /\ Key(val[w]) = dir[w]
         /\ pc[w] \in GetSteps => job[w].stage = "load"
         /\ pc[w] \in RemoveSteps => job[w].stage = "delete" /\ job[w].op = "create"
         /\ pc[w] # "idle" => dir[w] = JobDir(job[w]) /\ dir[w] \in Dirs /\ job[w].op # "none"
                              /\ job[w].op \in {"create", "get"}
<1>1. Tracks(w) /\ job[w] \in Jobs /\ pc[w] \in Steps  BY DEF Tracked, TypeOK
<1>2. job[w].stage \in {"none", "load", "put", "again", "delete", "save", "reply"}
  BY <1>1 DEF Jobs
<1>3. pc[w] \in PutSteps => job[w].stage \in Putting
  BY <1>1, <1>2 DEF Tracks, Putting, PutSteps, GetSteps, RemoveSteps
<1>4. pc[w] \in GetSteps => job[w].stage = "load"
  BY <1>1, <1>2 DEF Tracks, Putting, PutSteps, GetSteps, RemoveSteps
<1>5. pc[w] \in RemoveSteps => job[w].stage = "delete"
  BY <1>1, <1>2 DEF Tracks, Putting, PutSteps, GetSteps, RemoveSteps
<1>6. pc[w] \in PutSteps \cup RemoveSteps => job[w].op = "create"
  BY <1>1, <1>3, <1>5 DEF Tracks
<1>7. ASSUME pc[w] \in PutSteps
      PROVE  val[w] = job[w].obj /\ Proper(val[w]) /\ Key(val[w]) = dir[w]
  <2>1. pc[w] # "idle"  BY <1>7 DEF PutSteps
  <2> QED  BY <1>1, <1>3, <1>7, <2>1 DEF Tracks
<1>8. ASSUME pc[w] # "idle"
      PROVE  dir[w] = JobDir(job[w]) /\ job[w].op # "none" /\ dir[w] \in Dirs
             /\ job[w].op \in {"create", "get"}
  <2>1. job[w].stage \notin {"none", "reply"}  BY <1>1, <1>8 DEF Tracks
  <2>2. job[w].op # "none"  BY <1>1, <2>1 DEF Tracks, NoJob
  <2>3. dir[w] = JobDir(job[w])  BY <1>1, <1>2, <1>8, <2>1 DEF Tracks, Putting
  <2> QED  BY <1>1, <2>2, <2>3 DEF Tracked, TypeOK, Jobs
<1> QED  BY <1>3, <1>4, <1>5, <1>6, <1>7, <1>8

LEMMA ReadsGetStep ==
  ASSUME Tracked, NEW w \in Workers,
         GetIsDir(w) \/ GetIter(w) \/ GetOpen(w) \/ GetSize(w) \/ GetRead(w)
  PROVE  Reads(w)'
<1>0. Reads(w) /\ TypeOK  BY DEF Tracked
<1> USE DEF Reads, GetSteps, TypeOK
<1>1. CASE GetIsDir(w)  BY <1>0, <1>1 DEF GetIsDir
<1>2. CASE GetIter(w)
  <2>1. ASSUME NEW v \in link[dir[w]], val' = [val EXCEPT ![w] = v], Goto(w, "get_open"),
               UNCHANGED <<disk, dir, size, todo, res, proc, hist>>, pc[w] = "get_iter"
        PROVE  Reads(w)'
    <3>1. v \in raw /\ Key(v) = dir[w]
      BY <1>0, <2>1 DEF Tracked, Links, NoDanglingLink, Placed
    <3> QED  BY <1>0, <2>1, <3>1
  <2>2. ASSUME UNCHANGED <<disk, dir, val, res>>, pc[w] = "get_iter", pc'[w] = "get_done"
        PROVE  Reads(w)'
    BY <1>0, <2>2
  <2> QED  BY <1>0, <1>2, <2>1, <2>2 DEF GetIter
<1>3. CASE GetOpen(w)  BY <1>0, <1>3 DEF GetOpen
<1>4. CASE GetSize(w)
  <2>1. CASE EntryOpens(w)  BY <1>0, <1>4, <2>1 DEF GetSize
  <2>2. CASE ~EntryOpens(w)  BY <1>0, <1>4, <2>2 DEF GetSize
  <2> QED  BY <2>1, <2>2
<1>5. CASE GetRead(w)
  <2>1. /\ res'[w] = {IF ~size[w] THEN Empty ELSE IF val[w] \in torn THEN Garbage ELSE val[w]}
        /\ pc'[w] = "get_done" /\ UNCHANGED <<disk, dir, val>> /\ pc[w] = "get_read"
    BY <1>0, <1>5 DEF GetRead
  <2> QED  BY <1>0, <2>1
<1> QED  BY <1>1, <1>2, <1>3, <1>4, <1>5

LEMMA TrackedStoreStep ==
  ASSUME ObjectsStorable, Tracked, SNext, NEW w \in Workers, StoreStep(w), status' = "up"
  PROVE  Tracked'
<1>1. Step(w) /\ UNCHANGED <<job, log, muddled>>  BY DEF StoreStep
<1>2. /\ status = "up" /\ pc[w] # "idle"
      /\ PutShape(w) \/ GetShape(w) \/ RemoveShape(w)
      /\ \A x \in Workers \ {w} : KeepsCall(x)
  BY <1>1, StepShape DEF Tracked
<1>3. Tracks(w) /\ job[w] \in Jobs  BY DEF Tracked
<1>4. dir[w] \in Dirs  BY <1>2, StageOfCall
<1>5. CASE PutShape(w)
  <2>1. /\ job[w].stage \in Putting /\ job[w].op = "create" /\ val[w] = job[w].obj
        /\ Proper(val[w]) /\ Key(val[w]) = dir[w]
    BY <1>5, StageOfCall DEF PutShape
  <2>2. Placed'
    <3>1. \A v \in raw' : Proper(v)  BY <1>5, <2>1 DEF PutShape, Tracked, Placed
    <3>2. ASSUME NEW d \in Dirs, NEW v \in link'[d] PROVE Key(v) = d
      BY <1>4, <1>5, <2>1 DEF PutShape, Tracked, Placed
    <3> QED  BY <3>1, <3>2 DEF Placed
  <2>3. Reads(w)'  BY <1>5 DEF PutShape, Reads, PutSteps, GetSteps
  <2>4. Tracks(w)'
    BY <1>1, <1>2, <1>3, <1>5, <2>1 DEF Tracks, PutShape, JobDir, Putting
  <2>5. raw \subseteq raw'  BY <1>5 DEF PutShape
  <2> QED  BY <1>1, <1>2, <2>2, <2>3, <2>4, <2>5, TrackedBy DEF Tracked, SameJob
<1>6. CASE GetShape(w)
  <2>1. job[w].stage = "load"  BY <1>6, StageOfCall DEF GetShape
  <2>2. Placed' /\ raw' = raw  BY <1>6 DEF GetShape, Tracked, Placed
  <2>3. Reads(w)'
    <3>1. GetIsDir(w) \/ GetIter(w) \/ GetOpen(w) \/ GetSize(w) \/ GetRead(w)
      BY <1>1, <1>6
         DEF Step, GetShape, GetSteps, PutRawDir, PutMkRaw, PutOpen, PutOpenFails, PutWrite, PutLinkDir,
             PutMkLink, PutExists, PutSymlink, RemoveStat, RemoveOpenDir, RemoveEntry,
             RemoveDir, RemoveAgain, RemoveHandEntry, RemoveHandDir
    <3> QED  BY <3>1, ReadsGetStep
  <2>4. Tracks(w)'
    BY <1>1, <1>2, <1>3, <1>6, <2>1 DEF Tracks, GetShape, JobDir, Putting
  <2> QED  BY <1>1, <1>2, <2>2, <2>3, <2>4, TrackedBy DEF Tracked, SameJob
<1>7. CASE RemoveShape(w)
  <2>1. job[w].stage = "delete" /\ job[w].op = "create"
    BY <1>7, StageOfCall DEF RemoveShape
  <2>2. Placed' /\ raw' = raw
    <3>1. ASSUME NEW d \in Dirs, NEW v \in link'[d] PROVE Key(v) = d
      BY <1>4, <1>7 DEF RemoveShape, Tracked, Placed
    <3> QED  BY <1>7, <3>1 DEF RemoveShape, Tracked, Placed
  <2>3. Reads(w)'  BY <1>7 DEF RemoveShape, Reads, RemoveSteps, GetSteps
  <2>4. Tracks(w)'
    BY <1>1, <1>2, <1>3, <1>7, <2>1 DEF Tracks, RemoveShape, JobDir, Putting
  <2> QED  BY <1>1, <1>2, <2>2, <2>3, <2>4, TrackedBy DEF Tracked, SameJob
<1> QED  BY <1>2, <1>5, <1>6, <1>7

\* The process goes down, by itself or killed.
LEMMA DownShape ==
  ASSUME Tracked, (\E w \in Workers : StoreStep(w) /\ status' # "up") \/ SKill
  PROVE  /\ status = "up" /\ status' # "up" /\ Lose /\ UNCHANGED <<disk, log>>
         /\ pc' = [w \in Workers |-> "idle"] /\ res' = [w \in Workers |-> {}]
<1>1. CASE SKill  BY <1>1 DEF SKill, Kill, GoDown
<1>2. ASSUME NEW w \in Workers, StoreStep(w), status' # "up"
      PROVE  status = "up" /\ Lose /\ log' = log /\ Abort
  <2>1. Step(w) /\ Lose /\ log' = log  BY <1>2 DEF StoreStep
  <2>2. Abort /\ status = "up"
    BY <1>2, <2>1
       DEF Step, PutRawDir, PutMkRaw, PutOpen, PutOpenFails, PutWrite, PutLinkDir, PutMkLink, PutExists,
           PutSymlink, GetIsDir, GetIter, GetOpen, GetSize, GetRead, RemoveStat,
           RemoveOpenDir, RemoveEntry, RemoveDir, RemoveAgain, RemoveHandEntry, RemoveHandDir
  <2> QED  BY <2>1, <2>2
<1> QED  BY <1>1, <1>2 DEF Abort, GoDown

LEMMA TrackedDown ==
  ASSUME ObjectsStorable, Tracked, SNext,
         (\E w \in Workers : StoreStep(w) /\ status' # "up") \/ SKill
  PROVE  Tracked'
<1>1. /\ status' # "up" /\ Lose /\ UNCHANGED <<disk, log>>
      /\ pc' = [w \in Workers |-> "idle"] /\ res' = [w \in Workers |-> {}]
  BY DownShape
<1>2. TypeOK' /\ Links'  BY ServiceIsStore, NextType, NextLinks DEF Tracked
<1>3. job' = [w \in Workers |-> NoJob]  BY <1>1 DEF Lose
<1>4. muddled' \subseteq Dirs
  <2>1. \A w \in Workers : job[w].op = "create" => JobDir(job[w]) \in Dirs
    BY JobDirOfTracked
  <2> QED  BY <1>1, <2>1 DEF Lose, Tracked
<1>5. job' \in [Workers -> Jobs]  BY <1>3, NoJobType
<1>6. Placed'  BY <1>1 DEF Tracked, Placed
<1>7. ASSUME NEW w \in Workers PROVE Tracks(w)' /\ Reads(w)'
  BY <1>1, <1>3 DEF Tracks, Reads, NoJob, Putting, GetSteps
<1> QED  BY <1>1, <1>2, <1>4, <1>5, <1>6, <1>7 DEF Tracked

LEMMA TrackedRestart ==
  ASSUME ObjectsStorable, Tracked, SNext, SRestart
  PROVE  Tracked'
<1>1. status # "up" /\ status' = "up" /\ UNCHANGED <<disk, pc, call, job, log, muddled>>
  BY DEF SRestart, Restart
<1>2. TypeOK' /\ Links'  BY ServiceIsStore, NextType, NextLinks DEF Tracked
<1>3. \A w \in Workers : job[w] = NoJob /\ Tracks(w) /\ Reads(w)
  BY <1>1 DEF Tracked, Tracks
<1>4. Placed'  BY <1>1 DEF Tracked, Placed
<1>5. ASSUME NEW w \in Workers PROVE Tracks(w)' /\ Reads(w)'
  <2>1. Reads(w)'  BY <1>1, <1>3 DEF Reads
  <2>2. job'[w] = NoJob /\ pc'[w] = pc[w]  BY <1>1, <1>3
  <2>3. Tracks(w)'  BY <1>1, <1>3, <2>2 DEF Tracks, NoJob, Putting
  <2> QED  BY <2>1, <2>3
<1> QED  BY <1>1, <1>2, <1>4, <1>5 DEF Tracked

LEMMA TrackedInitially == SInit => Tracked
<1> SUFFICES ASSUME SInit PROVE Tracked  OBVIOUS
<1>1. Init /\ job = [w \in Workers |-> NoJob] /\ log = [d \in Dirs |-> <<>>] /\ muddled = {}
  BY DEF SInit
<1>2. TypeOK /\ Links  BY <1>1, InitType DEF Init, Links, NoDanglingLink, BlockBeforeLink
<1>3. Placed  BY <1>1 DEF Init, Placed
<1>4. \A w \in Workers : Tracks(w) /\ Reads(w)
  BY <1>1 DEF Init, Tracks, Reads, NoJob, Putting, GetSteps
<1> QED  BY <1>1, <1>2, <1>3, <1>4, NoJobType DEF Tracked

LEMMA TrackedInductive == ObjectsStorable /\ Tracked /\ [SNext]_svars => Tracked'
<1> SUFFICES ASSUME ObjectsStorable, Tracked, [SNext]_svars PROVE Tracked'
  OBVIOUS
<1>1. CASE UNCHANGED svars
  <2>1. UNCHANGED <<disk, pc, call, proc, hist, job, log, muddled>>
    BY <1>1 DEF svars, vars
  <2>2. TypeOK' /\ Links'
    BY <2>1, NextType, NextLinks DEF Tracked, vars
  <2>3. Placed'  BY <2>1 DEF Tracked, Placed
  <2>4. \A w \in Workers : KeepsCall(w) /\ SameJob(w)  BY <2>1 DEF KeepsCall, SameJob
  <2>5. \A w \in Workers : Tracks(w)' /\ Reads(w)'  BY <2>1, <2>4, OthersTracked
  <2> QED  BY <2>1, <2>2, <2>3, <2>5 DEF Tracked
<1>2. CASE SNext
  <2>1. ASSUME NEW w \in Workers,
               \/ \E id \in RequestIds, text \in Inputs, time \in Stamps :
                    ReceiveCreate(w, id, text, time)
               \/ \E id \in RequestIds \ {NoId} : ReceiveGet(w, id)
               \/ Handle(w) \/ StoreStep(w)
        PROVE  Tracked'
    BY <1>2, <2>1, TrackedReceiveCreate, TrackedReceiveGet, TrackedCall, TrackedLoadDone,
       TrackedStoreDone, TrackedReply, TrackedStoreStep, TrackedDown
       DEF Handle
  <2> QED  BY <1>2, <2>1, TrackedDown, TrackedRestart DEF SNext
<1> QED  BY <1>1, <1>2

LEMMA TrackedAlways ==
  ASSUME ObjectsStorable
  PROVE  SSpec => []Tracked
BY TrackedInitially, TrackedInductive, PTL DEF SSpec

\* Whatever requests arrive and wherever the process dies, the state of the RPC
\* workers, of the objects they carry and of the store below them is well
\* formed: every request is at a stage its handler has, with a text and an
\* object of the kind that stage needs.
THEOREM ServiceTyped ==
  ASSUME ObjectsStorable
  PROVE  SSpec => []STypeOK
<1>1. Tracked => STypeOK  BY DEF Tracked, STypeOK, Jobs
<1> QED  BY <1>1, TrackedAlways, PTL
----------------------------------------------------------------------------
(* What a key holds.                                                        *)

\* Between creates, key d holds the texts acknowledged for it: one object that
\* replays to them, or nothing.
Holds(d) ==
  IF log[d] = <<>> THEN link[d] = {}
  ELSE \E o \in link[d] : link[d] = {o} /\ Records(o, log[d])

\* A kv_get of w that nobody disturbs finds what is linked under d, ...
GetOK(w, d) ==
  /\ pc[w] \in {"get_open", "get_size", "get_read"} => val[w] \in link[d]
  /\ pc[w] = "get_read" => size[w]
  /\ pc[w] \in GetSteps \ {"get_done"} => res[w] = {}
  /\ pc[w] = "get_done" => res[w] = link[d] /\ (link[d] # {} => ok[w])

\* ... a kv_put still finds at each step what it found at the step before, ...
PutOK(w, d) ==
  /\ pc[w] = "put_mkraw" => val[w] \notin rawDirs
  /\ pc[w] = "put_mklink" => d \notin linkDirs
  /\ pc[w] \in {"put_exists", "put_symlink"} => d \in linkDirs
  /\ pc[w] = "put_symlink" => val[w] \notin link[d]
  /\ pc[w] = "put_done" /\ ok[w] => link[d] = {job[w].obj}

\* ... and a kv_remove finds the key's directory, with what it listed in it,
\* which is not the object that is about to be put there.
RemoveOK(w, d) ==
  /\ pc[w] \in {"idle", "rm_stat", "rm_opendir", "rm_entry", "rm_done"}
  /\ pc[w] \in {"idle", "rm_stat", "rm_opendir"} => Holds(d)
  /\ pc[w] = "rm_entry" => link[d] = todo[w] /\ job[w].obj \notin link[d]
  /\ pc[w] = "rm_done" => ok[w] /\ link[d] = {}

\* What key d holds while w, and nobody else, creates or updates it.
Progress(w, d) ==
  LET j == job[w] IN
  /\ j.stage = "load" => Holds(d) /\ GetOK(w, d)
  /\ j.stage # "load" => Records(j.obj, Append(log[d], j.text))
  /\ j.stage = "delete" => log[d] # <<>> /\ RemoveOK(w, d)
  /\ j.stage \in {"put", "again"} => log[d] = <<>>
  /\ j.stage \in {"put", "save"} =>
       PutOK(w, d) /\ (pc[w] # "put_done" \/ ~ok[w] => link[d] = {})
  /\ j.stage = "again" => PutOK(w, d) /\ link[d] \in {{}, {j.obj}}
  /\ j.stage = "reply" /\ j.good => link[d] = {j.obj}

\* An object of key d is incomplete only while w writes it.
TornIn(w, d) == \A v \in torn : Key(v) = d => pc[w] = "put_write" /\ val[w] = v

DirInv(d) ==
  /\ \A w, x \in JobsOn("create", d) : w = x
  /\ JobsOn("create", d) = {} => Holds(d) /\ \A v \in torn : Key(v) # d
  /\ \A w \in JobsOn("create", d) : Progress(w, d) /\ TornIn(w, d)

\* A get that no create has overlapped so far.
SureInv(w) ==
  LET j == job[w]
      d == JobDir(j) IN
  j.op = "get" /\ j.sure =>
    /\ JobsOn("create", d) = {}
    /\ d \notin muddled =>
         /\ j.stage = "load" => GetOK(w, d)
         /\ j.stage = "reply" => j.text = IF log[d] = <<>> THEN NoText ELSE Last(log[d])

Served ==
  /\ \A d \in Dirs \ muddled : DirInv(d)
  /\ \A w \in Workers : SureInv(w)

\* Directory d, and the files of its objects, are as they were.
KeepsDir(d) ==
  /\ link'[d] = link[d] /\ (d \in linkDirs' <=> d \in linkDirs)
  /\ \A v : Key(v) = d => (v \in torn' <=> v \in torn) /\ (v \in rawDirs' <=> v \in rawDirs)

LEMMA KeepsDirDisk == UNCHANGED disk => \A d : KeepsDir(d)
BY DEF KeepsDir

\* A step of the store concerns the key of its request only.
LEMMA StepKeepsDirs ==
  ASSUME Tracked, NEW w \in Workers, Step(w), status' = "up", NEW d \in Dirs,
         d # JobDir(job[w]) \/ job[w].op # "create"
  PROVE  KeepsDir(d)
<1>1. /\ pc[w] # "idle"
      /\ PutShape(w) \/ GetShape(w) \/ RemoveShape(w)
  BY StepShape DEF Tracked
<1>2. dir[w] = JobDir(job[w])  BY <1>1, StageOfCall
<1>3. CASE PutShape(w)
  <2>1. job[w].op = "create" /\ Key(val[w]) = dir[w]  BY <1>3, StageOfCall DEF PutShape
  <2>2. d # dir[w]  BY <1>2, <2>1
  <2>3. \A v : Key(v) = d => v # val[w]  BY <2>1, <2>2
  <2> QED  BY <1>3, <2>2, <2>3 DEF PutShape, KeepsDir
<1>4. CASE GetShape(w)  BY <1>4 DEF GetShape, KeepsDir
<1>5. CASE RemoveShape(w)
  <2>1. job[w].op = "create"  BY <1>5, StageOfCall DEF RemoveShape
  <2>2. d # dir[w]  BY <1>2, <2>1
  <2> QED  BY <1>5, <2>2 DEF RemoveShape, KeepsDir
<1> QED  BY <1>1, <1>3, <1>4, <1>5

LEMMA HoldsSame ==
  ASSUME NEW d, KeepsDir(d), log'[d] = log[d]
  PROVE  Holds(d)' <=> Holds(d)
BY DEF Holds, KeepsDir, Records

\* The creates on d are as they were.
KeepsCreates(d) ==
  /\ JobsOn("create", d)' = JobsOn("create", d)
  /\ \A w \in JobsOn("create", d) : KeepsCall(w) /\ job'[w] = job[w]

LEMMA ProgressSame ==
  ASSUME Tracked, NEW w \in Workers, NEW d, job[w].op = "create", JobDir(job[w]) = d,
         KeepsDir(d), log'[d] = log[d], KeepsCall(w), job'[w] = job[w],
         Progress(w, d), TornIn(w, d)
  PROVE  Progress(w, d)' /\ TornIn(w, d)'
<1>1. Holds(d)' <=> Holds(d)  BY HoldsSame
<1>2. GetOK(w, d)' <=> GetOK(w, d)  BY DEF GetOK, KeepsCall, KeepsDir
<1>3. RemoveOK(w, d)' <=> RemoveOK(w, d)  BY <1>1 DEF RemoveOK, KeepsCall, KeepsDir
<1>4. PutOK(w, d) => PutOK(w, d)'
  <2>1. pc[w] = "put_mkraw" => Key(val[w]) = d  BY StageOfCall DEF PutSteps
  <2> QED  BY <2>1 DEF PutOK, KeepsCall, KeepsDir
<1>5. TornIn(w, d)'  BY DEF TornIn, KeepsCall, KeepsDir
<1>6. Progress(w, d)'
  BY <1>1, <1>2, <1>3, <1>4 DEF Progress, KeepsCall, KeepsDir, Records
<1> QED  BY <1>5, <1>6

LEMMA DirSame ==
  ASSUME Tracked, NEW d, KeepsDir(d), log'[d] = log[d], KeepsCreates(d), DirInv(d)
  PROVE  DirInv(d)'
<1> DEFINE C == JobsOn("create", d)
<1>1. C' = C /\ \A w \in C : KeepsCall(w) /\ job'[w] = job[w]  BY DEF KeepsCreates
<1>2. \A w \in C : w \in Workers /\ job[w].op = "create" /\ JobDir(job[w]) = d  BY DEF JobsOn
<1>3. \A w, x \in C : w = x  BY DEF DirInv
<1>4. C = {} => Holds(d)' /\ \A v \in torn' : Key(v) # d
  <2>1. C = {} => Holds(d) /\ \A v \in torn : Key(v) # d  BY DEF DirInv
  <2> QED  BY <2>1, HoldsSame DEF KeepsDir
<1>5. \A w \in C : Progress(w, d)' /\ TornIn(w, d)'
  <2>1. \A w \in C : Progress(w, d) /\ TornIn(w, d)  BY DEF DirInv
  <2> HIDE DEF C
  <2> QED  BY <1>1, <1>2, <2>1, ProgressSame
<1> HIDE DEF C
<1> QED  BY <1>1, <1>3, <1>4, <1>5 DEF DirInv, C

LEMMA SureSame ==
  ASSUME Tracked, NEW x \in Workers, KeepsCall(x), SureInv(x), muddled \subseteq muddled',
         job'[x] = job[x],
         job[x].op = "get" /\ job[x].sure =>
           LET d == JobDir(job[x])
           IN  JobsOn("create", d)' = {} /\ link'[d] = link[d] /\ log'[d] = log[d]
  PROVE  SureInv(x)'
<1> SUFFICES ASSUME job[x].op = "get", job[x].sure PROVE SureInv(x)'
  BY DEF SureInv
<1> DEFINE d == JobDir(job[x])
<1>1. JobsOn("create", d)' = {} /\ link'[d] = link[d] /\ log'[d] = log[d]  OBVIOUS
<1>2. GetOK(x, d)' <=> GetOK(x, d)  BY <1>1 DEF GetOK, KeepsCall
<1>3. JobDir(job'[x]) = d  OBVIOUS
<1> HIDE DEF d
<1>4. d \notin muddled' => d \notin muddled  OBVIOUS
<1> QED  BY <1>1, <1>2, <1>3, <1>4 DEF SureInv, d

\* The creates on d after a step of w.
LEMMA CreatesAfter ==
  ASSUME NEW w \in Workers, NEW d,
         \A x \in Workers \ {w} : KeepsCall(x) /\ job'[x] = job[x],
         job[w].op # "create" \/ JobDir(job[w]) # d,
         job'[w].op # "create" \/ JobDir(job'[w]) # d
  PROVE  KeepsCreates(d)
<1>1. ASSUME NEW x \in Workers
      PROVE  x \in JobsOn("create", d)' <=> x \in JobsOn("create", d)
  BY DEF JobsOn, JobDir
<1>2. JobsOn("create", d)' = JobsOn("create", d)  BY <1>1 DEF JobsOn
<1>3. \A x \in JobsOn("create", d) : x \in Workers \ {w}  BY DEF JobsOn
<1> QED  BY <1>2, <1>3 DEF KeepsCreates

\* A step of a create keeps Served if it keeps what its own key holds.
LEMMA CreatorStep ==
  ASSUME Tracked, Served, NEW w \in Workers, NEW e \in Dirs,
         job[w].op = "create", JobDir(job[w]) = e, job'[w].op = "create", JobDir(job'[w]) = e,
         \A x \in Workers \ {w} : KeepsCall(x) /\ job'[x] = job[x],
         log' = log, muddled' = muddled, \A d \in Dirs \ {e} : KeepsDir(d),
         e \notin muddled /\ Progress(w, e) /\ TornIn(w, e) => Progress(w, e)' /\ TornIn(w, e)'
  PROVE  Served'
<1>0. w \in JobsOn("create", e)  BY DEF JobsOn
<1>1. \A d : d # e => KeepsCreates(d)  BY CreatesAfter
<1>2. \A d : JobsOn("create", d)' = JobsOn("create", d)
  <2>1. \A x \in Workers : x \in JobsOn("create", e)' <=> x \in JobsOn("create", e)
    BY DEF JobsOn, JobDir
  <2>2. JobsOn("create", e)' = JobsOn("create", e)  BY <2>1 DEF JobsOn
  <2> QED  BY <1>1, <2>2 DEF KeepsCreates
<1>3. ASSUME NEW d \in Dirs \ muddled' PROVE DirInv(d)'
  <2>0. DirInv(d)  BY DEF Served
  <2>1. CASE d # e  BY <1>0, <1>1, <2>0, <2>1, DirSame
  <2>2. CASE d = e
    <3>1. /\ \A x, y \in JobsOn("create", d) : x = y
          /\ Progress(w, d) /\ TornIn(w, d)
      BY <1>0, <2>0, <2>2 DEF DirInv
    <3>2. Progress(w, d)' /\ TornIn(w, d)'  BY <2>2, <3>1
    <3>3. JobsOn("create", d)' = JobsOn("create", d) /\ JobsOn("create", d) = {w}
      BY <1>0, <1>2, <2>2, <3>1
    <3> QED  BY <3>2, <3>3 DEF DirInv
  <2> QED  BY <2>1, <2>2
<1>4. ASSUME NEW x \in Workers PROVE SureInv(x)'
  <2>1. CASE x = w  BY <1>0, <2>1 DEF SureInv
  <2>2. CASE x # w
    <3>1. SureInv(x) /\ KeepsCall(x) /\ job'[x] = job[x]  BY <2>2 DEF Served
    <3>2. ASSUME job[x].op = "get", job[x].sure
          PROVE  LET d == JobDir(job[x])
                 IN  JobsOn("create", d)' = {} /\ link'[d] = link[d] /\ log'[d] = log[d]
      <4>0. PICK d : d = JobDir(job[x])  OBVIOUS
      <4>1. JobsOn("create", d) = {} /\ d \in Dirs
        BY <3>1, <3>2, <4>0, JobDirOfTracked DEF SureInv
      <4>2. d # e  BY <4>1, <1>0
      <4>3. JobsOn("create", d)' = {} /\ link'[d] = link[d] /\ log'[d] = log[d]
        BY <1>0, <1>2, <4>1, <4>2 DEF KeepsDir
      <4> QED  BY <3>1, <4>0, <4>3
    <3> QED  BY <3>1, <3>2, SureSame
  <2> QED  BY <2>1, <2>2
<1> QED  BY <1>3, <1>4 DEF Served

\* A step of a request that is no create keeps Served if it keeps its own part.
LEMMA GetterStep ==
  ASSUME Tracked, Served, NEW w \in Workers, job[w].op # "create", job'[w].op # "create",
         \A x \in Workers \ {w} : KeepsCall(x) /\ job'[x] = job[x],
         log' = log, muddled' = muddled, UNCHANGED disk, SureInv(w)'
  PROVE  Served'
<1>1. \A d : KeepsDir(d) /\ KeepsCreates(d)  BY KeepsDirDisk, CreatesAfter
<1>2. \A d \in Dirs \ muddled' : DirInv(d)'  BY <1>1, DirSame DEF Served
<1>3. ASSUME NEW x \in Workers \ {w} PROVE SureInv(x)'
  <2>1. SureInv(x)  BY DEF Served
  <2>2. job[x].op = "get" /\ job[x].sure =>
           LET d == JobDir(job[x])
           IN  JobsOn("create", d)' = {} /\ link'[d] = link[d] /\ log'[d] = log[d]
    BY <1>1, <2>1 DEF SureInv, KeepsCreates, KeepsDir
  <2> QED  BY <2>1, <2>2, SureSame
<1> QED  BY <1>2, <1>3 DEF Served

\* An undisturbed step of kv_get.
LEMMA GetStepOK ==
  ASSUME Tracked, NEW w \in Workers, NEW d \in Dirs, dir[w] = d,
         GetIsDir(w) \/ GetIter(w) \/ GetOpen(w) \/ GetSize(w) \/ GetRead(w),
         GetOK(w, d), Holds(d), \A v \in torn : Key(v) # d
  PROVE  GetOK(w, d)'
<1>0. TypeOK /\ Reads(w) /\ link[d] \subseteq raw /\ (link[d] # {} => d \in linkDirs)
      /\ \A v \in link[d] : Key(v) = d /\ v \notin torn
  BY DEF Tracked, Links, NoDanglingLink, Placed
<1>h. \A v \in link[d] : link[d] = {v}  BY DEF Holds
<1> USE DEF GetOK, GetSteps, TypeOK
<1>1. CASE GetIsDir(w)  BY <1>0, <1>1 DEF GetIsDir
<1>2. CASE GetIter(w)
  <2>1. ASSUME NEW v \in link[dir[w]], val' = [val EXCEPT ![w] = v], Goto(w, "get_open"),
               UNCHANGED <<disk, dir, size, todo, res, proc, hist>>, pc[w] = "get_iter"
        PROVE  GetOK(w, d)'
    BY <1>0, <2>1
  <2>2. ASSUME UNCHANGED <<disk, dir, val, res>>, pc[w] = "get_iter", pc'[w] = "get_done",
               link[d] = {}
        PROVE  GetOK(w, d)'
    BY <1>0, <2>2
  <2> QED  BY <1>0, <1>2, <2>1, <2>2 DEF GetIter
<1>3. CASE GetOpen(w)
  <2>1. EntryOpens(w)  BY <1>0, <1>3 DEF GetOpen, EntryOpens
  <2> QED  BY <1>0, <1>3, <2>1 DEF GetOpen
<1>4. CASE GetSize(w)
  <2>1. EntryOpens(w) /\ val[w] \notin torn  BY <1>0, <1>4 DEF GetSize, EntryOpens
  <2> QED  BY <1>0, <1>4, <2>1 DEF GetSize
<1>5. CASE GetRead(w)
  <2>1. size[w] /\ val[w] \in link[d] /\ val[w] \notin torn  BY <1>0, <1>5 DEF GetRead
  <2>2. res'[w] = {val[w]} /\ ok'[w] /\ pc'[w] = "get_done" /\ link' = link
    BY <1>0, <1>5, <2>1 DEF GetRead
  <2>3. link[d] = {val[w]}  BY <2>1, <1>h
  <2> QED  BY <2>2, <2>3
<1> QED  BY <1>1, <1>2, <1>3, <1>4, <1>5
----------------------------------------------------------------------------
(* Served is inductive, given Tracked: the steps of the handlers.           *)

LEMMA SureDir ==
  ASSUME Tracked, Served, NEW w \in Workers, job[w].op = "get", job[w].sure,
         NEW d, d = JobDir(job[w]), d \notin muddled
  PROVE  /\ d \in Dirs /\ Holds(d) /\ JobsOn("create", d) = {}
         /\ \A v \in torn : Key(v) # d
         /\ job[w].stage = "load" => GetOK(w, d)
         /\ job[w].stage = "reply" => job[w].text = IF log[d] = <<>> THEN NoText ELSE Last(log[d])
<1>1. d \in Dirs  BY JobDirOfTracked
<1>2. SureInv(w) /\ DirInv(d)  BY <1>1 DEF Served
<1>3. JobsOn("create", d) = {}  BY <1>2 DEF SureInv
<1>4. Holds(d) /\ \A v \in torn : Key(v) # d  BY <1>2, <1>3 DEF DirInv
<1> QED  BY <1>1, <1>2, <1>3, <1>4 DEF SureInv

LEMMA ServedReceiveCreate ==
  ASSUME Tracked, Served, NEW w \in Workers, NEW id \in RequestIds, NEW text \in Inputs,
         NEW time \in Stamps, ReceiveCreate(w, id, text, time)
  PROVE  Served'
<1>0. PICK e : e = JobDir(NewJob(id, text))  OBVIOUS
<1>1. /\ UNCHANGED vars /\ log' = log /\ status = "up" /\ job[w] = NoJob
      /\ muddled' = IF JobsOn("create", e) # {} \/ (id = NoId /\ log[e] # <<>>)
                      THEN muddled \cup {e} ELSE muddled
  BY <1>0 DEF ReceiveCreate, NewJob
<1>2. /\ e \in Dirs /\ JobDir(job'[w]) = e
      /\ job'[w].id = id /\ job'[w].text = text /\ job'[w].op = "create"
      /\ id = NoId => job'[w].stage = "put" /\ job'[w].obj = create(text, ContentId[text], time)
      /\ id # NoId => job'[w].stage = "load"
      /\ \A x \in Workers \ {w} :
           job'[x] = IF x \in JobsOn("get", e) THEN [job[x] EXCEPT !.sure = FALSE] ELSE job[x]
  BY <1>0, CreateReceived
<1>3. pc[w] = "idle" /\ job[w].op = "none"  BY <1>1 DEF Tracked, Tracks, NoJob
<1>4. UNCHANGED disk /\ \A x \in Workers : KeepsCall(x)  BY <1>1 DEF KeepsCall, vars
<1>5. \A d : KeepsDir(d)  BY <1>4, KeepsDirDisk
<1>6. ASSUME NEW x \in Workers \ {w}, x \notin JobsOn("get", e) PROVE job'[x] = job[x]
  BY <1>2, <1>6
<1>7. ASSUME NEW x \in Workers \ {w}, x \in JobsOn("get", e)
      PROVE  job[x].op = "get" /\ job'[x].op = "get" /\ JobDir(job'[x]) = JobDir(job[x])
             /\ ~job'[x].sure
  <2>1. job'[x] = [job[x] EXCEPT !.sure = FALSE] /\ job[x] \in Jobs /\ job[x].op = "get"
    BY <1>2, <1>7 DEF JobsOn, Tracked
  <2>2. job'[x].op = "get" /\ ~job'[x].sure /\ job'[x].id = job[x].id /\ job'[x].text = job[x].text
    BY <2>1 DEF Jobs
  <2> QED  BY <2>1, <2>2 DEF JobDir
<1>8. ASSUME NEW d, d # e PROVE KeepsCreates(d)
  <2>1. ASSUME NEW x \in Workers
        PROVE  x \in JobsOn("create", d)' <=> x \in JobsOn("create", d)
    <3>1. CASE x = w  BY <1>2, <1>3, <1>8, <3>1 DEF JobsOn, JobDir
    <3>2. CASE x # w /\ x \in JobsOn("get", e)  BY <1>7, <3>2 DEF JobsOn
    <3>3. CASE x # w /\ x \notin JobsOn("get", e)
      <4>1. job'[x] = job[x]  BY <1>6, <3>3
      <4> QED  BY <4>1 DEF JobsOn, JobDir
    <3> QED  BY <3>1, <3>2, <3>3
  <2>2. JobsOn("create", d)' = JobsOn("create", d)  BY <2>1 DEF JobsOn
  <2>3. ASSUME NEW x \in JobsOn("create", d) PROVE job'[x] = job[x] /\ KeepsCall(x)
    <3>1. x \in Workers /\ job[x].op = "create"  BY <2>3 DEF JobsOn
    <3>2. x # w /\ x \notin JobsOn("get", e)  BY <1>3, <3>1 DEF JobsOn
    <3> QED  BY <1>4, <1>6, <3>1, <3>2
  <2> QED  BY <2>2, <2>3 DEF KeepsCreates
<1>9. ASSUME NEW d \in Dirs \ muddled' PROVE DirInv(d)'
  <2>0. DirInv(d)  BY <1>1, <1>9 DEF Served
  <2>1. CASE d # e  BY <1>1, <1>5, <1>8, <2>0, <2>1, DirSame
  <2>2. CASE d = e
    <3>1. JobsOn("create", e) = {} /\ (id = NoId => log[e] = <<>>)  BY <1>1, <2>2
    <3>2. Holds(e) /\ \A v \in torn : Key(v) # e  BY <2>0, <2>2, <3>1 DEF DirInv
    <3>3. JobsOn("create", e)' = {w}
      <4>1. w \in JobsOn("create", e)'  BY <1>2 DEF JobsOn, JobDir
      <4>2. ASSUME NEW x \in JobsOn("create", e)' PROVE x = w
        <5>1. x \in Workers /\ job'[x].op = "create" /\ JobDir(job'[x]) = e
          BY <4>2 DEF JobsOn, JobDir
        <5>2. x # w => job'[x] = job[x]  BY <1>6, <1>7, <5>1
        <5> QED  BY <3>1, <5>1, <5>2 DEF JobsOn
      <4> QED  BY <4>1, <4>2
    <3>4. TornIn(w, e)'  BY <1>4, <3>2 DEF TornIn
    <3>5. pc'[w] = "idle" /\ link' = link  BY <1>3, <1>4 DEF KeepsCall
    <3>6. Progress(w, e)'
      <4>1. CASE id = NoId
        <5> DEFINE o == create(text, ContentId[text], time)
        <5>1. ContentId[text] \in Names  BY ServiceAssumption, NamesAssumption
        <5>2. Records(o, Append(<<>>, text))  BY <5>1, CreateProper
        <5> HIDE DEF o
        <5>3. job'[w].stage = "put" /\ job'[w].obj = o  BY <1>2, <4>1 DEF o
        <5>4. link[e] = {} /\ log'[e] = <<>>  BY <1>1, <3>1, <3>2, <4>1 DEF Holds
        <5>5. PutOK(w, e)'  BY <3>5 DEF PutOK
        <5> QED  BY <1>2, <3>5, <5>2, <5>3, <5>4, <5>5 DEF Progress, Records
      <4>2. CASE id # NoId
        <5>1. job'[w].stage = "load"  BY <1>2, <4>2
        <5>2. Holds(e)'  BY <1>1, <1>5, <3>2, HoldsSame
        <5>3. GetOK(w, e)'  BY <3>5 DEF GetOK, GetSteps
        <5> QED  BY <5>1, <5>2, <5>3 DEF Progress
      <4> QED  BY <4>1, <4>2
    <3> QED  BY <2>2, <3>3, <3>4, <3>6 DEF DirInv
  <2> QED  BY <2>1, <2>2
<1>10. ASSUME NEW x \in Workers PROVE SureInv(x)'
  <2>1. CASE x = w  BY <1>2, <2>1 DEF SureInv
  <2>2. CASE x # w /\ x \in JobsOn("get", e)  BY <1>7, <2>2 DEF SureInv
  <2>3. CASE x # w /\ x \notin JobsOn("get", e)
    <3>1. job'[x] = job[x] /\ SureInv(x) /\ KeepsCall(x) /\ muddled \subseteq muddled'
      BY <1>1, <1>4, <1>6, <2>3 DEF Served
    <3>2. ASSUME job[x].op = "get", job[x].sure
          PROVE  LET d == JobDir(job[x])
                 IN  JobsOn("create", d)' = {} /\ link'[d] = link[d] /\ log'[d] = log[d]
      <4>0. PICK d : d = JobDir(job[x])  OBVIOUS
      <4>1. d # e  BY <2>3, <3>2, <4>0 DEF JobsOn
      <4>2. JobsOn("create", d) = {}  BY <3>1, <3>2, <4>0 DEF SureInv
      <4>3. JobsOn("create", d)' = {}  BY <1>8, <4>1, <4>2 DEF KeepsCreates
      <4> QED  BY <1>1, <1>4, <3>1, <4>0, <4>3
    <3> QED  BY <3>1, <3>2, SureSame
  <2> QED  BY <2>1, <2>2, <2>3
<1> QED  BY <1>9, <1>10 DEF Served

LEMMA ServedReceiveGet ==
  ASSUME Tracked, Served, NEW w \in Workers, NEW id \in RequestIds \ {NoId}, ReceiveGet(w, id)
  PROVE  Served'
<1> DEFINE b == JobsOn("create", validate_key(id)) = {}
           j == [NoJob EXCEPT !.op = "get", !.stage = "load", !.id = id, !.sure = b]
<1>1. UNCHANGED vars /\ log' = log /\ muddled' = muddled /\ job[w] = NoJob
      /\ job' = [job EXCEPT ![w] = j]
  BY DEF ReceiveGet
<1>2. pc[w] = "idle" /\ job[w].op = "none"  BY <1>1 DEF Tracked, Tracks, NoJob
<1>b. b \in BOOLEAN  OBVIOUS
<1> HIDE DEF b
<1>3. j.op = "get" /\ j.stage = "load" /\ j.id = id /\ j.sure = b  BY <1>b DEF NoJob
<1> HIDE DEF j
<1>4. job'[w] = j /\ \A x \in Workers \ {w} : job'[x] = job[x]  BY <1>1 DEF Tracked
<1>5. UNCHANGED disk /\ \A x \in Workers : KeepsCall(x)  BY <1>1 DEF KeepsCall, vars
<1>6. SureInv(w)'
  <2>1. JobDir(job'[w]) = validate_key(id)  BY <1>3, <1>4 DEF JobDir
  <2>2. KeepsCreates(validate_key(id))  BY <1>2, <1>3, <1>4, <1>5, CreatesAfter
  <2>3. GetOK(w, validate_key(id))'  BY <1>2, <1>5 DEF GetOK, GetSteps, KeepsCall
  <2>4. job'[w].sure => JobsOn("create", validate_key(id))' = {}
    BY <1>3, <1>4, <2>2 DEF KeepsCreates, b
  <2> QED  BY <1>3, <1>4, <2>1, <2>3, <2>4 DEF SureInv
<1> QED  BY <1>1, <1>2, <1>3, <1>4, <1>5, <1>6, GetterStep

LEMMA ServedCall ==
  ASSUME Tracked, Served, NEW w \in Workers, CallLoad(w) \/ CallDelete(w) \/ CallStore(w)
  PROVE  Served'
<1>0. Tracks(w) /\ job[w] \in Jobs /\ TypeOK  BY DEF Tracked
<1>1. /\ UNCHANGED <<disk, job, log, muddled>> /\ pc[w] = "idle"
      /\ \A x \in Workers \ {w} : KeepsCall(x)
  <2>1. \A x \in Workers \ {w} : KeepsCall(x)
    BY <1>0, CallLocal DEF CallLoad, CallDelete, CallStore
  <2> QED  BY <2>1 DEF CallLoad, CallDelete, CallStore, CallGet, CallRemove, CallPut
<1>2. /\ CallLoad(w) => job[w].stage = "load" /\ pc'[w] = "get_isdir" /\ res'[w] = {}
      /\ CallDelete(w) => job[w].stage = "delete" /\ pc'[w] = "rm_stat"
      /\ CallStore(w) => job[w].stage \in Putting /\ pc'[w] = "put_rawdir"
  BY <1>0 DEF CallLoad, CallDelete, CallStore, CallGet, CallRemove, CallPut, Stage, Putting, TypeOK
<1>3. job[w].op \in {"create", "get"}  BY <1>0, <1>2 DEF Tracks, NoJob, Jobs, Putting
<1>4. PICK e : e = JobDir(job[w])  OBVIOUS
<1>5. e \in Dirs  BY <1>3, <1>4, JobDirOfTracked
<1>6. \A d : KeepsDir(d)  BY <1>1, KeepsDirDisk
<1>7. CASE job[w].op = "create"
  <2>1. ASSUME Progress(w, e), TornIn(w, e) PROVE Progress(w, e)' /\ TornIn(w, e)'
    <3>1. TornIn(w, e)'  BY <1>1, <2>1 DEF TornIn
    <3>2. Holds(e)' <=> Holds(e)  BY <1>1, <1>6, HoldsSame
    <3>3. CASE CallLoad(w)
      <4>1. GetOK(w, e)'  BY <1>2, <3>3 DEF GetOK, GetSteps
      <4> QED  BY <1>1, <1>2, <2>1, <3>1, <3>2, <3>3, <4>1 DEF Progress
    <3>4. CASE CallDelete(w)
      <4>1. RemoveOK(w, e)'  BY <1>1, <1>2, <2>1, <3>2, <3>4 DEF RemoveOK, Progress
      <4> QED  BY <1>1, <1>2, <2>1, <3>1, <3>4, <4>1 DEF Progress
    <3>5. CASE CallStore(w)
      <4>1. PutOK(w, e)'  BY <1>2, <3>5 DEF PutOK
      <4> QED  BY <1>1, <1>2, <2>1, <3>1, <3>5, <4>1 DEF Progress, Putting
    <3> QED  BY <3>3, <3>4, <3>5
  <2> QED  BY <1>1, <1>4, <1>5, <1>6, <1>7, <2>1, CreatorStep DEF JobDir
<1>8. CASE job[w].op = "get"
  <2>1. job[w].stage = "load" /\ CallLoad(w)  BY <1>0, <1>2, <1>8 DEF Tracks, Putting
  <2>2. GetOK(w, e)'  BY <1>2, <2>1 DEF GetOK, GetSteps
  <2>3. KeepsCreates(e)  BY <1>1, <1>8, CreatesAfter
  <2>4. SureInv(w)'
    <3>1. SureInv(w)  BY DEF Served
    <3> QED  BY <1>1, <1>4, <2>1, <2>2, <2>3, <3>1 DEF SureInv, KeepsCreates
  <2> QED  BY <1>1, <1>8, <2>4, GetterStep
<1> QED  BY <1>3, <1>7, <1>8

\* The head of an object that records the texts is the last of them.
LEMMA HeadIsLast ==
  ASSUME NEW o, Proper(o), NEW texts \in Seq(Inputs), texts # <<>>, Records(o, texts)
  PROVE  o.head = Last(texts)
<1>1. Len(texts) \in 1..Len(texts)  OBVIOUS
<1> QED  BY <1>1 DEF Proper, Records, Last

\* What an undisturbed load has found.
LEMMA LoadedHeld ==
  ASSUME ObjectsStorable, Tracked, NEW w \in Workers, Stage(w, {"load"}, "get_done"),
         NEW d \in Dirs, Holds(d), GetOK(w, d)
  PROVE  /\ log[d] = <<>> => Loaded(w) = {} /\ link[d] = {}
         /\ log[d] # <<>> => \E o \in link[d] :
              Loaded(w) = {o} /\ link[d] = {o} /\ Proper(o) /\ Records(o, log[d])
<1>1. res[w] = link[d] /\ (link[d] # {} => ok[w])  BY DEF GetOK, Stage
<1>2. log[d] = <<>> => Loaded(w) = {} /\ link[d] = {}  BY <1>1 DEF Holds, Loaded
<1>3. ASSUME log[d] # <<>>
      PROVE  \E o \in link[d] :
               Loaded(w) = {o} /\ link[d] = {o} /\ Proper(o) /\ Records(o, log[d])
  <2> PICK o \in link[d] : link[d] = {o} /\ Records(o, log[d])  BY <1>3 DEF Holds
  <2>1. Proper(o) /\ o \in StoredObjects
    BY DEF Tracked, Links, NoDanglingLink, Placed, Proper
  <2>2. Loaded(w) = {o}  BY <1>1, <2>1 DEF Loaded
  <2> QED  BY <2>1, <2>2
<1> QED  BY <1>2, <1>3

LEMMA ServedLoadDone ==
  ASSUME ObjectsStorable, Tracked, Served, NEW w \in Workers, NEW time \in Stamps,
         LoadDone(w, time)
  PROVE  Served'
<1>0. /\ Tracks(w) /\ Stage(w, {"load"}, "get_done") /\ Return(w)
      /\ UNCHANGED <<log, muddled>> /\ pc[w] = "get_done"
  BY DEF Tracked, LoadDone, Stage
<1>1. /\ UNCHANGED disk /\ pc'[w] = "idle" /\ \A x \in Workers \ {w} : KeepsCall(x)
  <2>1. \A x \in Workers \ {w} : KeepsCall(x)  BY <1>0, CallLocal DEF Tracked
  <2> QED  BY <1>0, <2>1 DEF Return, Tracked, TypeOK
<1>2. /\ job[w].stage = "load" /\ job[w].op \in {"create", "get"}
      /\ \A x \in Workers \ {w} : job'[x] = job[x]
      /\ job'[w].op = job[w].op /\ job'[w].id = job[w].id /\ job'[w].sure = job[w].sure
  BY AfterLoadJob
<1>3. PICK e : e = JobDir(job[w])  OBVIOUS
<1>4. e \in Dirs  BY <1>2, <1>3, JobDirOfTracked
<1>5. job[w].id \in Names /\ JobDir(job'[w]) = e
  <2>1. job[w].id \in Names  BY <1>0, <1>2 DEF Tracks
  <2> QED  BY <1>2, <1>3, <2>1, ServiceAssumption DEF JobDir
<1>6. \A d : KeepsDir(d)  BY <1>1, KeepsDirDisk
<1>7. Holds(e)' <=> Holds(e)  BY <1>0, <1>6, HoldsSame
<1>l. log[e] \in Seq(Inputs)  BY <1>4 DEF Tracked
<1>8. CASE job[w].op = "create"
  <2>1. job[w].text \in Inputs /\ job'[w].text = job[w].text  BY <1>8, AfterLoadJob
  <2>2. ASSUME Progress(w, e), TornIn(w, e) PROVE Progress(w, e)' /\ TornIn(w, e)'
    <3>1. TornIn(w, e)'  BY <1>0, <1>1, <2>2 DEF TornIn
    <3>2. Holds(e) /\ GetOK(w, e)  BY <1>2, <2>2 DEF Progress
    <3>3. CASE log[e] = <<>>
      <4> DEFINE o == create(job[w].text, job[w].id, time)
      <4>1. Loaded(w) = {} /\ link[e] = {}  BY <1>0, <1>4, <3>2, <3>3, LoadedHeld
      <4>2. job'[w].stage = "put" /\ job'[w].obj = o  BY <1>8, <4>1, AfterLoadJob
      <4>3. Records(o, Append(<<>>, job[w].text))  BY <1>5, <2>1, CreateProper
      <4> HIDE DEF o
      <4>4. PutOK(w, e)'  BY <1>1 DEF PutOK
      <4> QED  BY <1>0, <1>1, <2>1, <3>1, <3>3, <4>1, <4>2, <4>3, <4>4 DEF Progress
    <3>4. CASE log[e] # <<>>
      <4>1. PICK o \in link[e] :
              Loaded(w) = {o} /\ link[e] = {o} /\ Proper(o) /\ Records(o, log[e])
        BY <1>0, <1>4, <3>2, <3>4, LoadedHeld
      <4> DEFINE u == update_object(o, job[w].text, time)
      <4>2. job'[w].stage = "delete" /\ job'[w].obj = u  BY <1>8, <4>1, AfterLoadJob
      <4>3. Records(u, Append(log[e], job[w].text))  BY <1>l, <2>1, <4>1, UpdateProper
      <4> HIDE DEF u
      <4>4. RemoveOK(w, e)'  BY <1>1, <1>7, <3>2 DEF RemoveOK
      <4> QED  BY <1>0, <1>1, <2>1, <3>1, <3>4, <4>2, <4>3, <4>4 DEF Progress
    <3> QED  BY <3>3, <3>4
  <2> QED  BY <1>0, <1>1, <1>2, <1>3, <1>4, <1>5, <1>6, <1>8, <2>2, CreatorStep
<1>9. CASE job[w].op = "get"
  <2>1. job'[w].stage = "reply"  BY <1>9, AfterLoadJob
  <2>2. KeepsCreates(e)  BY <1>1, <1>2, <1>9, CreatesAfter
  <2>3. ASSUME job[w].sure PROVE JobsOn("create", e)' = {}
    BY <1>3, <1>9, <2>2, <2>3 DEF Served, SureInv, KeepsCreates
  <2>4. ASSUME job[w].sure, e \notin muddled
        PROVE  job'[w].text = IF log[e] = <<>> THEN NoText ELSE Last(log[e])
    <3>1. Holds(e) /\ GetOK(w, e)  BY <1>2, <1>3, <1>9, <2>4, SureDir
    <3>2. CASE log[e] = <<>>
      <4>1. Loaded(w) = {}  BY <1>0, <1>4, <3>1, <3>2, LoadedHeld
      <4> QED  BY <1>9, <3>2, <4>1, AfterLoadJob
    <3>3. CASE log[e] # <<>>
      <4>1. PICK o \in link[e] : Loaded(w) = {o} /\ Proper(o) /\ Records(o, log[e])
        BY <1>0, <1>4, <3>1, <3>3, LoadedHeld
      <4>2. job'[w].text = o.head  BY <1>9, <4>1, AfterLoadJob
      <4> QED  BY <1>l, <3>3, <4>1, <4>2, HeadIsLast
    <3> QED  BY <3>2, <3>3
  <2>5. SureInv(w)'  BY <1>0, <1>2, <1>5, <2>1, <2>3, <2>4 DEF SureInv
  <2> QED  BY <1>0, <1>1, <1>2, <1>9, <2>5, GetterStep
<1> QED  BY <1>2, <1>8, <1>9

LEMMA ServedStoreDone ==
  ASSUME Tracked, Served, NEW w \in Workers, DeleteDone(w) \/ StoreDone(w)
  PROVE  Served'
<1>0. Tracks(w) /\ job[w] \in Jobs /\ ok[w] \in BOOLEAN /\ UNCHANGED <<log, muddled>>
  BY DEF Tracked, TypeOK, DeleteDone, StoreDone
<1>1. /\ UNCHANGED disk /\ pc'[w] = "idle" /\ \A x \in Workers \ {w} : KeepsCall(x)
  <2>1. \A x \in Workers \ {w} : KeepsCall(x)
    BY CallLocal DEF DeleteDone, StoreDone, Tracked
  <2> QED  BY <2>1 DEF DeleteDone, StoreDone, Return, PutReturn, Tracked, TypeOK
<1>2. /\ DeleteDone(w) => pc[w] = "rm_done" /\ job[w].stage = "delete"
      /\ StoreDone(w) => pc[w] = "put_done" /\ job[w].stage \in Putting
  BY DEF DeleteDone, StoreDone, Stage, Putting
<1>3. job[w].op = "create"  BY <1>0, <1>2 DEF Tracks
<1>4. /\ \A x \in Workers \ {w} : job'[x] = job[x]
      /\ job'[w].op = "create" /\ job'[w].id = job[w].id /\ job'[w].text = job[w].text
      /\ job'[w].obj = job[w].obj
      /\ DeleteDone(w) /\ ok[w] => job'[w].stage = "save"
      /\ StoreDone(w) /\ job[w].stage = "put" => job'[w].stage = "again"
      /\ StoreDone(w) /\ job[w].stage # "put" => job'[w].stage = "reply" /\ job'[w].good = ok[w]
  <2>1. CASE DeleteDone(w)
    <3>1. job[w].stage = "delete" /\ job' = [job EXCEPT ![w].stage = IF ok[w] THEN "save" ELSE "reply"]
      BY <2>1 DEF DeleteDone, Stage
    <3>2. ~StoreDone(w)  BY <1>2, <2>1
    <3> QED  BY <1>0, <1>3, <3>1, <3>2 DEF Tracked, Jobs
  <2>2. CASE StoreDone(w)
    <3> DEFINE k == IF job[w].stage = "put" THEN [job[w] EXCEPT !.stage = "again"]
                      ELSE [job[w] EXCEPT !.stage = "reply", !.good = ok[w]]
    <3>1. job' = [job EXCEPT ![w] = k]  BY <2>2 DEF StoreDone
    <3>2. /\ k.op = job[w].op /\ k.id = job[w].id /\ k.text = job[w].text /\ k.obj = job[w].obj
          /\ job[w].stage = "put" => k.stage = "again"
          /\ job[w].stage # "put" => k.stage = "reply" /\ k.good = ok[w]
      BY <1>0 DEF Jobs
    <3> HIDE DEF k
    <3>3. job'[w] = k /\ \A x \in Workers \ {w} : job'[x] = job[x]  BY <3>1 DEF Tracked
    <3>4. ~DeleteDone(w)  BY <1>2, <2>2
    <3> QED  BY <1>3, <3>2, <3>3, <3>4
  <2> QED  BY <2>1, <2>2
<1>5. PICK e : e = JobDir(job[w])  OBVIOUS
<1>6. e \in Dirs /\ JobDir(job'[w]) = e
  BY <1>3, <1>4, <1>5, JobDirOfTracked DEF JobDir
<1>7. \A d : KeepsDir(d)  BY <1>1, KeepsDirDisk
<1>8. ASSUME Progress(w, e), TornIn(w, e) PROVE Progress(w, e)' /\ TornIn(w, e)'
  <2>1. TornIn(w, e)'  BY <1>1, <1>2, <1>8 DEF TornIn
  <2>2. PutOK(w, e)'  BY <1>1 DEF PutOK
  <2>3. Records(job[w].obj, Append(log[e], job[w].text))
    BY <1>2, <1>8 DEF Progress, Putting
  <2>4. CASE DeleteDone(w)
    <3>1. ok[w] /\ link[e] = {}  BY <1>2, <1>8, <2>4 DEF Progress, RemoveOK
    <3> QED  BY <1>0, <1>1, <1>4, <2>1, <2>2, <2>3, <2>4, <3>1 DEF Progress
  <2>5. CASE StoreDone(w)
    <3>1. /\ ok[w] => link[e] = {job[w].obj}
          /\ job[w].stage = "put" => link[e] \in {{}, {job[w].obj}} /\ log[e] = <<>>
      BY <1>2, <1>8, <2>5 DEF Progress, PutOK, Putting
    <3> QED  BY <1>0, <1>1, <1>2, <1>4, <2>1, <2>2, <2>3, <2>5, <3>1 DEF Progress, Putting
  <2> QED  BY <2>4, <2>5
<1> QED  BY <1>0, <1>1, <1>3, <1>4, <1>5, <1>6, <1>7, <1>8, CreatorStep

LEMMA ServedReply ==
  ASSUME Tracked, Served, NEW w \in Workers, Reply(w)
  PROVE  Served'
<1>0. /\ Tracks(w) /\ job[w] \in Jobs /\ UNCHANGED vars /\ pc[w] = "idle"
      /\ job[w].stage = "reply" /\ job' = [job EXCEPT ![w] = NoJob]
  BY DEF Tracked, Reply, Stage
<1>1. job'[w] = NoJob /\ NoJob.op = "none" /\ \A x \in Workers \ {w} : job'[x] = job[x]
  BY <1>0 DEF Tracked, NoJob
<1>2. UNCHANGED disk /\ \A x \in Workers : KeepsCall(x)  BY <1>0 DEF KeepsCall, vars
<1>3. SureInv(w)'  BY <1>1 DEF SureInv
<1>4. job[w].op \in {"create", "get"}  BY <1>0 DEF Tracks, NoJob, Jobs
<1>5. CASE job[w].op = "get"
  BY <1>1, <1>2, <1>3, <1>5, GetterStep DEF Reply
<1>6. CASE job[w].op = "create"
  <2>0. PICK e : e = JobDir(job[w])  OBVIOUS
  <2>1. e \in Dirs /\ job[w].text \in Inputs /\ w \in JobsOn("create", e)
    BY <1>0, <1>6, <2>0, JobDirOfTracked DEF Tracks, JobsOn
  <2>2. /\ job[w].good => log' = [log EXCEPT ![e] = Append(@, job[w].text)] /\ muddled' = muddled
        /\ ~job[w].good => muddled' = muddled \cup {e} /\ log' = log
    BY <1>6, <2>0 DEF Reply
  <2>3. \A d \in Dirs : d # e => log'[d] = log[d]  BY <2>1, <2>2 DEF Tracked
  <2>4. \A d : d # e => KeepsCreates(d)  BY <1>1, <1>2, <2>0, CreatesAfter
  <2>5. \A d : KeepsDir(d)  BY <1>2, KeepsDirDisk
  <2>6. ASSUME NEW d \in Dirs \ muddled' PROVE DirInv(d)'
    <3>0. DirInv(d)  BY <2>2, <2>6 DEF Served
    <3>1. CASE d # e  BY <2>3, <2>4, <2>5, <3>0, <3>1, DirSame
    <3>2. CASE d = e
      <4>1. job[w].good /\ log'[e] = Append(log[e], job[w].text)
        BY <2>1, <2>2, <2>6, <3>2 DEF Tracked
      <4>2. /\ \A x \in JobsOn("create", e) : x = w
            /\ Progress(w, e) /\ TornIn(w, e)
        BY <2>1, <3>0, <3>2 DEF DirInv
      <4>3. link[e] = {job[w].obj} /\ Records(job[w].obj, log'[e])
        BY <1>0, <4>1, <4>2 DEF Progress
      <4>4. log'[e] # <<>>
        <5>1. log[e] \in Seq(Inputs)  BY <2>1 DEF Tracked
        <5> QED  BY <2>1, <4>1, <5>1
      <4>5. Holds(e)'  BY <1>2, <4>3, <4>4 DEF Holds, Records
      <4>6. \A v \in torn' : Key(v) # e  BY <1>0, <1>2, <4>2 DEF TornIn
      <4>7. JobsOn("create", e)' = {}
        <5>1. ASSUME NEW x \in JobsOn("create", e)' PROVE FALSE
          <6>1. x \in Workers /\ job'[x].op = "create" /\ JobDir(job'[x]) = e
            BY <5>1 DEF JobsOn, JobDir
          <6>2. x # w  BY <1>1, <6>1
          <6>3. x \in JobsOn("create", e)  BY <1>1, <6>1, <6>2 DEF JobsOn
          <6> QED  BY <4>2, <6>2, <6>3
        <5> QED  BY <5>1
      <4> QED  BY <3>2, <4>5, <4>6, <4>7 DEF DirInv
    <3> QED  BY <3>1, <3>2
  <2>7. ASSUME NEW x \in Workers \ {w} PROVE SureInv(x)'
    <3>1. SureInv(x) /\ KeepsCall(x) /\ job'[x] = job[x] /\ muddled \subseteq muddled'
      BY <1>1, <1>2, <2>2 DEF Served
    <3>2. ASSUME job[x].op = "get", job[x].sure
          PROVE  LET d == JobDir(job[x])
                 IN  JobsOn("create", d)' = {} /\ link'[d] = link[d] /\ log'[d] = log[d]
      <4>0. PICK d : d = JobDir(job[x])  OBVIOUS
      <4>1. JobsOn("create", d) = {} /\ d \in Dirs
        BY <3>1, <3>2, <4>0, JobDirOfTracked DEF SureInv
      <4>2. d # e  BY <2>1, <4>1
      <4>3. JobsOn("create", d)' = {} /\ link'[d] = link[d] /\ log'[d] = log[d]
        BY <2>3, <2>4, <2>5, <4>1, <4>2 DEF KeepsDir, KeepsCreates
      <4> QED  BY <3>1, <4>0, <4>3
    <3> QED  BY <3>1, <3>2, SureSame
  <2> QED  BY <1>3, <2>6, <2>7 DEF Served
<1> QED  BY <1>4, <1>5, <1>6
----------------------------------------------------------------------------
(* Served is inductive: the steps of the store, and of the process.         *)

\* A create that is alone on its key never meets an exception of the file
\* system: what it tested is still so when it acts on it.
LEMMA CreatorUp ==
  ASSUME Tracked, NEW w \in Workers, Step(w), NEW d, d = JobDir(job[w]), Progress(w, d)
  PROVE  status' = "up"
<1>0. TypeOK /\ Tracks(w) /\ Links  BY DEF Tracked
<1>s. status = "up" /\ pc[w] # "idle"
  BY DEF Step, PutRawDir, PutMkRaw, PutOpen, PutOpenFails, PutWrite, PutLinkDir, PutMkLink, PutExists,
         PutSymlink, GetIsDir, GetIter, GetOpen, GetSize, GetRead, RemoveStat,
         RemoveOpenDir, RemoveEntry, RemoveDir, RemoveAgain, RemoveHandEntry, RemoveHandDir
<1>d. dir[w] = d /\ d \in Dirs  BY <1>s, StageOfCall
<1>1. CASE \/ PutRawDir(w) \/ PutMkRaw(w) \/ PutOpen(w) \/ PutOpenFails(w) \/ PutWrite(w)
           \/ PutLinkDir(w) \/ PutMkLink(w) \/ PutExists(w)
           \/ GetIsDir(w) \/ GetIter(w) \/ GetOpen(w) \/ GetSize(w) \/ GetRead(w)
           \/ RemoveStat(w) \/ RemoveEntry(w) \/ RemoveHandEntry(w)
  BY <1>1, <1>s
     DEF PutRawDir, PutMkRaw, PutOpen, PutOpenFails, PutWrite, PutLinkDir, PutMkLink, PutExists,
         GetIsDir, GetIter, GetOpen, GetSize, GetRead, RemoveStat, RemoveEntry, RemoveHandEntry
<1>2. CASE PutSymlink(w)
  <2>1. pc[w] = "put_symlink"  BY <1>2 DEF PutSymlink
  <2>2. job[w].stage \in Putting  BY <2>1, StageOfCall DEF PutSteps
  <2>3. PutOK(w, d)  BY <2>2 DEF Progress, Putting
  <2>4. d \in linkDirs /\ val[w] \notin link[d]  BY <2>1, <2>3 DEF PutOK
  <2> QED  BY <1>2, <1>d, <1>s, <2>4 DEF PutSymlink
<1>3. CASE RemoveOpenDir(w) \/ RemoveDir(w) \/ RemoveAgain(w) \/ RemoveHandDir(w)
  <2>1. pc[w] \in RemoveSteps
    BY <1>3 DEF RemoveOpenDir, RemoveDir, RemoveAgain, RemoveHandDir, RemoveSteps
  <2>2. job[w].stage = "delete"  BY <2>1, StageOfCall
  <2>3. RemoveOK(w, d) /\ log[d] # <<>>  BY <2>2 DEF Progress
  <2>4. ~RemoveAgain(w) /\ ~RemoveHandDir(w)
    BY <2>3 DEF RemoveOK, RemoveAgain, RemoveHandDir
  <2>5. CASE RemoveOpenDir(w)
    <3>1. Holds(d)  BY <2>3, <2>5 DEF RemoveOpenDir, RemoveOK
    <3>2. d \in linkDirs  BY <1>0, <1>d, <2>3, <3>1 DEF Holds, Links, NoDanglingLink
    <3> QED  BY <1>d, <1>s, <2>5, <3>2 DEF RemoveOpenDir
  <2>6. CASE RemoveDir(w)
    <3>1. link[d] = {}  BY <2>3, <2>6 DEF RemoveDir, RemoveOK
    <3> QED  BY <1>d, <1>s, <2>6, <3>1 DEF RemoveDir
  <2> QED  BY <1>3, <2>4, <2>5, <2>6
<1> QED  BY <1>1, <1>2, <1>3 DEF Step

LEMMA PutStepOK ==
  ASSUME Tracked, NEW w \in Workers, NEW d, d = JobDir(job[w]), status' = "up",
         \/ PutRawDir(w) \/ PutMkRaw(w) \/ PutOpen(w) \/ PutOpenFails(w) \/ PutWrite(w)
         \/ PutLinkDir(w) \/ PutMkLink(w) \/ PutExists(w) \/ PutSymlink(w),
         job' = job, log' = log, Progress(w, d), TornIn(w, d)
  PROVE  Progress(w, d)' /\ TornIn(w, d)'
<1>0. TypeOK /\ PutShape(w)  BY PutStepShape DEF Tracked
<1>1. /\ job[w].stage \in Putting /\ val[w] = job[w].obj /\ dir[w] = d /\ d \in Dirs
      /\ pc[w] # "idle"
  <2>1. pc[w] \in PutSteps /\ pc[w] # "idle"  BY <1>0 DEF PutShape, PutSteps
  <2> QED  BY <2>1, StageOfCall
<1>2. /\ PutOK(w, d) /\ Records(job[w].obj, Append(log[d], job[w].text))
      /\ job[w].stage \in {"put", "save"} => link[d] = {}
      /\ job[w].stage = "again" => link[d] \in {{}, {job[w].obj}}
      /\ job[w].stage \in {"put", "again"} => log[d] = <<>>
  <2>1. pc[w] # "put_done"
    BY DEF PutRawDir, PutMkRaw, PutOpen, PutOpenFails, PutWrite, PutLinkDir, PutMkLink,
           PutExists, PutSymlink
  <2> QED  BY <1>1, <2>1 DEF Progress, Putting
<1>3. SUFFICES /\ PutOK(w, d)'
               /\ job[w].stage \in {"put", "save"} /\ (pc'[w] # "put_done" \/ ~ok'[w]) => link'[d] = {}
               /\ job[w].stage = "again" => link'[d] \in {{}, {job[w].obj}}
               /\ TornIn(w, d)'
  BY <1>1, <1>2 DEF Progress, Putting
<1>4. link[d] \subseteq raw  BY <1>1 DEF Tracked, Links, NoDanglingLink
<1>5. CASE PutRawDir(w)
  BY <1>0, <1>1, <1>2, <1>5 DEF PutRawDir, PutOK, TornIn, TypeOK
<1>6. CASE PutMkRaw(w)
  <2>1. val[w] \notin rawDirs  BY <1>2, <1>6 DEF PutOK, PutMkRaw
  <2> QED  BY <1>0, <1>1, <1>2, <1>6, <2>1 DEF PutMkRaw, PutOK, TornIn, TypeOK
<1>7. CASE PutOpen(w)
  BY <1>0, <1>1, <1>2, <1>7 DEF PutOpen, PutOK, TornIn, TypeOK
<1>f. CASE PutOpenFails(w)
  BY <1>0, <1>1, <1>2, <1>f DEF PutOpenFails, PutOK, TornIn, TypeOK
<1>8. CASE PutWrite(w)
  BY <1>0, <1>1, <1>2, <1>8 DEF PutWrite, PutOK, TornIn, TypeOK
<1>9. CASE PutLinkDir(w)
  BY <1>0, <1>1, <1>2, <1>9 DEF PutLinkDir, PutOK, TornIn, TypeOK
<1>10. CASE PutMkLink(w)
  <2>1. dir[w] \notin linkDirs  BY <1>1, <1>2, <1>10 DEF PutOK, PutMkLink
  <2> QED  BY <1>0, <1>1, <1>2, <1>10, <2>1 DEF PutMkLink, PutOK, TornIn, TypeOK
<1>11. CASE PutExists(w)
  <2>1. CASE val[w] \in link[dir[w]] /\ val[w] \in raw
    <3>1. job[w].stage = "again"  BY <1>1, <1>2, <1>11, <2>1 DEF PutExists, Putting
    <3> QED  BY <1>0, <1>1, <1>2, <1>11, <2>1, <3>1 DEF PutExists, PutOK, TornIn, TypeOK
  <2>2. CASE ~(val[w] \in link[dir[w]] /\ val[w] \in raw)
    BY <1>0, <1>1, <1>2, <1>4, <1>11, <2>2 DEF PutExists, PutOK, TornIn, TypeOK
  <2> QED  BY <2>1, <2>2
<1>12. CASE PutSymlink(w)
  <2>1. dir[w] \in linkDirs /\ val[w] \notin link[dir[w]]
    BY <1>12, AbortDown DEF PutSymlink
  <2>2. link[d] = {}
    BY <1>1, <1>2, <1>12, <2>1 DEF Putting, PutSymlink
  <2>3. /\ link' = [link EXCEPT ![dir[w]] = @ \cup {val[w]}] /\ torn' = torn /\ val' = val
        /\ pc'[w] = "put_done" /\ ok'[w] /\ pc[w] = "put_symlink"
    BY <1>0, <1>12, <2>1 DEF PutSymlink, TypeOK
  <2>4. link'[d] = {job[w].obj}  BY <1>0, <1>1, <2>2, <2>3 DEF TypeOK
  <2> QED  BY <2>2, <2>3, <2>4 DEF PutOK, TornIn
<1> QED  BY <1>5, <1>6, <1>7, <1>f, <1>8, <1>9, <1>10, <1>11, <1>12

\* An update makes an object that differs from the one it found.
LEMMA NotYetLinked ==
  ASSUME Tracked, NEW w \in Workers, NEW d \in Dirs, Holds(d), job[w].text \in Inputs,
         Records(job[w].obj, Append(log[d], job[w].text))
  PROVE  job[w].obj \notin link[d]
<1>1. log[d] \in Seq(Inputs)  BY DEF Tracked
<1>2. Len(job[w].obj.diffs) = Len(log[d]) + 1 /\ Len(log[d]) \in Nat  BY <1>1 DEF Records
<1>3. \A o \in link[d] : Len(o.diffs) = Len(log[d])  BY DEF Holds, Records
<1> QED  BY <1>2, <1>3

LEMMA RemoveStepOK ==
  ASSUME Tracked, NEW w \in Workers, NEW d, d = JobDir(job[w]), status' = "up",
         \/ RemoveStat(w) \/ RemoveOpenDir(w) \/ RemoveEntry(w) \/ RemoveDir(w)
         \/ RemoveAgain(w) \/ RemoveHandEntry(w) \/ RemoveHandDir(w),
         job' = job, log' = log, Progress(w, d), TornIn(w, d)
  PROVE  Progress(w, d)' /\ TornIn(w, d)'
<1>0. TypeOK /\ RemoveShape(w)  BY RemoveStepShape DEF Tracked
<1>1. job[w].stage = "delete" /\ dir[w] = d /\ d \in Dirs /\ pc[w] # "idle"
  <2>1. pc[w] \in RemoveSteps /\ pc[w] # "idle"  BY <1>0 DEF RemoveShape, RemoveSteps
  <2> QED  BY <2>1, StageOfCall
<1>2. /\ RemoveOK(w, d) /\ log[d] # <<>> /\ job[w].text \in Inputs
      /\ Records(job[w].obj, Append(log[d], job[w].text))
  BY <1>1 DEF Progress, Tracked, Tracks
<1>3. TornIn(w, d)'  BY <1>0 DEF RemoveShape, RemoveSteps, TornIn
<1>4. SUFFICES RemoveOK(w, d)'
  BY <1>1, <1>2, <1>3 DEF Progress
<1>5. CASE RemoveStat(w)
  <2>1. Holds(d)  BY <1>2, <1>5 DEF RemoveOK, RemoveStat
  <2>2. d \in linkDirs  BY <1>1, <1>2, <2>1 DEF Holds, Tracked, Links, NoDanglingLink
  <2>3. UNCHANGED disk /\ pc'[w] = "rm_opendir"  BY <1>0, <1>1, <1>5, <2>2 DEF RemoveStat, TypeOK
  <2>4. Holds(d)'  BY <2>1, <2>3, HoldsSame, KeepsDirDisk
  <2> QED  BY <2>3, <2>4 DEF RemoveOK
<1>6. CASE RemoveOpenDir(w)
  <2>1. dir[w] \in linkDirs  BY <1>6, AbortDown DEF RemoveOpenDir
  <2>2. Holds(d)  BY <1>2, <1>6 DEF RemoveOK, RemoveOpenDir
  <2>3. job[w].obj \notin link[d]  BY <1>1, <1>2, <2>2, NotYetLinked
  <2> QED  BY <1>0, <1>1, <1>6, <2>1, <2>3 DEF RemoveOpenDir, RemoveOK, TypeOK
<1>7. CASE RemoveEntry(w)
  <2>1. pc[w] = "rm_entry" /\ pc' = pc /\ link[d] = todo[w] /\ job[w].obj \notin link[d]
    BY <1>2, <1>7 DEF RemoveEntry, RemoveOK
  <2>2. link'[d] = todo'[w] /\ link'[d] \subseteq link[d]
    BY <1>0, <1>1, <1>7, <2>1 DEF RemoveEntry, TypeOK
  <2> QED  BY <2>1, <2>2 DEF RemoveOK
<1>8. CASE RemoveDir(w)
  <2>1. link[dir[w]] = {}  BY <1>8, AbortDown DEF RemoveDir
  <2> QED  BY <1>0, <1>1, <1>8, <2>1 DEF RemoveDir, RemoveOK, TypeOK
<1>9. CASE RemoveAgain(w) \/ RemoveHandEntry(w) \/ RemoveHandDir(w)
  BY <1>2, <1>9 DEF RemoveOK, RemoveAgain, RemoveHandEntry, RemoveHandDir
<1> QED  BY <1>5, <1>6, <1>7, <1>8, <1>9

LEMMA ServedStoreStep ==
  ASSUME Tracked, Served, NEW w \in Workers, StoreStep(w), status' = "up"
  PROVE  Served'
<1>1. Step(w) /\ UNCHANGED <<job, log, muddled>>  BY DEF StoreStep
<1>2. pc[w] # "idle" /\ \A x \in Workers \ {w} : KeepsCall(x)
  BY <1>1, StepShape DEF Tracked
<1>3. PICK e : e = JobDir(job[w])  OBVIOUS
<1>4. dir[w] = e /\ e \in Dirs /\ job[w].op \in {"create", "get"}
  BY <1>2, <1>3, StageOfCall
<1>5. \A d \in Dirs : d # e \/ job[w].op # "create" => KeepsDir(d)
  BY <1>1, <1>3, StepKeepsDirs
<1>p. DEFINE P == \/ PutRawDir(w) \/ PutMkRaw(w) \/ PutOpen(w) \/ PutOpenFails(w) \/ PutWrite(w)
                  \/ PutLinkDir(w) \/ PutMkLink(w) \/ PutExists(w) \/ PutSymlink(w)
             G == GetIsDir(w) \/ GetIter(w) \/ GetOpen(w) \/ GetSize(w) \/ GetRead(w)
             R == \/ RemoveStat(w) \/ RemoveOpenDir(w) \/ RemoveEntry(w) \/ RemoveDir(w)
                  \/ RemoveAgain(w) \/ RemoveHandEntry(w) \/ RemoveHandDir(w)
<1>6. P \/ G \/ R  BY <1>1 DEF Step
<1>7. CASE job[w].op = "create"
  <2>1. ASSUME Progress(w, e), TornIn(w, e) PROVE Progress(w, e)' /\ TornIn(w, e)'
    <3>1. CASE P  BY <1>1, <1>3, <2>1, <3>1, PutStepOK
    <3>2. CASE R  BY <1>1, <1>3, <2>1, <3>2, RemoveStepOK
    <3>3. CASE G
      <4>1. GetShape(w)  BY <3>3, GetStepShape DEF Tracked
      <4>2. job[w].stage = "load"  BY <4>1, StageOfCall DEF GetShape
      <4>3. Holds(e) /\ GetOK(w, e) /\ \A v \in torn : Key(v) # e
        BY <2>1, <4>1, <4>2 DEF Progress, TornIn, GetShape, GetSteps
      <4>4. GetOK(w, e)'  BY <1>4, <3>3, <4>3, GetStepOK
      <4>5. Holds(e)'  BY <1>1, <4>1, <4>3, HoldsSame, KeepsDirDisk DEF GetShape
      <4>6. TornIn(w, e)'  BY <4>1, <4>3 DEF TornIn, GetShape
      <4> QED  BY <1>1, <4>2, <4>4, <4>5, <4>6 DEF Progress
    <3> QED  BY <1>6, <3>1, <3>2, <3>3
  <2> HIDE DEF P, G, R
  <2> QED  BY <1>1, <1>2, <1>3, <1>4, <1>5, <1>7, <2>1, CreatorStep
<1>8. CASE job[w].op = "get"
  <2>1. G /\ GetShape(w)
    <3>1. ~(P \/ R)
      <4>1. P => pc[w] \in PutSteps  BY PutStepShape DEF PutShape, Tracked
      <4>2. R => pc[w] \in RemoveSteps  BY RemoveStepShape DEF RemoveShape, Tracked
      <4> HIDE DEF P, R
      <4> QED  BY <1>8, <4>1, <4>2, StageOfCall
    <3>2. G  BY <1>6, <3>1
    <3> QED  BY <3>2, GetStepShape DEF Tracked
  <2>2. job[w].stage = "load" /\ UNCHANGED disk  BY <2>1, StageOfCall DEF GetShape
  <2>3. KeepsCreates(e)  BY <1>1, <1>2, <1>8, CreatesAfter
  <2>4. SureInv(w)'
    <3>1. ASSUME job[w].sure PROVE JobsOn("create", e)' = {}
      BY <1>3, <1>8, <2>3, <3>1 DEF Served, SureInv, KeepsCreates
    <3>2. ASSUME job[w].sure, e \notin muddled PROVE GetOK(w, e)'
      <4>1. Holds(e) /\ GetOK(w, e) /\ \A v \in torn : Key(v) # e
        BY <1>3, <1>8, <2>2, <3>2, SureDir
      <4> QED  BY <1>4, <2>1, <4>1, GetStepOK
    <3>3. JobDir(job'[w]) = e  BY <1>1, <1>3
    <3> QED  BY <1>1, <2>2, <3>1, <3>2, <3>3 DEF SureInv
  <2> QED  BY <1>1, <1>2, <1>8, <2>2, <2>4, GetterStep
<1> QED  BY <1>4, <1>7, <1>8

LEMMA ServedDown ==
  ASSUME Tracked, Served, (\E w \in Workers : StoreStep(w) /\ status' # "up") \/ SKill
  PROVE  Served'
<1>1. Lose /\ UNCHANGED <<disk, log>>  BY DownShape
<1>2. \A w \in Workers : job'[w].op = "none"  BY <1>1 DEF Lose, NoJob
<1>3. ASSUME NEW d \in Dirs \ muddled' PROVE DirInv(d)'
  <2>1. d \notin muddled /\ JobsOn("create", d) = {}  BY <1>1, <1>3 DEF Lose, JobsOn
  <2>2. Holds(d) /\ \A v \in torn : Key(v) # d  BY <2>1 DEF Served, DirInv
  <2>3. Holds(d)' /\ \A v \in torn' : Key(v) # d  BY <1>1, <2>2, HoldsSame, KeepsDirDisk
  <2>4. JobsOn("create", d)' = {}  BY <1>2 DEF JobsOn
  <2> QED  BY <2>3, <2>4 DEF DirInv
<1>4. \A w \in Workers : SureInv(w)'  BY <1>2 DEF SureInv
<1> QED  BY <1>3, <1>4 DEF Served

LEMMA ServedSame ==
  ASSUME Tracked, Served, UNCHANGED <<disk, pc, call, job, log, muddled>>
  PROVE  Served'
<1>1. \A w \in Workers : KeepsCall(w) /\ job'[w] = job[w]  BY DEF KeepsCall
<1>2. ASSUME NEW d PROVE KeepsDir(d) /\ KeepsCreates(d)
  <2>1. JobsOn("create", d)' = JobsOn("create", d)  BY DEF JobsOn, JobDir
  <2>2. JobsOn("create", d) \subseteq Workers  BY DEF JobsOn
  <2> QED  BY <1>1, <2>1, <2>2, KeepsDirDisk DEF KeepsCreates
<1>3. \A d \in Dirs \ muddled' : DirInv(d)'  BY <1>2, DirSame DEF Served
<1>4. ASSUME NEW x \in Workers PROVE SureInv(x)'
  <2>1. SureInv(x)  BY DEF Served
  <2>2. job[x].op = "get" /\ job[x].sure =>
           LET d == JobDir(job[x])
           IN  JobsOn("create", d)' = {} /\ link'[d] = link[d] /\ log'[d] = log[d]
    BY <1>2, <2>1 DEF SureInv, KeepsCreates, KeepsDir
  <2> QED  BY <1>1, <2>1, <2>2, SureSame
<1> QED  BY <1>3, <1>4 DEF Served

LEMMA ServedInitially == SInit => Served
<1> SUFFICES ASSUME SInit PROVE Served  OBVIOUS
<1>1. Init /\ job = [w \in Workers |-> NoJob] /\ log = [d \in Dirs |-> <<>>] /\ muddled = {}
  BY DEF SInit
<1>2. \A w \in Workers : job[w].op = "none"  BY <1>1 DEF NoJob
<1>3. \A d : JobsOn("create", d) = {}  BY <1>2 DEF JobsOn
<1>4. \A d \in Dirs : Holds(d) /\ \A v \in torn : Key(v) # d  BY <1>1 DEF Init, Holds
<1>5. \A d \in Dirs : DirInv(d)  BY <1>3, <1>4 DEF DirInv
<1> QED  BY <1>2, <1>5 DEF Served, SureInv

LEMMA ServedInductive == ObjectsStorable /\ Tracked /\ Served /\ [SNext]_svars => Served'
<1> SUFFICES ASSUME ObjectsStorable, Tracked, Served, [SNext]_svars PROVE Served'
  OBVIOUS
<1>1. CASE UNCHANGED svars  BY <1>1, ServedSame DEF svars, vars
<1>2. CASE SNext
  <2>1. ASSUME NEW w \in Workers,
               \/ \E id \in RequestIds, text \in Inputs, time \in Stamps :
                    ReceiveCreate(w, id, text, time)
               \/ \E id \in RequestIds \ {NoId} : ReceiveGet(w, id)
               \/ Handle(w) \/ StoreStep(w)
        PROVE  Served'
    BY <2>1, ServedReceiveCreate, ServedReceiveGet, ServedCall, ServedLoadDone,
       ServedStoreDone, ServedReply, ServedStoreStep, ServedDown
       DEF Handle
  <2>2. CASE SRestart  BY <2>2, ServedSame DEF SRestart, Restart
  <2> QED  BY <1>2, <2>1, <2>2, ServedDown DEF SNext
<1> QED  BY <1>1, <1>2

\* The inductive invariant of the service.
LEMMA ServedAlways ==
  ASSUME ObjectsStorable
  PROVE  SSpec => [](Tracked /\ Served)
BY TrackedInitially, TrackedInductive, ServedInitially, ServedInductive, PTL DEF SSpec
----------------------------------------------------------------------------
(* What the service promises.                                               *)

\* Between creates, a key on which creates never overlapped, died or failed
\* holds exactly one object, and its diffs replay to every text that
\* object.create ever acknowledged for it: Object::save, which deletes the
\* object and creates it again, loses no revision, and no other request or
\* death of the process in between costs one.
THEOREM HistoryAlwaysComplete ==
  ASSUME ObjectsStorable
  PROVE  SSpec => []HistoryComplete
<1>1. Tracked /\ Served => HistoryComplete
  <2> SUFFICES ASSUME Tracked, Served, NEW d \in Dirs, Quiet(d), log[d] # <<>>
               PROVE  \E o \in StoredObjects \cap raw :
                        /\ link[d] = {o} /\ o \notin torn
                        /\ Len(o.diffs) = Len(log[d])
                        /\ \A i \in DOMAIN log[d] : Replay(o.diffs)[i] = log[d][i]
    BY DEF HistoryComplete
  <2>1. Holds(d) /\ \A v \in torn : Key(v) # d  BY DEF Served, DirInv, Quiet
  <2>2. PICK o \in link[d] : link[d] = {o} /\ Records(o, log[d])  BY <2>1 DEF Holds
  <2>3. o \in raw /\ Key(o) = d /\ o \in StoredObjects
    BY DEF Tracked, Links, NoDanglingLink, Placed, Proper
  <2>4. DOMAIN log[d] = 1..Len(log[d])  BY DEF Tracked
  <2> QED  BY <2>1, <2>2, <2>3, <2>4 DEF Records
<1> QED  BY <1>1, ServedAlways, PTL

\* object.get of such a key, while no create of the key is under way, answers
\* with the text of the last acknowledged object.create, or that there is none,
\* although it walks the link to the file three times and other workers remove
\* and put under other keys meanwhile.
THEOREM GetsReturnLatest ==
  ASSUME ObjectsStorable
  PROVE  SSpec => []GetReturnsLatest
<1>1. Tracked /\ Served => GetReturnsLatest
  BY SureDir DEF GetReturnsLatest
<1> QED  BY <1>1, ServedAlways, PTL

\* The process terminates itself, on an exception of the file system that
\* kv_put or kv_remove lets through, only at a step of a create, of a key on
\* which creates had overlapped, died or failed before.
THEOREM AbortsOnlyWhenMuddled ==
  ASSUME ObjectsStorable
  PROVE  SSpec => AbortOnlyWhenMuddled
<1>1. Tracked /\ Served /\ [SNext]_svars =>
        [status' = "aborted" /\ status = "up" =>
           \E w \in Workers :
             Step(w) /\ job[w].op = "create" /\ JobDir(job[w]) \in muddled]_svars
  <2> SUFFICES ASSUME Tracked, Served, SNext, status' = "aborted", status = "up"
               PROVE  \E w \in Workers :
                        Step(w) /\ job[w].op = "create" /\ JobDir(job[w]) \in muddled
    BY DEF svars, vars
  <2>1. PICK w \in Workers : StoreStep(w)
    BY DEF SNext, Handle, ReceiveCreate, ReceiveGet, CallLoad, LoadDone, CallDelete, DeleteDone,
           CallStore, StoreDone, Reply, CallGet, CallRemove, CallPut, Return, PutReturn,
           SKill, Kill, GoDown, SRestart, Restart, vars
  <2>2. Step(w)  BY <2>1 DEF StoreStep
  <2>3. PICK d : d = JobDir(job[w])  OBVIOUS
  <2>4. pc[w] \in PutSteps \cup RemoveSteps
    BY <2>2
       DEF Step, PutRawDir, PutMkRaw, PutOpen, PutOpenFails, PutWrite, PutLinkDir, PutMkLink, PutExists,
           PutSymlink, GetIsDir, GetIter, GetOpen, GetSize, GetRead, RemoveStat,
           RemoveOpenDir, RemoveEntry, RemoveDir, RemoveAgain, RemoveHandEntry,
           RemoveHandDir, PutSteps, RemoveSteps
  <2>5. job[w].op = "create"  BY <2>4, StageOfCall
  <2>6. d \in Dirs  BY <2>3, <2>5, JobDirOfTracked
  <2>7. CASE d \notin muddled
    <3>1. Progress(w, d)  BY <2>3, <2>5, <2>6, <2>7 DEF Served, DirInv, JobsOn
    <3> QED  BY <2>2, <2>3, <3>1, CreatorUp
  <2> QED  BY <2>2, <2>3, <2>5, <2>7
<1> QED  BY <1>1, ServedAlways, PTL DEF SSpec, AbortOnlyWhenMuddled
----------------------------------------------------------------------------
(* The refinement: what the mapping HistoryOf is.                           *)

LEMMA TextsOfRecords ==
  ASSUME NEW o, Proper(o), NEW texts \in Seq(Inputs), Records(o, texts)
  PROVE  TextsOf(o.diffs) = texts
<1>1. o.diffs \in Seq(Diffs)  BY DEF Proper, StoredObjects, ObjectsOver
<1>2. DOMAIN o.diffs = 1..Len(texts)  BY <1>1 DEF Records
<1>3. TextsOf(o.diffs) = [i \in 1..Len(texts) |-> Replay(o.diffs)[i]]  BY <1>2 DEF TextsOf
<1>4. TextsOf(o.diffs) = [i \in 1..Len(texts) |-> texts[i]]  BY <1>3 DEF Records
<1>5. texts = [i \in 1..Len(texts) |-> texts[i]]  OBVIOUS
<1> QED  BY <1>4, <1>5

LEMMA TextsWithoutLast ==
  ASSUME NEW o, Proper(o), NEW texts \in Seq(Inputs), NEW t \in Inputs,
         Records(o, Append(texts, t))
  PROVE  TextsOf(SubSeq(o.diffs, 1, Len(o.diffs) - 1)) = texts
<1> DEFINE n == Len(texts)
           s == SubSeq(o.diffs, 1, Len(o.diffs) - 1)
<1>1. o.diffs \in Seq(Diffs) /\ n \in Nat /\ Len(o.diffs) = n + 1
  BY DEF Proper, StoredObjects, ObjectsOver, Records
<1>2. \A i \in 1..n : Replay(o.diffs)[i] = texts[i]
  <2>1. \A i \in 1..n : Append(texts, t)[i] = texts[i] /\ i \in 1..Len(Append(texts, t))
    OBVIOUS
  <2> QED  BY <2>1 DEF Records
<1>3. s \in Seq(Diffs) /\ Len(s) = n /\ \A i \in 1..n : s[i] = o.diffs[i]
  <2>1. Len(o.diffs) - 1 = n  BY <1>1
  <2>2. s = SubSeq(o.diffs, 1, n)  BY <2>1
  <2> QED  BY <1>1, <2>2
<1> HIDE DEF s
<1>4. o.diffs[n + 1] \in Diffs  BY <1>1
<1>5. Append(s, o.diffs[n + 1]) = o.diffs
  <2> DEFINE a == Append(s, o.diffs[n + 1])
  <2>1. a \in Seq(Diffs) /\ Len(a) = n + 1 /\ a[n + 1] = o.diffs[n + 1]
        /\ \A i \in 1..n : a[i] = s[i]
    BY <1>3, <1>4
  <2>2. \A i \in 1..(n + 1) : a[i] = o.diffs[i]  BY <1>1, <1>3, <2>1
  <2>3. a = [i \in 1..(n + 1) |-> a[i]] /\ o.diffs = [i \in 1..(n + 1) |-> o.diffs[i]]
    BY <1>1, <2>1
  <2> HIDE DEF a
  <2> QED  BY <2>2, <2>3 DEF a
<1>6. \A i \in 0..n : Replay(o.diffs)[i] = Replay(s)[i]
  <2>1. \A i \in 0..Len(s) : Replay(Append(s, o.diffs[n + 1]))[i] = Replay(s)[i]
    BY <1>3, <1>4, ReplayAppend
  <2>2. Replay(Append(s, o.diffs[n + 1])) = Replay(o.diffs)  BY <1>5
  <2> QED  BY <1>3, <2>1, <2>2
<1>7. TextsOf(s) = [i \in 1..n |-> Replay(s)[i]]  BY <1>1, <1>3 DEF TextsOf
<1>8. \A i \in 1..n : Replay(s)[i] = texts[i]  BY <1>1, <1>2, <1>6
<1>9. texts = [i \in 1..n |-> texts[i]]  OBVIOUS
<1> HIDE DEF n
<1> QED  BY <1>7, <1>8, <1>9 DEF s

\* The object that w makes is linked.
Linked(w, d) == job[w].stage # "load" /\ job[w].obj \in link[d]

\* The create of w could not open its file.
Failed(w) ==
  \/ pc[w] = "put_done" /\ ~ok[w]
  \/ job[w].op = "create" /\ job[w].stage = "reply" /\ ~job[w].good
  \/ job[w].op = "create" /\ job[w].stage = "again" /\ job[w].obj \notin link[JobDir(job[w])]

\* The history of a key that is not muddled is what was acknowledged for it,
\* and the text of the create under way from the moment its link is made.
Histories ==
  \A d \in Dirs \ muddled :
    /\ JobsOn("create", d) = {} => HistoryOf(d) = log[d]
    /\ \A w \in JobsOn("create", d) : ~Failed(w) =>
         HistoryOf(d) = IF Linked(w, d) THEN Append(log[d], job[w].text) ELSE log[d]

\* A create has linked its object from the end of its first put on.
LEMMA LinkedWhen ==
  ASSUME Tracked, NEW w \in Workers, NEW d \in Dirs, d = JobDir(job[w]), job[w].op = "create",
         Progress(w, d), ~Failed(w)
  PROVE  /\ job[w].stage = "delete" => ~Linked(w, d)
         /\ job[w].stage \in {"put", "save"} /\ pc[w] # "put_done" => ~Linked(w, d)
         /\ job[w].stage \in {"put", "save"} /\ pc[w] = "put_done" => Linked(w, d)
         /\ job[w].stage \in {"again", "reply"} => Linked(w, d)
<1>1. job[w].text \in Inputs  BY DEF Tracked, Tracks
<1>2. ASSUME job[w].stage = "delete" PROVE job[w].obj \notin link[d]
  <2>1. /\ RemoveOK(w, d) /\ Records(job[w].obj, Append(log[d], job[w].text))
        /\ pc[w] \in {"idle", "rm_stat", "rm_opendir", "rm_entry", "rm_done"}
    BY <1>2 DEF Progress, RemoveOK
  <2>2. CASE pc[w] \in {"idle", "rm_stat", "rm_opendir"}
    BY <1>1, <2>1, <2>2, NotYetLinked DEF RemoveOK
  <2>3. CASE pc[w] \in {"rm_entry", "rm_done"}  BY <2>1, <2>3 DEF RemoveOK
  <2> QED  BY <2>1, <2>2, <2>3
<1> QED  BY <1>2 DEF Progress, PutOK, Linked, Failed

LEMMA HistoriesKnown == Tracked /\ Served => Histories
<1> SUFFICES ASSUME Tracked, Served, NEW d \in Dirs \ muddled
             PROVE  /\ JobsOn("create", d) = {} => HistoryOf(d) = log[d]
                    /\ \A w \in JobsOn("create", d) : ~Failed(w) =>
                         HistoryOf(d) = IF Linked(w, d) THEN Append(log[d], job[w].text) ELSE log[d]
  BY DEF Histories
<1>0. DirInv(d) /\ log[d] \in Seq(Inputs)  BY DEF Served, Tracked
<1>p. \A o \in link[d] : Proper(o)  BY DEF Tracked, Links, NoDanglingLink, Placed
<1>h. ASSUME Holds(d), Updates(d) = {} PROVE HistoryOf(d) = log[d]
  <2>1. CASE log[d] = <<>>  BY <1>h, <2>1 DEF Holds, HistoryOf
  <2>2. CASE log[d] # <<>>
    <3>1. PICK o \in link[d] : link[d] = {o} /\ Records(o, log[d])  BY <1>h, <2>2 DEF Holds
    <3>2. (CHOOSE x \in link[d] : TRUE) = o  BY <3>1
    <3>3. HistoryOf(d) = TextsOf(o.diffs)  BY <1>h, <3>1, <3>2 DEF HistoryOf
    <3> QED  BY <1>0, <1>p, <3>1, <3>3, TextsOfRecords
  <2> QED  BY <2>1, <2>2
<1>1. ASSUME JobsOn("create", d) = {} PROVE HistoryOf(d) = log[d]
  <2>1. Updates(d) = {}  BY <1>1 DEF Updates
  <2> QED  BY <1>0, <1>1, <1>h, <2>1 DEF DirInv
<1>2. ASSUME NEW w \in JobsOn("create", d), ~Failed(w)
      PROVE  HistoryOf(d) = IF Linked(w, d) THEN Append(log[d], job[w].text) ELSE log[d]
  <2>0. w \in Workers /\ job[w].op = "create" /\ d = JobDir(job[w])  BY <1>2 DEF JobsOn
  <2>1. Progress(w, d) /\ JobsOn("create", d) = {w}  BY <1>0, <1>2 DEF DirInv
  <2>2. Tracks(w) /\ job[w].text \in Inputs /\ job[w] \in Jobs  BY <2>0 DEF Tracked, Tracks
  <2>3. Append(log[d], job[w].text) \in Seq(Inputs)  BY <1>0, <2>2
  <2>4. CASE job[w].stage = "load"
    <3>1. Updates(d) = {}  BY <2>1, <2>4 DEF Updates
    <3>2. Holds(d)  BY <2>1, <2>4 DEF Progress
    <3> QED  BY <1>h, <2>4, <3>1, <3>2 DEF Linked
  <2>5. CASE job[w].stage \in {"delete", "save"}
    <3>1. Updates(d) = {w}  BY <2>1, <2>5 DEF Updates
    <3>2. (CHOOSE x \in Updates(d) : TRUE) = w  BY <3>1
    <3>3. HistoryOf(d) = IF job[w].obj \in link[d] THEN TextsOf(job[w].obj.diffs)
                         ELSE TextsOf(SubSeq(job[w].obj.diffs, 1, Len(job[w].obj.diffs) - 1))
      BY <3>1, <3>2 DEF HistoryOf
    <3>4. Proper(job[w].obj)  BY <2>2, <2>5 DEF Tracks, Putting
    <3>5. Records(job[w].obj, Append(log[d], job[w].text))  BY <2>1, <2>5 DEF Progress
    <3>6. CASE job[w].obj \in link[d]
      BY <2>3, <2>5, <3>3, <3>4, <3>5, <3>6, TextsOfRecords DEF Linked
    <3>7. CASE job[w].obj \notin link[d]
      BY <1>0, <2>2, <2>5, <3>3, <3>4, <3>5, <3>7, TextsWithoutLast DEF Linked
    <3> QED  BY <3>6, <3>7
  <2>6. CASE job[w].stage \in {"put", "again", "reply"}
    <3>1. Updates(d) = {}  BY <2>1, <2>6 DEF Updates
    <3>2. CASE Linked(w, d)
      <4>1. link[d] = {job[w].obj} /\ Records(job[w].obj, Append(log[d], job[w].text))
        BY <1>2, <2>0, <2>1, <2>6, <3>2 DEF Progress, PutOK, Linked, Failed
      <4>2. (CHOOSE x \in link[d] : TRUE) = job[w].obj  BY <4>1
      <4>3. HistoryOf(d) = TextsOf(job[w].obj.diffs)  BY <3>1, <4>1, <4>2 DEF HistoryOf
      <4>4. Proper(job[w].obj)  BY <1>p, <4>1
      <4> QED  BY <2>3, <3>2, <4>1, <4>3, <4>4, TextsOfRecords
    <3>3. CASE ~Linked(w, d)
      <4>1. job[w].stage = "put" /\ pc[w] # "put_done"
        BY <1>2, <2>0, <2>1, <2>6, <3>3, LinkedWhen
      <4>2. link[d] = {} /\ log[d] = <<>>  BY <2>1, <4>1 DEF Progress
      <4> QED  BY <3>1, <3>3, <4>2 DEF HistoryOf
    <3> QED  BY <3>2, <3>3
  <2>7. job[w].stage # "none"  BY <2>0, <2>2 DEF Tracks
  <2> QED  BY <2>2, <2>4, <2>5, <2>6, <2>7 DEF Jobs
<1> QED  BY <1>1, <1>2
----------------------------------------------------------------------------
(* The refinement: one caller, who names the objects, and a process that    *)
(* stays up.                                                                *)

OneCaller == (\A w, x \in Workers : w = x) /\ NoId \notin RequestIds

\* With one caller no key is ever muddled and every get is sure.
Serial ==
  /\ status = "up" /\ muddled = {}
  /\ \A w \in Workers : ~Failed(w) /\ (job[w].op = "get" => job[w].sure)

LinkedKnown ==
  \A w \in Workers : \A d \in Dirs :
    d \notin muddled /\ d = JobDir(job[w]) /\ job[w].op = "create" /\ ~Failed(w) =>
      /\ job[w].stage = "delete" => ~Linked(w, d)
      /\ job[w].stage \in {"put", "save"} /\ pc[w] # "put_done" => ~Linked(w, d)
      /\ job[w].stage \in {"again", "reply"} => Linked(w, d)

\* The history of every key as the only worker w determines it.
TextsFor(w, d) ==
  IF job[w].op = "create" /\ JobDir(job[w]) = d /\ Linked(w, d)
    THEN Append(log[d], job[w].text) ELSE log[d]

AllTexts == \A w \in Workers : \A d \in Dirs : HistoryOf(d) = TextsFor(w, d)

SerialInv == Tracked /\ Served /\ Serial /\ AllTexts /\ LinkedKnown

LEMMA LinkedIsKnown == Tracked /\ Served => LinkedKnown
<1> SUFFICES ASSUME Tracked, Served, NEW w \in Workers, NEW d \in Dirs,
                    d \notin muddled, d = JobDir(job[w]), job[w].op = "create", ~Failed(w)
             PROVE  /\ job[w].stage = "delete" => ~Linked(w, d)
                    /\ job[w].stage \in {"put", "save"} /\ pc[w] # "put_done" => ~Linked(w, d)
                    /\ job[w].stage \in {"again", "reply"} => Linked(w, d)
  BY DEF LinkedKnown
<1>1. Progress(w, d)  BY DEF Served, DirInv, JobsOn
<1> QED  BY <1>1, LinkedWhen

\* The only worker is the only one that can create.
LEMMA SerialCreates ==
  ASSUME OneCaller, NEW w \in Workers, NEW d
  PROVE  JobsOn("create", d) = IF job[w].op = "create" /\ JobDir(job[w]) = d THEN {w} ELSE {}
BY DEF OneCaller, JobsOn

LEMMA SerialTexts ==
  ASSUME OneCaller, Serial, Histories
  PROVE  AllTexts
<1> SUFFICES ASSUME NEW w \in Workers, NEW d \in Dirs PROVE HistoryOf(d) = TextsFor(w, d)
  BY DEF AllTexts
<1>1. d \in Dirs \ muddled  BY DEF Serial
<1>2. CASE job[w].op = "create" /\ JobDir(job[w]) = d
  <2>1. w \in JobsOn("create", d)  BY <1>2, SerialCreates
  <2> QED  BY <1>1, <1>2, <2>1 DEF Histories, TextsFor, Serial
<1>3. CASE ~(job[w].op = "create" /\ JobDir(job[w]) = d)
  <2>1. JobsOn("create", d) = {}  BY <1>3, SerialCreates
  <2> QED  BY <1>1, <1>3, <2>1 DEF Histories, TextsFor
<1> QED  BY <1>2, <1>3

\* Alone on its key and with files that open, a create does not fail.
LEMMA NoFailure ==
  ASSUME Tracked, NEW w \in Workers, Step(w), status' = "up", ~PutOpenFails(w), job' = job,
         ~Failed(w),
         job[w].op = "create" => Progress(w, JobDir(job[w]))
  PROVE  ~Failed(w)'
<1>0. TypeOK /\ Tracks(w) /\ job[w] \in Jobs  BY DEF Tracked
<1>1. /\ pc[w] # "idle"
      /\ PutShape(w) \/ GetShape(w) \/ RemoveShape(w)
  BY <1>0, StepShape
<1>2. PICK d : d = JobDir(job[w])  OBVIOUS
<1>3. d \in Dirs /\ dir[w] = d  BY <1>1, <1>2, StageOfCall
<1>4. CASE GetShape(w) \/ RemoveShape(w)
  <2>1. pc'[w] # "put_done"  BY <1>4 DEF GetShape, RemoveShape, GetSteps, RemoveSteps
  <2>2. job[w].stage # "again" /\ job[w].stage # "reply"
    BY <1>0, <1>4 DEF Tracks, GetShape, RemoveShape, GetSteps, RemoveSteps, PutSteps, Putting
  <2> QED  BY <2>1, <2>2 DEF Failed
<1>5. CASE PutShape(w)
  <2>1. job[w].stage \in Putting /\ job[w].op = "create" /\ pc[w] \in PutSteps
    BY <1>5, StageOfCall DEF PutShape
  <2>2. PutOK(w, d)  BY <1>2, <2>1 DEF Progress, Putting
  <2>3. \/ PutRawDir(w) \/ PutMkRaw(w) \/ PutOpen(w) \/ PutWrite(w)
        \/ PutLinkDir(w) \/ PutMkLink(w) \/ PutExists(w) \/ PutSymlink(w)
    BY <2>1
       DEF Step, PutSteps, GetIsDir, GetIter, GetOpen, GetSize, GetRead, RemoveStat,
           RemoveOpenDir, RemoveEntry, RemoveDir, RemoveAgain, RemoveHandEntry, RemoveHandDir
  <2>4. (pc'[w] = "put_done" => ok'[w]) /\ link[d] \subseteq link'[d]
    <3> USE <1>0, <1>3, <2>2 DEF TypeOK, PutOK
    <3>1. CASE PutRawDir(w)  BY <3>1 DEF PutRawDir
    <3>2. CASE PutMkRaw(w)  BY <3>2 DEF PutMkRaw
    <3>3. CASE PutOpen(w)  BY <3>3 DEF PutOpen
    <3>4. CASE PutWrite(w)  BY <3>4 DEF PutWrite
    <3>5. CASE PutLinkDir(w)  BY <3>5 DEF PutLinkDir
    <3>6. CASE PutMkLink(w)  BY <3>6 DEF PutMkLink
    <3>7. CASE PutExists(w)  BY <3>7 DEF PutExists
    <3>8. CASE PutSymlink(w)
      <4>1. dir[w] \in linkDirs /\ val[w] \notin link[dir[w]]
        BY <3>8, AbortDown DEF PutSymlink
      <4> QED  BY <3>8, <4>1 DEF PutSymlink
    <3> QED  BY <2>3, <3>1, <3>2, <3>3, <3>4, <3>5, <3>6, <3>7, <3>8
  <2>5. job[w].stage = "again" => job[w].obj \in link[d]  BY <1>2, <2>1 DEF Failed
  <2>6. job[w].stage # "reply" /\ JobDir(job'[w]) = d  BY <1>2, <2>1 DEF Putting
  <2> QED  BY <2>4, <2>5, <2>6 DEF Failed
<1> QED  BY <1>1, <1>4, <1>5

LEMMA SerialKept ==
  ASSUME ObjectsStorable, OneCaller, Tracked, Served, Serial, SNext, Undisturbed
  PROVE  Serial'
<1> USE DEF Serial
<1>0. (\A w, x \in Workers : w = x) /\ status' = "up"  BY DEF OneCaller, Undisturbed
<1>p. ASSUME NEW w \in Workers, job[w].op = "create" PROVE Progress(w, JobDir(job[w]))
  <2>1. PICK e : e = JobDir(job[w])  OBVIOUS
  <2>2. e \in Dirs /\ w \in JobsOn("create", e)  BY <1>p, <2>1, JobDirOfTracked DEF JobsOn
  <2> QED  BY <2>1, <2>2 DEF Served, DirInv
<1>1. ASSUME NEW w \in Workers, NEW id \in RequestIds, NEW text \in Inputs, NEW time \in Stamps,
             ReceiveCreate(w, id, text, time)
      PROVE  Serial'
  <2>1. job'[w].op = "create"  BY <1>1, CreateReceived
  <2>2. job[w] = NoJob /\ NoJob.op = "none"  BY <1>1 DEF ReceiveCreate, NoJob
  <2>3. \A d : JobsOn("create", d) = {}  BY <1>0, <2>2 DEF JobsOn
  <2>4. id # NoId  BY DEF OneCaller
  <2>5. muddled' = muddled  BY <1>1, <2>3, <2>4 DEF ReceiveCreate
  <2>6. job'[w].stage = "load"  BY <1>1, <2>4, CreateReceived
  <2>7. pc'[w] = "idle"
    BY <1>1, <2>2 DEF ReceiveCreate, vars, Tracked, Tracks, NoJob
  <2>8. ~Failed(w)'  BY <2>6, <2>7 DEF Failed
  <2> QED  BY <1>0, <2>1, <2>5, <2>8
<1>2. ASSUME NEW w \in Workers, NEW id \in RequestIds \ {NoId}, ReceiveGet(w, id)
      PROVE  Serial'
  <2>1. job[w] = NoJob /\ NoJob.op = "none"  BY <1>2 DEF ReceiveGet, NoJob
  <2>2. JobsOn("create", validate_key(id)) = {}  BY <1>0, <2>1 DEF JobsOn
  <2>3. job'[w] = [NoJob EXCEPT !.op = "get", !.stage = "load", !.id = id, !.sure = TRUE]
    BY <1>2, <2>2 DEF ReceiveGet, Tracked
  <2>4. job'[w].sure  BY <2>3 DEF NoJob
  <2>5. muddled' = muddled  BY <1>2 DEF ReceiveGet
  <2>6. pc'[w] = "idle" /\ job'[w].op = "get"
    BY <1>2, <2>1, <2>3 DEF ReceiveGet, vars, Tracked, Tracks, NoJob
  <2>7. ~Failed(w)'  BY <2>6 DEF Failed
  <2> QED  BY <1>0, <2>4, <2>5, <2>7
<1>3. ASSUME NEW w \in Workers, CallLoad(w) \/ CallDelete(w) \/ CallStore(w) PROVE Serial'
  <2>1. job' = job /\ link' = link /\ muddled' = muddled
    BY <1>3 DEF CallLoad, CallDelete, CallStore, CallGet, CallRemove, CallPut
  <2>2. pc'[w] # "put_done"
    BY <1>3 DEF CallLoad, CallDelete, CallStore, CallGet, CallRemove, CallPut, Tracked, TypeOK
  <2>3. ~Failed(w)'  BY <2>1, <2>2 DEF Failed, JobDir
  <2> QED  BY <1>0, <2>1, <2>3
<1>4. ASSUME NEW w \in Workers, NEW time \in Stamps, LoadDone(w, time) PROVE Serial'
  <2>1. job'[w].op = job[w].op /\ job'[w].sure = job[w].sure  BY <1>4, AfterLoadJob
  <2>2. muddled' = muddled /\ pc'[w] = "idle"
    BY <1>4 DEF LoadDone, Return, Stage, Tracked, TypeOK
  <2>3. job'[w].op = "create" => job'[w].stage \in {"put", "delete"}  BY <1>4, AfterLoadJob
  <2>4. ~Failed(w)'  BY <2>2, <2>3 DEF Failed
  <2> QED  BY <1>0, <2>1, <2>2, <2>4
<1>5. ASSUME NEW w \in Workers, DeleteDone(w) \/ StoreDone(w) PROVE Serial'
  <2>0. job[w] \in Jobs /\ Tracks(w)  BY DEF Tracked
  <2>1. job[w].stage \in Putting \cup {"delete"}
    BY <1>5 DEF DeleteDone, StoreDone, Stage, Putting
  <2>2. job[w].op = "create"  BY <2>0, <2>1 DEF Tracks
  <2>3. job'[w].op = job[w].op
    <3>1. CASE DeleteDone(w)
      <4>1. job' = [job EXCEPT ![w].stage = IF ok[w] THEN "save" ELSE "reply"]
        BY <3>1 DEF DeleteDone
      <4> QED  BY <2>0, <4>1 DEF Tracked, Jobs
    <3>2. CASE StoreDone(w)
      <4> DEFINE k == IF job[w].stage = "put" THEN [job[w] EXCEPT !.stage = "again"]
                        ELSE [job[w] EXCEPT !.stage = "reply", !.good = ok[w]]
      <4>1. job' = [job EXCEPT ![w] = k]  BY <3>2 DEF StoreDone
      <4>2. k.op = job[w].op  BY <2>0 DEF Jobs
      <4> HIDE DEF k
      <4> QED  BY <4>1, <4>2 DEF Tracked
    <3> QED  BY <1>5, <3>1, <3>2
  <2>4. muddled' = muddled  BY <1>5 DEF DeleteDone, StoreDone
  <2>5. PICK e : e = JobDir(job[w])  OBVIOUS
  <2>6. Progress(w, e)  BY <1>p, <2>2, <2>5
  <2>7. pc'[w] = "idle" /\ link' = link
    BY <1>5 DEF DeleteDone, StoreDone, Return, PutReturn, Tracked, TypeOK
  <2>8. ~Failed(w)'
    <3>1. CASE DeleteDone(w)
      <4>1. pc[w] = "rm_done" /\ job[w].stage = "delete"  BY <3>1 DEF DeleteDone, Stage
      <4>2. ok[w]  BY <2>6, <4>1 DEF Progress, RemoveOK
      <4>3. job'[w].stage = "save"  BY <2>0, <3>1, <4>2 DEF DeleteDone, Tracked, Jobs
      <4> QED  BY <2>7, <4>3 DEF Failed
    <3>2. CASE StoreDone(w)
      <4> DEFINE k == IF job[w].stage = "put" THEN [job[w] EXCEPT !.stage = "again"]
                        ELSE [job[w] EXCEPT !.stage = "reply", !.good = ok[w]]
      <4>1. pc[w] = "put_done" /\ job[w].stage \in Putting
        BY <3>2 DEF StoreDone, Stage, Putting
      <4>2. ok[w]  BY <4>1 DEF Failed
      <4>3. link[e] = {job[w].obj}  BY <2>6, <4>1, <4>2 DEF Progress, PutOK, Putting
      <4>4. job' = [job EXCEPT ![w] = k]  BY <3>2 DEF StoreDone
      <4>5. /\ k.stage = "reply" => k.good
            /\ k.id = job[w].id /\ k.text = job[w].text /\ k.obj = job[w].obj
        BY <2>0, <4>2 DEF Jobs
      <4> HIDE DEF k
      <4>6. job'[w] = k  BY <4>4 DEF Tracked
      <4>7. JobDir(job'[w]) = e  BY <2>5, <4>5, <4>6 DEF JobDir
      <4> QED  BY <2>7, <4>3, <4>5, <4>6, <4>7 DEF Failed
    <3> QED  BY <1>5, <3>1, <3>2
  <2> QED  BY <1>0, <2>2, <2>3, <2>4, <2>8
<1>6. ASSUME NEW w \in Workers, Reply(w) PROVE Serial'
  <2>1. job'[w] = NoJob /\ NoJob.op = "none" /\ job[w].stage = "reply"
    BY <1>6 DEF Reply, Tracked, NoJob, Stage
  <2>2. job[w].op # "get" => job[w].good
    <3> SUFFICES ASSUME job[w].op # "get" PROVE job[w].good  OBVIOUS
    <3>0. job[w] \in Jobs /\ Tracks(w)  BY DEF Tracked
    <3>1. job[w].op = "create"  BY <2>1, <3>0 DEF Jobs, Tracks, NoJob
    <3> QED  BY <2>1, <3>1 DEF Failed
  <2>3. muddled' = muddled  BY <1>6, <2>2 DEF Reply
  <2>4. pc'[w] = "idle"  BY <1>6 DEF Reply, Stage, vars
  <2>5. ~Failed(w)'  BY <2>1, <2>4 DEF Failed
  <2> QED  BY <1>0, <2>1, <2>3, <2>5
<1>7. ASSUME NEW w \in Workers, StoreStep(w) PROVE Serial'
  <2>1. Step(w) /\ job' = job /\ muddled' = muddled /\ ~PutOpenFails(w)
    BY <1>0, <1>7 DEF StoreStep, Undisturbed
  <2>2. ~Failed(w)'  BY <1>0, <1>p, <2>1, NoFailure
  <2> QED  BY <1>0, <2>1, <2>2
<1>8. ~SKill /\ ~SRestart  BY <1>0 DEF SKill, Kill, GoDown, SRestart, Restart
<1> QED  BY <1>1, <1>2, <1>3, <1>4, <1>5, <1>6, <1>7, <1>8 DEF SNext, Handle

LEMMA SerialAlways ==
  ASSUME ObjectsStorable, OneCaller
  PROVE  SerialSpec => []SerialInv
<1>1. SInit => Tracked /\ Served /\ Serial
  <2>1. SInit => Serial  BY DEF SInit, Init, Serial, NoJob, Failed
  <2> QED  BY <2>1, TrackedInitially, ServedInitially
<1>2. Tracked /\ Served /\ Serial /\ [SNext /\ Undisturbed]_svars => (Tracked /\ Served /\ Serial)'
  <2> SUFFICES ASSUME Tracked, Served, Serial, [SNext /\ Undisturbed]_svars
               PROVE  Tracked' /\ Served' /\ Serial'
    OBVIOUS
  <2>1. [SNext]_svars  OBVIOUS
  <2>2. Tracked' /\ Served'  BY <2>1, TrackedInductive, ServedInductive
  <2>3. ASSUME UNCHANGED svars PROVE Serial'  BY <2>3 DEF svars, vars, Serial, Failed, JobDir
  <2>4. ASSUME SNext, Undisturbed PROVE Serial'  BY <2>4, SerialKept
  <2>5. Serial'  BY <2>3, <2>4
  <2> QED  BY <2>2, <2>5
<1>3. Tracked /\ Served /\ Serial => SerialInv
  BY HistoriesKnown, LinkedIsKnown, SerialTexts DEF SerialInv
<1> QED  BY <1>1, <1>2, <1>3, PTL DEF SerialSpec
----------------------------------------------------------------------------
(* The refinement: every step of the only worker is a step of the map.      *)

SameTexts(w) == \A d \in Dirs : TextsFor(w, d)' = TextsFor(w, d)

\* Receiving a request, calling the store, coming back from it and answering
\* leave the histories as they are.
LEMMA TextsReceive ==
  ASSUME OneCaller, SerialInv, SerialInv', NEW w \in Workers,
         \/ \E id \in RequestIds, text \in Inputs, time \in Stamps : ReceiveCreate(w, id, text, time)
         \/ \E id \in RequestIds \ {NoId} : ReceiveGet(w, id)
  PROVE  SameTexts(w) /\ AnswerOf(w)' = AnswerOf(w)
<1>1. job[w].op = "none" /\ log' = log
  <2>1. ASSUME NEW id, NEW text, NEW time, ReceiveCreate(w, id, text, time)
        PROVE  job[w] = NoJob /\ log' = log
    BY <2>1 DEF ReceiveCreate
  <2>2. ASSUME NEW id, ReceiveGet(w, id) PROVE job[w] = NoJob /\ log' = log
    BY <2>2 DEF ReceiveGet
  <2> QED  BY <2>1, <2>2 DEF NoJob
<1>2. job'[w].stage = "load"
  <2>1. ASSUME NEW id \in RequestIds, NEW text \in Inputs, NEW time \in Stamps,
               ReceiveCreate(w, id, text, time)
        PROVE  job'[w].stage = "load"
    BY <2>1, CreateReceived DEF SerialInv, OneCaller
  <2>2. ASSUME NEW id \in RequestIds \ {NoId}, ReceiveGet(w, id) PROVE job'[w].stage = "load"
    BY <2>2 DEF ReceiveGet, SerialInv, Tracked, NoJob
  <2> QED  BY <2>1, <2>2
<1> QED  BY <1>1, <1>2 DEF SameTexts, TextsFor, Linked, AnswerOf

LEMMA TextsCall ==
  ASSUME NEW w \in Workers, CallLoad(w) \/ CallDelete(w) \/ CallStore(w)
  PROVE  SameTexts(w) /\ AnswerOf(w)' = AnswerOf(w)
<1>1. job' = job /\ log' = log /\ link' = link
  BY DEF CallLoad, CallDelete, CallStore, CallGet, CallRemove, CallPut
<1> QED  BY <1>1 DEF SameTexts, TextsFor, Linked, AnswerOf

LEMMA TextsDone ==
  ASSUME SerialInv, NEW w \in Workers, DeleteDone(w) \/ StoreDone(w)
  PROVE  SameTexts(w) /\ AnswerOf(w)' = AnswerOf(w)
<1>0. job[w] \in Jobs /\ Tracks(w) /\ job \in [Workers -> Jobs]  BY DEF SerialInv, Tracked
<1>1. job[w].stage \in Putting \cup {"delete"} /\ log' = log /\ link' = link
  BY DEF DeleteDone, StoreDone, Stage, Putting, Return, PutReturn
<1>2. job[w].op = "create"  BY <1>0, <1>1 DEF Tracks
<1>3. /\ job'[w].op = job[w].op /\ job'[w].id = job[w].id /\ job'[w].text = job[w].text
      /\ job'[w].obj = job[w].obj /\ job'[w].stage # "load"
  <2>1. CASE DeleteDone(w)
    <3>1. job' = [job EXCEPT ![w].stage = IF ok[w] THEN "save" ELSE "reply"]
      BY <2>1 DEF DeleteDone
    <3> QED  BY <1>0, <3>1 DEF Jobs
  <2>2. CASE StoreDone(w)
    <3> DEFINE k == IF job[w].stage = "put" THEN [job[w] EXCEPT !.stage = "again"]
                      ELSE [job[w] EXCEPT !.stage = "reply", !.good = ok[w]]
    <3>1. job' = [job EXCEPT ![w] = k]  BY <2>2 DEF StoreDone
    <3>2. /\ k.op = job[w].op /\ k.id = job[w].id /\ k.text = job[w].text
          /\ k.obj = job[w].obj /\ k.stage # "load"
      BY <1>0 DEF Jobs
    <3> HIDE DEF k
    <3> QED  BY <1>0, <3>1, <3>2
  <2> QED  BY <2>1, <2>2
<1>4. JobDir(job'[w]) = JobDir(job[w])  BY <1>3 DEF JobDir
<1>5. job[w].stage # "load"  BY <1>1 DEF Putting
<1> QED  BY <1>1, <1>2, <1>3, <1>4, <1>5 DEF SameTexts, TextsFor, Linked, AnswerOf

\* What a create loads changes nothing yet.
LEMMA TextsLoaded ==
  ASSUME ObjectsStorable, SerialInv, SerialInv', NEW w \in Workers, NEW time \in Stamps,
         LoadDone(w, time)
  PROVE  SameTexts(w) /\ (job[w].op = "create" => AnswerOf(w)' = AnswerOf(w))
<1>1. /\ job[w].stage = "load" /\ job'[w].op = job[w].op
      /\ job[w].op = "create" => job'[w].stage \in {"put", "delete"}
  BY AfterLoadJob DEF SerialInv
<1>2. log' = log /\ pc'[w] = "idle"
  BY DEF LoadDone, Return, Stage, SerialInv, Tracked, TypeOK
<1>3. ASSUME NEW d \in Dirs, job[w].op = "create", JobDir(job'[w]) = d PROVE ~Linked(w, d)'
  BY <1>1, <1>2, <1>3 DEF SerialInv, Serial, LinkedKnown
<1> QED  BY <1>1, <1>2, <1>3 DEF SameTexts, TextsFor, Linked, AnswerOf

\* The text that a create is answered for was part of the history before.
LEMMA TextsReply ==
  ASSUME SerialInv, NEW w \in Workers, Reply(w)
  PROVE  SameTexts(w) /\ AnswerOf(w)' = <<>> /\ (job[w].op = "create" => AnswerOf(w) = <<>>)
<1>0. job[w] \in Jobs /\ Tracks(w) /\ job \in [Workers -> Jobs]  BY DEF SerialInv, Tracked
<1>1. job'[w] = NoJob /\ NoJob.op = "none" /\ job[w].stage = "reply"
  BY <1>0 DEF Reply, NoJob, Stage
<1>2. job[w].op \in {"create", "get"}  BY <1>0, <1>1 DEF Jobs, Tracks, NoJob
<1>3. CASE job[w].op = "get"
  <2>1. log' = log  BY <1>3 DEF Reply
  <2> QED  BY <1>1, <1>3, <2>1 DEF SameTexts, TextsFor, AnswerOf
<1>4. CASE job[w].op = "create"
  <2>1. PICK e : e = JobDir(job[w])  OBVIOUS
  <2>2. e \in Dirs /\ e \notin muddled /\ w \in JobsOn("create", e)
    BY <1>4, <2>1, JobDirOfTracked DEF JobsOn, SerialInv, Serial
  <2>3. job[w].good
    BY <1>1, <1>4 DEF SerialInv, Serial, Failed
  <2>4. Linked(w, e)  BY <1>1, <1>4, <2>1, <2>2 DEF SerialInv, LinkedKnown, Serial
  <2>5. log' = [log EXCEPT ![e] = Append(@, job[w].text)]  BY <1>4, <2>1, <2>3 DEF Reply
  <2>6. \A d \in Dirs : log'[d] = IF d = e THEN Append(log[d], job[w].text) ELSE log[d]
    BY <2>2, <2>5 DEF SerialInv, Tracked
  <2> QED  BY <1>1, <1>4, <2>1, <2>4, <2>6 DEF SameTexts, TextsFor, AnswerOf
<1> QED  BY <1>2, <1>3, <1>4

\* A step of the store leaves the histories as they are, or it makes the link
\* of the object that a create puts first.
LEMMA TextsStep ==
  ASSUME SerialInv, SerialInv', NEW w \in Workers, StoreStep(w), status' = "up"
  PROVE  /\ AnswerOf(w)' = AnswerOf(w)
         /\ \/ SameTexts(w)
            \/ \E e \in Dirs, text \in Inputs : \A d \in Dirs :
                 TextsFor(w, d)' = IF d = e THEN Append(TextsFor(w, d), text) ELSE TextsFor(w, d)
<1>0. job[w] \in Jobs /\ Tracks(w)  BY DEF SerialInv, Tracked
<1>1. job' = job /\ log' = log  BY DEF StoreStep
<1>2. Step(w)  BY DEF StoreStep
<1>3. pc[w] \notin {"idle", "put_done"}
  BY <1>2
     DEF Step, PutRawDir, PutMkRaw, PutOpen, PutOpenFails, PutWrite, PutLinkDir, PutMkLink, PutExists,
         PutSymlink, GetIsDir, GetIter, GetOpen, GetSize, GetRead, RemoveStat,
         RemoveOpenDir, RemoveEntry, RemoveDir, RemoveAgain, RemoveHandEntry, RemoveHandDir
<1>4. AnswerOf(w)' = AnswerOf(w)  BY <1>1 DEF AnswerOf
<1>5. CASE job[w].op # "create"  BY <1>1, <1>4, <1>5 DEF SameTexts, TextsFor
<1>6. CASE job[w].op = "create"
  <2>1. PICK e : e = JobDir(job[w])  OBVIOUS
  <2>2. e \in Dirs /\ e \notin muddled /\ e \notin muddled' /\ e = JobDir(job'[w])
    BY <1>1, <1>6, <2>1, JobDirOfTracked DEF SerialInv, Serial
  <2>3. job[w].stage \in {"load", "put", "again", "delete", "save"}
    BY <1>0, <1>3, <1>6 DEF Tracks, Jobs
  <2>4. CASE Linked(w, e)' <=> Linked(w, e)
    BY <1>1, <1>4, <2>1, <2>4 DEF SameTexts, TextsFor
  <2>5. CASE job[w].stage \in {"load", "again", "delete"}
    <3>1. CASE job[w].stage = "load"  BY <1>1, <2>4, <3>1 DEF Linked
    <3>2. CASE job[w].stage = "again"
      <4>1. Linked(w, e)  BY <1>6, <2>1, <2>2, <3>2 DEF SerialInv, LinkedKnown, Serial
      <4>2. Linked(w, e)'  BY <1>1, <1>6, <2>2, <3>2 DEF SerialInv, LinkedKnown, Serial
      <4> QED  BY <2>4, <4>1, <4>2
    <3>3. CASE job[w].stage = "delete"
      <4>1. ~Linked(w, e)  BY <1>6, <2>1, <2>2, <3>3 DEF SerialInv, LinkedKnown, Serial
      <4>2. ~Linked(w, e)'  BY <1>1, <1>6, <2>2, <3>3 DEF SerialInv, LinkedKnown, Serial
      <4> QED  BY <2>4, <4>1, <4>2
    <3> QED  BY <2>5, <3>1, <3>2, <3>3
  <2>6. CASE job[w].stage \in {"put", "save"} /\ Linked(w, e)'
    <3>1. ~Linked(w, e)  BY <1>3, <1>6, <2>1, <2>2, <2>6 DEF SerialInv, LinkedKnown, Serial
    <3>2. job[w].text \in Inputs  BY <1>0, <1>6 DEF Tracks
    <3>3. \A d \in Dirs : TextsFor(w, d)' =
            IF d = e THEN Append(TextsFor(w, d), job[w].text) ELSE TextsFor(w, d)
      BY <1>1, <1>6, <2>1, <2>6, <3>1 DEF TextsFor
    <3> QED  BY <1>4, <2>2, <3>2, <3>3
  <2>7. CASE job[w].stage \in {"put", "save"} /\ ~Linked(w, e)'
    <3>1. ~Linked(w, e)  BY <1>3, <1>6, <2>1, <2>2, <2>7 DEF SerialInv, LinkedKnown, Serial
    <3> QED  BY <2>4, <2>7, <3>1
  <2> QED  BY <2>3, <2>5, <2>6, <2>7
<1> QED  BY <1>5, <1>6

\* A get is answered with the newest text of the history.
LEMMA NewestAnswered ==
  ASSUME ObjectsStorable, SerialInv, SerialInv', NEW w \in Workers, NEW time \in Stamps,
         LoadDone(w, time), job[w].op = "get"
  PROVE  /\ AnswerOf(w) = <<>>
         /\ \E e \in Dirs : AnswerOf(w)' =
              <<e, IF HistoryOf(e) = <<>> THEN NoText ELSE HistoryOf(e)[Len(HistoryOf(e))]>>
<1>1. job[w].stage = "load" /\ job'[w].op = "get" /\ job'[w].stage = "reply"
  BY AfterLoadJob DEF SerialInv
<1>2. PICK e : e = JobDir(job'[w])  OBVIOUS
<1>3. e = JobDir(job[w]) /\ e \in Dirs
  <2>1. job'[w].id = job[w].id  BY AfterLoadJob DEF SerialInv
  <2>2. Tracks(w) /\ job[w].id \in Names  BY DEF SerialInv, Tracked, Tracks
  <2>3. job[w].id # NoId  BY <2>2, ServiceAssumption
  <2> QED  BY <1>2, <2>1, <2>3, JobDirOfTracked DEF JobDir, SerialInv
<1>4. log' = log  BY DEF LoadDone
<1>5. job'[w].sure /\ e \notin muddled'  BY <1>1 DEF SerialInv, Serial
<1>6. job'[w].text = IF log[e] = <<>> THEN NoText ELSE Last(log[e])
  BY <1>1, <1>2, <1>4, <1>5 DEF SerialInv, Served, SureInv
<1>7. HistoryOf(e) = log[e]  BY <1>3 DEF SerialInv, AllTexts, TextsFor
<1> QED  BY <1>1, <1>2, <1>3, <1>6, <1>7 DEF AnswerOf, Last

LEMMA SerialStep ==
  ASSUME ObjectsStorable, OneCaller, SerialInv, SerialInv', SNext, Undisturbed
  PROVE  [Abstract!Next]_<<[d \in Dirs |-> HistoryOf(d)], [w \in Workers |-> AnswerOf(w)]>>
<1>0. (\A w, x \in Workers : w = x) /\ status' = "up"  BY DEF OneCaller, Undisturbed
<1> DEFINE H == [d \in Dirs |-> HistoryOf(d)]
           A == [w \in Workers |-> AnswerOf(w)]
<1>1. ASSUME NEW w \in Workers, SameTexts(w)
      PROVE  H' = H
  BY <1>1 DEF SameTexts, SerialInv, AllTexts
<1>2. ASSUME NEW w \in Workers, AnswerOf(w)' = AnswerOf(w)
      PROVE  A' = A
  BY <1>0, <1>2
<1>3. ASSUME NEW w \in Workers, SameTexts(w), AnswerOf(w)' = AnswerOf(w)
      PROVE  [Abstract!Next]_<<H, A>>
  BY <1>1, <1>2, <1>3
<1>4. ASSUME NEW w \in Workers, NEW time \in Stamps, LoadDone(w, time)
      PROVE  [Abstract!Next]_<<H, A>>
  <2>1. SameTexts(w) /\ H' = H  BY <1>1, <1>4, TextsLoaded
  <2>2. CASE job[w].op = "create"  BY <1>3, <1>4, <2>1, <2>2, TextsLoaded
  <2>3. CASE job[w].op = "get"
    <3>1. PICK e \in Dirs : AnswerOf(w)' =
            <<e, IF HistoryOf(e) = <<>> THEN NoText ELSE HistoryOf(e)[Len(HistoryOf(e))]>>
      BY <1>4, <2>3, NewestAnswered
    <3>2. AnswerOf(w) = <<>>  BY <1>4, <2>3, NewestAnswered
    <3>3. H[e] = HistoryOf(e)  OBVIOUS
    <3>4. AnswerOf(w)' = <<e, IF H[e] = <<>> THEN NoText ELSE H[e][Len(H[e])]>>
      BY <3>1, <3>3
    <3>5. A[w] = <<>>  BY <3>2
    <3>6. A' = [A EXCEPT ![w] = <<e, IF H[e] = <<>> THEN NoText ELSE H[e][Len(H[e])]>>]
      BY <1>0, <3>4
    <3>7. Abstract!Get(w, e)  BY <2>1, <3>5, <3>6 DEF Abstract!Get, Abstract!Newest, Abstract!NoAnswer
    <3> QED  BY <3>7 DEF Abstract!Next
  <2>4. job[w].op \in {"create", "get"}  BY <1>4, AfterLoadJob DEF SerialInv
  <2> QED  BY <2>2, <2>3, <2>4
<1>5. ASSUME NEW w \in Workers, Reply(w)
      PROVE  [Abstract!Next]_<<H, A>>
  <2>1. SameTexts(w) /\ H' = H /\ AnswerOf(w)' = <<>>  BY <1>1, <1>5, TextsReply
  <2>2. CASE AnswerOf(w) = <<>>  BY <1>3, <2>1, <2>2
  <2>3. CASE AnswerOf(w) # <<>>
    <3>1. A[w] # <<>>  BY <2>3
    <3>2. A' = [A EXCEPT ![w] = <<>>]  BY <1>0, <2>1
    <3>3. Abstract!Answered(w)  BY <2>1, <3>1, <3>2 DEF Abstract!Answered, Abstract!NoAnswer
    <3> QED  BY <3>3 DEF Abstract!Next
  <2> QED  BY <2>2, <2>3
<1>6. ASSUME NEW w \in Workers, StoreStep(w)
      PROVE  [Abstract!Next]_<<H, A>>
  <2>1. AnswerOf(w)' = AnswerOf(w)  BY <1>0, <1>6, TextsStep
  <2>2. CASE SameTexts(w)  BY <1>3, <2>1, <2>2
  <2>3. CASE ~SameTexts(w)
    <3>1. PICK e \in Dirs, text \in Inputs : \A d \in Dirs :
            TextsFor(w, d)' = IF d = e THEN Append(TextsFor(w, d), text) ELSE TextsFor(w, d)
      BY <1>0, <1>6, <2>3, TextsStep
    <3>2. \A d \in Dirs :
            HistoryOf(d)' = IF d = e THEN Append(HistoryOf(d), text) ELSE HistoryOf(d)
      BY <3>1 DEF SerialInv, AllTexts
    <3>3. H' = [H EXCEPT ![e] = Append(@, text)]  BY <3>2
    <3>4. A' = A  BY <1>2, <2>1
    <3>5. Abstract!Create(e, text)  BY <3>3, <3>4 DEF Abstract!Create
    <3> QED  BY <3>5 DEF Abstract!Next
  <2> QED  BY <2>2, <2>3
<1>7. ~SKill /\ ~SRestart
  BY DEF SKill, Kill, GoDown, SRestart, Restart, SerialInv, Serial
<1>8. PICK w \in Workers :
        \/ \E id \in RequestIds, text \in Inputs, time \in Stamps : ReceiveCreate(w, id, text, time)
        \/ \E id \in RequestIds \ {NoId} : ReceiveGet(w, id)
        \/ Handle(w)
        \/ StoreStep(w)
  BY <1>7 DEF SNext
<1>9. CASE Handle(w)
  <2>1. CASE CallLoad(w) \/ CallDelete(w) \/ CallStore(w)  BY <1>3, <2>1, TextsCall
  <2>2. CASE DeleteDone(w) \/ StoreDone(w)  BY <1>3, <2>2, TextsDone
  <2> QED  BY <1>4, <1>5, <1>9, <2>1, <2>2 DEF Handle
<1>10. CASE \/ \E id \in RequestIds, text \in Inputs, time \in Stamps :
                 ReceiveCreate(w, id, text, time)
            \/ \E id \in RequestIds \ {NoId} : ReceiveGet(w, id)
  BY <1>3, <1>10, TextsReceive
<1> QED  BY <1>6, <1>8, <1>9, <1>10

LEMMA SerialInitially == SInit => Abstract!Init
<1> SUFFICES ASSUME SInit PROVE Abstract!Init  OBVIOUS
<1>1. \A d \in Dirs : HistoryOf(d) = <<>>
  <2>1. \A d \in Dirs : link[d] = {}  BY DEF SInit, Init
  <2>2. \A d : Updates(d) = {}  BY DEF SInit, Updates, JobsOn, NoJob
  <2> QED  BY <2>1, <2>2 DEF HistoryOf
<1>2. \A w \in Workers : AnswerOf(w) = <<>>  BY DEF SInit, AnswerOf, NoJob
<1> QED  BY <1>1, <1>2 DEF Abstract!Init, Abstract!NoAnswer

\* Served one request at a time, by callers who name their objects, with a disk
\* on which files open and a process that stays up, the objects are the atomic
\* map of histories: however many calls of the store a create makes, and although
\* an update deletes the object before it writes it again, the create happens at
\* one moment, when its link is made, and a get answers with the newest text.
THEOREM SerialImplementsObjectMap ==
  ASSUME ObjectsStorable, OneCaller
  PROVE  SerialSpec => ImplementsObjectMap
<1>1. SerialInv /\ SerialInv' /\ [SNext /\ Undisturbed]_svars =>
        [Abstract!Next]_<<[d \in Dirs |-> HistoryOf(d)], [w \in Workers |-> AnswerOf(w)]>>
  <2> SUFFICES ASSUME SerialInv, SerialInv', [SNext /\ Undisturbed]_svars
               PROVE  [Abstract!Next]_<<[d \in Dirs |-> HistoryOf(d)],
                                        [w \in Workers |-> AnswerOf(w)]>>
    OBVIOUS
  <2>1. CASE SNext /\ Undisturbed  BY <2>1, SerialStep
  <2>2. CASE UNCHANGED svars
    <3>1. \A d \in Dirs : HistoryOf(d)' = HistoryOf(d)
      BY <2>2 DEF svars, vars, HistoryOf, Updates, JobsOn
    <3>2. \A w \in Workers : AnswerOf(w)' = AnswerOf(w)  BY <2>2 DEF svars, AnswerOf
    <3> QED  BY <3>1, <3>2
  <2> QED  BY <2>1, <2>2
<1> QED  BY <1>1, SerialInitially, SerialAlways, PTL
         DEF SerialSpec, ImplementsObjectMap, Abstract!Spec

\* The same of the specification with fairness that the run checks.
COROLLARY SequentialImplementsObjectMap ==
  ASSUME ObjectsStorable, OneCaller
  PROVE  SequentialSpec => ImplementsObjectMap
BY SerialImplementsObjectMap, PTL DEF SequentialSpec
============================================================================
