------------------------ MODULE ObjectHistoryProofs ------------------------
(***************************************************************************)
(* The history of an object, for any texts and any number of updates and   *)
(* rollbacks: replaying the patches gives back every revision along a      *)
(* linear history, and no revision is ever lost.                           *)
(*                                                                         *)
(* Replay is a recursive function.  What it computes is proved by          *)
(* induction on the naturals in the form NatInductionSet, whose instances  *)
(* are sets: a set of naturals that is not empty has a least element       *)
(* (WFMin of the library).                                                 *)
(***************************************************************************)
EXTENDS ObjectHistory, WellFoundedInduction, TLAPS

\* If some element of T is minimal for a relation that contains <, it is the
\* least.
LEMMA MinimalIsLeast ==
  ASSUME NEW R, \A x, y \in Nat : x < y => <<x, y>> \in R,
         NEW T, T \subseteq Nat, \E x \in T : \A y \in T : ~(<<y, x>> \in R)
  PROVE  \E x \in T : \A y \in T : x <= y
<1> PICK x \in T : \A y \in T : ~(<<y, x>> \in R)  OBVIOUS
<1>1. ASSUME NEW y \in T PROVE x <= y
  <2>1. x \in Nat /\ y \in Nat  OBVIOUS
  <2>2. ~(y < x)  BY <2>1, Zenon
  <2> QED  BY <2>1, <2>2
<1> QED  BY <1>1

LEMMA LeastNat ==
  ASSUME NEW T, T \subseteq Nat, T # {}
  PROVE  \E x \in T : \A y \in T : x <= y
<1> DEFINE R == OpToRel(<, Nat)
<1>1. IsWellFoundedOn(R, Nat)  BY NatLessThanWellFounded
<1>2. \A x, y \in Nat : x < y => <<x, y>> \in R  BY DEF OpToRel
<1> HIDE DEF R
<1>3. \E x \in T : \A y \in T : ~(<<y, x>> \in R)  BY <1>1, WFMin
<1> QED  BY <1>2, <1>3, MinimalIsLeast, Zenon

LEMMA NatInductionSet ==
  ASSUME NEW S, 0 \in S, \A n \in Nat : n \in S => n + 1 \in S
  PROVE  Nat \subseteq S
<1> DEFINE T == Nat \ S
<1>1. CASE T # {}
  <2> PICK x \in T : \A y \in T : x <= y  BY <1>1, LeastNat
  <2>1. x # 0  OBVIOUS
  <2>2. x - 1 \in Nat /\ x - 1 \notin T  BY <2>1
  <2> QED  BY <2>2
<1> QED  BY <1>1
----------------------------------------------------------------------------
(* What Replay computes.                                                    *)

\* One step of the replay.
Step(d, g, n) == IF n = 0 THEN EmptyText ELSE patch_apply(d[n].content, g[n - 1])

\* A function on 0..m that satisfies the recursive equation exists for every m,
\* so the one Replay chooses satisfies it.
LEMMA ReplayEquation ==
  ASSUME NEW D, NEW d \in Seq(D)
  PROVE  Replay(d) = [n \in 0..Len(d) |-> Step(d, Replay(d), n)]
<1> DEFINE Solves(g, m) == g = [n \in 0..m |-> Step(d, g, n)]
           S == {m \in Nat : \E g : Solves(g, m)}
<1>1. 0 \in S
  <2>1. Solves([n \in 0..0 |-> EmptyText], 0)  BY DEF Step
  <2> QED  BY <2>1
<1>2. ASSUME NEW m \in Nat, m \in S PROVE m + 1 \in S
  <2> PICK g : Solves(g, m)  BY <1>2
  <2> DEFINE h == [n \in 0..(m + 1) |->
                     IF n = m + 1 THEN patch_apply(d[n].content, g[m]) ELSE g[n]]
  <2>1. Solves(h, m + 1)  BY DEF Step
  <2> HIDE DEF h, Solves
  <2> QED  BY <2>1
<1>3. Nat \subseteq S
  <2> HIDE DEF S
  <2> QED  BY <1>1, <1>2, NatInductionSet
<1>4. \E g : Solves(g, Len(d))  BY <1>3
<1>5. Solves(CHOOSE g : Solves(g, Len(d)), Len(d))  BY <1>4, Zenon
<1> QED  BY <1>5 DEF Replay, Step

\* A text of the replay is a function on the regions.
LEMMA ReplayText ==
  ASSUME NEW D, NEW d \in Seq(D), NEW n \in 0..Len(d)
  PROVE  \E t : Replay(d)[n] = [r \in Regions |-> t[r]]
<1>1. Replay(d)[n] = Step(d, Replay(d), n)  BY ReplayEquation
<1>2. CASE n = 0  BY <1>1, <1>2 DEF Step, EmptyText
<1>3. CASE n # 0
  <2>1. Replay(d)[n] = patch_apply(d[n].content, Replay(d)[n - 1])  BY <1>1, <1>3 DEF Step
  <2>2. \A p, s : patch_apply(p, s) = [r \in Regions |-> patch_apply(p, s)[r]]
    BY DEF patch_apply
  <2> QED  BY <2>1, <2>2
<1> QED  BY <1>2, <1>3

\* A patch applied to the text it was made from gives the text it was made for.
LEMMA ApplyMake ==
  ASSUME NEW old, NEW new, old = [r \in Regions |-> old[r]], new = [r \in Regions |-> new[r]]
  PROVE  patch_apply(patch_make(old, new), old) = new
<1> DEFINE p == patch_make(old, new)
           Hunk(r) == [at |-> r, from |-> old[r], to |-> new[r]]
<1>1. ASSUME NEW r \in Regions
      PROVE  patch_apply(p, old)[r] = new[r]
  <2> DEFINE P(h) == h.at = r /\ h.from = old[r]
             c == CHOOSE h \in p : P(h)
  <2>0. patch_apply(p, old)[r] = IF \E h \in p : P(h) THEN c.to ELSE old[r]
    BY DEF patch_apply
  <2>1. ASSUME NEW h \in p, h.at = r PROVE h.to = new[r] /\ old[r] # new[r]
    <3> PICK s \in Regions : old[s] # new[s] /\ h = Hunk(s)  BY DEF patch_make
    <3> QED  BY <2>1
  <2>2. CASE old[r] = new[r]  BY <2>0, <2>1, <2>2
  <2>3. CASE old[r] # new[r]
    <3>1. Hunk(r) \in p  BY <2>3 DEF patch_make
    <3>2. \E h \in p : P(h)  BY <3>1
    <3>3. c \in p /\ P(c)
      <4> HIDE DEF P, p
      <4> QED  BY <3>2
    <3>4. c.to = new[r]
      <4> HIDE DEF c, p
      <4> QED  BY <3>3, <2>1
    <3> QED  BY <2>0, <3>2, <3>4
  <2> QED  BY <2>2, <2>3
<1>2. \A q : patch_apply(q, old) = [r \in Regions |-> patch_apply(q, old)[r]]
  BY DEF patch_apply
<1>3. patch_apply(p, old) = [r \in Regions |-> new[r]]
  <2> HIDE DEF p
  <2> QED  BY <1>1, <1>2
<1> QED  BY <1>3, Zenon

\* Appending a diff leaves the texts before it as they were.
LEMMA ReplayAppend ==
  ASSUME NEW D, NEW d \in Seq(D), NEW x \in D
  PROVE  /\ \A n \in 0..Len(d) : Replay(Append(d, x))[n] = Replay(d)[n]
         /\ Replay(Append(d, x))[Len(d) + 1] = patch_apply(x.content, Replay(d)[Len(d)])
<1> DEFINE e == Append(d, x)
           S == {n \in Nat : n <= Len(d) => Replay(e)[n] = Replay(d)[n]}
<1>e. e \in Seq(D) /\ Len(e) = Len(d) + 1 /\ e[Len(d) + 1] = x /\ \A i \in 1..Len(d) : e[i] = d[i]
  OBVIOUS
<1> HIDE DEF e
<1>1. \A n \in 0..Len(d) : Replay(d)[n] = Step(d, Replay(d), n)  BY ReplayEquation
<1>2. \A n \in 0..(Len(d) + 1) : Replay(e)[n] = Step(e, Replay(e), n)  BY ReplayEquation, <1>e
<1>3. 0 \in S  BY <1>1, <1>2 DEF Step
<1>4. ASSUME NEW n \in Nat, n \in S PROVE n + 1 \in S
  <2> SUFFICES ASSUME n + 1 <= Len(d) PROVE Replay(e)[n + 1] = Replay(d)[n + 1]
    OBVIOUS
  <2>1. Replay(e)[n + 1] = patch_apply(e[n + 1].content, Replay(e)[n])  BY <1>2 DEF Step
  <2>2. Replay(d)[n + 1] = patch_apply(d[n + 1].content, Replay(d)[n])  BY <1>1 DEF Step
  <2> QED  BY <1>4, <1>e, <2>1, <2>2
<1>5. Nat \subseteq S
  <2> HIDE DEF S
  <2> QED  BY <1>3, <1>4, NatInductionSet
<1>6. \A n \in 0..Len(d) : Replay(e)[n] = Replay(d)[n]  BY <1>5
<1>7. Replay(e)[Len(d) + 1] = patch_apply(x.content, Replay(d)[Len(d)])
  BY <1>2, <1>6, <1>e DEF Step
<1> QED  BY <1>6, <1>7 DEF e
----------------------------------------------------------------------------
(* Types.                                                                   *)

LEMMA ApplyType ==
  ASSUME NEW p \in Patches, NEW t \in Texts
  PROVE  patch_apply(p, t) \in Texts
<1>1. ASSUME NEW r \in Regions PROVE patch_apply(p, t)[r] \in Glyphs \cup {Blank}
  <2> DEFINE P(h) == h.at = r /\ h.from = t[r]
             c == CHOOSE h \in p : P(h)
  <2>1. patch_apply(p, t)[r] = IF \E h \in p : P(h) THEN c.to ELSE t[r]
    BY DEF patch_apply
  <2>2. CASE \E h \in p : P(h)
    <3>1. c \in p
      <4> HIDE DEF P
      <4> QED  BY <2>2
    <3>2. c.to \in Glyphs \cup {Blank}
      <4> HIDE DEF c
      <4> QED  BY <3>1 DEF Patches
    <3> QED  BY <2>1, <2>2, <3>2
  <2>3. CASE ~ \E h \in p : P(h)  BY <2>1, <2>3 DEF Texts
  <2> QED  BY <2>2, <2>3
<1>2. patch_apply(p, t) = [r \in Regions |-> patch_apply(p, t)[r]]  BY DEF patch_apply
<1> QED  BY <1>1, <1>2 DEF Texts

LEMMA MakeType ==
  ASSUME NEW old \in Texts, NEW new \in Texts
  PROVE  patch_make(old, new) \in Patches
BY DEF patch_make, Patches, Texts

LEMMA ReplayType ==
  ASSUME NEW d \in Seq(Diffs)
  PROVE  \A n \in 0..Len(d) : Replay(d)[n] \in Texts
<1> DEFINE S == {n \in Nat : n <= Len(d) => Replay(d)[n] \in Texts}
<1>1. \A n \in 0..Len(d) : Replay(d)[n] = Step(d, Replay(d), n)  BY ReplayEquation
<1>2. 0 \in S  BY <1>1 DEF Step, EmptyText, Texts
<1>3. ASSUME NEW n \in Nat, n \in S PROVE n + 1 \in S
  <2> SUFFICES ASSUME n + 1 <= Len(d) PROVE Replay(d)[n + 1] \in Texts
    OBVIOUS
  <2>1. Replay(d)[n + 1] = patch_apply(d[n + 1].content, Replay(d)[n])  BY <1>1 DEF Step
  <2>2. d[n + 1] \in Diffs  OBVIOUS
  <2>4. d[n + 1].content \in Patches  BY <2>2 DEF Diffs
  <2>3. Replay(d)[n] \in Texts  BY <1>3
  <2> QED  BY <2>1, <2>4, <2>3, ApplyType
<1>4. Nat \subseteq S
  <2> HIDE DEF S
  <2> QED  BY <1>2, <1>3, NatInductionSet
<1> QED  BY <1>4

\* get(revision) finds the first diff of the revision.
LEMMA GetRevIndex ==
  ASSUME NEW o, o.diffs \in Seq(Diffs), NEW rev, has_diff(o, rev)
  PROVE  \E i \in 1..Len(o.diffs) :
           o.diffs[i].id = rev /\ get_rev(o, rev) = Replay(o.diffs)[i]
<1> DEFINE First(i) == o.diffs[i].id = rev /\ \A j \in 1..(i - 1) : o.diffs[j].id # rev
           T == {i \in 1..Len(o.diffs) : o.diffs[i].id = rev}
<1>0. DOMAIN o.diffs = 1..Len(o.diffs)  OBVIOUS
<1>1. T \subseteq Nat /\ T # {}  BY <1>0 DEF has_diff
<1>2. PICK x \in T : \A y \in T : x <= y  BY <1>1, LeastNat
<1>3. First(x)
  <2>1. ASSUME NEW j \in 1..(x - 1), o.diffs[j].id = rev PROVE FALSE
    <3>1. j \in 1..Len(o.diffs) /\ j < x  BY <1>2
    <3> QED  BY <1>2, <2>1, <3>1
  <2> QED  BY <1>2, <2>1
<1>4. \E i \in DOMAIN o.diffs : First(i)  BY <1>0, <1>2, <1>3
<1> DEFINE n == CHOOSE i \in DOMAIN o.diffs : First(i)
<1>5. n \in DOMAIN o.diffs /\ First(n)
  <2> HIDE DEF First
  <2> QED  BY <1>4
<1>6. get_rev(o, rev) = Replay(o.diffs)[n]  BY DEF get_rev
<1> HIDE DEF n
<1> QED  BY <1>0, <1>5, <1>6
----------------------------------------------------------------------------
(* The invariant.                                                           *)

\* Diff i is the one that made the revision, and the replay up to it gives text.
Made(o, rev, text) ==
  \E i \in 1..Len(o.diffs) : o.diffs[i].id = rev /\ Replay(o.diffs)[i] = text

HistoryType ==
  /\ obj \in ObjectsOver({Id})
  /\ obj.diffs # <<>>
  /\ issued \subseteq RevIds \X Texts
  /\ linear \in BOOLEAN

HistoryInv ==
  /\ HistoryType
  /\ has_diff(obj, obj.master)
  /\ RevisionsKept
  /\ linear /\ NoRepeatedPatch =>
       /\ Made(obj, obj.master, obj.head)
       /\ \A revision \in issued : Made(obj, revision[1], revision[2])

LEMMA HistoryInitially == Init => HistoryInv
<1> SUFFICES ASSUME NEW text \in Inputs, NEW time \in Stamps,
                    obj = create(text, Id, time), issued = {<<obj.master, text>>}, linear = TRUE
             PROVE  HistoryInv
  BY DEF Init
<1> DEFINE p == patch_make(EmptyText, text)
           x == Diff(p, NoRev, time)
<1>1. text \in Texts /\ EmptyText \in Texts  BY DEF Inputs, Texts, EmptyText
<1>2. p \in Patches  BY <1>1, MakeType
<1>3. x \in Diffs /\ x.id = p /\ x.content = p  BY <1>2 DEF Diff, Diffs, RevIds
<1>4. obj = [id |-> Id, master |-> p, diffs |-> <<x>>, head |-> text]  BY <1>3 DEF create
<1> HIDE DEF p, x
<1>5. HistoryType
  <2>1. <<x>> \in Seq(Diffs)  BY <1>3
  <2> QED  BY <1>1, <1>2, <1>4, <2>1 DEF HistoryType, ObjectsOver, RevIds
<1>6. has_diff(obj, obj.master) /\ RevisionsKept  BY <1>3, <1>4 DEF has_diff, RevisionsKept
<1>7. Made(obj, obj.master, obj.head)
  <2>1. <<x>> = Append(<< >>, x) /\ << >> \in Seq(Diffs) /\ Len(<< >>) = 0  OBVIOUS
  <2>2. Replay(Append(<< >>, x))[Len(<< >>) + 1] = patch_apply(p, Replay(<< >>)[Len(<< >>)])
    BY <1>3, <2>1, ReplayAppend
  <2>5. Replay(<< >>) = [n \in 0..Len(<< >>) |-> Step(<< >>, Replay(<< >>), n)]
    BY <2>1, ReplayEquation
  <2>3. Replay(<< >>)[0] = EmptyText  BY <2>1, <2>5 DEF Step
  <2>4. patch_apply(p, EmptyText) = text  BY <1>1, ApplyMake DEF p, Texts
  <2> QED  BY <1>3, <1>4, <2>1, <2>2, <2>3, <2>4 DEF Made
<1> QED  BY <1>4, <1>5, <1>6, <1>7 DEF HistoryInv

LEMMA UpdateKeeps ==
  ASSUME HistoryInv, NEW text \in Inputs, NEW time \in Stamps, Update(text, time)
  PROVE  HistoryInv'
<1> DEFINE p == patch_make(obj.head, text)
           x == Diff(p, obj.master, time)
           d == obj.diffs
<1>1. text \in Texts  BY DEF Inputs, Texts
<1>2. obj \in ObjectsOver({Id}) /\ d \in Seq(Diffs) /\ d # <<>> /\ obj.head \in Texts
      /\ obj.master \in RevIds
  BY DEF HistoryInv, HistoryType, ObjectsOver
<1>3. p \in Patches  BY <1>1, <1>2, MakeType
<1>4. x \in Diffs /\ x.id = p /\ x.content = p  BY <1>2, <1>3 DEF Diff, Diffs, RevIds
<1>5. obj'.id = obj.id /\ obj'.diffs = Append(d, x) /\ obj'.master = p /\ obj'.head = text
      /\ obj' \in ObjectsOver({Id})
  <2>1. obj' = [obj EXCEPT !.diffs = Append(d, x), !.master = p, !.head = text]
    BY <1>4 DEF Update, update_object
  <2>2. Append(d, x) \in Seq(Diffs)  BY <1>2, <1>4
  <2> HIDE DEF p, x
  <2> QED  BY <1>1, <1>2, <1>3, <2>1, <2>2 DEF ObjectsOver, RevIds
<1>6. issued' = issued \cup {<<p, text>>}  BY <1>5 DEF Update
<1>7. linear' = (linear /\ obj.master = d[Len(d)].id)  BY DEF Update
<1> DEFINE e == Append(d, x)
<1>8. /\ Len(e) = Len(d) + 1 /\ Len(d) \in Nat /\ Len(d) >= 1 /\ e[Len(d) + 1] = x
      /\ \A i \in 1..Len(d) : e[i] = d[i]
      /\ DOMAIN e = 1..Len(e) /\ DOMAIN d = 1..Len(d)
  BY <1>2, <1>4
<1>9. /\ \A n \in 0..Len(d) : Replay(e)[n] = Replay(d)[n]
      /\ Replay(e)[Len(d) + 1] = patch_apply(p, Replay(d)[Len(d)])
  BY <1>2, <1>4, ReplayAppend
<1> HIDE DEF p, x, e
<1>10. HistoryType'
  <2>1. e # <<>>  BY <1>8
  <2>2. issued' \subseteq RevIds \X Texts
    BY <1>1, <1>3, <1>6 DEF HistoryInv, HistoryType, RevIds
  <2>3. linear' \in BOOLEAN  BY <1>7
  <2> QED  BY <1>5, <2>1, <2>2, <2>3 DEF HistoryType, e
<1>11. \A rev : has_diff(obj, rev) => has_diff(obj', rev)  BY <1>5, <1>8 DEF has_diff, e
<1>12. has_diff(obj', p)  BY <1>4, <1>5, <1>8 DEF has_diff, e
<1>13. RevisionsKept'  BY <1>6, <1>11, <1>12 DEF RevisionsKept, HistoryInv
<1>14. ASSUME linear', NoRepeatedPatch'
       PROVE  /\ Made(obj', obj'.master, obj'.head)
              /\ \A revision \in issued' : Made(obj', revision[1], revision[2])
  <2>1. NoRepeatedPatch
    <3>1. \A i, j \in DOMAIN e : e[i].id = e[j].id => i = j  BY <1>5, <1>14 DEF NoRepeatedPatch, e
    <3> QED  BY <1>8, <3>1 DEF NoRepeatedPatch
  <2>2. linear /\ obj.master = d[Len(d)].id  BY <1>7, <1>14
  <2>3. Made(obj, obj.master, obj.head) /\ \A revision \in issued : Made(obj, revision[1], revision[2])
    BY <2>1, <2>2 DEF HistoryInv
  <2>4. obj.head = Replay(d)[Len(d)]  BY <1>8, <2>1, <2>2, <2>3 DEF Made, NoRepeatedPatch
  <2>5. Replay(e)[Len(d) + 1] = text
    BY <1>1, <1>2, <1>9, <2>4, ApplyMake DEF p, Texts
  <2>6. Made(obj', p, text)  BY <1>4, <1>5, <1>8, <2>5 DEF Made, e
  <2>7. ASSUME NEW rev, NEW t, Made(obj, rev, t) PROVE Made(obj', rev, t)
    <3>1. PICK i \in 1..Len(d) : d[i].id = rev /\ Replay(d)[i] = t  BY <2>7 DEF Made
    <3>2. i \in 1..Len(e) /\ e[i].id = rev /\ Replay(e)[i] = t  BY <1>8, <1>9, <3>1
    <3> QED  BY <1>5, <3>2 DEF Made, e
  <2> QED  BY <1>5, <1>6, <2>3, <2>6, <2>7
<1> QED  BY <1>5, <1>10, <1>12, <1>13, <1>14 DEF HistoryInv

LEMMA RollbackKeeps ==
  ASSUME HistoryInv, NEW revision \in issued, Rollback(revision[1])
  PROVE  HistoryInv'
<1> DEFINE rev == revision[1]
           d == obj.diffs
<1>1. obj \in ObjectsOver({Id}) /\ d \in Seq(Diffs) /\ d # <<>>
  BY DEF HistoryInv, HistoryType, ObjectsOver
<1>2. has_diff(obj, rev) /\ rev \in RevIds  BY DEF Rollback, HistoryInv, HistoryType
<1>3. PICK i \in 1..Len(d) : d[i].id = rev /\ get_rev(obj, rev) = Replay(d)[i]
  BY <1>1, <1>2, GetRevIndex
<1>4. get_rev(obj, rev) \in Texts  BY <1>1, <1>3, ReplayType
<1>5. /\ obj'.diffs = d /\ obj'.master = rev /\ obj'.head = Replay(d)[i]
      /\ obj' \in ObjectsOver({Id})
  BY <1>1, <1>2, <1>3, <1>4 DEF Rollback, rollback_object, ObjectsOver
<1>6. issued' = issued /\ linear' = linear  BY DEF Rollback
<1> HIDE DEF rev
<1>7. HistoryType'  BY <1>1, <1>5, <1>6 DEF HistoryInv, HistoryType
<1>8. \A r : has_diff(obj', r) <=> has_diff(obj, r)  BY <1>5 DEF has_diff
<1>9. RevisionsKept'  BY <1>6, <1>8 DEF HistoryInv, RevisionsKept
<1>10. NoRepeatedPatch' <=> NoRepeatedPatch  BY <1>5 DEF NoRepeatedPatch
<1>11. \A r, t : Made(obj', r, t) <=> Made(obj, r, t)  BY <1>5 DEF Made
<1>12. Made(obj', obj'.master, obj'.head)  BY <1>3, <1>5 DEF Made
<1> QED  BY <1>2, <1>5, <1>6, <1>7, <1>8, <1>9, <1>10, <1>11, <1>12 DEF HistoryInv

LEMMA HistoryInductive == HistoryInv /\ [Next]_vars => HistoryInv'
<1> SUFFICES ASSUME HistoryInv, [Next]_vars PROVE HistoryInv'
  OBVIOUS
<1>1. ASSUME NEW text \in Inputs, NEW time \in Stamps, Update(text, time)
      PROVE  HistoryInv'
  BY <1>1, UpdateKeeps
<1>2. ASSUME NEW revision \in issued, Rollback(revision[1])
      PROVE  HistoryInv'
  BY <1>2, RollbackKeeps
<1>3. CASE UNCHANGED vars
  BY <1>3 DEF vars, HistoryInv, HistoryType, RevisionsKept, NoRepeatedPatch
<1> QED  BY <1>1, <1>2, <1>3 DEF Next

\* Without a repeated patch, get(revision) replays the diffs up to the only one
\* that has the revision's id.
LEMMA GetRevIsMade ==
  ASSUME HistoryInv, NoRepeatedPatch, NEW rev, NEW text, Made(obj, rev, text)
  PROVE  get_rev(obj, rev) = text
<1>1. obj.diffs \in Seq(Diffs)  BY DEF HistoryInv, HistoryType, ObjectsOver
<1>2. DOMAIN obj.diffs = 1..Len(obj.diffs)  BY <1>1
<1>3. PICK i \in 1..Len(obj.diffs) : obj.diffs[i].id = rev /\ Replay(obj.diffs)[i] = text
  BY DEF Made
<1>4. has_diff(obj, rev)  BY <1>2, <1>3 DEF has_diff
<1>5. PICK j \in 1..Len(obj.diffs) :
        obj.diffs[j].id = rev /\ get_rev(obj, rev) = Replay(obj.diffs)[j]
  BY <1>1, <1>4, GetRevIndex
<1>6. i = j  BY <1>2, <1>3, <1>5 DEF NoRepeatedPatch
<1> QED  BY <1>3, <1>5, <1>6
----------------------------------------------------------------------------
\* The history invariant is kept by every update and rollback of the object
\* (db_manager.cc: update_object and rollback_object).
THEOREM HistoryAlways == Spec => []HistoryInv
BY HistoryInitially, HistoryInductive, PTL DEF Spec

\* No revision is ever lost: whatever update_object and rollback_object do, the
\* object keeps a diff for every revision id it has handed out.
THEOREM RevisionsAlwaysKept == Spec => []RevisionsKept
<1>1. HistoryInv => RevisionsKept  BY DEF HistoryInv
<1> QED  BY <1>1, HistoryAlways, PTL

\* Object::get(revision) gives back the text the revision was handed out for, for
\* texts of any size and any number of updates and rollbacks, as long as every
\* update extended the last diff and no patch was made twice.
THEOREM RevisionsAlwaysReplay == Spec => []RevisionsReplay
<1>1. ASSUME HistoryInv PROVE RevisionsReplay
  <2> SUFFICES ASSUME linear, NoRepeatedPatch, NEW revision \in issued
               PROVE  get_rev(obj, revision[1]) = revision[2]
    BY DEF RevisionsReplay
  <2>1. Made(obj, revision[1], revision[2])  BY <1>1 DEF HistoryInv
  <2> QED  BY <1>1, <2>1, GetRevIsMade
<1> QED  BY <1>1, HistoryAlways, PTL

\* Under the same conditions the head that save() stores is the text of the
\* revision that master names, after rollbacks too.
THEOREM HeadAlwaysMaster == Spec => []HeadIsMaster
<1>1. ASSUME HistoryInv PROVE HeadIsMaster
  <2> SUFFICES ASSUME linear, NoRepeatedPatch
               PROVE  obj.head = get_rev(obj, obj.master)
    BY DEF HeadIsMaster
  <2>1. Made(obj, obj.master, obj.head)  BY <1>1 DEF HistoryInv
  <2> QED  BY <1>1, <2>1, GetRevIsMade
<1> QED  BY <1>1, HistoryAlways, PTL
============================================================================
