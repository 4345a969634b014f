------------------------- MODULE PublicFilesProofs -------------------------
(***************************************************************************)
(* The cache of public files, for any capacity, any files and any number   *)
(* of worker threads: what the container holds (first for the cache alone, *)
(* then for get_file), which objects live, and which copies the public     *)
(* directory has.                                                          *)
(***************************************************************************)
EXTENDS PublicFiles, SequenceTheorems, FiniteSetTheorems, TLAPS

\* A sequence without repeated elements.
Injective(s) == \A i, j \in 1..Len(s) : s[i] = s[j] => i = j

\* o is the fresh end of u, all of u or as long as the capacity allows.
Recent(o, u) ==
  \E n \in 0..Len(u) :
    /\ Len(o) = Len(u) - n
    /\ n > 0 => Len(o) = Capacity
    /\ \A j \in 1..Len(o) : o[j] = u[n + j]

LEMMA IsSeq ==
  ASSUME NEW n \in Nat, NEW s \in [1..n -> Keys]
  PROVE  s \in Seq(Keys) /\ Len(s) = n /\ \A i \in 1..n : s[i] \in Keys
  BY SeqDef

LEMMA Index ==
  ASSUME NEW s, NEW k, Has(s, k)
  PROVE  IndexOf(s, k) \in 1..Len(s) /\ s[IndexOf(s, k)] = k
  BY DEF Has, IndexOf

\* t is s with its element i moved to the end.
MovedToEnd(t, s, i) ==
  /\ t \in Seq(Keys) /\ Len(t) = Len(s)
  /\ \A j \in 1..Len(s) :
       t[j] = IF j < i THEN s[j] ELSE IF j < Len(s) THEN s[j + 1] ELSE s[i]

LEMMA Relocated ==
  ASSUME NEW s \in Seq(Keys), NEW i \in 1..Len(s)
  PROVE  /\ MovedToEnd(relocate(s, i), s, i)
         /\ Injective(s) => Injective(relocate(s, i))
<1> DEFINE t == relocate(s, i)
<1>2. Len(s) \in Nat /\ \A j \in 1..Len(s) : s[j] \in Keys
  OBVIOUS
<1>3. t \in [1..Len(s) -> Keys]
  BY <1>2 DEF relocate
<1>4. t \in Seq(Keys) /\ Len(t) = Len(s)
  <2> HIDE DEF t
  <2> QED BY <1>2, <1>3, IsSeq
<1>5. ASSUME Injective(s) PROVE Injective(t)
  BY <1>2, <1>4, <1>5 DEF relocate, Injective
<1>6. \A j \in 1..Len(s) :
        t[j] = IF j < i THEN s[j] ELSE IF j < Len(s) THEN s[j + 1] ELSE s[i]
  BY DEF relocate
<1>7. QED
  BY <1>4, <1>5, <1>6 DEF MovedToEnd

LEMMA Purged ==
  ASSUME NEW s \in Seq(Keys), Len(s) <= Capacity
  PROVE  /\ purge(s) \in Seq(Keys) /\ Len(purge(s)) < Capacity
         /\ Injective(s) => Injective(purge(s))
         /\ Len(s) = Capacity => /\ Len(purge(s)) = Len(s) - 1
                                 /\ \A j \in 1..(Len(s) - 1) : purge(s)[j] = s[j + 1]
         /\ Len(s) # Capacity => purge(s) = s
<1>1. CASE Len(s) = Capacity
  <2> DEFINE t == [j \in 1..(Len(s) - 1) |-> s[j + 1]]
  <2>1. Len(s) - 1 \in Nat /\ \A j \in 1..(Len(s) - 1) : s[j + 1] \in Keys
    BY <1>1, CapacityAssumption
  <2>2. t \in [1..(Len(s) - 1) -> Keys]
    BY <2>1
  <2>3. t \in Seq(Keys) /\ Len(t) = Len(s) - 1
    <3> HIDE DEF t
    <3> QED BY <2>1, <2>2, IsSeq
  <2>4. Injective(s) => Injective(t)
    BY <2>1, <2>3 DEF Injective
  <2>5. purge(s) = t
    BY <1>1 DEF purge
  <2>6. QED
    BY <1>1, <2>3, <2>4, <2>5, CapacityAssumption
<1>2. CASE Len(s) # Capacity
  BY <1>2, CapacityAssumption DEF purge
<1>3. QED
  BY <1>1, <1>2

\* t is s followed by k.
Extended(t, s, k) ==
  /\ Len(t) = Len(s) + 1
  /\ \A j \in 1..Len(s) : t[j] = s[j]
  /\ t[Len(s) + 1] = k

LEMMA Inserted ==
  ASSUME NEW s \in Seq(Keys), Len(s) <= Capacity, Injective(s), NEW k \in Keys
  PROVE  /\ insert(s, k) \in Seq(Keys) /\ Len(insert(s, k)) <= Capacity
         /\ Injective(insert(s, k))
         /\ Has(purge(s), k) => insert(s, k) = purge(s)
         /\ ~Has(purge(s), k) => Extended(insert(s, k), purge(s), k)
<1> DEFINE r == purge(s)
           t == [j \in 1..(Len(r) + 1) |-> IF j <= Len(r) THEN r[j] ELSE k]
<1>1. r \in Seq(Keys) /\ Len(r) < Capacity /\ Injective(r)
  BY Purged
<1> HIDE DEF r
<1>2. Len(r) \in Nat /\ \A j \in 1..Len(r) : r[j] \in Keys
  BY <1>1
<1>3. t \in [1..(Len(r) + 1) -> Keys]
  BY <1>2
<1>4. t \in Seq(Keys) /\ Len(t) = Len(r) + 1
  <2> HIDE DEF t
  <2> QED BY <1>2, <1>3, IsSeq
<1>5. CASE Has(r, k)
  BY <1>1, <1>2, <1>5, CapacityAssumption DEF insert, r
<1>6. CASE ~Has(r, k)
  <2>1. insert(s, k) = t
    BY <1>6 DEF insert, r
  <2>2. Injective(t)
    BY <1>1, <1>2, <1>4, <1>6 DEF Injective, Has
  <2>3. Extended(t, r, k)
    BY <1>2, <1>4 DEF Extended
  <2>4. QED
    <3> HIDE DEF t
    <3> QED BY <1>1, <1>2, <1>4, <1>6, <2>1, <2>2, <2>3, CapacityAssumption DEF r
<1>7. QED
  BY <1>5, <1>6

LEMMA Touched ==
  ASSUME NEW s \in Seq(Keys), Injective(s), NEW k \in Keys
  PROVE  /\ Touch(s, k) \in Seq(Keys) /\ Injective(Touch(s, k))
         /\ Has(s, k) => MovedToEnd(Touch(s, k), s, IndexOf(s, k))
         /\ ~Has(s, k) => Extended(Touch(s, k), s, k)
<1>1. CASE Has(s, k)
  <2>1. IndexOf(s, k) \in 1..Len(s)
    BY <1>1, Index
  <2>2. MovedToEnd(Touch(s, k), s, IndexOf(s, k)) /\ Injective(Touch(s, k))
    BY <1>1, <2>1, Relocated DEF Touch
  <2>3. QED
    BY <1>1, <2>2 DEF MovedToEnd
<1>2. CASE ~Has(s, k)
  <2>1. Touch(s, k) \in Seq(Keys) /\ Extended(Touch(s, k), s, k)
    BY <1>2, AppendProperties DEF Touch, Extended
  <2>2. Injective(Touch(s, k))
    BY <1>2, <2>1 DEF Injective, Extended, Has
  <2>3. QED
    BY <1>2, <2>1, <2>2
<1>3. QED
  BY <1>1, <1>2
-----------------------------------------------------------------------------
\* A key served from the cache is as far from the fresh end of the container as
\* it is from that of the history, so the two move alike.
LEMMA RecentHit ==
  ASSUME NEW o \in Seq(Keys), NEW u \in Seq(Keys), Injective(u), Recent(o, u),
         NEW k \in Keys, Has(o, k)
  PROVE  Recent(relocate(o, IndexOf(o, k)), Touch(u, k))
<1> DEFINE i == IndexOf(o, k)  p == IndexOf(u, k)
           o2 == relocate(o, i)  u2 == Touch(u, k)
           l == Len(o)  m == Len(u)
<1> SUFFICES Recent(o2, u2)
  OBVIOUS
<1>1. l \in Nat /\ m \in Nat
  OBVIOUS
<1>2. PICK n \in 0..m : /\ l = m - n
                        /\ n > 0 => l = Capacity
                        /\ \A j \in 1..l : o[j] = u[n + j]
  BY DEF Recent
<1>3. i \in 1..l /\ o[i] = k
  BY Index
<1> HIDE DEF i, l, m
<1>4. n + i \in 1..m /\ u[n + i] = k
  BY <1>1, <1>2, <1>3
<1>5. Has(u, k)
  BY <1>4 DEF Has, m
<1>6. p \in 1..m /\ u[p] = k
  BY <1>5, Index DEF m
<1> HIDE DEF p
<1>7. p = n + i
  BY <1>4, <1>6 DEF Injective, m
<1>8. MovedToEnd(o2, o, i)
  BY <1>3, Relocated DEF l
<1>9. MovedToEnd(u2, u, p)
  BY <1>5, Touched DEF p
<1> HIDE DEF o2, u2
<1>10. Len(o2) = l /\ Len(u2) = m
  BY <1>8, <1>9 DEF MovedToEnd, l, m
<1>11. \A j \in 1..l : o2[j] = u2[n + j]
  <2> SUFFICES ASSUME NEW j \in 1..l PROVE o2[j] = u2[n + j]
    OBVIOUS
  <2>1. n + j \in 1..m
    BY <1>1, <1>2
  <2>2. o2[j] = IF j < i THEN o[j] ELSE IF j < l THEN o[j + 1] ELSE o[i]
    BY <1>8 DEF MovedToEnd, l
  <2>3. u2[n + j] = IF n + j < p THEN u[n + j]
                    ELSE IF n + j < m THEN u[(n + j) + 1] ELSE u[p]
    BY <1>9, <2>1 DEF MovedToEnd, m
  <2>4. CASE j < i
    BY <1>1, <1>2, <1>3, <1>7, <2>2, <2>3, <2>4
  <2>5. CASE ~(j < i) /\ j < l
    <3>1. o[j + 1] = u[n + (j + 1)] /\ n + (j + 1) = (n + j) + 1
      BY <1>1, <1>2, <2>5
    <3>2. ~(n + j < p) /\ n + j < m
      BY <1>1, <1>2, <1>3, <1>7, <2>5
    <3>3. QED
      BY <2>2, <2>3, <2>5, <3>1, <3>2
  <2>6. CASE ~(j < i) /\ ~(j < l)
    BY <1>1, <1>2, <1>3, <1>6, <1>7, <2>2, <2>3, <2>6
  <2>7. QED
    BY <2>4, <2>5, <2>6
<1>12. QED
  BY <1>1, <1>2, <1>10, <1>11 DEF Recent

\* A key that is not in the container takes the place of the oldest one, in the
\* container as in the fresh end of the history.
LEMMA RecentInsert ==
  ASSUME NEW o \in Seq(Keys), NEW u \in Seq(Keys), Injective(o), Injective(u),
         Len(o) <= Capacity, Recent(o, u), NEW k \in Keys, ~Has(o, k)
  PROVE  Recent(insert(o, k), Touch(u, k))
<1> DEFINE r == purge(o)  o2 == insert(o, k)  u2 == Touch(u, k)  p == IndexOf(u, k)
           l == Len(o)  m == Len(u)
<1> SUFFICES Recent(o2, u2)
  OBVIOUS
<1>1. l \in Nat /\ m \in Nat /\ l <= Capacity /\ Capacity \in Nat \ {0}
  BY CapacityAssumption
<1>2. PICK n \in 0..m : /\ l = m - n
                        /\ n > 0 => l = Capacity
                        /\ \A j \in 1..l : o[j] = u[n + j]
  BY DEF Recent
<1>3. \A j \in 1..l : o[j] # k
  BY DEF Has
<1>4. /\ r \in Seq(Keys)
      /\ l = Capacity => Len(r) = l - 1 /\ \A j \in 1..(l - 1) : r[j] = o[j + 1]
      /\ l # Capacity => r = o
  BY Purged
<1>5. ~Has(r, k)
  <2>1. CASE l = Capacity
    <3> HIDE DEF r, l
    <3>1. \A j \in 1..Len(r) : r[j] = o[j + 1] /\ j + 1 \in 1..l
      BY <1>1, <1>4, <2>1
    <3>2. QED
      BY <1>3, <3>1 DEF Has
  <2>2. CASE l # Capacity
    BY <1>4, <2>2
  <2>3. QED
    BY <2>1, <2>2
<1>6. Extended(o2, r, k)
  BY <1>5, Inserted
<1>7. /\ Has(u, k) => MovedToEnd(u2, u, p)
      /\ ~Has(u, k) => Extended(u2, u, k)
  BY Touched
<1>8. Has(u, k) => p \in 1..m /\ u[p] = k
  BY Index
<1> HIDE DEF r, o2, u2, p
<1>9. Has(u, k) => p <= n
  <2> SUFFICES ASSUME Has(u, k), ~(p <= n) PROVE FALSE
    BY <1>8
  <2>1. p - n \in 1..l /\ n + (p - n) = p
    BY <1>1, <1>2, <1>8
  <2>2. o[p - n] = u[n + (p - n)]
    BY <1>2, <2>1
  <2>3. QED
    BY <1>3, <1>8, <2>1, <2>2
<1>10. CASE l < Capacity
  <2>1. n = 0 /\ l = m /\ r = o
    BY <1>1, <1>2, <1>4, <1>10
  <2>2. ~Has(u, k)
    BY <1>8, <1>9, <2>1
  <2>3. Extended(u2, u, k)
    BY <1>7, <2>2
  <2>4. Len(o2) = l + 1 /\ Len(u2) = m + 1
    BY <1>6, <2>1, <2>3 DEF Extended
  <2>5. \A j \in 1..(l + 1) : o2[j] = u2[n + j]
    <3> SUFFICES ASSUME NEW j \in 1..(l + 1) PROVE o2[j] = u2[j]
      BY <1>1, <2>1
    <3>1. CASE j \in 1..l
      BY <1>2, <1>6, <2>1, <2>3, <3>1 DEF Extended
    <3>2. CASE j = l + 1
      BY <1>6, <2>1, <2>3, <3>2 DEF Extended
    <3>3. QED
      BY <1>1, <3>1, <3>2
  <2>6. QED
    <3> HIDE DEF l, m
    <3>1. n \in 0..Len(u2) /\ Len(o2) = Len(u2) - n /\ ~(n > 0)
      BY <1>1, <2>1, <2>4
    <3>2. QED
      BY <1>1, <2>4, <2>5, <3>1 DEF Recent
<1>11. CASE l = Capacity
  <2>1. /\ Len(o2) = l /\ o2[l] = k
        /\ \A j \in 1..(l - 1) : o2[j] = o[j + 1]
    <3> HIDE DEF l
    <3>1. Len(r) = l - 1 /\ \A j \in 1..(l - 1) : r[j] = o[j + 1]
      BY <1>4, <1>11
    <3>2. QED
      BY <1>1, <1>6, <3>1 DEF Extended
  <2>2. \A j \in 1..(l - 1) : o[j + 1] = u[n + (j + 1)] /\ n + (j + 1) \in 1..m
    BY <1>1, <1>2
  <2>3. CASE Has(u, k)
    <3>1. p \in 1..m /\ u[p] = k /\ p <= n
      BY <1>8, <1>9, <2>3
    <3>2. Len(u2) = m
      BY <1>7, <2>3 DEF MovedToEnd
    <3>3. \A q \in 1..m :
            u2[q] = IF q < p THEN u[q] ELSE IF q < m THEN u[q + 1] ELSE u[p]
      BY <1>7, <2>3 DEF MovedToEnd
    <3> HIDE DEF l, m
    <3>4. \A j \in 1..l : o2[j] = u2[n + j]
      <4> SUFFICES ASSUME NEW j \in 1..l PROVE o2[j] = u2[n + j]
        OBVIOUS
      <4>1. n + j \in 1..m /\ ~(n + j < p)
        BY <1>1, <1>2, <3>1
      <4>2. CASE j \in 1..(l - 1)
        <5>1. u2[n + j] = u[(n + j) + 1] /\ (n + j) + 1 = n + (j + 1)
          BY <1>1, <1>2, <3>1, <3>3, <4>1, <4>2
        <5>2. QED
          BY <2>1, <2>2, <4>2, <5>1
      <4>3. CASE j = l
        BY <1>1, <1>2, <2>1, <3>1, <3>3, <4>1, <4>3
      <4>4. QED
        BY <1>1, <4>2, <4>3
    <3>5. QED
      BY <1>1, <1>2, <1>11, <2>1, <3>2, <3>4 DEF Recent
  <2>4. CASE ~Has(u, k)
    <3>1. Len(u2) = m + 1 /\ u2[m + 1] = k /\ \A q \in 1..m : u2[q] = u[q]
      BY <1>7, <2>4 DEF Extended
    <3> HIDE DEF l, m
    <3>2. \A j \in 1..l : o2[j] = u2[(n + 1) + j]
      <4> SUFFICES ASSUME NEW j \in 1..l PROVE o2[j] = u2[(n + 1) + j]
        OBVIOUS
      <4>1. CASE j \in 1..(l - 1)
        <5>1. (n + 1) + j = n + (j + 1)
          BY <1>1
        <5>2. QED
          BY <2>1, <2>2, <3>1, <4>1, <5>1
      <4>2. CASE j = l
        <5>1. (n + 1) + j = m + 1
          BY <1>1, <1>2, <4>2
        <5>2. QED
          BY <2>1, <3>1, <4>2, <5>1
      <4>3. QED
        BY <1>1, <4>1, <4>2
    <3>3. n + 1 \in 0..Len(u2) /\ Len(o2) = Len(u2) - (n + 1)
      BY <1>1, <1>2, <2>1, <3>1
    <3>4. QED
      BY <1>1, <1>11, <2>1, <3>2, <3>3 DEF Recent
  <2>5. QED
    BY <2>3, <2>4
<1>12. QED
  BY <1>1, <1>10, <1>11
-----------------------------------------------------------------------------
\* The container and its history: what every spec that uses the cache keeps.
CacheInv ==
  /\ order \in Seq(Keys) /\ uses \in Seq(Keys) /\ key \in [Workers -> Keys]
  /\ contended \in BOOLEAN
  /\ Len(order) <= Capacity /\ Injective(order) /\ Injective(uses)
  /\ ~contended => Recent(order, uses)

LEMMA CacheEmpty ==
  ASSUME Init
  PROVE  CacheInv
<1>1. order \in Seq(Keys) /\ Len(order) = 0 /\ uses \in Seq(Keys) /\ Len(uses) = 0
  BY DEF Init
<1>2. Injective(order) /\ Injective(uses)
  BY <1>1 DEF Injective
<1>3. Recent(order, uses)
  <2>1. 0 \in 0..Len(uses) /\ Len(order) = Len(uses) - 0 /\ ~(0 > 0)
    BY <1>1
  <2>2. \A j \in 1..Len(order) : order[j] = uses[0 + j]
    BY <1>1
  <2> QED
    BY <2>1, <2>2 DEF Recent
<1>4. Len(order) <= Capacity
  BY <1>1, CapacityAssumption
<1>5. key \in [Workers -> Keys] /\ contended \in BOOLEAN
  BY DEF Init
<1> QED
  BY <1>1, <1>2, <1>3, <1>4, <1>5 DEF CacheInv

\* operator() on a cached key only moves it to the fresh end.
LEMMA HitKeepsCache ==
  ASSUME CacheInv, NEW w \in Workers, NEW k \in Keys, Hit(w, k)
  PROVE  CacheInv'
<1> USE DEF CacheInv
<1>1. IndexOf(order, k) \in 1..Len(order)
  BY Index DEF Hit
<1>2. /\ order' \in Seq(Keys) /\ Len(order') = Len(order) /\ Injective(order')
  BY <1>1, Relocated DEF Hit, MovedToEnd
<1>3. uses' \in Seq(Keys) /\ Injective(uses')
  BY Touched DEF Hit
<1>4. ~contended => Recent(order', uses')
  BY RecentHit DEF Hit
<1>5. Len(order') <= Capacity
  BY <1>2
<1> QED
  BY <1>2, <1>3, <1>4, <1>5 DEF Hit

\* insert purges before it adds, so another thread's insertion in between does
\* no harm to the bound.
LEMMA InsertKeepsCache ==
  ASSUME CacheInv, NEW w \in Workers, Insert(w)
  PROVE  CacheInv'
<1> USE DEF CacheInv
<1>1. key[w] \in Keys
  OBVIOUS
<1>2. order' \in Seq(Keys) /\ Len(order') <= Capacity /\ Injective(order')
  BY <1>1, Inserted DEF Insert
<1>3. uses' \in Seq(Keys) /\ Injective(uses')
  BY <1>1, Touched DEF Insert
<1>4. ~contended' => Recent(order', uses')
  BY <1>1, RecentInsert DEF Insert
<1>5. contended' \in BOOLEAN
  BY DEF Insert, Has
<1> QED
  BY <1>2, <1>3, <1>4, <1>5 DEF Insert

\* A step that leaves the container and its history alone.
LEMMA OthersKeepCache ==
  ASSUME CacheInv, UNCHANGED <<order, uses, contended>>, key' \in [Workers -> Keys]
  PROVE  CacheInv'
  BY DEF CacheInv

LEMMA MissKeepsCache ==
  ASSUME CacheInv, NEW w \in Workers, NEW k \in Keys, Miss(w, k)
  PROVE  CacheInv'
<1>1. key' \in [Workers -> Keys] /\ UNCHANGED <<order, uses, contended>>
  BY DEF CacheInv, Miss
<1> QED
  BY <1>1, OthersKeepCache

LEMMA CacheStep == CacheInv /\ [Next]_vars => CacheInv'
<1> SUFFICES ASSUME CacheInv, [Next]_vars PROVE CacheInv'
  OBVIOUS
<1>1. key \in [Workers -> Keys]
  BY DEF CacheInv
<1>2. UNCHANGED vars => CacheInv'
  BY <1>1, OthersKeepCache DEF vars
<1>3. ASSUME NEW w \in Workers, Load(w) PROVE CacheInv'
  BY <1>1, <1>3, OthersKeepCache DEF Load
<1> QED
  BY <1>2, <1>3, HitKeepsCache, InsertKeepsCache, MissKeepsCache DEF Next

\* What the fresh end of the history means in the words of the property.
LEMMA CacheMeaning ==
  ASSUME CacheInv
  PROVE  Bounded /\ KeepsMostRecent
<1> USE DEF CacheInv
<1>1. Bounded
  BY DEF Bounded, Injective
<1>2. KeepsMostRecent
  <2> SUFFICES ASSUME ~contended
               PROVE  \E n \in 0..Len(uses) :
                        /\ order = SubSeq(uses, n + 1, Len(uses))
                        /\ n > 0 => Len(order) = Capacity
    BY DEF KeepsMostRecent
  <2>1. PICK n \in 0..Len(uses) : /\ Len(order) = Len(uses) - n
                                  /\ n > 0 => Len(order) = Capacity
                                  /\ \A j \in 1..Len(order) : order[j] = uses[n + j]
    BY DEF Recent
  <2> DEFINE m == Len(uses)  t == SubSeq(uses, n + 1, m)
  <2>2. m \in Nat /\ n + 1 \in Int /\ \A i \in (n + 1)..m : uses[i] \in Keys
    OBVIOUS
  <2> HIDE DEF m
  <2>3. /\ t \in Seq(Keys)
        /\ Len(t) = IF n + 1 <= m THEN m - (n + 1) + 1 ELSE 0
        /\ \A i \in 1..(m - (n + 1) + 1) : t[i] = uses[(n + 1) + i - 1]
    BY <2>2, SubSeqProperties
  <2> HIDE DEF t
  <2>4. Len(order) = m - n /\ n \in 0..m
    BY <2>1 DEF m
  <2>5. Len(t) = Len(order)
    BY <2>2, <2>3, <2>4
  <2>6. \A i \in 1..Len(order) : order[i] = t[i]
    <3> SUFFICES ASSUME NEW i \in 1..Len(order) PROVE order[i] = t[i]
      OBVIOUS
    <3>1. i \in 1..(m - (n + 1) + 1) /\ (n + 1) + i - 1 = n + i
      BY <2>2, <2>4
    <3>2. t[i] = uses[(n + 1) + i - 1]
      BY <2>3, <3>1
    <3>3. QED
      BY <2>1, <3>1, <3>2
  <2>7. order = t
    BY <2>3, <2>5, <2>6, SeqEqual
  <2>8. QED
    BY <2>1, <2>7 DEF t, m
<1> QED
  BY <1>1, <1>2

LEMMA CacheInvariant == Spec => []CacheInv
  BY CacheEmpty, CacheStep, PTL DEF Spec

\* The size that insert asserts is never exceeded, and no key is cached twice,
\* however the misses of the threads overlap.
THEOREM CacheBounded == Spec => []Bounded
<1>1. CacheInv => Bounded
  BY CacheMeaning
<1> QED
  BY <1>1, CacheInvariant, PTL

\* What insert purges is the least recently used key, until two threads that
\* missed one key have both inserted it.
THEOREM CacheKeepsRecent == Spec => []KeepsMostRecent
<1>1. CacheInv => KeepsMostRecent
  BY CacheMeaning
<1> QED
  BY <1>1, CacheInvariant, PTL
-----------------------------------------------------------------------------
Objects == [key : Keys, good : BOOLEAN, whole : BOOLEAN]

Copies == {"absent", "partial", "complete", "wrong"}

FileType ==
  /\ pc \in [Workers -> {"idle", "load", "copy", "insert"}]
  /\ copy \in [Keys -> Copies]
  /\ read \in [Workers -> BOOLEAN]
  /\ fd \in [Workers -> BOOLEAN]
  /\ objs \in [Tokens -> Objects \cup {NoObj}]
  /\ ref \in [Keys -> Tokens \cup {0}]
  /\ local \in [Workers -> Tokens \cup {0}]

\* The objects are those the cache and the workers hold, each for the file it
\* was loaded for; only a worker that is to insert or to answer holds one.
OwnInv ==
  /\ \A t \in Tokens : objs[t] # NoObj <=> Referenced(t)
  /\ \A k \in Keys : Has(order, k) <=> ref[k] # 0
  /\ \A k \in Keys : ref[k] # 0 => objs[ref[k]].key = k
  /\ \A w \in Workers : local[w] # 0 => /\ objs[local[w]].key = key[w]
                                        /\ pc[w] \in {"insert", "idle"}
  /\ \A w \in Workers : pc[w] = "insert" => local[w] # 0
  /\ \A w \in Workers : fd[w] => pc[w] = "copy"

\* A good object will remove every copy that is filled.
LeakInv ==
  \A k \in Keys : copy[k] \in {"complete", "wrong"} =>
    \E t \in Tokens : objs[t].key = k /\ objs[t].good

\* A file that was never loaded twice at a time has one object or one load, and
\* its copy is the one that object or load knows.
SoleInv ==
  \A k \in Keys \ raced :
    /\ \A t, u \in Tokens : objs[t].key = k /\ objs[u].key = k => t = u
    /\ \A w \in Workers : pc[w] = "copy" /\ key[w] = k =>
         /\ fd[w]
         /\ \A t \in Tokens : objs[t].key # k
         /\ \A x \in Workers : pc[x] = "copy" /\ key[x] = k => x = w
    /\ \A t \in Tokens : objs[t].key = k /\ objs[t].good /\ objs[t].whole =>
         copy[k] = "complete"

FileInv == CacheInv /\ FileType /\ OwnInv /\ LeakInv /\ SoleInv

LEMMA NoneIsNone ==
  /\ NoObj \notin Objects /\ NoObj.key \notin Keys
  /\ \A o \in Objects : o.key \in Keys /\ o.good \in BOOLEAN /\ o.whole \in BOOLEAN
  /\ 0 \notin Tokens
<1>1. NoObj.key = NoFile /\ NoFile \notin Keys
  BY BrokenAssumption DEF NoObj
<1>2. \A o \in Objects : o.key \in Keys /\ o.good \in BOOLEAN /\ o.whole \in BOOLEAN
  BY DEF Objects
<1>3. 0 \notin Tokens
  BY DEF Tokens
<1> QED
  BY <1>1, <1>2, <1>3

\* An object belongs to a file exactly when it is there.
LEMMA LiveObject ==
  ASSUME FileType, NEW t \in Tokens
  PROVE  /\ objs[t] # NoObj <=> objs[t].key \in Keys
         /\ objs[t] # NoObj => objs[t] \in Objects /\ objs[t].good \in BOOLEAN
  BY NoneIsNone DEF FileType

\* What the steps of get_file do to the container.
LEMMA FilesKeepCache == CacheInv /\ [FNext]_fvars => CacheInv'
<1> SUFFICES ASSUME CacheInv, [FNext]_fvars PROVE CacheInv'
  OBVIOUS
<1>1. key \in [Workers -> Keys]
  BY DEF CacheInv
<1>2. UNCHANGED <<order, uses, contended, key>> => CacheInv'
  BY <1>1, OthersKeepCache
<1>3. UNCHANGED fvars => CacheInv'
  BY <1>2 DEF fvars, vars
<1>4. ASSUME NEW k \in Keys,
             StoreBegins(k) \/ StoreEnds(k) \/ StoreTears(k) \/ RemoveFile(k)
      PROVE  CacheInv'
  BY <1>2, <1>4 DEF StoreBegins, StoreEnds, StoreTears, RemoveFile, vars
<1>5. ASSUME NEW w \in Workers,
             LoadThrows(w) \/ LoadOpens(w) \/ LoadCopies(w) \/ GetReturns(w)
      PROVE  CacheInv'
  BY <1>2, <1>5 DEF LoadThrows, LoadOpens, LoadCopies, LoadEnds, GetReturns, vars
<1>6. ASSUME NEW w \in Workers, NEW k \in Keys, GetHit(w, k) \/ GetMiss(w, k)
      PROVE  CacheInv'
  BY <1>6, HitKeepsCache, MissKeepsCache DEF GetHit, GetMiss
<1>7. ASSUME NEW w \in Workers, GetInserts(w) PROVE CacheInv'
  BY <1>7, InsertKeepsCache DEF GetInserts
<1> QED
  BY <1>3, <1>4, <1>5, <1>6, <1>7 DEF FNext

\* The object of k that nobody refers to any more.
Lost(t, k) == objs[t].key = k /\ objs[t].good /\ ~Referenced(t)'

\* What the destructors of the objects that lost their last owner do.
LEMMA Released ==
  ASSUME FileType, Release, \A t \in Tokens : Referenced(t)' => objs[t] # NoObj
  PROVE  /\ objs' \in [Tokens -> Objects \cup {NoObj}]
         /\ copy' \in [Keys -> Copies]
         /\ fd' \in [Workers -> BOOLEAN]
         /\ \A t \in Tokens : objs'[t] = IF Referenced(t)' THEN objs[t] ELSE NoObj
         /\ \A k \in Keys : IF \E t \in Tokens : Lost(t, k)
                              THEN copy'[k] = "absent" ELSE copy'[k] = copy[k]
         /\ \A w \in Workers :
              fd'[w] <=> fd[w] /\ (key[w] \in Keys => \A t \in Tokens : ~Lost(t, key[w]))
<1> DEFINE D == Dropped  gone == {objs[t].key : t \in {u \in D : objs[u].good}}
<1>1. \A t \in Tokens : t \in D <=> objs[t] # NoObj /\ ~Referenced(t)'
  BY DEF Dropped, Referenced
<1>2. D \subseteq Tokens
  BY DEF Dropped
<1>3. /\ objs' = [t \in Tokens |-> IF t \in D THEN NoObj ELSE objs[t]]
      /\ copy' = [k \in Keys |-> IF k \in gone THEN "absent" ELSE copy[k]]
      /\ fd' = [w \in Workers |-> fd[w] /\ key[w] \notin gone]
  BY DEF Release
<1> HIDE DEF D
<1>4. \A k \in Keys : k \in gone <=> \E t \in Tokens : Lost(t, k)
  BY <1>1, <1>2, LiveObject DEF Lost
<1>5. \A k : k \in gone => k \in Keys
  BY <1>1, <1>2, LiveObject
<1> HIDE DEF gone
<1>6. \A t \in Tokens : objs[t] \in Objects \cup {NoObj}
  BY DEF FileType
<1>7. \A t \in Tokens : objs'[t] = IF Referenced(t)' THEN objs[t] ELSE NoObj
  BY <1>1, <1>3
<1>8. objs' \in [Tokens -> Objects \cup {NoObj}]
  BY <1>3, <1>6
<1>9. copy' \in [Keys -> Copies]
  BY <1>3 DEF FileType, Copies
<1>10. fd' \in [Workers -> BOOLEAN]
  BY <1>3 DEF FileType
<1>11. \A k \in Keys : IF \E t \in Tokens : Lost(t, k)
                         THEN copy'[k] = "absent" ELSE copy'[k] = copy[k]
  BY <1>3, <1>4
<1>12. \A w \in Workers :
         fd'[w] <=> fd[w] /\ (key[w] \in Keys => \A t \in Tokens : ~Lost(t, key[w]))
  BY <1>3, <1>4, <1>5
<1> QED
  BY <1>7, <1>8, <1>9, <1>10, <1>11, <1>12
-----------------------------------------------------------------------------
\* A step that is not about the copies.
LEMMA AsideKeeps ==
  ASSUME FileInv, CacheInv', read' \in [Workers -> BOOLEAN],
         UNCHANGED <<order, pc, key, copy, fd, objs, ref, local, raced>>
  PROVE  FileInv'
<1>1. FileType'
  BY DEF FileInv, FileType
<1>2. \A t \in Tokens : Referenced(t)' <=> Referenced(t)
  BY DEF Referenced
<1>3. \A k \in Keys : Has(order', k) <=> Has(order, k)
  OBVIOUS
<1>4. OwnInv'
  BY <1>2, <1>3 DEF FileInv, OwnInv
<1>5. LeakInv'
  BY DEF FileInv, LeakInv
<1>6. SoleInv'
  BY DEF FileInv, SoleInv
<1> QED
  BY <1>1, <1>4, <1>5, <1>6 DEF FileInv

LEMMA HasRelocated ==
  ASSUME NEW s \in Seq(Keys), Injective(s), NEW k \in Keys, Has(s, k), NEW x \in Keys
  PROVE  Has(relocate(s, IndexOf(s, k)), x) <=> Has(s, x)
<1> DEFINE i == IndexOf(s, k)  t == relocate(s, i)
<1>1. i \in 1..Len(s) /\ Len(s) \in Nat
  BY Index
<1> HIDE DEF i
<1>2. MovedToEnd(t, s, i)
  BY <1>1, Relocated
<1> HIDE DEF t
<1>3. Len(t) = Len(s)
  BY <1>2 DEF MovedToEnd
<1>4. \A j \in 1..Len(s) :
        t[j] = IF j < i THEN s[j] ELSE IF j < Len(s) THEN s[j + 1] ELSE s[i]
  BY <1>2 DEF MovedToEnd
<1>5. ASSUME Has(t, x) PROVE Has(s, x)
  <2>1. PICK j \in 1..Len(s) : t[j] = x
    BY <1>3, <1>5 DEF Has
  <2>2. \E h \in 1..Len(s) : s[h] = x
    <3>1. CASE j < i
      BY <1>4, <2>1, <3>1
    <3>2. CASE ~(j < i) /\ j < Len(s)
      <4>1. j + 1 \in 1..Len(s)
        BY <1>1, <3>2
      <4> QED BY <1>4, <2>1, <3>2, <4>1
    <3>3. CASE ~(j < i) /\ ~(j < Len(s))
      BY <1>1, <1>4, <2>1, <3>3
    <3> QED BY <3>1, <3>2, <3>3
  <2> QED BY <2>2 DEF Has
<1>6. ASSUME Has(s, x) PROVE Has(t, x)
  <2>1. PICK j \in 1..Len(s) : s[j] = x
    BY <1>6 DEF Has
  <2>2. \E h \in 1..Len(s) : t[h] = x
    <3>1. CASE j < i
      BY <1>4, <2>1, <3>1
    <3>2. CASE j > i
      <4>1. /\ j - 1 \in 1..Len(s) /\ ~(j - 1 < i) /\ j - 1 < Len(s)
            /\ (j - 1) + 1 = j
        BY <1>1, <3>2
      <4> QED BY <1>4, <2>1, <4>1
    <3>3. CASE j = i
      <4>1. Len(s) \in 1..Len(s) /\ ~(Len(s) < i) /\ ~(Len(s) < Len(s))
        BY <1>1
      <4> QED BY <1>4, <2>1, <3>3, <4>1
    <3> QED BY <1>1, <3>1, <3>2, <3>3
  <2> QED BY <1>3, <2>2 DEF Has
<1> QED
  BY <1>5, <1>6 DEF t, i

LEMMA HitKeeps ==
  ASSUME FileInv, CacheInv', NEW w \in Workers, NEW k \in Keys, GetHit(w, k)
  PROVE  FileInv'
<1> USE DEF FileInv
<1>1. /\ pc[w] = "idle" /\ local[w] = 0 /\ Has(order, k)
      /\ key' = [key EXCEPT ![w] = k] /\ local' = [local EXCEPT ![w] = ref[k]]
      /\ order' = relocate(order, IndexOf(order, k))
      /\ UNCHANGED <<pc, read, copy, fd, objs, ref, raced>>
  BY DEF GetHit, Hit
<1>2. ref[k] \in Tokens /\ ref[k] # 0 /\ objs[ref[k]].key = k
  BY <1>1, NoneIsNone DEF OwnInv, FileType
<1>3. FileType'
  BY <1>1, <1>2 DEF FileType
<1>4. \A t \in Tokens : Referenced(t)' <=> Referenced(t)
  BY <1>1, <1>2, NoneIsNone DEF Referenced, FileType
<1>5. \A x \in Keys : Has(order', x) <=> Has(order, x)
  BY <1>1, HasRelocated DEF CacheInv
<1>6. \A x \in Workers : /\ x # w => key'[x] = key[x] /\ local'[x] = local[x]
                         /\ x = w => key'[x] = k /\ local'[x] = ref[k]
  BY <1>1 DEF CacheInv, FileType
<1>7. OwnInv'
  <2>1. \A t \in Tokens : objs'[t] # NoObj <=> Referenced(t)'
    BY <1>1, <1>4 DEF OwnInv
  <2>2. \A x \in Workers : local'[x] # 0 => /\ objs'[local'[x]].key = key'[x]
                                            /\ pc'[x] \in {"insert", "idle"}
    BY <1>1, <1>2, <1>6 DEF OwnInv
  <2> QED
    BY <1>1, <1>5, <1>6, <2>1, <2>2 DEF OwnInv
<1>8. LeakInv'
  BY <1>1, <1>6 DEF LeakInv
<1>9. SoleInv'
  BY <1>1, <1>6 DEF SoleInv
<1> QED
  BY <1>3, <1>7, <1>8, <1>9

LEMMA MissKeeps ==
  ASSUME FileInv, CacheInv', NEW w \in Workers, NEW k \in Keys, GetMiss(w, k)
  PROVE  FileInv'
<1> USE DEF FileInv
<1>1. /\ pc[w] = "idle" /\ local[w] = 0
      /\ key' = [key EXCEPT ![w] = k] /\ pc' = [pc EXCEPT ![w] = "load"]
      /\ UNCHANGED <<order, read, copy, fd, objs, ref, local, raced>>
  BY DEF GetMiss, Miss
<1>2. FileType'
  BY <1>1 DEF FileType
<1>3. \A x \in Workers : /\ x # w => key'[x] = key[x] /\ pc'[x] = pc[x]
                         /\ x = w => key'[x] = k /\ pc'[x] = "load"
  BY <1>1 DEF CacheInv, FileType
<1>4. \A t \in Tokens : Referenced(t)' <=> Referenced(t)
  BY <1>1 DEF Referenced
<1>5. OwnInv'
  <2>1. \A t \in Tokens : objs'[t] # NoObj <=> Referenced(t)'
    BY <1>1, <1>4 DEF OwnInv
  <2>2. \A x \in Workers : local'[x] # 0 => /\ objs'[local'[x]].key = key'[x]
                                            /\ pc'[x] \in {"insert", "idle"}
    BY <1>1, <1>3 DEF OwnInv
  <2>3. ~fd[w]
    BY <1>1 DEF OwnInv
  <2> QED
    BY <1>1, <1>3, <2>1, <2>2, <2>3 DEF OwnInv
<1>6. LeakInv'
  BY <1>1, <1>3 DEF LeakInv
<1>7. SoleInv'
  BY <1>1, <1>3 DEF SoleInv
<1> QED
  BY <1>2, <1>5, <1>6, <1>7

\* Opening the copy truncates it: nobody else has it, or the file is raced.
LEMMA OpenKeeps ==
  ASSUME FileInv, CacheInv', NEW w \in Workers, LoadOpens(w)
  PROVE  FileInv'
<1> USE DEF FileInv
<1> DEFINE k == key[w]
<1>1. /\ pc[w] = "load" /\ ~fd[w]
      /\ pc' = [pc EXCEPT ![w] = "copy"] /\ fd' = [fd EXCEPT ![w] = TRUE]
      /\ copy' = [copy EXCEPT ![k] = "partial"]
      /\ read' = [read EXCEPT ![w] = stored[k] = "whole"]
      /\ UNCHANGED <<order, key, objs, ref, local>>
      /\ \/ /\ \A t \in Tokens : objs[t].key # k
            /\ \A x \in Workers : pc[x] = "copy" => key[x] # k
            /\ raced' = raced
         \/ raced' = raced \cup {k}
  BY DEF LoadOpens, OwnInv
<1>2. k \in Keys
  BY DEF CacheInv
<1>3. FileType'
  BY <1>1 DEF FileType, Copies
<1>4. \A x \in Workers : /\ x # w => fd'[x] = fd[x] /\ pc'[x] = pc[x]
                         /\ x = w => fd'[x] /\ pc'[x] = "copy"
  BY <1>1 DEF FileType
<1>5. \A q \in Keys : copy'[q] = IF q = k THEN "partial" ELSE copy[q]
  BY <1>1 DEF FileType
<1>6. \A t \in Tokens : Referenced(t)' <=> Referenced(t)
  BY <1>1 DEF Referenced
<1>7. OwnInv'
  <2>1. \A t \in Tokens : objs'[t] # NoObj <=> Referenced(t)'
    BY <1>1, <1>6 DEF OwnInv
  <2>2. local[w] = 0
    BY <1>1 DEF OwnInv
  <2>3. \A x \in Workers : local'[x] # 0 => /\ objs'[local'[x]].key = key'[x]
                                            /\ pc'[x] \in {"insert", "idle"}
    BY <1>1, <1>4, <2>2 DEF OwnInv
  <2>4. \A x \in Workers : pc'[x] = "insert" => local'[x] # 0
    BY <1>1, <1>4 DEF OwnInv
  <2>5. \A x \in Workers : fd'[x] => pc'[x] = "copy"
    BY <1>4 DEF OwnInv
  <2> QED
    BY <1>1, <2>1, <2>3, <2>4, <2>5 DEF OwnInv
<1>8. LeakInv'
  BY <1>1, <1>4, <1>5 DEF LeakInv
<1>9. SoleInv'
  <2> SUFFICES ASSUME NEW q \in Keys \ raced'
               PROVE  /\ \A t, u \in Tokens : objs[t].key = q /\ objs[u].key = q => t = u
                      /\ \A x \in Workers : pc'[x] = "copy" /\ key[x] = q =>
                           /\ fd'[x]
                           /\ \A t \in Tokens : objs[t].key # q
                           /\ \A y \in Workers : pc'[y] = "copy" /\ key[y] = q => y = x
                      /\ \A t \in Tokens :
                           objs[t].key = q /\ objs[t].good /\ objs[t].whole =>
                             copy'[q] = "complete"
    BY <1>1 DEF SoleInv
  <2>1. q \in Keys \ raced
    BY <1>1
  <2>2. CASE q = k
    <3>1. /\ \A t \in Tokens : objs[t].key # k
          /\ \A x \in Workers : pc[x] = "copy" => key[x] # k
      BY <1>1, <2>2
    <3> QED
      BY <1>4, <2>2, <3>1
  <2>3. CASE q # k
    BY <1>4, <1>5, <2>1, <2>3 DEF SoleInv
  <2> QED
    BY <2>2, <2>3
<1> QED
  BY <1>3, <1>7, <1>8, <1>9
-----------------------------------------------------------------------------
\* A set of values of a function is not larger than its domain.
LEMMA ImageBound ==
  ASSUME NEW S, IsFiniteSet(S), NEW f, DOMAIN f = S, f = [x \in S |-> f[x]]
  PROVE  IsFiniteSet({f[x] : x \in S}) /\ Cardinality({f[x] : x \in S}) <= Cardinality(S)
<1> DEFINE T == {f[x] : x \in S}
<1>1. f \in Surjection(S, T)
  BY DEF Surjection
<1> HIDE DEF T
<1>2. IsFiniteSet(T) /\ Cardinality(T) <= Cardinality(S)
  BY <1>1, FS_Surjection
<1> QED
  BY <1>2 DEF T

\* A worker that has no object leaves a token free: the cache holds at most
\* Capacity objects and every other worker one.
LEMMA FreeToken ==
  ASSUME CacheInv, FileType, OwnInv, NEW w \in Workers, local[w] = 0
  PROVE  \E t \in Tokens : objs[t] = NoObj
<1> DEFINE I == 1..Len(order)
           W == Workers \ {w}
           f == [i \in I |-> ref[order[i]]]
           g == [x \in W |-> local[x]]
           A == {f[i] : i \in I}
           B == {g[x] : x \in W}
           N == Cardinality(Workers)
           l == Len(order)
<1>1. l \in Nat /\ l <= Capacity /\ Capacity \in Nat
  BY CapacityAssumption DEF CacheInv
<1>2. IsFiniteSet(I) /\ Cardinality(I) = l
  <2> HIDE DEF l
  <2>1. /\ IsFiniteSet(1..l)
        /\ Cardinality(1..l) = IF 1 > l THEN 0 ELSE l - 1 + 1
    BY <1>1, FS_Interval
  <2>2. QED
    BY <1>1, <2>1 DEF l
<1>3. N \in Nat /\ IsFiniteSet(W) /\ Cardinality(W) = N - 1
  BY WorkersAssumption, FS_CardinalityType, FS_RemoveElement
<1>4. IsFiniteSet(A) /\ Cardinality(A) <= l
  <2>1. DOMAIN f = I /\ f = [i \in I |-> f[i]]
    OBVIOUS
  <2> HIDE DEF f, I
  <2>2. IsFiniteSet(A) /\ Cardinality(A) <= Cardinality(I)
    BY <1>2, <2>1, ImageBound
  <2> QED
    BY <1>2, <2>2
<1>5. IsFiniteSet(B) /\ Cardinality(B) <= N - 1
  <2>1. DOMAIN g = W /\ g = [x \in W |-> g[x]]
    OBVIOUS
  <2> HIDE DEF g, W
  <2>2. IsFiniteSet(B) /\ Cardinality(B) <= Cardinality(W)
    BY <1>3, <2>1, ImageBound
  <2> QED
    BY <1>3, <2>2
<1>6. \A t \in Tokens : objs[t] # NoObj => t \in A \cup B
  <2> SUFFICES ASSUME NEW t \in Tokens, objs[t] # NoObj PROVE t \in A \cup B
    OBVIOUS
  <2>1. t # 0
    BY NoneIsNone
  <2>2. CASE \E k \in Keys : ref[k] = t
    <3>1. PICK k \in Keys : ref[k] = t
      BY <2>2
    <3>2. Has(order, k)
      BY <2>1, <3>1 DEF OwnInv
    <3>3. PICK i \in I : order[i] = k
      BY <3>2 DEF Has
    <3> QED
      BY <3>1, <3>3
  <2>3. CASE \E x \in Workers : local[x] = t
    BY <2>1, <2>3
  <2> QED
    BY <2>2, <2>3 DEF OwnInv, Referenced
<1> HIDE DEF A, B, N, l
<1>7. /\ IsFiniteSet(A \cup B)
      /\ Cardinality(A \cup B) <= l + (N - 1)
  <2>1. /\ IsFiniteSet(A \cup B)
        /\ Cardinality(A \cup B) = Cardinality(A) + Cardinality(B) - Cardinality(A \cap B)
    BY <1>4, <1>5, FS_Union
  <2>2. Cardinality(A \cap B) \in Nat /\ Cardinality(A) \in Nat /\ Cardinality(B) \in Nat
    BY <1>4, <1>5, FS_Intersection, FS_CardinalityType
  <2> QED
    BY <1>1, <1>3, <1>4, <1>5, <2>1, <2>2
<1>8. IsFiniteSet(Tokens) /\ Cardinality(Tokens) = N + Capacity
  <2>1. Tokens = 1..(N + Capacity) /\ N + Capacity \in Nat
    BY <1>1, <1>3 DEF Tokens, N
  <2>2. /\ IsFiniteSet(1..(N + Capacity))
        /\ Cardinality(1..(N + Capacity)) =
             IF 1 > N + Capacity THEN 0 ELSE (N + Capacity) - 1 + 1
    BY <2>1, FS_Interval
  <2> QED
    BY <1>1, <1>3, <2>1, <2>2
<1>9. ASSUME Tokens \subseteq A \cup B PROVE FALSE
  <2>1. Cardinality(Tokens) <= Cardinality(A \cup B)
    BY <1>7, <1>9, FS_Subset
  <2>2. Cardinality(A \cup B) \in Nat
    BY <1>7, FS_CardinalityType
  <2> QED
    BY <1>1, <1>3, <1>7, <1>8, <2>1, <2>2
<1> QED
  BY <1>6, <1>9
-----------------------------------------------------------------------------
\* The load ends: what was a copier of its file becomes an object of it.
LEMMA CopyKeeps ==
  ASSUME FileInv, CacheInv', NEW w \in Workers, LoadCopies(w)
  PROVE  FileInv'
<1> USE DEF FileInv
<1>0. PICK good \in BOOLEAN, result \in {"complete", "wrong"} :
             /\ result = "wrong" => ~read[w]
             /\ LoadEnds(w, good, result)
  BY DEF LoadCopies
<1> DEFINE k == key[w]
           n == CHOOSE u \in Tokens : objs[u] = NoObj
           o == [key |-> k, good |-> good, whole |-> read[w]]
           c == IF fd[w] /\ good THEN result ELSE copy[k]
<1>1. k \in Keys /\ pc[w] = "copy"
  BY DEF CacheInv, LoadCopies
<1>2. local[w] = 0
  BY <1>1 DEF OwnInv
<1>3. n \in Tokens /\ objs[n] = NoObj
  BY <1>2, FreeToken
<1>4. o \in Objects /\ o.key = k /\ o.good = good /\ o.whole = read[w] /\ o # NoObj
  <2>1. o \in Objects /\ o.key = k /\ o.good = good /\ o.whole = read[w]
    BY <1>1 DEF Objects, FileType
  <2> QED
    BY <2>1, NoneIsNone
<1>5. /\ pc' = [pc EXCEPT ![w] = "insert"] /\ fd' = [fd EXCEPT ![w] = FALSE]
      /\ copy' = [copy EXCEPT ![k] = c]
      /\ objs' = [objs EXCEPT ![n] = o] /\ local' = [local EXCEPT ![w] = n]
      /\ read' = [read EXCEPT ![w] = FALSE]
      /\ UNCHANGED <<order, key, ref, raced>>
  <2>1. copy' = [copy EXCEPT ![k] = c]
    BY <1>0, <1>1 DEF LoadEnds, FileType
  <2> QED
    BY <1>0, <2>1 DEF LoadEnds
<1>6. c \in Copies
  BY <1>1 DEF FileType, Copies
<1>7. k \notin raced => fd[w]
  BY <1>1 DEF SoleInv
<1>8. fd[w] /\ o.good /\ o.whole => c = "complete"
  BY <1>0, <1>4
<1>9. o.good \/ c = copy[k]
  BY <1>4
<1> HIDE DEF n, o, c, k
<1>10. FileType'
  BY <1>1, <1>3, <1>4, <1>5, <1>6 DEF FileType
<1>11. \A x \in Workers :
         /\ x # w => fd'[x] = fd[x] /\ pc'[x] = pc[x] /\ local'[x] = local[x]
         /\ x = w => ~fd'[x] /\ pc'[x] = "insert" /\ local'[x] = n
  BY <1>5 DEF FileType
<1>12. \A t \in Tokens : objs'[t] = IF t = n THEN o ELSE objs[t]
  BY <1>5 DEF FileType
<1>13. \A q \in Keys : copy'[q] = IF q = k THEN c ELSE copy[q]
  BY <1>5 DEF FileType
<1>14. ~Referenced(n)
  BY <1>3 DEF OwnInv
<1>15. n # 0 /\ NoObj.key \notin Keys
  BY <1>3, NoneIsNone
<1>16. OwnInv'
  <2>1. \A t \in Tokens : Referenced(t)' <=> t = n \/ Referenced(t)
    BY <1>2, <1>5, <1>11, NoneIsNone DEF Referenced
  <2>2. \A t \in Tokens : objs'[t] # NoObj <=> Referenced(t)'
    BY <1>4, <1>12, <2>1 DEF OwnInv
  <2>3. \A q \in Keys : ref'[q] # 0 => objs'[ref'[q]].key = q
    <3> SUFFICES ASSUME NEW q \in Keys, ref[q] # 0 PROVE objs'[ref[q]].key = q
      BY <1>5
    <3>1. ref[q] \in Tokens /\ ref[q] # n
      BY <1>14 DEF Referenced, FileType
    <3> QED
      BY <1>12, <3>1 DEF OwnInv
  <2>4. \A x \in Workers : local'[x] # 0 => /\ objs'[local'[x]].key = key'[x]
                                            /\ pc'[x] \in {"insert", "idle"}
    <3> SUFFICES ASSUME NEW x \in Workers, local'[x] # 0
                 PROVE  objs'[local'[x]].key = key[x] /\ pc'[x] \in {"insert", "idle"}
      BY <1>5
    <3>1. CASE x = w
      BY <1>3, <1>4, <1>11, <1>12, <3>1 DEF k
    <3>2. CASE x # w
      <4>1. local[x] \in Tokens /\ local[x] # n /\ local'[x] = local[x] /\ pc'[x] = pc[x]
        BY <1>11, <1>14, <3>2 DEF Referenced, FileType
      <4> QED
        BY <1>12, <4>1 DEF OwnInv
    <3> QED
      BY <3>1, <3>2
  <2>5. \A x \in Workers : pc'[x] = "insert" => local'[x] # 0
    BY <1>11, <1>15 DEF OwnInv
  <2>6. \A x \in Workers : fd'[x] => pc'[x] = "copy"
    BY <1>11 DEF OwnInv
  <2>7. \A q \in Keys : Has(order', q) <=> ref'[q] # 0
    BY <1>5 DEF OwnInv
  <2> QED
    BY <2>2, <2>3, <2>4, <2>5, <2>6, <2>7 DEF OwnInv
<1>17. LeakInv'
  <2> SUFFICES ASSUME NEW q \in Keys, copy'[q] \in {"complete", "wrong"}
               PROVE  \E t \in Tokens : objs'[t].key = q /\ objs'[t].good
    BY DEF LeakInv
  <2>1. CASE q = k /\ o.good
    BY <1>3, <1>4, <1>12, <2>1
  <2>2. CASE ~(q = k /\ o.good)
    <3>1. copy[q] \in {"complete", "wrong"}
      BY <1>9, <1>13, <2>2
    <3>2. PICK t \in Tokens : objs[t].key = q /\ objs[t].good
      BY <3>1 DEF LeakInv
    <3>3. t # n
      BY <1>3, <1>15, <3>2
    <3> QED
      BY <1>12, <3>2, <3>3
  <2> QED
    BY <2>1, <2>2
<1>18. SoleInv'
  <2> SUFFICES ASSUME NEW q \in Keys \ raced
               PROVE  /\ \A t, u \in Tokens : objs'[t].key = q /\ objs'[u].key = q => t = u
                      /\ \A x \in Workers : pc'[x] = "copy" /\ key[x] = q =>
                           /\ fd'[x]
                           /\ \A t \in Tokens : objs'[t].key # q
                           /\ \A y \in Workers : pc'[y] = "copy" /\ key[y] = q => y = x
                      /\ \A t \in Tokens :
                           objs'[t].key = q /\ objs'[t].good /\ objs'[t].whole =>
                             copy'[q] = "complete"
    BY <1>5 DEF SoleInv
  <2>1. CASE q = k
    <3>1. /\ fd[w] /\ \A t \in Tokens : objs[t].key # k
          /\ \A x \in Workers : pc[x] = "copy" /\ key[x] = k => x = w
      BY <1>1, <2>1 DEF SoleInv, k
    <3>2. \A t \in Tokens : objs'[t].key = k => t = n
      BY <1>12, <3>1
    <3>3. \A x \in Workers : ~(pc'[x] = "copy" /\ key[x] = k)
      BY <1>11, <3>1
    <3>4. \A t \in Tokens : objs'[t].key = q /\ objs'[t].good /\ objs'[t].whole => copy'[q] = "complete"
      BY <1>3, <1>8, <1>12, <1>13, <2>1, <3>1, <3>2
    <3> QED
      BY <2>1, <3>2, <3>3, <3>4
  <2>2. CASE q # k
    <3>1. \A t \in Tokens : objs'[t].key = q => t # n /\ objs'[t] = objs[t]
      BY <1>4, <1>12, <2>2
    <3>2. \A x \in Workers : pc'[x] = "copy" /\ key[x] = q =>
             x # w /\ pc[x] = "copy" /\ fd'[x] = fd[x]
      BY <1>11
    <3>3. \A t, u \in Tokens : objs'[t].key = q /\ objs'[u].key = q => t = u
      BY <3>1 DEF SoleInv
    <3>4. \A x \in Workers : pc'[x] = "copy" /\ key[x] = q =>
            /\ fd'[x]
            /\ \A t \in Tokens : objs'[t].key # q
            /\ \A y \in Workers : pc'[y] = "copy" /\ key[y] = q => y = x
      BY <3>1, <3>2 DEF SoleInv
    <3>5. copy'[q] = copy[q]
      BY <1>13, <2>2
    <3>6. \A t \in Tokens : objs'[t].key = q /\ objs'[t].good /\ objs'[t].whole => copy'[q] = "complete"
      BY <3>1, <3>5 DEF SoleInv
    <3> QED
      BY <3>3, <3>4, <3>6
  <2> QED
    BY <2>1, <2>2
<1> QED
  BY <1>10, <1>16, <1>17, <1>18

\* Destructors keep the copies in order: they run for the last owner only.
LEMMA ReleaseKeeps ==
  ASSUME FileInv, Release, UNCHANGED <<key, raced>>,
         \A t \in Tokens : Referenced(t)' => objs[t] # NoObj,
         \A x \in Workers : pc'[x] = "copy" <=> pc[x] = "copy"
  PROVE  LeakInv' /\ SoleInv'
<1> USE DEF FileInv
<1>1. \A x \in Workers : key[x] \in Keys
  BY DEF CacheInv
<1>2. \A t \in Tokens : objs'[t] = IF Referenced(t)' THEN objs[t] ELSE NoObj
  BY Released
<1>3. \A k \in Keys : IF \E t \in Tokens : Lost(t, k)
                        THEN copy'[k] = "absent" ELSE copy'[k] = copy[k]
  BY Released
<1>4. \A w \in Workers : fd'[w] <=> fd[w] /\ \A t \in Tokens : ~Lost(t, key[w])
  BY <1>1, Released
<1>5. \A t \in Tokens, q \in Keys : objs'[t].key = q => objs'[t] = objs[t] /\ Referenced(t)'
  BY <1>2, NoneIsNone
<1>6. LeakInv'
  <2> SUFFICES ASSUME NEW q \in Keys, copy'[q] \in {"complete", "wrong"}
               PROVE  \E t \in Tokens : objs'[t].key = q /\ objs'[t].good
    BY DEF LeakInv
  <2>1. copy[q] \in {"complete", "wrong"} /\ \A t \in Tokens : ~Lost(t, q)
    BY <1>3
  <2>2. PICK t \in Tokens : objs[t].key = q /\ objs[t].good
    BY <2>1 DEF LeakInv
  <2>3. Referenced(t)'
    BY <2>1, <2>2 DEF Lost
  <2> QED
    BY <1>2, <2>2, <2>3
<1>7. SoleInv'
  <2> SUFFICES ASSUME NEW q \in Keys \ raced
               PROVE  /\ \A t, u \in Tokens : objs'[t].key = q /\ objs'[u].key = q => t = u
                      /\ \A x \in Workers : pc'[x] = "copy" /\ key[x] = q =>
                           /\ fd'[x]
                           /\ \A t \in Tokens : objs'[t].key # q
                           /\ \A y \in Workers : pc'[y] = "copy" /\ key[y] = q => y = x
                      /\ \A t \in Tokens :
                           objs'[t].key = q /\ objs'[t].good /\ objs'[t].whole =>
                             copy'[q] = "complete"
    BY DEF SoleInv
  <2>1. \A t, u \in Tokens : objs'[t].key = q /\ objs'[u].key = q => t = u
    BY <1>5 DEF SoleInv
  <2>2. \A x \in Workers : pc[x] = "copy" /\ key[x] = q =>
          /\ fd[x]
          /\ \A t \in Tokens : objs[t].key # q
          /\ \A y \in Workers : pc[y] = "copy" /\ key[y] = q => y = x
    BY DEF SoleInv
  <2>3. ASSUME NEW x \in Workers, pc[x] = "copy", key[x] = q PROVE fd'[x]
    BY <1>4, <2>2, <2>3 DEF Lost
  <2>4. \A t \in Tokens : objs'[t].key = q /\ objs'[t].good /\ objs'[t].whole => copy'[q] = "complete"
    <3> SUFFICES ASSUME NEW t \in Tokens, objs'[t].key = q, objs'[t].good, objs'[t].whole
                 PROVE  copy'[q] = "complete"
      OBVIOUS
    <3>1. objs[t].key = q /\ objs[t].good /\ objs[t].whole /\ Referenced(t)'
      BY <1>5
    <3>2. \A u \in Tokens : ~Lost(u, q)
      BY <3>1 DEF SoleInv, Lost
    <3> QED
      BY <1>3, <3>1, <3>2 DEF SoleInv
  <2> QED
    BY <1>5, <2>1, <2>2, <2>3, <2>4
<1> QED
  BY <1>6, <1>7
\* The keys after an insertion: those the purge left, and the new one.
LEMMA HasInserted ==
  ASSUME NEW s \in Seq(Keys), Injective(s), Len(s) <= Capacity, NEW k \in Keys,
         NEW x \in Keys
  PROVE  /\ Has(purge(s), x) => Has(s, x)
         /\ Has(insert(s, k), x) => x = k \/ Has(purge(s), x)
<1> DEFINE r == purge(s)  t == insert(s, k)  l == Len(s)
<1>1. /\ r \in Seq(Keys) /\ l \in Nat
      /\ l = Capacity => Len(r) = l - 1 /\ \A j \in 1..(l - 1) : r[j] = s[j + 1]
      /\ l # Capacity => r = s
  BY Purged
<1>2. (Has(r, k) => t = r) /\ (~Has(r, k) => Extended(t, r, k))
  BY Inserted
<1> HIDE DEF r, t
<1>3. Has(r, x) => Has(s, x)
  <2>1. CASE l = Capacity
    <3>1. \A j \in 1..(l - 1) : j + 1 \in 1..l
      BY <1>1
    <3> QED
      BY <1>1, <2>1, <3>1 DEF Has
  <2> QED
    BY <1>1, <2>1
<1>4. Has(t, x) => x = k \/ Has(r, x)
  <2>1. CASE Has(r, k)
    BY <1>2, <2>1
  <2>2. CASE ~Has(r, k)
    <3>1. Len(t) = Len(r) + 1 /\ t[Len(r) + 1] = k /\ \A j \in 1..Len(r) : t[j] = r[j]
      BY <1>2, <2>2 DEF Extended
    <3>2. \A j \in 1..(Len(r) + 1) : j \in 1..Len(r) \/ j = Len(r) + 1
      BY <1>1
    <3> QED
      BY <3>1, <3>2 DEF Has
  <2> QED
    BY <2>1, <2>2
<1> QED
  BY <1>3, <1>4 DEF r, t

LEMMA InsertsKeep ==
  ASSUME FileInv, CacheInv', NEW w \in Workers, GetInserts(w)
  PROVE  FileInv'
<1> USE DEF FileInv
<1> DEFINE k == key[w]
<1>1. /\ pc[w] = "insert" /\ pc' = [pc EXCEPT ![w] = "idle"]
      /\ order' = insert(order, k)
      /\ ref' = [q \in Keys |->
           IF ~Has(order', q) THEN 0
           ELSE IF q = k /\ ~Has(purge(order), q) THEN local[w] ELSE ref[q]]
      /\ UNCHANGED <<key, read, local, raced>> /\ Release
  BY DEF GetInserts, Insert
<1>2. k \in Keys
  BY DEF CacheInv
<1>3. local[w] \in Tokens /\ local[w] # 0 /\ objs[local[w]].key = k
  BY <1>1, NoneIsNone DEF OwnInv, FileType
<1>4. \A q \in Keys : (Has(purge(order), q) => Has(order, q))
                      /\ (Has(order', q) => q = k \/ Has(purge(order), q))
  BY <1>1, <1>2, HasInserted DEF CacheInv
<1>5. \A q \in Keys :
        /\ ref'[q] = IF ~Has(order', q) THEN 0
                     ELSE IF q = k /\ ~Has(purge(order), q) THEN local[w] ELSE ref[q]
  BY <1>1
<1>6. \A q \in Keys : Has(order', q) <=> ref'[q] # 0
  BY <1>3, <1>4, <1>5 DEF OwnInv
<1>7. \A q \in Keys : ref'[q] # 0 => ref'[q] \in Tokens /\ objs[ref'[q]].key = q
  BY <1>3, <1>5 DEF OwnInv, FileType
<1>8. ref' \in [Keys -> Tokens \cup {0}]
  <2>1. \A q \in Keys : ref'[q] \in Tokens \cup {0}
    BY <1>7
  <2> QED
    BY <1>1, <2>1
<1>9. \A t \in Tokens : Referenced(t)' => objs[t] # NoObj
  <2> SUFFICES ASSUME NEW t \in Tokens, Referenced(t)' PROVE objs[t] # NoObj
    OBVIOUS
  <2>1. CASE \E q \in Keys : ref'[q] = t
    BY <1>7, <2>1, NoneIsNone
  <2>2. CASE \E x \in Workers : local[x] = t
    BY <2>2 DEF OwnInv, Referenced
  <2> QED
    BY <1>1, <2>1, <2>2 DEF Referenced
<1>10. \A x \in Workers : /\ x # w => pc'[x] = pc[x]
                          /\ x = w => pc'[x] = "idle"
  BY <1>1 DEF FileType
<1>11. /\ objs' \in [Tokens -> Objects \cup {NoObj}]
       /\ copy' \in [Keys -> Copies]
       /\ fd' \in [Workers -> BOOLEAN]
       /\ \A t \in Tokens : objs'[t] = IF Referenced(t)' THEN objs[t] ELSE NoObj
       /\ \A x \in Workers : fd'[x] => fd[x]
  BY <1>1, <1>9, Released
<1>12. FileType'
  BY <1>1, <1>8, <1>11 DEF FileType
<1>13. LeakInv' /\ SoleInv'
  BY <1>1, <1>9, <1>10, ReleaseKeeps
<1>14. /\ \A t \in Tokens, q \in Keys : ref'[q] = t => objs'[t] = objs[t]
       /\ \A t \in Tokens, x \in Workers : local'[x] = t => objs'[t] = objs[t]
  BY <1>11 DEF Referenced
<1>15. OwnInv'
  <2>1. \A t \in Tokens : objs'[t] # NoObj <=> Referenced(t)'
    BY <1>9, <1>11
  <2>2. \A q \in Keys : ref'[q] # 0 => objs'[ref'[q]].key = q
    <3> SUFFICES ASSUME NEW q \in Keys, ref'[q] # 0 PROVE objs'[ref'[q]].key = q
      OBVIOUS
    <3>1. ref'[q] \in Tokens /\ objs[ref'[q]].key = q
      BY <1>7
    <3> QED
      BY <1>14, <3>1
  <2>3. \A x \in Workers : local'[x] # 0 => /\ objs'[local'[x]].key = key'[x]
                                            /\ pc'[x] \in {"insert", "idle"}
    <3> SUFFICES ASSUME NEW x \in Workers, local[x] # 0
                 PROVE  objs'[local[x]].key = key[x] /\ pc'[x] \in {"insert", "idle"}
      BY <1>1
    <3>1. local'[x] = local[x] /\ local[x] \in Tokens
      BY <1>1 DEF FileType
    <3>2. objs'[local[x]] = objs[local[x]]
      BY <1>14, <3>1
    <3> QED
      BY <1>10, <3>2 DEF OwnInv
  <2>4. \A x \in Workers : pc'[x] = "insert" => local'[x] # 0
    BY <1>1, <1>10 DEF OwnInv
  <2>5. \A x \in Workers : fd'[x] => pc'[x] = "copy"
    BY <1>1, <1>10, <1>11 DEF OwnInv
  <2> QED
    BY <1>6, <2>1, <2>2, <2>3, <2>4, <2>5 DEF OwnInv
<1> QED
  BY <1>12, <1>13, <1>15

LEMMA ReturnKeeps ==
  ASSUME FileInv, CacheInv', NEW w \in Workers, GetReturns(w)
  PROVE  FileInv'
<1> USE DEF FileInv
<1>1. /\ pc[w] = "idle" /\ local[w] # 0
      /\ local' = [local EXCEPT ![w] = 0]
      /\ UNCHANGED <<order, pc, key, read, ref, raced>> /\ Release
  BY DEF GetReturns, vars
<1>2. \A x \in Workers : local'[x] = IF x = w THEN 0 ELSE local[x]
  BY <1>1 DEF FileType
<1>3. \A t \in Tokens : Referenced(t)' => objs[t] # NoObj
  BY <1>1, <1>2, NoneIsNone DEF Referenced, OwnInv
<1>4. /\ objs' \in [Tokens -> Objects \cup {NoObj}]
      /\ copy' \in [Keys -> Copies]
      /\ fd' \in [Workers -> BOOLEAN]
      /\ \A t \in Tokens : objs'[t] = IF Referenced(t)' THEN objs[t] ELSE NoObj
      /\ \A x \in Workers : fd'[x] => fd[x]
  BY <1>1, <1>3, Released
<1>5. FileType'
  BY <1>1, <1>4 DEF FileType
<1>6. LeakInv' /\ SoleInv'
  BY <1>1, <1>3, ReleaseKeeps
<1>7. /\ \A t \in Tokens, q \in Keys : ref'[q] = t => objs'[t] = objs[t]
      /\ \A t \in Tokens, x \in Workers : local'[x] = t => objs'[t] = objs[t]
  BY <1>4 DEF Referenced
<1>8. OwnInv'
  <2>1. \A t \in Tokens : objs'[t] # NoObj <=> Referenced(t)'
    BY <1>3, <1>4
  <2>2. \A q \in Keys : ref'[q] # 0 => objs'[ref'[q]].key = q
    <3> SUFFICES ASSUME NEW q \in Keys, ref[q] # 0 PROVE objs'[ref[q]].key = q
      BY <1>1
    <3>1. ref'[q] = ref[q] /\ ref[q] \in Tokens
      BY <1>1 DEF FileType
    <3>2. objs'[ref[q]] = objs[ref[q]]
      BY <1>7, <3>1
    <3> QED
      BY <3>2 DEF OwnInv
  <2>3. \A x \in Workers : local'[x] # 0 => /\ objs'[local'[x]].key = key'[x]
                                            /\ pc'[x] \in {"insert", "idle"}
    <3> SUFFICES ASSUME NEW x \in Workers, local'[x] # 0
                 PROVE  objs'[local'[x]].key = key[x] /\ pc[x] \in {"insert", "idle"}
      BY <1>1
    <3>1. local'[x] = local[x] /\ local[x] # 0
      BY <1>2
    <3>2. local[x] \in Tokens
      BY <3>1 DEF FileType
    <3>3. objs'[local[x]] = objs[local[x]]
      BY <1>7, <3>1, <3>2
    <3> QED
      BY <3>1, <3>3 DEF OwnInv
  <2>4. \A x \in Workers : pc'[x] = "insert" => local'[x] # 0
    BY <1>1, <1>2 DEF OwnInv
  <2>5. \A x \in Workers : fd'[x] => pc'[x] = "copy"
    BY <1>1, <1>4 DEF OwnInv
  <2>6. \A q \in Keys : Has(order', q) <=> ref'[q] # 0
    BY <1>1 DEF OwnInv
  <2> QED
    BY <2>1, <2>2, <2>3, <2>4, <2>5, <2>6 DEF OwnInv
<1> QED
  BY <1>5, <1>6, <1>8
-----------------------------------------------------------------------------
LEMMA FilesStart == FInit => FileInv
<1> SUFFICES ASSUME FInit PROVE FileInv
  OBVIOUS
<1> USE DEF FInit
<1>1. CacheInv
  BY CacheEmpty
<1>2. FileType
  BY DEF FileType, Init, Copies
<1>3. \A t \in Tokens : objs[t] = NoObj /\ ~Referenced(t)
  BY NoneIsNone DEF Referenced
<1>4. order = << >> /\ Len(<< >>) = 0
  BY DEF Init
<1>5. \A k \in Keys : ~Has(order, k)
  BY <1>4 DEF Has
<1>6. OwnInv
  BY <1>3, <1>5 DEF OwnInv, Init
<1>7. LeakInv
  BY DEF LeakInv
<1>8. SoleInv
  BY <1>3, NoneIsNone DEF SoleInv, Init
<1> QED
  BY <1>1, <1>2, <1>6, <1>7, <1>8 DEF FileInv

LEMMA FilesStep == FileInv /\ [FNext]_fvars => FileInv'
<1> SUFFICES ASSUME FileInv, [FNext]_fvars PROVE FileInv'
  OBVIOUS
<1>1. CacheInv'
  BY FilesKeepCache DEF FileInv
<1>2. read \in [Workers -> BOOLEAN]
  BY DEF FileInv, FileType
<1>3. UNCHANGED fvars => FileInv'
  BY <1>1, <1>2, AsideKeeps DEF fvars, vars
<1>4. ASSUME NEW k \in Keys,
             StoreBegins(k) \/ StoreEnds(k) \/ StoreTears(k) \/ RemoveFile(k)
      PROVE  FileInv'
  <2>1. read' \in [Workers -> BOOLEAN]
    BY <1>2, <1>4 DEF StoreBegins, StoreEnds, StoreTears, RemoveFile
  <2> QED
    BY <1>1, <1>4, <2>1, AsideKeeps
    DEF StoreBegins, StoreEnds, StoreTears, RemoveFile, vars
<1>7. ASSUME NEW w \in Workers, LoadThrows(w) PROVE FileInv'
  BY <1>1, <1>2, <1>7, AsideKeeps DEF LoadThrows, vars
<1>5. ASSUME NEW w \in Workers, NEW k \in Keys, GetHit(w, k) \/ GetMiss(w, k)
      PROVE  FileInv'
  BY <1>1, <1>5, HitKeeps, MissKeeps
<1>6. ASSUME NEW w \in Workers,
             LoadOpens(w) \/ LoadCopies(w) \/ GetInserts(w) \/ GetReturns(w)
      PROVE  FileInv'
  BY <1>1, <1>6, OpenKeeps, CopyKeeps, InsertsKeep, ReturnKeeps
<1> QED
  BY <1>3, <1>4, <1>5, <1>6, <1>7 DEF FNext

LEMMA FilesInvariant == FSpec => []FileInv
  BY FilesStart, FilesStep, PTL DEF FSpec

\* get_file keeps the container within its capacity and free of repetitions.
THEOREM PublicCacheBounded == FSpec => []Bounded
<1>1. FileInv => Bounded
  BY CacheMeaning DEF FileInv
<1> QED
  BY <1>1, FilesInvariant, PTL

\* get_file keeps the container in the order of use: what a load evicts is the
\* file nobody asked for the longest, until a key was inserted twice.
THEOREM PublicCacheRecent == FSpec => []KeepsMostRecent
<1>1. FileInv => KeepsMostRecent
  BY CacheMeaning DEF FileInv
<1> QED
  BY <1>1, FilesInvariant, PTL

\* Every public_file object has an owner and every owner a live object of the
\* right file: no pointer of the cache or of a worker outlives its object, and
\* the tokens never run out.
THEOREM ObjectsOwned == FSpec => []FTypeOK
<1>1. FileInv => FTypeOK
  BY DEF FileInv, CacheInv, OwnInv, FTypeOK
<1> QED
  BY <1>1, FilesInvariant, PTL

\* The public directory never keeps a copy that a load has filled and that no
\* destructor will remove.
THEOREM CopiesNeverLeak == FSpec => []NoLeakedCopy
<1>1. FileInv => NoLeakedCopy
  BY DEF FileInv, LeakInv, NoLeakedCopy
<1> QED
  BY <1>1, FilesInvariant, PTL

\* A hit hands out the path of a complete copy for every file that was whole
\* while it was copied and was never loaded while another object or load of it
\* was alive, whatever became of the stored file since.
THEOREM CachedCopiesComplete == FSpec => []CachedCopyComplete
<1>1. FileInv => CachedCopyComplete
  <2> SUFFICES ASSUME FileInv, NEW k \in Keys \ raced, ref[k] # 0,
                      objs[ref[k]].good, objs[ref[k]].whole
               PROVE  copy[k] = "complete"
    BY DEF CachedCopyComplete
  <2>1. ref[k] \in Tokens /\ objs[ref[k]].key = k
    BY DEF FileInv, FileType, OwnInv
  <2> QED
    BY <2>1 DEF FileInv, SoleInv
<1> QED
  BY <1>1, FilesInvariant, PTL
============================================================================
