------------------------ MODULE RpcConnectionProofs ------------------------
(***************************************************************************)
(* The RPC server and its clients, for any number of clients and calls and *)
(* any way TCP cuts the streams: answers come once and in order, only a    *)
(* client that does not wait, a method that throws or calls that meet end  *)
(* the daemon, and kv.get delivers what was put.                           *)
(*                                                                         *)
(* The invariant numbers the parts of the two streams of a connection.     *)
(* What is on its way to the server ends with the last part sent; what the *)
(* client has parsed, what it keeps and what is on its way to it are the   *)
(* answers to the requests executed, in their order.                       *)
(***************************************************************************)
EXTENDS RpcConnection, SequenceTheorems, WellFoundedInduction, TLAPS

LEMMA LeastNat ==
  ASSUME NEW T, T \subseteq Nat, T # {}
  PROVE  \E x \in T : \A y \in T : x <= y
<1> DEFINE R == OpToRel(<, Nat)
<1>1. IsWellFoundedOn(R, Nat)
  BY NatLessThanWellFounded
<1>2. \A x, y \in Nat : x < y => <<x, y>> \in R
  BY DEF OpToRel
<1> HIDE DEF R
<1>3. PICK x \in T : \A y \in T : ~(<<y, x>> \in R)
  BY <1>1, WFMin
<1>4. ASSUME NEW y \in T PROVE x <= y
  <2>1. x \in Nat /\ y \in Nat
    OBVIOUS
  <2>2. ~(y < x)
    BY <1>2, <1>3, <2>1, Zenon
  <2> QED
    BY <2>1, <2>2
<1> QED
  BY <1>4

LEMMA NatInductionSet ==
  ASSUME NEW S, 0 \in S, \A n \in Nat : n \in S => n + 1 \in S
  PROVE  Nat \subseteq S
<1> DEFINE T == Nat \ S
<1> SUFFICES ASSUME T # {} PROVE FALSE
  OBVIOUS
<1> PICK x \in T : \A y \in T : x <= y
  BY LeastNat
<1>1. x # 0
  OBVIOUS
<1>2. x - 1 \in Nat /\ x - 1 \notin T /\ (x - 1) + 1 = x
  BY <1>1
<1> QED
  BY <1>2

LEMMA MinIsLeast ==
  ASSUME NEW T, T \subseteq Nat, T # {}
  PROVE  Min(T) \in T /\ \A y \in T : Min(T) <= y
<1>1. \E x \in T : \A y \in T : x <= y
  BY LeastNat
<1> QED
  BY <1>1 DEF Min
----------------------------------------------------------------------------
(* Sequences of anything.                                                   *)

IsSeq(s) == \E S : s \in Seq(S)

LEMMA SeqFacts ==
  ASSUME NEW s, IsSeq(s)
  PROVE  Len(s) \in Nat /\ DOMAIN s = 1..Len(s)
<1> PICK S : s \in Seq(S)
  BY DEF IsSeq
<1> QED
  BY LenProperties

LEMMA SeqOfTwo ==
  ASSUME NEW s, NEW t, IsSeq(s), IsSeq(t)
  PROVE  \E S : s \in Seq(S) /\ t \in Seq(S)
<1> PICK A : s \in Seq(A)
  BY DEF IsSeq
<1> PICK B : t \in Seq(B)
  BY DEF IsSeq
<1>1. s \in Seq(A \cup B) /\ t \in Seq(A \cup B)
  BY SeqMonotonic
<1> QED
  BY <1>1

LEMMA Joined ==
  ASSUME NEW s, NEW t, IsSeq(s), IsSeq(t)
  PROVE  /\ IsSeq(s \o t) /\ Len(s \o t) = Len(s) + Len(t)
         /\ \A i \in 1..(Len(s) + Len(t)) :
              (s \o t)[i] = IF i <= Len(s) THEN s[i] ELSE t[i - Len(s)]
<1> PICK S : s \in Seq(S) /\ t \in Seq(S)
  BY SeqOfTwo
<1>1. s \o t \in Seq(S) /\ Len(s \o t) = Len(s) + Len(t)
      /\ \A i \in 1..(Len(s) + Len(t)) :
           (s \o t)[i] = IF i <= Len(s) THEN s[i] ELSE t[i - Len(s)]
  BY ConcatProperties
<1> QED
  BY <1>1 DEF IsSeq

LEMMA Appended ==
  ASSUME NEW s, NEW e, IsSeq(s)
  PROVE  /\ IsSeq(Append(s, e)) /\ Len(Append(s, e)) = Len(s) + 1
         /\ \A i \in 1..Len(s) : Append(s, e)[i] = s[i]
         /\ Append(s, e)[Len(s) + 1] = e
<1> PICK A : s \in Seq(A)
  BY DEF IsSeq
<1> DEFINE S == A \cup {e}
<1>1. s \in Seq(S)
  BY SeqMonotonic
<1>2. e \in S
  OBVIOUS
<1> HIDE DEF S
<1>3. /\ Append(s, e) \in Seq(S) /\ Len(Append(s, e)) = Len(s) + 1
      /\ \A i \in 1..Len(s) : Append(s, e)[i] = s[i]
      /\ Append(s, e)[Len(s) + 1] = e
  BY <1>1, <1>2
<1> QED
  BY <1>3 DEF IsSeq

LEMMA Part ==
  ASSUME NEW s, IsSeq(s), NEW m \in Nat \ {0}, NEW n \in Nat, m <= n + 1, n <= Len(s)
  PROVE  /\ IsSeq(SubSeq(s, m, n)) /\ Len(SubSeq(s, m, n)) = n - m + 1
         /\ \A i \in 1..(n - m + 1) : SubSeq(s, m, n)[i] = s[m + i - 1]
<1> PICK S : s \in Seq(S)
  BY DEF IsSeq
<1>1. \A i \in m..n : s[i] \in S
  BY ElementOfSeq
<1>2. /\ SubSeq(s, m, n) \in Seq(S) /\ Len(SubSeq(s, m, n)) = IF m <= n THEN n - m + 1 ELSE 0
      /\ \A i \in 1..(n - m + 1) : SubSeq(s, m, n)[i] = s[m + i - 1]
  BY <1>1, SubSeqProperties
<1>3. Len(SubSeq(s, m, n)) = n - m + 1
  BY <1>2
<1> QED
  BY <1>2, <1>3 DEF IsSeq

LEMMA EmptyIsSeq == IsSeq(<<>>) /\ Len(<<>>) = 0
<1>1. <<>> \in Seq({})
  BY EmptySeq
<1> QED
  BY <1>1, EmptySeq DEF IsSeq

LEMMA EmptyByLength ==
  ASSUME NEW s, IsSeq(s), Len(s) = 0
  PROVE  s = <<>>
<1> PICK S : s \in Seq(S)
  BY DEF IsSeq
<1> QED
  BY EmptySeq

LEMMA PairIsSeq ==
  ASSUME NEW a, NEW b
  PROVE  /\ IsSeq(<<a, b>>) /\ Len(<<a, b>>) = 2
         /\ <<a, b>>[1] = a /\ <<a, b>>[2] = b
<1>1. <<a, b>> \in Seq({a, b})
  OBVIOUS
<1> QED
  BY <1>1 DEF IsSeq

LEMMA PairByAppend ==
  ASSUME NEW a, NEW b
  PROVE  Append(<<a>>, b) = <<a, b>>
<1>1. <<a>> \in Seq({a, b}) /\ <<a, b>> \in Seq({a, b}) /\ b \in {a, b}
  OBVIOUS
<1>2. Len(<<a>>) = 1 /\ <<a>>[1] = a /\ Len(<<a, b>>) = 2 /\ <<a, b>>[1] = a /\ <<a, b>>[2] = b
  OBVIOUS
<1> DEFINE s == <<a>>
           t == <<a, b>>
<1>3. /\ s \in Seq({a, b}) /\ t \in Seq({a, b}) /\ Len(s) = 1 /\ s[1] = a
      /\ Len(t) = 2 /\ t[1] = a /\ t[2] = b
  BY <1>1, <1>2
<1> HIDE DEF s, t
<1>4. IsSeq(s) /\ IsSeq(t)
  BY <1>3 DEF IsSeq
<1>5. /\ IsSeq(Append(s, b)) /\ Len(Append(s, b)) = Len(s) + 1
      /\ \A i \in 1..Len(s) : Append(s, b)[i] = s[i]
      /\ Append(s, b)[Len(s) + 1] = b
  BY <1>4, Appended
<1>6. PICK S : Append(s, b) \in Seq(S) /\ t \in Seq(S)
  BY <1>4, <1>5, SeqOfTwo
<1>7. Len(Append(s, b)) = Len(t) /\ \A i \in 1..Len(t) : Append(s, b)[i] = t[i]
  BY <1>3, <1>5
<1>8. Append(s, b) = t
  BY <1>6, <1>7, SeqEqual
<1> QED
  BY <1>8 DEF s, t
----------------------------------------------------------------------------
(* What rpc.js makes of the data that has arrived.                          *)

\* One part more.
Round(data, split, n) ==
  IF n = 0 THEN [whole |-> << >>, rest |-> << >>] ELSE Cut(split[n - 1], data[n])

LEMMA SplitEquation ==
  ASSUME NEW data, Len(data) \in Nat
  PROVE  Split(data) = [n \in 0..Len(data) |-> Round(data, Split(data), n)]
<1> DEFINE Solves(g, m) == g = [n \in 0..m |-> Round(data, g, n)]
           S == {m \in Nat : \E g : Solves(g, m)}
<1>1. 0 \in S
  <2>1. Solves([n \in 0..0 |-> [whole |-> << >>, rest |-> << >>]], 0)
    BY DEF Round
  <2> QED
    BY <2>1
<1>2. ASSUME NEW m \in Nat, m \in S PROVE m + 1 \in S
  <2> PICK g : Solves(g, m)
    BY <1>2
  <2> DEFINE h == [n \in 0..(m + 1) |-> IF n = m + 1 THEN Cut(g[m], data[n]) ELSE g[n]]
  <2>1. ASSUME NEW n \in 0..(m + 1) PROVE h[n] = Round(data, h, n)
    <3>1. CASE n = m + 1
      BY <3>1 DEF Round
    <3>2. CASE n # m + 1
      <4>1. n \in 0..m /\ h[n] = g[n] /\ (n # 0 => n - 1 \in 0..m /\ h[n - 1] = g[n - 1])
        BY <3>2
      <4>2. g[n] = Round(data, g, n)
        BY <4>1
      <4> HIDE DEF h
      <4> QED
        BY <4>1, <4>2 DEF Round
    <3> QED
      BY <3>1, <3>2
  <2>2. h = [n \in 0..(m + 1) |-> h[n]]
    OBVIOUS
  <2> HIDE DEF h
  <2>3. Solves(h, m + 1)
    BY <2>1, <2>2
  <2> HIDE DEF Solves
  <2> QED
    BY <2>3
<1>3. Nat \subseteq S
  <2> HIDE DEF S
  <2> QED
    BY <1>1, <1>2, NatInductionSet
<1>4. \E g : Solves(g, Len(data))
  BY <1>3
<1>5. Solves(CHOOSE g : Solves(g, Len(data)), Len(data))
  BY <1>4, Zenon
<1> QED
  BY <1>5 DEF Split, Round

\* Answers follow each other, the first part of one, then the second.
InPairs(data) ==
  \A j \in Nat \ {0} :
    /\ 2 * j - 1 <= Len(data) => data[2 * j - 1].part = "a"
    /\ 2 * j <= Len(data) => data[2 * j].part = "z"

\* The first n parts are split into m answers and possibly the half of one.
PairsUpTo(data, split, m, n) ==
  /\ IsSeq(split.whole) /\ Len(split.whole) = m
  /\ \A j \in 1..m : split.whole[j] = << data[2 * j - 1], data[2 * j] >>
  /\ \/ n = 2 * m /\ split.rest = << >>
     \/ n = 2 * m + 1 /\ split.rest = << data[n] >>

LEMMA CutPair ==
  ASSUME NEW data, IsSeq(data), InPairs(data), NEW n \in Nat, n + 1 <= Len(data),
         NEW m \in Nat, NEW split, PairsUpTo(data, split, m, n)
  PROVE  \E k \in Nat : PairsUpTo(data, Cut(split, data[n + 1]), k, n + 1)
<1> DEFINE new == Cut(split, data[n + 1])
<1>1. CASE n = 2 * m /\ split.rest = << >>
  <2>1. data[n + 1].part = "a"
    <3>1. m + 1 \in Nat \ {0} /\ 2 * (m + 1) - 1 = n + 1
      BY <1>1
    <3> QED
      BY <3>1 DEF InPairs
  <2>2. new = [whole |-> split.whole, rest |-> Append(split.rest, data[n + 1])]
    BY <2>1 DEF Cut
  <2>3. Append(<< >>, data[n + 1]) = << data[n + 1] >>
    OBVIOUS
  <2>4. new.whole = split.whole /\ new.rest = << data[n + 1] >>
    BY <1>1, <2>2, <2>3
  <2>5. n + 1 = 2 * m + 1
    BY <1>1
  <2> HIDE DEF new
  <2>6. PairsUpTo(data, new, m, n + 1)
    BY <2>4, <2>5 DEF PairsUpTo
  <2> QED
    BY <2>6 DEF new
<1>2. CASE n = 2 * m + 1 /\ split.rest = << data[n] >>
  <2>1. data[n + 1].part = "z" /\ 2 * (m + 1) = n + 1 /\ 2 * (m + 1) - 1 = n
    <3>1. m + 1 \in Nat \ {0} /\ 2 * (m + 1) = n + 1 /\ 2 * (m + 1) - 1 = n
      BY <1>2
    <3> QED
      BY <3>1 DEF InPairs
  <2>2. Append(<< data[n] >>, data[n + 1]) = << data[n], data[n + 1] >>
    BY PairByAppend
  <2> DEFINE pair == << data[n], data[n + 1] >>
  <2>3. new = [whole |-> Append(split.whole, pair), rest |-> << >>]
    BY <1>2, <2>1, <2>2 DEF Cut
  <2>4. pair = << data[2 * (m + 1) - 1], data[2 * (m + 1)] >>
    BY <2>1
  <2> HIDE DEF pair
  <2>5. /\ IsSeq(Append(split.whole, pair)) /\ Len(Append(split.whole, pair)) = m + 1
        /\ \A j \in 1..m : Append(split.whole, pair)[j] = split.whole[j]
        /\ Append(split.whole, pair)[m + 1] = pair
    BY Appended DEF PairsUpTo
  <2>6. new.whole = Append(split.whole, pair) /\ new.rest = << >>
    BY <2>3
  <2> HIDE DEF new
  <2>7. ASSUME NEW j \in 1..(m + 1) PROVE new.whole[j] = << data[2 * j - 1], data[2 * j] >>
    <3>1. CASE j = m + 1
      BY <2>4, <2>5, <2>6, <3>1
    <3>2. CASE j \in 1..m
      BY <2>5, <2>6, <3>2 DEF PairsUpTo
    <3> QED
      BY <3>1, <3>2
  <2>8. PairsUpTo(data, new, m + 1, n + 1)
    BY <2>1, <2>5, <2>6, <2>7 DEF PairsUpTo
  <2>9. m + 1 \in Nat
    OBVIOUS
  <2> QED
    BY <2>8, <2>9 DEF new
<1> QED
  BY <1>1, <1>2 DEF PairsUpTo

LEMMA SplitPairs ==
  ASSUME NEW data, IsSeq(data), InPairs(data)
  PROVE  \E m \in Nat : PairsUpTo(data, Split(data)[Len(data)], m, Len(data))
<1> DEFINE split == Split(data)
           S == {n \in Nat : n <= Len(data) => \E m \in Nat : PairsUpTo(data, split[n], m, n)}
<1>1. Len(data) \in Nat
  BY SeqFacts
<1>2. \A n \in 0..Len(data) : split[n] = Round(data, split, n)
  BY <1>1, SplitEquation
<1> HIDE DEF split
<1>3. 0 \in S
  <2>1. split[0] = [whole |-> << >>, rest |-> << >>]
    BY <1>1, <1>2 DEF Round
  <2>2. split[0].whole = << >> /\ split[0].rest = << >>
    BY <2>1
  <2>3. PairsUpTo(data, split[0], 0, 0)
    BY <2>2, EmptyIsSeq DEF PairsUpTo
  <2> QED
    BY <2>3
<1>4. ASSUME NEW n \in Nat, n \in S PROVE n + 1 \in S
  <2> SUFFICES ASSUME n + 1 <= Len(data)
               PROVE  \E m \in Nat : PairsUpTo(data, split[n + 1], m, n + 1)
    OBVIOUS
  <2>1. PICK m \in Nat : PairsUpTo(data, split[n], m, n)
    BY <1>1, <1>4
  <2>2. split[n + 1] = Cut(split[n], data[n + 1])
    <3>1. n + 1 \in 0..Len(data) /\ n + 1 # 0 /\ (n + 1) - 1 = n
      BY <1>1
    <3> QED
      BY <1>2, <3>1 DEF Round
  <2> QED
    BY <2>1, <2>2, CutPair
<1>5. Nat \subseteq S
  <2> HIDE DEF S
  <2> QED
    BY <1>3, <1>4, NatInductionSet
<1> QED
  BY <1>1, <1>5 DEF split

\* The answers rpc.js parses, and what it keeps.
Takes(data, m) ==
  /\ IsSeq(Parsed(data)) /\ Len(Parsed(data)) = m
  /\ \A j \in 1..m : /\ Parsed(data)[j].id = data[2 * j - 1].id
                     /\ Parsed(data)[j].answer = data[2 * j - 1].answer
                     /\ Parsed(data)[j] # Garbled
  /\ \/ Len(data) = 2 * m /\ Rest(data) = << >>
     \/ Len(data) = 2 * m + 1 /\ Rest(data) = << data[Len(data)] >>

LEMMA ParsedPairs ==
  ASSUME NEW data, IsSeq(data), InPairs(data),
         \A j \in Nat \ {0} : 2 * j <= Len(data) =>
           data[2 * j - 1].id = data[2 * j].id /\ data[2 * j - 1].id # 0
  PROVE  \E m \in Nat : Takes(data, m)
<1> DEFINE split == Split(data)[Len(data)]
           texts == split.whole
           all == [j \in 1..Len(texts) |-> parse(texts[j])]
<1>1. PICK m \in Nat : PairsUpTo(data, split, m, Len(data))
  BY SplitPairs
<1>2. Len(data) \in Nat
  BY SeqFacts
<1>3. Len(texts) = m /\ \A j \in 1..m : texts[j] = << data[2 * j - 1], data[2 * j] >>
  BY <1>1 DEF PairsUpTo
<1>4. Len(data) = 2 * m \/ Len(data) = 2 * m + 1
  BY <1>1 DEF PairsUpTo
<1>5. ASSUME NEW j \in 1..m
      PROVE  /\ parse(texts[j]) = [id |-> data[2 * j - 1].id, answer |-> data[2 * j - 1].answer]
             /\ parse(texts[j]) # Garbled
  <2>1. 2 * j <= Len(data) /\ j \in Nat \ {0}
    BY <1>4
  <2>2. data[2 * j - 1].id = data[2 * j].id /\ data[2 * j - 1].id # 0
    BY <2>1
  <2> DEFINE a == data[2 * j - 1]
             b == data[2 * j]
             s == << a, b >>
  <2>3. texts[j] = s
    BY <1>3
  <2>4. a.id = b.id /\ a.id # 0
    BY <2>2
  <2> HIDE DEF a, b
  <2>5. Len(s) = 2 /\ s[1] = a /\ s[2] = b
    BY PairIsSeq
  <2> HIDE DEF s
  <2>6. parse(s) = [id |-> a.id, answer |-> a.answer]
    BY <2>4, <2>5 DEF parse
  <2>7. parse(s) # Garbled
    BY <2>4, <2>6 DEF Garbled
  <2> HIDE DEF texts
  <2> QED
    BY <2>3, <2>6, <2>7 DEF a
<1> HIDE DEF texts
<1>6. all = [j \in 1..m |-> parse(texts[j])]
  BY <1>3
<1> HIDE DEF all
<1>7. \A j \in 1..m : all[j] # Garbled
  BY <1>5, <1>6
<1>8. Parsed(data) = all
  <2>1. {j \in 1..Len(texts) : all[j] = Garbled} = {}
    BY <1>3, <1>7
  <2> QED
    BY <2>1 DEF Parsed, all, texts
<1>9. all \in Seq({parse(texts[j]) : j \in 1..m}) /\ Len(all) = m
  <2> DEFINE V == {parse(texts[j]) : j \in 1..m}
  <2>1. all \in [1..m -> V]
    BY <1>6
  <2> HIDE DEF V
  <2>2. all \in Seq(V) /\ Len(all) = m
    BY <2>1, SeqDef
  <2> QED
    BY <2>2 DEF V
<1>10. \A j \in 1..m : all[j].id = data[2 * j - 1].id /\ all[j].answer = data[2 * j - 1].answer
  <2> SUFFICES ASSUME NEW j \in 1..m
               PROVE  all[j].id = data[2 * j - 1].id /\ all[j].answer = data[2 * j - 1].answer
    OBVIOUS
  <2> DEFINE i == data[2 * j - 1].id
             x == data[2 * j - 1].answer
  <2>1. parse(texts[j]) = [id |-> i, answer |-> x]
    BY <1>5
  <2>2. all[j] = parse(texts[j])
    BY <1>6
  <2> HIDE DEF i, x
  <2>3. all[j].id = i /\ all[j].answer = x
    BY <2>1, <2>2
  <2> QED
    BY <2>3 DEF i, x
<1>11. \/ Len(data) = 2 * m /\ Rest(data) = << >>
       \/ Len(data) = 2 * m + 1 /\ Rest(data) = << data[Len(data)] >>
  BY <1>1 DEF PairsUpTo, Rest
<1> QED
  BY <1>7, <1>8, <1>9, <1>10, <1>11 DEF Takes, IsSeq
----------------------------------------------------------------------------
(* What the methods do.                                                     *)

Contents == Values \cup {Archive}

LEMMA Directories ==
  ASSUME NEW k \in Keys
  PROVE  validate_key(k) \in Dirs
  BY KeyAssumption DEF validate_key, Dirs

LEMMA Arrived ==
  ASSUME NEW r
  PROVE  /\ Received(r).method = r.method /\ Received(r).key = Arrives(r.key)
         /\ Received(r).value = r.value /\ Received(r).params = r.params
         /\ Received(r).full = r.full
         /\ (Tame(Received(r)) <=> Tame(r)) /\ (Mute(Received(r)) <=> Mute(r))
<1>1. /\ Received(r).method = r.method /\ Received(r).key = Arrives(r.key)
      /\ Received(r).value = r.value /\ Received(r).params = r.params
      /\ Received(r).full = r.full
  BY DEF Received
<1> QED
  BY <1>1 DEF Tame, Mute

\* The directories and contents of the puts: c's own and those of the others.
Puts(c) ==
  {p \in Dirs \X Values \X {"own", "other"} :
     \E e \in Clients : \E i \in 1..Len(sent[e]) :
       /\ sent[e][i].method = "kv.put"
       /\ p[1] = validate_key(Arrives(sent[e][i].key))
       /\ p[2] = decode_base64(sent[e][i].value)
       /\ p[3] = IF e = c THEN "own" ELSE "other"}

Stores == kv \in [Dirs -> SUBSET Contents] /\ files \subseteq Files

\* A content that kv.get may deliver to c for the request r.
Delivers(c, r, content) ==
  content # NoText =>
    IF decode_base64(content) = Garbage THEN Rewritten(c, r.key)
    ELSE /\ Digest[decode_base64(content)] = r.key
         /\ decode_base64(content) \in kv[validate_key(r.key)]
         /\ decode_base64(content) # Archive

Clashing == \E d \in Dirs : Clash(d)

\* An outcome of a method, of the calls a client may make.
Fits(c, r, e) ==
  /\ e.kv \in [Dirs -> SUBSET Contents] /\ e.files \subseteq Files
  /\ \A d \in Dirs : \A v \in e.kv[d] :
       \/ v \in kv[d]
       \/ v = Archive
       \/ r.method = "kv.put" /\ d = validate_key(r.key) /\ v = decode_base64(r.value)
  /\ \/ e.out.does = "throw" /\ (~Tame(r) \/ Clashing)
     \/ e.out.does = "silent" /\ Mute(r)
     \/ e.out.does = "answer" /\ (r.method = "kv.get" => Delivers(c, r, e.out.content))

LEMMA JustFits ==
  ASSUME Stores, NEW c, NEW r, NEW out,
         \/ out.does = "throw" /\ (~Tame(r) \/ Clashing)
         \/ out.does = "silent" /\ Mute(r)
         \/ out.does = "answer" /\ (r.method = "kv.get" => Delivers(c, r, out.content))
  PROVE  Fits(c, r, Just(out))
<1>1. Just(out).out = out /\ Just(out).kv = kv /\ Just(out).files = files
  BY DEF Just, Outcome
<1> QED
  BY <1>1 DEF Fits, Stores

LEMMA Responses ==
  ASSUME NEW error, NEW content
  PROVE  /\ RPC_Response(error, content).does = "answer"
         /\ RPC_Response(error, content).content = content
         /\ createErrorResponse.does = "answer" /\ createErrorResponse.content = NoText
         /\ Silent.does = "silent" /\ Throws.does = "throw"
  BY DEF RPC_Response, createErrorResponse, Silent, Throws

LEMMA TextDelivers ==
  ASSUME NEW c, NEW r
  PROVE  Delivers(c, r, NoText)
  BY DEF Delivers

LEMMA OutcomeFields ==
  ASSUME NEW a, NEW b, NEW d
  PROVE  Outcome(a, b, d).out = a /\ Outcome(a, b, d).kv = b /\ Outcome(a, b, d).files = d
  BY DEF Outcome

\* A method that is not kv.get answers with one directory changed.
LEMMA ChangeFits ==
  ASSUME Stores, NEW c, NEW r, NEW out, out.does = "answer", r.method # "kv.get",
         NEW d \in Dirs, NEW s \in SUBSET Contents,
         \A v \in s : \/ v \in kv[d] \/ v = Archive
                      \/ /\ r.method = "kv.put" /\ d = validate_key(r.key)
                         /\ v = decode_base64(r.value)
  PROVE  Fits(c, r, Outcome(out, [kv EXCEPT ![d] = s], files))
<1> DEFINE new == [kv EXCEPT ![d] = s]
           done == Outcome(out, new, files)
<1>1. new \in [Dirs -> SUBSET Contents] /\ \A x \in Dirs : new[x] = IF x = d THEN s ELSE kv[x]
  BY DEF Stores
<1> HIDE DEF new
<1>2. done.out = out /\ done.kv = new /\ done.files = files
  BY OutcomeFields
<1> HIDE DEF done
<1>3. Fits(c, r, done)
  BY <1>1, <1>2 DEF Fits, Stores
<1> QED
  BY <1>3 DEF done, new

\* What is added where calls meet.
LEMMA ClashFits ==
  ASSUME Stores, NEW c, NEW r, NEW d \in Dirs
  PROVE  \A e \in IfClash(d, {Just(Throws)}) : Fits(c, r, e)
<1> SUFFICES ASSUME Clash(d) PROVE Fits(c, r, Just(Throws))
  BY DEF IfClash
<1>1. Clashing
  BY DEF Clashing
<1>2. Throws.does = "throw"
  BY DEF Throws
<1> QED
  BY <1>1, <1>2, JustFits

\* Without a content there is nothing to be said of it.
LEMMA NoTextFits ==
  ASSUME Stores, NEW c, NEW r, NEW error
  PROVE  Fits(c, r, Just(RPC_Response(error, NoText)))
<1> DEFINE out == RPC_Response(error, NoText)
<1>1. out.does = "answer" /\ out.content = NoText
  BY Responses
<1> HIDE DEF out
<1>2. Fits(c, r, Just(out))
  BY <1>1, JustFits, TextDelivers
<1> QED
  BY <1>2 DEF out

\* RPC_Request::valid in front of the method.
LEMMA GuardedFits ==
  ASSUME Stores, NEW c, NEW r, r.params \in {"ok", "mistyped", "absent"}, NEW outcomes,
         \A e \in outcomes : Fits(c, r, e)
  PROVE  \A e \in Guarded(r, outcomes) : Fits(c, r, e)
<1>1. Fits(c, r, Just(createErrorResponse))
  BY JustFits, Responses, TextDelivers
<1>2. r.params = "absent" => Fits(c, r, Just(Throws))
  <2> SUFFICES ASSUME r.params = "absent" PROVE Fits(c, r, Just(Throws))
    OBVIOUS
  <2>1. ~Tame(r)
    BY DEF Tame
  <2> QED
    BY <2>1, JustFits, Responses
<1> QED
  BY <1>1, <1>2 DEF Guarded

LEMMA KvGetFits ==
  ASSUME Stores, NEW c \in Clients, NEW r, r.params \in {"ok", "mistyped", "absent"},
         r.key \in Keys
  PROVE  \A e \in kv_get(c, r) : Fits(c, r, e)
<1> DEFINE d == validate_key(r.key)
           named(v) == v # Archive /\ Digest[v] = r.key
           found == {IF named(v) THEN encode_base64(v) ELSE NoText : v \in kv[d]}
           torn == IF Rewritten(c, r.key) /\ \E v \in kv[d] : named(v)
                     THEN {encode_base64(Garbage)} ELSE {}
           failed == {Just(RPC_Response("kv.get failed", NoText))}
           read == {Just(RPC_Response("", content)) : content \in found \cup torn}
           none == IfClash(d, {Just(RPC_Response("", NoText))})
           outcomes == failed \cup read \cup none
<1>1. \A e \in failed \cup none : Fits(c, r, e)
  BY NoTextFits DEF IfClash
<1>2. d \in Dirs
  BY Directories
<1>3. \A content \in found \cup torn : Delivers(c, r, content)
  <2>1. ASSUME NEW v \in kv[d]
        PROVE  Delivers(c, r, IF named(v) THEN encode_base64(v) ELSE NoText)
    <3>1. CASE ~named(v)
      BY <3>1, TextDelivers
    <3>2. CASE named(v)
      <4>1. decode_base64(encode_base64(v)) = v
        BY DEF encode_base64, decode_base64
      <4>2. v \in Values /\ v # Garbage
        BY <1>2, <3>2, KeyAssumption DEF Stores, Contents
      <4>3. Delivers(c, r, encode_base64(v))
        BY <3>2, <4>1, <4>2 DEF Delivers
      <4> QED
        BY <3>2, <4>3
    <3> QED
      BY <3>1, <3>2
  <2>2. ASSUME Rewritten(c, r.key) PROVE Delivers(c, r, encode_base64(Garbage))
    <3>1. decode_base64(encode_base64(Garbage)) = Garbage
      BY DEF encode_base64, decode_base64
    <3> QED
      BY <2>2, <3>1 DEF Delivers
  <2> QED
    BY <2>1, <2>2
<1>4. ASSUME NEW content \in found \cup torn PROVE Fits(c, r, Just(RPC_Response("", content)))
  <2> DEFINE out == RPC_Response("", content)
  <2>1. out.does = "answer" /\ out.content = content /\ Delivers(c, r, content)
    BY <1>3, Responses
  <2> HIDE DEF out, found, torn
  <2>2. Fits(c, r, Just(out))
    BY <2>1, JustFits
  <2> QED
    BY <2>2 DEF out
<1>5. \A e \in read : Fits(c, r, e)
  BY <1>4
<1>6. kv_get(c, r) = Guarded(r, outcomes)
  BY DEF kv_get
<1> HIDE DEF failed, read, none
<1>7. \A e \in outcomes : Fits(c, r, e)
  BY <1>1, <1>5
<1> HIDE DEF outcomes
<1> QED
  BY <1>6, <1>7, GuardedFits

LEMMA KvPutFits ==
  ASSUME Stores, NEW c, NEW r, r.params \in {"ok", "mistyped", "absent"}, r.key \in Keys,
         r.method = "kv.put", decode_base64(r.value) \in Values
  PROVE  \A e \in kv_put(r) : Fits(c, r, e)
<1> DEFINE d == validate_key(r.key)
           failure == Just(RPC_Response("kv.put failed", NoText))
           ok == RPC_Response("", NoText)
           v == decode_base64(r.value)
           done == Outcome(ok, [kv EXCEPT ![d] = kv[d] \cup {v}], files)
           clash == IfClash(d, {Just(Throws)})
           outcomes == {failure, done} \cup clash
<1>1. Fits(c, r, failure)
  BY NoTextFits
<1>2. d \in Dirs
  BY Directories
<1>3. \A e \in clash : Fits(c, r, e)
  BY <1>2, ClashFits
<1>4. ok.does = "answer"
  BY Responses
<1>5. kv[d] \cup {v} \in SUBSET Contents
  BY <1>2 DEF Stores, Contents
<1>6. kv_put(r) = Guarded(r, outcomes)
  BY DEF kv_put
<1> HIDE DEF ok, clash, failure
<1>7. Fits(c, r, done)
  <2> HIDE DEF d, v
  <2>1. \A x \in kv[d] \cup {v} : x \in kv[d] \/ x = v
    OBVIOUS
  <2> QED
    BY <1>2, <1>4, <1>5, <2>1, ChangeFits DEF d, v
<1> HIDE DEF done
<1>8. \A e \in outcomes : Fits(c, r, e)
  BY <1>1, <1>3, <1>7
<1> HIDE DEF outcomes
<1> QED
  BY <1>6, <1>8, GuardedFits

LEMMA KvRemoveFits ==
  ASSUME Stores, NEW c, NEW r, r.params \in {"ok", "mistyped", "absent"}, r.key \in Keys,
         r.method = "kv.remove"
  PROVE  \A e \in kv_remove(r) : Fits(c, r, e)
<1> DEFINE d == validate_key(r.key)
           ok == RPC_Response("", NoText)
           bad == RPC_Response("kv.remove failed", NoText)
           removed == {Outcome(ok, [kv EXCEPT ![d] = {}], files)}
           rests == {Outcome(bad, [kv EXCEPT ![d] = s], files) : s \in SUBSET kv[d]}
           plain == IF kv[d] = {} THEN {Just(Throws)} ELSE removed
           clash == IfClash(d, removed \cup {Just(Throws)} \cup rests)
           outcomes == plain \cup clash
<1>1. Fits(c, r, Just(Throws))
  <2>1. ~Tame(r)
    BY DEF Tame
  <2> QED
    BY <2>1, JustFits, Responses
<1>2. d \in Dirs
  BY Directories
<1>3. ok.does = "answer" /\ bad.does = "answer"
  BY Responses
<1>4. kv_remove(r) = Guarded(r, outcomes)
  BY DEF kv_remove
<1> HIDE DEF ok, bad
<1>5. ASSUME NEW s \in SUBSET kv[d]
      PROVE  /\ Fits(c, r, Outcome(ok, [kv EXCEPT ![d] = s], files))
             /\ Fits(c, r, Outcome(bad, [kv EXCEPT ![d] = s], files))
  <2> HIDE DEF d
  <2>1. s \in SUBSET Contents /\ \A v \in s : v \in kv[d]
    BY <1>2 DEF Stores
  <2> QED
    BY <1>2, <1>3, <2>1, ChangeFits
<1>6. \A e \in removed \cup rests : Fits(c, r, e)
  <2>1. {} \in SUBSET kv[d]
    OBVIOUS
  <2> QED
    BY <1>5, <2>1
<1> HIDE DEF removed, rests
<1>7. \A e \in outcomes : Fits(c, r, e)
  BY <1>1, <1>6 DEF IfClash
<1> HIDE DEF outcomes
<1> QED
  BY <1>4, <1>7, GuardedFits

LEMMA FilePutFits ==
  ASSUME Stores, NEW c, NEW r, r.params \in {"ok", "mistyped", "absent"}, r.key \in Files,
         r.method = "file.put"
  PROVE  \A e \in file_put(r) : Fits(c, r, e)
<1> DEFINE failure == Just(RPC_Response("store file failed", NoText))
           ok == RPC_Response("", encode_base64(r.key))
           done == Outcome(ok, kv, files \cup {r.key})
           outcomes == {failure, done}
<1>1. Fits(c, r, failure)
  BY NoTextFits
<1>4. ok.does = "answer"
  BY Responses
<1> HIDE DEF ok
<1>2. done.out = ok /\ done.kv = kv /\ done.files = files \cup {r.key}
  BY OutcomeFields
<1> HIDE DEF done
<1>5. Fits(c, r, done)
  BY <1>2, <1>4 DEF Fits, Stores
<1>6. \A e \in outcomes : Fits(c, r, e)
  BY <1>1, <1>5
<1>7. file_put(r) = Guarded(r, outcomes)
  BY DEF file_put, done, ok
<1> HIDE DEF outcomes
<1> QED
  BY <1>6, <1>7, GuardedFits

\* A method other than the ones above: it leaves the stores alone.
LEMMA AnswersFit ==
  ASSUME Stores, NEW c, NEW r, r.method # "kv.get", NEW error, NEW content
  PROVE  Fits(c, r, Just(RPC_Response(error, content)))
  BY JustFits, Responses

LEMMA FileGetFits ==
  ASSUME Stores, NEW c, NEW r, r.params \in {"ok", "mistyped", "absent"},
         r.method = "file.get"
  PROVE  \A e \in file_get(r) : Fits(c, r, e)
<1> DEFINE a == Just(RPC_Response("", encode_base64("path")))
           b == Just(RPC_Response("get file failed", NoText))
           outcomes == IF r.key \in files THEN {a, b} ELSE {Just(Throws)}
<1>1. Fits(c, r, Just(Throws))
  <2>1. ~Tame(r)
    BY DEF Tame
  <2> QED
    BY <2>1, JustFits, Responses
<1>2. Fits(c, r, a) /\ Fits(c, r, b)
  BY AnswersFit
<1>3. \A e \in outcomes : Fits(c, r, e)
  BY <1>1, <1>2
<1>4. file_get(r) = Guarded(r, outcomes)
  BY DEF file_get
<1> HIDE DEF outcomes
<1> QED
  BY <1>3, <1>4, GuardedFits

LEMMA CreateFits ==
  ASSUME Stores, NEW c, NEW r, r.params \in {"ok", "mistyped", "absent"}, r.key \in Keys,
         r.method = "object.create"
  PROVE  \A e \in CreateObject(r) : Fits(c, r, e)
<1> DEFINE d == validate_key(r.key)
           ok == RPC_Response("", encode_base64(r.key))
           bad == {Outcome(createErrorResponse, [kv EXCEPT ![d] = s], files) : s \in Left(d)}
           good == {Outcome(ok, [kv EXCEPT ![d] = s \cup {Archive}], files) : s \in Left(d)}
           clash == IfClash(d, {Just(Throws)})
           outcomes == bad \cup good \cup clash
<1>1. d \in Dirs
  BY Directories
<1>2. \A e \in clash : Fits(c, r, e)
  BY <1>1, ClashFits
<1>3. ok.does = "answer" /\ createErrorResponse.does = "answer"
  BY Responses
<1>4. CreateObject(r) = Guarded(r, outcomes)
  BY DEF CreateObject
<1> HIDE DEF ok, clash
<1>5. ASSUME NEW s \in Left(d)
      PROVE  /\ Fits(c, r, Outcome(createErrorResponse, [kv EXCEPT ![d] = s], files))
             /\ Fits(c, r, Outcome(ok, [kv EXCEPT ![d] = s \cup {Archive}], files))
  <2> HIDE DEF d
  <2>1. s \subseteq kv[d]
    BY DEF Left, IfClash
  <2>2. /\ s \in SUBSET Contents /\ s \cup {Archive} \in SUBSET Contents
        /\ \A v \in s \cup {Archive} : v \in kv[d] \/ v = Archive
        /\ \A v \in s : v \in kv[d]
    BY <1>1, <2>1 DEF Stores, Contents
  <2> QED
    BY <1>1, <1>3, <2>2, ChangeFits
<1>6. \A e \in bad \cup good : Fits(c, r, e)
  BY <1>5
<1> HIDE DEF bad, good
<1>7. \A e \in outcomes : Fits(c, r, e)
  BY <1>2, <1>6
<1> HIDE DEF outcomes
<1> QED
  BY <1>4, <1>7, GuardedFits

LEMMA GetFits ==
  ASSUME Stores, NEW c, NEW r, r.params \in {"ok", "mistyped", "absent"}, r.key \in Keys,
         r.full \in {"no", "yes", "mistyped"}, r.method = "object.get"
  PROVE  \A e \in GetObject(r) : Fits(c, r, e)
<1> DEFINE d == validate_key(r.key)
           a == RPC_Response("", encode_base64("head"))
           b == RPC_Response("", [plain |-> r.key])
           loaded == CASE r.full = "no"       -> a
                       [] r.full = "yes"      -> b
                       [] r.full = "mistyped" -> Throws
           failed == {Just(RPC_Response("get object failed", NoText))}
           found == IF Archive \in kv[d] THEN {Just(loaded)} ELSE {}
           clash == IfClash(d, {Just(Throws)})
           outcomes == failed \cup found \cup clash
<1>1. d \in Dirs
  BY Directories
<1>2. \A e \in clash \cup failed : Fits(c, r, e)
  BY <1>1, ClashFits, NoTextFits
<1>3. Fits(c, r, Just(a)) /\ Fits(c, r, Just(b))
  BY AnswersFit
<1>4. r.full = "mistyped" => Fits(c, r, Just(Throws))
  <2> SUFFICES ASSUME r.full = "mistyped" PROVE Fits(c, r, Just(Throws))
    OBVIOUS
  <2>1. ~Tame(r)
    BY DEF Tame
  <2> QED
    BY <2>1, JustFits, Responses
<1>5. GetObject(r) = Guarded(r, outcomes)
  BY DEF GetObject
<1> HIDE DEF a, b, clash, failed
<1>6. Fits(c, r, Just(loaded))
  BY <1>3, <1>4
<1> HIDE DEF loaded
<1>7. \A e \in outcomes : Fits(c, r, e)
  BY <1>2, <1>6
<1> HIDE DEF outcomes
<1> QED
  BY <1>5, <1>7, GuardedFits

LEMMA NotFoundFits ==
  ASSUME Stores, NEW c, NEW r, r.method # "kv.get"
  PROVE  \A e \in NotFound(r) : Fits(c, r, e)
<1> DEFINE out == [RPC_Response("null", NoText) EXCEPT !.result = FALSE]
<1>1. out.does = "answer"
  BY DEF RPC_Response
<1>2. NotFound(r) = {Just(out)}
  BY DEF NotFound
<1> HIDE DEF out
<1> QED
  BY <1>1, <1>2, JustFits

\* Every outcome of every registered method.
LEMMA DispatchFits ==
  ASSUME Stores, NEW c \in Clients, NEW call \in Calls[c], NEW r, r = Received(call)
  PROVE  \A e \in Dispatch(c, r) : Fits(c, r, e)
<1>0. /\ r.params \in {"ok", "mistyped", "absent"} /\ r.full \in {"no", "yes", "mistyped"}
      /\ r.method \in {"kv.get", "kv.put", "kv.remove", "object.create", "object.get"} => r.key \in Keys
      /\ r.method = "kv.put" => decode_base64(r.value) \in Values
      /\ r.method = "file.put" => r.key \in Files
  BY CallAssumption, Arrived DEF decode_base64, KvMethods, ObjectMethods
<1>1. CASE r.method = "kv.get"
  BY <1>0, <1>1, KvGetFits DEF Dispatch
<1>2. CASE r.method = "kv.put"
  BY <1>0, <1>2, KvPutFits DEF Dispatch
<1>3. CASE r.method = "kv.remove"
  BY <1>0, <1>3, KvRemoveFits DEF Dispatch
<1>4. CASE r.method = "file.put"
  BY <1>0, <1>4, FilePutFits DEF Dispatch
<1>5. CASE r.method = "file.get"
  BY <1>0, <1>5, FileGetFits DEF Dispatch
<1>6. CASE r.method = "object.create"
  BY <1>0, <1>6, CreateFits DEF Dispatch
<1>11. CASE r.method = "object.get"
  BY <1>0, <1>11, GetFits DEF Dispatch
<1>7. CASE r.method = "an.info"
  <2>1. Dispatch(c, r) = {Just(RPC_Response("", encode_base64("uptime")))}
    BY <1>7 DEF Dispatch, an_info
  <2> QED
    BY <1>7, <2>1, AnswersFit
<1>8. CASE r.method \in {"an.BootstrapFromPeer", "an.BootstrapFromHostlist"}
  <2>1. Dispatch(c, r) = {Just(Throws)}
    BY <1>8 DEF Dispatch, BootstrapFromPeer, BootstrapFromHostlist
  <2>2. ~Tame(r)
    BY <1>8 DEF Tame
  <2> QED
    BY <2>1, <2>2, JustFits, Responses
<1>9. CASE r.method \in {"object.update", "object.delete",
                         "session.t.join", "session.t.leave", "session.t.update"}
  <2>1. Dispatch(c, r) = {Just(Silent)}
    BY <1>9 DEF Dispatch, Stub, SessionStub
  <2>2. Mute(r)
    BY <1>9 DEF Mute
  <2> QED
    BY <2>1, <2>2, JustFits, Responses
<1>10. CASE r.method \notin {"kv.get", "kv.put", "kv.remove", "file.put", "file.get",
         "object.create", "object.get", "an.info", "an.BootstrapFromPeer",
         "an.BootstrapFromHostlist", "object.update", "object.delete",
         "session.t.join", "session.t.leave", "session.t.update"}
  <2>1. Dispatch(c, r) = NotFound(r)
    BY <1>10 DEF Dispatch
  <2> QED
    BY <1>10, <2>1, NotFoundFits
<1> QED
  BY <1>1, <1>2, <1>3, <1>4, <1>5, <1>6, <1>7, <1>8, <1>9, <1>10, <1>11
----------------------------------------------------------------------------
(* The invariant of one connection.                                         *)

\* The k-th part of the stream of requests.
Request(p, k) ==
  /\ p.id \in Nat
  /\ \/ p.part = "head" /\ k = 2 * p.id - 1
     \/ p.part = "tail" /\ k = 2 * p.id

\* The number of parts the server has taken.
Taken(c) == 2 * Len(sent[c]) - Len(toServer[c])

\* The answer to a kv.get delivers what was put, or what somebody else rewrote.
KvRight(puts, r, answer) ==
  r.method = "kv.get" /\ answer.content # NoText =>
    IF decode_base64(answer.content) = Garbage
      THEN \E p \in puts : p[3] = "other" /\ Digest[p[2]] = Arrives(r.key)
      ELSE /\ Digest[decode_base64(answer.content)] = Arrives(r.key)
           /\ \E p \in puts : /\ p[1] = validate_key(Arrives(r.key))
                             /\ p[2] = decode_base64(answer.content)

\* The k-th part of the stream of answers: they answer the requests executed.
Answer(ids, calls, puts, p, k) ==
  \E j \in 1..Len(ids) :
    /\ p.id = ids[j] /\ KvRight(puts, calls[p.id], p.answer)
    /\ \/ p.part = "a" /\ k = 2 * j - 1
       \/ p.part = "z" /\ k = 2 * j

\* What rpc.js has kept and what is on its way to it.
Stream(c) == client[c].old \o toClient[c]

SentOK(c) ==
  /\ IsSeq(sent[c]) /\ Len(sent[c]) <= MaxCalls[c]
  /\ \A i \in 1..Len(sent[c]) : sent[c][i] \in Calls[c]
ToServerOK(c) ==
  /\ IsSeq(toServer[c]) /\ Len(toServer[c]) <= 2 * Len(sent[c])
  /\ \A i \in 1..Len(toServer[c]) : Request(toServer[c][i], Taken(c) + i)
ExecutedOK(c) ==
  /\ IsSeq(executed[c]) /\ Rising(executed[c])
  /\ \A j \in 1..Len(executed[c]) :
       executed[c][j] \in Nat \ {0} /\ 2 * executed[c][j] - 1 <= Taken(c)
SeenOK(c) ==
  /\ IsSeq(seen[c]) /\ Len(seen[c]) <= Len(executed[c])
  /\ \A j \in 1..Len(seen[c]) :
       /\ seen[c][j].id = executed[c][j]
       /\ KvRight(Puts(c), sent[c][seen[c][j].id], seen[c][j].answer)
KeptOK(c) ==
  /\ IsSeq(client[c].old) /\ IsSeq(toClient[c]) /\ Len(client[c].old) <= 1
  /\ client[c].waiting \/ client[c].old = << >>
  /\ \A i \in 1..Len(toClient[c]) :
       \E j \in 1..Len(executed[c]) : toClient[c][i].id = executed[c][j]
StreamOK(c) ==
  open[c] => \A i \in 1..Len(Stream(c)) :
    Answer(executed[c], sent[c], Puts(c), Stream(c)[i], 2 * Len(seen[c]) + i)

\* A connection that is not deaf has an answer for every request executed.
AllAnswered(c) ==
  up /\ open[c] /\ op[c] \in {"unaccepted", "reading", "writing"} =>
    2 * Len(seen[c]) + Len(Stream(c)) = 2 * Len(executed[c])

\* A client that waits has at most one request on its way, none of it taken.
Waits(c) ==
  ~rushed[c] =>
    \/ Len(toServer[c]) = 0 /\ Len(executed[c]) <= Len(sent[c])
    \/ Len(toServer[c]) = 2 /\ Len(executed[c]) + 1 = Len(sent[c])

ConnInv(c) ==
  /\ SentOK(c) /\ ToServerOK(c) /\ ExecutedOK(c) /\ SeenOK(c) /\ KeptOK(c)
  /\ StreamOK(c) /\ AllAnswered(c) /\ Waits(c)

Shape ==
  /\ up \in BOOLEAN /\ accepting \in BOOLEAN /\ op \in [Clients -> Phases]
  /\ open \in [Clients -> BOOLEAN] /\ rushed \in [Clients -> BOOLEAN]
  /\ DOMAIN sent = Clients /\ DOMAIN toServer = Clients /\ DOMAIN toClient = Clients
  /\ DOMAIN client = Clients /\ DOMAIN seen = Clients /\ DOMAIN executed = Clients

KvPut ==
  \A c \in Clients, d \in Dirs : \A v \in kv[d] :
    v = Archive \/ \E p \in Puts(c) : p[1] = d /\ p[2] = v

\* Who is to blame: for the end of the daemon, and for a deaf connection.
BadCall(c) == rushed[c] \/ \E i \in 1..Len(sent[c]) : ~Tame(sent[c][i])
MuteCall(c) == rushed[c] \/ \E i \in 1..Len(sent[c]) : Mute(sent[c][i])
Blamed ==
  /\ ~up => (\E c \in Clients : BadCall(c)) \/ Clashing
  /\ \A c \in Clients : op[c] = "deaf" => MuteCall(c)

RpcInv ==
  /\ Shape /\ Stores /\ KvPut
  /\ \A c \in Clients : ConnInv(c)
  /\ Blamed
----------------------------------------------------------------------------
(* What a step leaves alone.                                                *)

\* A step of another client, or of the server for it.
Same(d) ==
  /\ op'[d] = op[d] /\ toServer'[d] = toServer[d] /\ toClient'[d] = toClient[d]
  /\ open'[d] = open[d] /\ client'[d] = client[d] /\ sent'[d] = sent[d]
  /\ seen'[d] = seen[d] /\ executed'[d] = executed[d] /\ rushed'[d] = rushed[d]

\* Calls are added at the end.
SentGrows ==
  \A d \in Clients :
    /\ Len(sent[d]) \in Nat /\ Len(sent'[d]) \in Nat /\ Len(sent[d]) <= Len(sent'[d])
    /\ \A i \in 1..Len(sent[d]) : sent'[d][i] = sent[d][i]

LEMMA SentStays ==
  ASSUME RpcInv, sent' = sent
  PROVE  SentGrows
<1>1. \A d \in Clients : Len(sent[d]) \in Nat
  BY SeqFacts DEF RpcInv, ConnInv, SentOK
<1> QED
  BY <1>1 DEF SentGrows

LEMMA PutsStay ==
  ASSUME SentGrows, NEW c \in Clients
  PROVE  Puts(c) \subseteq Puts(c)'
<1> SUFFICES ASSUME NEW p \in Puts(c) PROVE p \in Puts(c)'
  OBVIOUS
<1>1. PICK e \in Clients : \E i \in 1..Len(sent[e]) :
        /\ sent[e][i].method = "kv.put"
        /\ p[1] = validate_key(Arrives(sent[e][i].key))
        /\ p[2] = decode_base64(sent[e][i].value)
        /\ p[3] = IF e = c THEN "own" ELSE "other"
  BY DEF Puts
<1>2. PICK i \in 1..Len(sent[e]) :
        /\ sent[e][i].method = "kv.put"
        /\ p[1] = validate_key(Arrives(sent[e][i].key))
        /\ p[2] = decode_base64(sent[e][i].value)
        /\ p[3] = IF e = c THEN "own" ELSE "other"
  BY <1>1
<1>3. /\ i \in 1..Len(sent'[e]) /\ sent'[e][i] = sent[e][i]
      /\ p \in Dirs \X Values \X {"own", "other"}
  BY DEF SentGrows, Puts
<1> QED
  BY <1>2, <1>3 DEF Puts, decode_base64, validate_key, Arrives

\* Calls that could meet could do so for good.
LEMMA ClashStays ==
  ASSUME SentGrows, Clashing
  PROVE  Clashing'
<1>1. PICK d \in Dirs : Clash(d)
  BY DEF Clashing
<1>2. PICK c \in Clients, e \in Clients :
        \E i \in 1..Len(sent[c]), j \in 1..Len(sent[e]) :
          /\ Writes(sent[c][i], d) /\ Uses(sent[e][j], d)
          /\ \/ c # e
             \/ sent[c][i].method = "kv.put" /\ sent[e][j].method \in ObjectMethods
  BY <1>1 DEF Clash
<1>5. PICK i \in 1..Len(sent[c]), j \in 1..Len(sent[e]) :
        /\ Writes(sent[c][i], d) /\ Uses(sent[e][j], d)
        /\ \/ c # e
           \/ sent[c][i].method = "kv.put" /\ sent[e][j].method \in ObjectMethods
  BY <1>2
<1>3. /\ i \in 1..Len(sent'[c]) /\ sent'[c][i] = sent[c][i]
      /\ j \in 1..Len(sent'[e]) /\ sent'[e][j] = sent[e][j]
  BY DEF SentGrows
<1>4. /\ Writes(sent'[c][i], d) /\ Uses(sent'[e][j], d)
      /\ \/ c # e
         \/ sent'[c][i].method = "kv.put" /\ sent'[e][j].method \in ObjectMethods
  BY <1>3, <1>5
<1>6. \E i2 \in 1..Len(sent'[c]), j2 \in 1..Len(sent'[e]) :
        /\ Writes(sent'[c][i2], d) /\ Uses(sent'[e][j2], d)
        /\ \/ c # e
           \/ sent'[c][i2].method = "kv.put" /\ sent'[e][j2].method \in ObjectMethods
  BY <1>3, <1>4
<1>7. Clash(d)'
  BY <1>6 DEF Clash
<1> QED
  BY <1>7 DEF Clashing

\* The stores are left alone.
LEMMA StoresStay ==
  ASSUME Stores, KvPut, UNCHANGED << kv, files >>, \A x \in Clients : Puts(x) \subseteq Puts(x)'
  PROVE  Stores' /\ KvPut'
<1>1. Stores'
  BY DEF Stores, Contents
<1>2. ASSUME NEW x \in Clients, NEW d \in Dirs, NEW v \in kv[d]
      PROVE  v = Archive \/ \E p \in Puts(x)' : p[1] = d /\ p[2] = v
  <2>1. v = Archive \/ \E p \in Puts(x) : p[1] = d /\ p[2] = v
    BY DEF KvPut
  <2> QED
    BY <2>1
<1>3. KvPut'
  BY <1>2 DEF KvPut
<1> QED
  BY <1>1, <1>3

LEMMA KvRightStays ==
  ASSUME NEW puts, NEW puts2, puts \subseteq puts2, NEW r, NEW answer, KvRight(puts, r, answer)
  PROVE  KvRight(puts2, r, answer)
  BY DEF KvRight

\* Answers remain when requests are executed and calls are made.
LEMMA AnswerStays ==
  ASSUME NEW ids, NEW ids2, NEW calls, NEW calls2, NEW puts, NEW puts2, puts \subseteq puts2,
         Len(ids) \in Nat, Len(ids2) \in Nat, Len(ids) <= Len(ids2),
         \A j \in 1..Len(ids) : ids2[j] = ids[j] /\ calls2[ids[j]] = calls[ids[j]],
         NEW p, NEW k, Answer(ids, calls, puts, p, k)
  PROVE  Answer(ids2, calls2, puts2, p, k)
<1>1. PICK j \in 1..Len(ids) :
        /\ p.id = ids[j] /\ KvRight(puts, calls[p.id], p.answer)
        /\ (p.part = "a" /\ k = 2 * j - 1) \/ (p.part = "z" /\ k = 2 * j)
  BY DEF Answer
<1>2. j \in 1..Len(ids2) /\ ids2[j] = p.id /\ calls2[p.id] = calls[p.id]
  BY <1>1
<1>3. KvRight(puts2, calls2[p.id], p.answer)
  BY <1>1, <1>2, KvRightStays
<1> QED
  BY <1>1, <1>2, <1>3 DEF Answer

LEMMA OtherConn ==
  ASSUME NEW d \in Clients, ConnInv(d), Same(d), SentGrows, up' => up
  PROVE  ConnInv(d)'
<1>1. SentOK(d)' /\ ToServerOK(d)' /\ ExecutedOK(d)' /\ Waits(d)' /\ KeptOK(d)'
  BY DEF Same, ConnInv, SentOK, ToServerOK, Taken, ExecutedOK, Waits, KeptOK
<1>2. Puts(d) \subseteq Puts(d)'
  BY PutsStay
<1>3. SeenOK(d)'
  BY <1>2, KvRightStays DEF Same, ConnInv, SeenOK
<1>4. Stream(d)' = Stream(d)
  BY DEF Same, Stream
<1>5. StreamOK(d)'
  <2>1. Len(executed[d]) \in Nat
    BY SeqFacts DEF ConnInv, ExecutedOK
  <2>2. \A p, k : Answer(executed[d], sent[d], Puts(d), p, k) => Answer(executed[d], sent[d], Puts(d)', p, k)
    BY <1>2, <2>1, AnswerStays
  <2> QED
    BY <1>4, <2>2 DEF Same, ConnInv, StreamOK
<1>6. AllAnswered(d)'
  BY <1>4 DEF Same, ConnInv, AllAnswered
<1> QED
  BY <1>1, <1>3, <1>5, <1>6 DEF ConnInv

LEMMA BlameStays ==
  ASSUME SentGrows, NEW d \in Clients, rushed[d] => rushed'[d]
  PROVE  (BadCall(d) => BadCall(d)') /\ (MuteCall(d) => MuteCall(d)')
<1>1. \A i \in 1..Len(sent[d]) : i \in 1..Len(sent'[d]) /\ sent'[d][i] = sent[d][i]
  BY DEF SentGrows
<1>2. BadCall(d) => BadCall(d)'
  BY <1>1 DEF BadCall, Tame
<1>3. MuteCall(d) => MuteCall(d)'
  BY <1>1 DEF MuteCall, Mute
<1> QED
  BY <1>2, <1>3

LEMMA BlamedStays ==
  ASSUME SentGrows, Blamed, UNCHANGED << up, op, rushed >>
  PROVE  Blamed'
<1>1. \A d \in Clients : (BadCall(d) => BadCall(d)') /\ (MuteCall(d) => MuteCall(d)')
  BY BlameStays
<1>2. Clashing => Clashing'
  BY ClashStays
<1> QED
  BY <1>1, <1>2 DEF Blamed

\* A step of one client, or of the server for it.
LEMMA OneConn ==
  ASSUME RpcInv, NEW c \in Clients, \A d \in Clients : d # c => Same(d), SentGrows, up' => up,
         Shape', Stores', KvPut', ConnInv(c)', rushed[c] => rushed'[c],
         ~up' => ~up \/ BadCall(c)' \/ Clashing', op'[c] = "deaf" => op[c] = "deaf" \/ MuteCall(c)'
  PROVE  RpcInv'
<1>1. \A d \in Clients : ConnInv(d)'
  BY OtherConn DEF RpcInv
<1>2. \A d \in Clients : rushed[d] => rushed'[d]
  BY DEF Same
<1>3. ASSUME ~up' PROVE (\E d \in Clients : BadCall(d)') \/ Clashing'
  <2>1. CASE ~up /\ \E d \in Clients : BadCall(d)
    <3>1. PICK d \in Clients : BadCall(d)
      BY <2>1
    <3> QED
      BY <1>2, <3>1, BlameStays
  <2>2. CASE BadCall(c)'
    BY <2>2
  <2>3. CASE Clashing \/ Clashing'
    BY <2>3, ClashStays
  <2> QED
    BY <1>3, <2>1, <2>2, <2>3 DEF RpcInv, Blamed
<1>4. ASSUME NEW d \in Clients, op'[d] = "deaf" PROVE MuteCall(d)'
  <2>1. CASE op[d] = "deaf"
    BY <1>2, <2>1, BlameStays DEF RpcInv, Blamed
  <2>2. CASE op[d] # "deaf"
    <3>1. d = c
      BY <1>4, <2>2 DEF Same
    <3> QED
      BY <1>4, <2>2, <3>1
  <2> QED
    BY <2>1, <2>2
<1>5. Blamed'
  BY <1>3, <1>4 DEF Blamed
<1> QED
  BY <1>1, <1>5 DEF RpcInv

\* A phase of one connection changes, and nothing else.
LEMMA PhaseMoves ==
  ASSUME RpcInv, NEW c \in Clients, NEW p \in Phases, p # "deaf", op' = [op EXCEPT ![c] = p],
         p \in {"unaccepted", "reading", "writing"} => op[c] \in {"unaccepted", "reading", "writing"},
         UNCHANGED << up, accepting, executed, wire, store >>
  PROVE  RpcInv'
<1>1. /\ UNCHANGED << up, accepting, executed >>
      /\ UNCHANGED << toServer, toClient, client, sent, seen, rushed, open >> /\ UNCHANGED << kv, files >>
  BY DEF wire, store
<1>2. op \in [Clients -> Phases]
  BY DEF RpcInv, Shape
<1>3. op' \in [Clients -> Phases] /\ op'[c] = p /\ \A d \in Clients : d # c => op'[d] = op[d]
  BY <1>2
<1>4. SentGrows
  BY <1>1, SentStays
<1>5. \A d \in Clients : d # c => Same(d)
  BY <1>1, <1>3 DEF Same
<1>6. (\A x \in Clients : Puts(x)' = Puts(x)) /\ Stream(c)' = Stream(c)
  BY <1>1 DEF Puts, Stream, decode_base64, validate_key, Arrives
<1>7. ConnInv(c)
  BY DEF RpcInv
<1>8. SentOK(c)' /\ ToServerOK(c)' /\ ExecutedOK(c)' /\ Waits(c)' /\ KeptOK(c)'
  BY <1>1, <1>7 DEF ConnInv, SentOK, ToServerOK, Taken, ExecutedOK, Waits, KeptOK
<1>9. SeenOK(c)' /\ StreamOK(c)'
  BY <1>1, <1>6, <1>7 DEF ConnInv, SeenOK, StreamOK
<1>10. AllAnswered(c)'
  BY <1>1, <1>3, <1>6, <1>7 DEF ConnInv, AllAnswered
<1>11. ConnInv(c)'
  BY <1>8, <1>9, <1>10 DEF ConnInv
<1>12. Shape' /\ Stores' /\ KvPut'
  BY <1>1, <1>3, <1>6 DEF RpcInv, Shape, Stores, KvPut
<1> QED
  BY <1>1, <1>3, <1>4, <1>5, <1>11, <1>12, OneConn

LEMMA AcceptKeeps ==
  ASSUME RpcInv, NEW c \in Clients, Accept(c)
  PROVE  RpcInv'
  BY PhaseMoves DEF Accept, Phases

LEMMA ReadErrorKeeps ==
  ASSUME RpcInv, NEW c \in Clients, ReadError(c)
  PROVE  RpcInv'
  BY PhaseMoves DEF ReadError, Phases

LEMMA HandleWriteKeeps ==
  ASSUME RpcInv, NEW c \in Clients, HandleWrite(c)
  PROVE  RpcInv'
<1>1. CASE op' = [op EXCEPT ![c] = "reading"]
  BY <1>1, PhaseMoves DEF HandleWrite, Phases
<1>2. CASE op' = [op EXCEPT ![c] = "closed"]
  BY <1>2, PhaseMoves DEF HandleWrite, Phases
<1> QED
  BY <1>1, <1>2 DEF HandleWrite

LEMMA AcceptFailsKeeps ==
  ASSUME RpcInv, AcceptFails
  PROVE  RpcInv'
<1>1. /\ UNCHANGED << up, op, executed >> /\ accepting' = FALSE
      /\ UNCHANGED << toServer, toClient, client, sent, seen, rushed, open >> /\ UNCHANGED << kv, files >>
  BY DEF AcceptFails, wire, store
<1>2. SentGrows
  BY <1>1, SentStays
<1>3. \A d \in Clients : Same(d)
  BY <1>1 DEF Same
<1>4. \A d \in Clients : ConnInv(d)'
  BY <1>1, <1>2, <1>3, OtherConn DEF RpcInv
<1>5. \A x \in Clients : Puts(x)' = Puts(x)
  BY <1>1 DEF Puts, decode_base64, validate_key, Arrives
<1>6. Shape' /\ Stores' /\ KvPut'
  BY <1>1, <1>5, StoresStay DEF RpcInv, Shape
<1>7. Blamed'
  BY <1>1, <1>2, BlamedStays DEF RpcInv
<1> QED
  BY <1>4, <1>6, <1>7 DEF RpcInv

LEMMA CloseKeeps ==
  ASSUME RpcInv, NEW c \in Clients, Close(c)
  PROVE  RpcInv'
<1>1. /\ open' = [open EXCEPT ![c] = FALSE] /\ toClient' = [toClient EXCEPT ![c] = << >>]
      /\ UNCHANGED << up, accepting, op, executed, toServer, client, sent, seen, rushed >>
      /\ UNCHANGED << kv, files >>
  BY DEF Close, store
<1>2. open \in [Clients -> BOOLEAN] /\ DOMAIN toClient = Clients
  BY DEF RpcInv, Shape
<1>3. /\ open' \in [Clients -> BOOLEAN] /\ ~open'[c] /\ DOMAIN toClient' = Clients
      /\ toClient'[c] = << >>
      /\ \A d \in Clients : d # c => open'[d] = open[d] /\ toClient'[d] = toClient[d]
  BY <1>1, <1>2
<1>4. SentGrows
  BY <1>1, SentStays
<1>5. \A d \in Clients : d # c => Same(d)
  BY <1>1, <1>3 DEF Same
<1>6. \A x \in Clients : Puts(x)' = Puts(x)
  BY <1>1 DEF Puts, decode_base64, validate_key, Arrives
<1>7. ConnInv(c)
  BY DEF RpcInv
<1>8. SentOK(c)' /\ ToServerOK(c)' /\ ExecutedOK(c)' /\ Waits(c)' /\ SeenOK(c)'
  BY <1>1, <1>6, <1>7 DEF ConnInv, SentOK, ToServerOK, Taken, ExecutedOK, Waits, SeenOK
<1>9. KeptOK(c)'
  BY <1>1, <1>3, <1>7, EmptyIsSeq DEF ConnInv, KeptOK
<1>10. StreamOK(c)' /\ AllAnswered(c)'
  BY <1>3 DEF StreamOK, AllAnswered
<1>11. ConnInv(c)'
  BY <1>8, <1>9, <1>10 DEF ConnInv
<1>12. Shape' /\ Stores' /\ KvPut'
  BY <1>1, <1>3, <1>6 DEF RpcInv, Shape, Stores, KvPut
<1> QED
  BY <1>1, <1>4, <1>5, <1>11, <1>12, OneConn
----------------------------------------------------------------------------
(* A call.                                                                  *)

LEMMA Difference ==
  ASSUME NEW a \in Nat, NEW b \in Nat
  PROVE  /\ 2 * a - b \in Int /\ (2 * a - b) + b = 2 * a
         /\ b <= 2 * a => 2 * a - b \in Nat /\ 2 * a - b <= 2 * a
  OBVIOUS

LEMMA Further ==
  ASSUME NEW a \in Int, NEW b \in Int, NEW e \in Int, a + b = e
  PROVE  a + (b + 1) = e + 1 /\ a + (b + 2) = e + 2
  OBVIOUS

\* The parts taken and the parts on their way are the parts sent.
LEMMA TakenFacts ==
  ASSUME NEW c \in Clients, Len(sent[c]) \in Nat, Len(toServer[c]) \in Nat
  PROVE  /\ Taken(c) \in Int /\ Taken(c) + Len(toServer[c]) = 2 * Len(sent[c])
         /\ Len(toServer[c]) <= 2 * Len(sent[c]) => Taken(c) \in Nat /\ Taken(c) <= 2 * Len(sent[c])
  BY Difference DEF Taken

LEMMA ConnFacts ==
  ASSUME NEW c \in Clients, ConnInv(c)
  PROVE  /\ Len(sent[c]) \in Nat /\ Len(toServer[c]) \in Nat /\ Len(executed[c]) \in Nat
         /\ Len(seen[c]) \in Nat /\ Len(client[c].old) \in Nat /\ Len(toClient[c]) \in Nat
         /\ Taken(c) \in Nat
         /\ IsSeq(Stream(c)) /\ Len(Stream(c)) = Len(client[c].old) + Len(toClient[c])
         /\ \A j \in 1..Len(executed[c]) : executed[c][j] \in 1..Len(sent[c])
<1>1. /\ Len(sent[c]) \in Nat /\ Len(toServer[c]) \in Nat /\ Len(executed[c]) \in Nat
      /\ Len(seen[c]) \in Nat /\ Len(client[c].old) \in Nat /\ Len(toClient[c]) \in Nat
  BY SeqFacts DEF ConnInv, SentOK, ToServerOK, ExecutedOK, SeenOK, KeptOK
<1>2. Taken(c) \in Nat /\ Taken(c) <= 2 * Len(sent[c])
  <2>1. Len(toServer[c]) <= 2 * Len(sent[c])
    BY DEF ConnInv, ToServerOK
  <2> QED
    BY <1>1, <2>1, TakenFacts
<1>3. IsSeq(Stream(c)) /\ Len(Stream(c)) = Len(client[c].old) + Len(toClient[c])
  BY Joined DEF ConnInv, KeptOK, Stream
<1>4. ASSUME NEW j \in 1..Len(executed[c]) PROVE executed[c][j] \in 1..Len(sent[c])
  <2>1. executed[c][j] \in Nat \ {0} /\ 2 * executed[c][j] - 1 <= Taken(c)
    BY DEF ConnInv, ExecutedOK
  <2> QED
    BY <1>1, <1>2, <2>1
<1> QED
  BY <1>1, <1>2, <1>3, <1>4

LEMMA CallKeeps ==
  ASSUME RpcInv, NEW c \in Clients, Call(c)
  PROVE  RpcInv'
<1> DEFINE n == Len(sent[c])
           part(p) == [part |-> p, id |-> n + 1]
           two == << part("head"), part("tail") >>
<1>1. PICK r \in Calls[c] :
        /\ sent' = [sent EXCEPT ![c] = Append(@, r)]
        /\ toServer' = [toServer EXCEPT ![c] = @ \o two]
  BY DEF Call
<1>2. /\ n < MaxCalls[c] /\ rushed' = [rushed EXCEPT ![c] = @ \/ n > Len(seen[c])]
      /\ UNCHANGED << up, accepting, op, executed, toClient, client, seen, open >>
      /\ UNCHANGED << kv, files >>
  BY DEF Call, store
<1>3. /\ DOMAIN sent = Clients /\ DOMAIN toServer = Clients /\ rushed \in [Clients -> BOOLEAN]
  BY DEF RpcInv, Shape
<1>4. /\ sent'[c] = Append(sent[c], r) /\ toServer'[c] = toServer[c] \o two
      /\ DOMAIN sent' = Clients /\ DOMAIN toServer' = Clients
      /\ \A d \in Clients : d # c => sent'[d] = sent[d] /\ toServer'[d] = toServer[d]
  BY <1>1, <1>3
<1>5. /\ rushed' \in [Clients -> BOOLEAN]
      /\ \A d \in Clients : d # c => rushed'[d] = rushed[d]
      /\ rushed[c] => rushed'[c]
      /\ n > Len(seen[c]) => rushed'[c]
  BY <1>2, <1>3
<1>6. ConnInv(c)
  BY DEF RpcInv
<1>7. /\ n \in Nat /\ Len(toServer[c]) \in Nat /\ Len(executed[c]) \in Nat
      /\ Len(seen[c]) \in Nat /\ Taken(c) \in Nat
      /\ \A j \in 1..Len(executed[c]) : executed[c][j] \in 1..n
  BY <1>6, ConnFacts
<1>8. /\ IsSeq(two) /\ Len(two) = 2 /\ two[1] = part("head") /\ two[2] = part("tail")
  BY PairIsSeq
<1>9. /\ Request(two[1], 2 * n + 1) /\ Request(two[2], 2 * n + 2)
  <2> DEFINE m == n + 1
  <2>1. m \in Nat /\ 2 * n + 1 = 2 * m - 1 /\ 2 * n + 2 = 2 * m
    BY <1>7
  <2>2. part("head") = [part |-> "head", id |-> m] /\ part("tail") = [part |-> "tail", id |-> m]
    OBVIOUS
  <2> HIDE DEF m, part
  <2>3. /\ part("head").part = "head" /\ part("head").id = m
        /\ part("tail").part = "tail" /\ part("tail").id = m
    BY <2>2
  <2> QED
    BY <1>8, <2>1, <2>3 DEF Request
<1> HIDE DEF two
<1>10. /\ IsSeq(sent'[c]) /\ Len(sent'[c]) = n + 1 /\ sent'[c][n + 1] = r
       /\ \A i \in 1..n : sent'[c][i] = sent[c][i]
  BY <1>4, <1>6, Appended DEF ConnInv, SentOK
<1>11. SentOK(c)'
  <2>1. MaxCalls[c] \in Nat
    BY CallAssumption
  <2>2. \A i \in 1..(n + 1) : sent'[c][i] \in Calls[c]
    BY <1>6, <1>7, <1>10 DEF ConnInv, SentOK
  <2> QED
    BY <1>2, <1>7, <1>10, <2>1, <2>2 DEF SentOK
<1>12. SentGrows
  <2>1. \A d \in Clients : Len(sent[d]) \in Nat
    BY SeqFacts DEF RpcInv, ConnInv, SentOK
  <2> QED
    BY <1>4, <1>7, <1>10, <2>1 DEF SentGrows
<1>13. /\ IsSeq(toServer'[c]) /\ Len(toServer'[c]) = Len(toServer[c]) + 2
       /\ \A i \in 1..(Len(toServer[c]) + 2) : toServer'[c][i] =
            IF i <= Len(toServer[c]) THEN toServer[c][i] ELSE two[i - Len(toServer[c])]
  <2>1. IsSeq(toServer[c])
    BY <1>6 DEF ConnInv, ToServerOK
  <2>2. /\ IsSeq(toServer[c] \o two) /\ Len(toServer[c] \o two) = Len(toServer[c]) + Len(two)
        /\ \A i \in 1..(Len(toServer[c]) + Len(two)) : (toServer[c] \o two)[i] =
             IF i <= Len(toServer[c]) THEN toServer[c][i] ELSE two[i - Len(toServer[c])]
    BY <1>8, <2>1, Joined
  <2>3. Len(two) = 2
    BY <1>8
  <2> QED
    BY <1>4, <2>2, <2>3
<1>14. Taken(c)' = Taken(c)
  BY <1>7, <1>10, <1>13 DEF Taken
<1>15. ToServerOK(c)'
  <2>1. ASSUME NEW i \in 1..(Len(toServer[c]) + 2)
        PROVE  Request(toServer'[c][i], Taken(c) + i)
    <3>1. CASE i <= Len(toServer[c])
      <4>1. i \in 1..Len(toServer[c]) /\ toServer'[c][i] = toServer[c][i]
        BY <1>7, <1>13, <3>1
      <4> QED
        BY <1>6, <4>1 DEF ConnInv, ToServerOK
    <3>2. CASE i = Len(toServer[c]) + 1
      <4>1. ~(i <= Len(toServer[c])) /\ i - Len(toServer[c]) = 1
        BY <1>7, <3>2
      <4>2. Taken(c) + i = 2 * n + 1
        <5>1. Taken(c) + Len(toServer[c]) = 2 * n
          BY <1>7, TakenFacts
        <5>2. Taken(c) \in Int /\ Len(toServer[c]) \in Int /\ 2 * n \in Int
          BY <1>7
        <5> QED
          BY <3>2, <5>1, <5>2, Further
      <4>3. toServer'[c][i] = two[1]
        BY <1>13, <4>1
      <4> QED
        BY <1>9, <4>2, <4>3
    <3>3. CASE i = Len(toServer[c]) + 2
      <4>1. ~(i <= Len(toServer[c])) /\ i - Len(toServer[c]) = 2
        BY <1>7, <3>3
      <4>2. Taken(c) + i = 2 * n + 2
        <5>1. Taken(c) + Len(toServer[c]) = 2 * n
          BY <1>7, TakenFacts
        <5>2. Taken(c) \in Int /\ Len(toServer[c]) \in Int /\ 2 * n \in Int
          BY <1>7
        <5> QED
          BY <3>3, <5>1, <5>2, Further
      <4>3. toServer'[c][i] = two[2]
        BY <1>13, <4>1
      <4> QED
        BY <1>9, <4>2, <4>3
    <3> QED
      BY <1>7, <3>1, <3>2, <3>3
  <2>2. Len(toServer'[c]) <= 2 * Len(sent'[c])
    BY <1>6, <1>7, <1>10, <1>13 DEF ConnInv, ToServerOK
  <2> QED
    BY <1>13, <1>14, <2>1, <2>2 DEF ToServerOK
<1>16. Puts(c) \subseteq Puts(c)'
  BY <1>12, PutsStay
<1>17. \A j \in 1..Len(executed[c]) : sent'[c][executed[c][j]] = sent[c][executed[c][j]]
  BY <1>7, <1>10
<1>18. SeenOK(c)'
  <2> SUFFICES ASSUME NEW j \in 1..Len(seen[c])
               PROVE  KvRight(Puts(c)', sent'[c][seen[c][j].id], seen[c][j].answer)
    BY <1>2, <1>6 DEF ConnInv, SeenOK
  <2>1. /\ seen[c][j].id = executed[c][j] /\ j \in 1..Len(executed[c])
        /\ KvRight(Puts(c), sent[c][seen[c][j].id], seen[c][j].answer)
    BY <1>6, <1>7 DEF ConnInv, SeenOK
  <2>2. sent'[c][seen[c][j].id] = sent[c][seen[c][j].id]
    BY <1>17, <2>1
  <2> QED
    BY <1>16, <2>1, <2>2, KvRightStays
<1>19. Stream(c)' = Stream(c)
  BY <1>2 DEF Stream
<1>20. StreamOK(c)'
  <2>1. \A p, k : Answer(executed[c], sent[c], Puts(c), p, k) => Answer(executed[c], sent'[c], Puts(c)', p, k)
    BY <1>7, <1>16, <1>17, AnswerStays
  <2> QED
    BY <1>2, <1>6, <1>19, <2>1 DEF ConnInv, StreamOK
<1>21. AllAnswered(c)'
  BY <1>2, <1>6, <1>19 DEF ConnInv, AllAnswered
<1>22. ExecutedOK(c)' /\ KeptOK(c)'
  BY <1>2, <1>6, <1>14 DEF ConnInv, ExecutedOK, KeptOK
<1>23. Waits(c)'
  <2> SUFFICES ASSUME ~rushed'[c]
               PROVE  Len(toServer'[c]) = 2 /\ Len(executed[c]) + 1 = Len(sent'[c])
    BY <1>2 DEF Waits
  <2>1. ~rushed[c] /\ n <= Len(seen[c])
    BY <1>5, <1>7
  <2>2. Len(seen[c]) <= Len(executed[c])
    BY <1>6 DEF ConnInv, SeenOK
  <2>3. Len(toServer[c]) = 0 /\ Len(executed[c]) = n
    BY <1>6, <1>7, <2>1, <2>2 DEF ConnInv, Waits
  <2> QED
    BY <1>10, <1>13, <2>3
<1>24. ConnInv(c)'
  BY <1>11, <1>15, <1>18, <1>20, <1>21, <1>22, <1>23 DEF ConnInv
<1>25. \A d \in Clients : d # c => Same(d)
  BY <1>2, <1>4, <1>5 DEF Same
<1>27. \A x \in Clients : Puts(x) \subseteq Puts(x)'
  BY <1>12, PutsStay
<1>28. UNCHANGED << kv, files >>
  BY <1>2
<1>29. Stores' /\ KvPut'
  BY <1>27, <1>28, StoresStay DEF RpcInv
<1>30. Shape'
  BY <1>2, <1>4, <1>5 DEF RpcInv, Shape
<1>26. Shape' /\ Stores' /\ KvPut'
  BY <1>29, <1>30
<1> QED
  BY <1>2, <1>5, <1>12, <1>24, <1>25, <1>26, OneConn
----------------------------------------------------------------------------
(* Answers arrive.                                                          *)

LEMMA OddEven ==
  ASSUME NEW j \in Nat, NEW k \in Nat
  PROVE  /\ 2 * k - 1 = 2 * j - 1 => k = j
         /\ 2 * k = 2 * j => k = j
         /\ 2 * k # 2 * j - 1 /\ 2 * k - 1 # 2 * j
  OBVIOUS

\* Which answer a part belongs to follows from its place.
LEMMA AnswerOdd ==
  ASSUME NEW ids, NEW calls, NEW puts, NEW p, Len(ids) \in Nat, NEW j \in Nat,
         Answer(ids, calls, puts, p, 2 * j - 1)
  PROVE  /\ j \in 1..Len(ids) /\ p.part = "a" /\ p.id = ids[j]
         /\ KvRight(puts, calls[p.id], p.answer)
<1>1. PICK i \in 1..Len(ids) :
        /\ p.id = ids[i] /\ KvRight(puts, calls[p.id], p.answer)
        /\ (p.part = "a" /\ 2 * j - 1 = 2 * i - 1) \/ (p.part = "z" /\ 2 * j - 1 = 2 * i)
  BY DEF Answer
<1>2. i \in Nat
  OBVIOUS
<1>3. i = j /\ p.part = "a"
  BY <1>1, <1>2, OddEven
<1> QED
  BY <1>1, <1>3

LEMMA AnswerEven ==
  ASSUME NEW ids, NEW calls, NEW puts, NEW p, Len(ids) \in Nat, NEW j \in Nat,
         Answer(ids, calls, puts, p, 2 * j)
  PROVE  j \in 1..Len(ids) /\ p.part = "z" /\ p.id = ids[j]
<1>1. PICK i \in 1..Len(ids) :
        /\ p.id = ids[i]
        /\ (p.part = "a" /\ 2 * j = 2 * i - 1) \/ (p.part = "z" /\ 2 * j = 2 * i)
  BY DEF Answer
<1>2. i \in Nat
  OBVIOUS
<1>3. i = j /\ p.part = "z"
  BY <1>1, <1>2, OddEven
<1> QED
  BY <1>1, <1>3

LEMMA Places ==
  ASSUME NEW s \in Nat, NEW j \in Nat \ {0}, NEW l \in Nat
  PROVE  /\ s + j \in Nat
         /\ 2 * j - 1 <= l => 2 * j - 1 \in 1..l /\ 2 * s + (2 * j - 1) = 2 * (s + j) - 1
         /\ 2 * j <= l => 2 * j \in 1..l /\ 2 * s + 2 * j = 2 * (s + j)
  OBVIOUS

\* The data rpc.js splits is the beginning of the stream of answers: it parses
\* the next answers, in their order.
Feeds(ids, calls, puts, data, s) ==
  /\ \A j \in 1..Len(ids) : ids[j] \in Nat \ {0}
  /\ \A i \in 1..Len(data) : Answer(ids, calls, puts, data[i], 2 * s + i)
Gets(ids, calls, puts, data, s, m) ==
  /\ Takes(data, m) /\ s + m <= Len(ids)
  /\ \A j \in 1..m : /\ Parsed(data)[j].id = ids[s + j]
                     /\ KvRight(puts, calls[Parsed(data)[j].id], Parsed(data)[j].answer)

LEMMA NextAnswers ==
  ASSUME NEW data, IsSeq(data), NEW ids, NEW calls, NEW puts, NEW s \in Nat,
         Len(ids) \in Nat, s <= Len(ids), Feeds(ids, calls, puts, data, s)
  PROVE  \E m \in Nat : Gets(ids, calls, puts, data, s, m)
<1>1. Len(data) \in Nat
  BY SeqFacts
<1>2. ASSUME NEW j \in Nat \ {0}, 2 * j - 1 <= Len(data)
      PROVE  /\ s + j \in 1..Len(ids) /\ data[2 * j - 1].part = "a"
             /\ data[2 * j - 1].id = ids[s + j]
             /\ KvRight(puts, calls[data[2 * j - 1].id], data[2 * j - 1].answer)
  <2>1. 2 * j - 1 \in 1..Len(data) /\ 2 * s + (2 * j - 1) = 2 * (s + j) - 1 /\ s + j \in Nat
    BY <1>1, <1>2, Places
  <2>2. Answer(ids, calls, puts, data[2 * j - 1], 2 * (s + j) - 1)
    BY <2>1 DEF Feeds
  <2> DEFINE q == s + j
             x == data[2 * j - 1]
  <2>3. Answer(ids, calls, puts, x, 2 * q - 1) /\ q \in Nat
    BY <2>1, <2>2
  <2> HIDE DEF q, x
  <2>4. q \in 1..Len(ids) /\ x.part = "a" /\ x.id = ids[q] /\ KvRight(puts, calls[x.id], x.answer)
    BY <2>3, AnswerOdd
  <2> QED
    BY <2>4 DEF q, x
<1>3. ASSUME NEW j \in Nat \ {0}, 2 * j <= Len(data)
      PROVE  s + j \in 1..Len(ids) /\ data[2 * j].part = "z" /\ data[2 * j].id = ids[s + j]
  <2>1. 2 * j \in 1..Len(data) /\ 2 * s + 2 * j = 2 * (s + j) /\ s + j \in Nat
    BY <1>1, <1>3, Places
  <2>2. Answer(ids, calls, puts, data[2 * j], 2 * (s + j))
    BY <2>1 DEF Feeds
  <2> DEFINE q == s + j
             x == data[2 * j]
  <2>3. Answer(ids, calls, puts, x, 2 * q) /\ q \in Nat
    BY <2>1, <2>2
  <2> HIDE DEF q, x
  <2>4. q \in 1..Len(ids) /\ x.part = "z" /\ x.id = ids[q]
    BY <2>3, AnswerEven
  <2> QED
    BY <2>4 DEF q, x
<1>4. InPairs(data)
  BY <1>2, <1>3 DEF InPairs
<1>5. ASSUME NEW j \in Nat \ {0}, 2 * j <= Len(data)
      PROVE  data[2 * j - 1].id = data[2 * j].id /\ data[2 * j - 1].id # 0
  <2>1. 2 * j - 1 <= Len(data)
    BY <1>1, <1>5
  <2>2. data[2 * j - 1].id = ids[s + j] /\ data[2 * j].id = ids[s + j] /\ s + j \in 1..Len(ids)
    BY <1>2, <1>3, <1>5, <2>1
  <2> QED
    BY <2>2 DEF Feeds
<1>6. PICK m \in Nat : Takes(data, m)
  BY <1>4, <1>5, ParsedPairs
<1>7. Len(data) = 2 * m \/ Len(data) = 2 * m + 1
  BY <1>6 DEF Takes
<1>8. s + m <= Len(ids)
  <2>1. CASE m = 0
    BY <2>1
  <2>2. CASE m # 0
    <3>1. m \in Nat \ {0} /\ 2 * m <= Len(data)
      BY <1>7, <2>2
    <3>2. s + m \in 1..Len(ids)
      BY <1>3, <3>1
    <3> QED
      BY <3>2
  <2> QED
    BY <2>1, <2>2
<1>9. ASSUME NEW j \in 1..m
      PROVE  /\ Parsed(data)[j].id = ids[s + j]
             /\ KvRight(puts, calls[Parsed(data)[j].id], Parsed(data)[j].answer)
  <2>1. j \in Nat \ {0} /\ 2 * j - 1 <= Len(data)
    BY <1>7
  <2>2. /\ data[2 * j - 1].id = ids[s + j]
        /\ KvRight(puts, calls[data[2 * j - 1].id], data[2 * j - 1].answer)
    BY <1>2, <2>1
  <2>3. Parsed(data)[j].id = data[2 * j - 1].id /\ Parsed(data)[j].answer = data[2 * j - 1].answer
    BY <1>6 DEF Takes
  <2> QED
    BY <2>2, <2>3
<1> QED
  BY <1>6, <1>8, <1>9 DEF Gets

LEMMA Within ==
  ASSUME NEW o \in Nat, NEW k \in Nat, NEW all \in Nat, k <= all
  PROVE  /\ \A i \in 1..(o + k) :
              /\ i \in 1..(o + all)
              /\ ~(i <= o) => i - o \in 1..k /\ o + (i - o) = i
         /\ \A i \in 1..(all - k) : k + i \in 1..all
  OBVIOUS

LEMMA Lengths ==
  ASSUME NEW o \in Nat, NEW all \in Nat, NEW r \in Nat, NEW k \in Nat, NEW l \in Nat, NEW m \in Nat,
         l = all - k, o + k = 2 * m + r
  PROVE  /\ 2 * m + (r + l) = o + all
         /\ \A i \in 1..(r + l) : ~(i <= r) =>
              /\ i - r \in 1..l /\ 2 * m + i \in 1..(o + all)
              /\ ~(2 * m + i <= o) /\ (2 * m + i) - o = k + (i - r)
  OBVIOUS

\* The beginning of a stream, its end after k parts, and two parts of it.
Begins(data, stream) == \A i \in 1..Len(data) : data[i] = stream[i]
Ends(left, coming, k) ==
  /\ IsSeq(left) /\ Len(left) = Len(coming) - k
  /\ \A i \in 1..Len(left) : left[i] = coming[k + i]
Joins(s, a, b) ==
  /\ IsSeq(s) /\ Len(s) = Len(a) + Len(b)
  /\ \A i \in 1..(Len(a) + Len(b)) : s[i] = IF i <= Len(a) THEN a[i] ELSE b[i - Len(a)]

LEMMA EndOfSeq ==
  ASSUME NEW coming, IsSeq(coming), NEW k \in 1..Len(coming)
  PROVE  Ends(SubSeq(coming, k + 1, Len(coming)), coming, k)
<1> DEFINE left == SubSeq(coming, k + 1, Len(coming))
<1>0. Len(coming) \in Nat
  BY SeqFacts
<1>1. k + 1 \in Nat \ {0} /\ k + 1 <= Len(coming) + 1 /\ Len(coming) <= Len(coming)
  BY <1>0
<1>2. /\ IsSeq(left) /\ Len(left) = Len(coming) - (k + 1) + 1
      /\ \A i \in 1..(Len(coming) - (k + 1) + 1) : left[i] = coming[(k + 1) + i - 1]
  BY <1>0, <1>1, Part
<1>3. Len(coming) - (k + 1) + 1 = Len(coming) - k
  BY <1>0
<1>4. \A i \in 1..(Len(coming) - k) : (k + 1) + i - 1 = k + i
  BY <1>0
<1> HIDE DEF left
<1>5. Ends(left, coming, k)
  BY <1>2, <1>3, <1>4 DEF Ends
<1> QED
  BY <1>5 DEF left

\* What rpc.js keeps of the data.
LEMMA RestOfData ==
  ASSUME NEW data, NEW m \in Nat, Takes(data, m)
  PROVE  \E r \in {0, 1} : /\ IsSeq(Rest(data)) /\ Len(Rest(data)) = r
                           /\ Len(data) = 2 * m + r /\ (r = 1 => Rest(data)[1] = data[Len(data)])
<1> DEFINE rest == Rest(data)
           d == data[Len(data)]
<1>1. (Len(data) = 2 * m /\ rest = << >>) \/ (Len(data) = 2 * m + 1 /\ rest = << d >>)
  BY DEF Takes
<1> HIDE DEF rest, d
<1>2. CASE Len(data) = 2 * m /\ rest = << >>
  <2>1. IsSeq(rest) /\ Len(rest) = 0 /\ Len(data) = 2 * m + 0
    BY <1>2, EmptyIsSeq
  <2> QED
    BY <2>1 DEF rest
<1>3. CASE Len(data) = 2 * m + 1 /\ rest = << d >>
  <2>1. << d >> \in Seq({d}) /\ Len(<< d >>) = 1 /\ << d >>[1] = d
    OBVIOUS
  <2>2. IsSeq(rest) /\ Len(rest) = 1 /\ rest[1] = d
    BY <1>3, <2>1 DEF IsSeq
  <2> QED
    BY <1>3, <2>2 DEF rest, d
<1> QED
  BY <1>1, <1>2, <1>3

\* What rpc.js keeps and what is still on its way is the rest of the stream.
LEMMA RestOfStream ==
  ASSUME NEW old, Len(old) \in Nat, NEW coming, Len(coming) \in Nat, NEW k \in 1..Len(coming),
         NEW stream, Joins(stream, old, coming),
         NEW data, Len(data) = Len(old) + k, Begins(data, stream),
         NEW m \in Nat, Takes(data, m),
         NEW left, Ends(left, coming, k), NEW next, Joins(next, Rest(data), left)
  PROVE  /\ 2 * m + Len(next) = Len(stream) /\ Len(next) \in Nat
         /\ \A i \in 1..Len(next) : next[i] = stream[2 * m + i]
<1>1. PICK r \in {0, 1} : /\ IsSeq(Rest(data)) /\ Len(Rest(data)) = r
                          /\ Len(data) = 2 * m + r /\ (r = 1 => Rest(data)[1] = data[Len(data)])
  BY RestOfData
<1> DEFINE o == Len(old)
           all == Len(coming)
           l == all - k
           rest == Rest(data)
<1>2. /\ o \in Nat /\ all \in Nat /\ k \in Nat /\ r \in Nat /\ l \in Nat
      /\ l = all - k /\ o + k = 2 * m + r /\ k >= 1
  BY <1>1
<1>3. /\ Len(stream) = o + all
      /\ \A i \in 1..(o + all) : ~(i <= o) => stream[i] = coming[i - o]
  BY DEF Joins
<1>4. /\ Len(next) = r + l
      /\ \A i \in 1..(r + l) : next[i] = IF i <= r THEN rest[i] ELSE left[i - r]
  BY <1>1 DEF Joins, Ends
<1>5. \A i \in 1..l : left[i] = coming[k + i]
  BY DEF Ends
<1>6. r = 1 => rest[1] = stream[o + k]
  <2> SUFFICES ASSUME r = 1 PROVE rest[1] = stream[o + k]
    OBVIOUS
  <2>1. Len(data) = o + k /\ o + k \in 1..(o + k)
    BY <1>2
  <2>2. data[o + k] = stream[o + k]
    BY <2>1 DEF Begins
  <2> QED
    BY <1>1, <2>1, <2>2
<1> HIDE DEF o, all, l, rest
<1>7. 2 * m + (r + l) = o + all /\ r + l \in Nat
  BY <1>2, Lengths
<1>8. ASSUME NEW i \in 1..(r + l) PROVE next[i] = stream[2 * m + i]
  <2>1. CASE i <= r
    <3>1. i = 1 /\ r = 1
      BY <2>1
    <3>2. next[1] = rest[1]
      BY <1>4, <2>1, <3>1
    <3>3. o + k = 2 * m + 1
      BY <1>2, <3>1
    <3> QED
      BY <1>6, <3>1, <3>2, <3>3
  <2>2. CASE ~(i <= r)
    <3>1. /\ i - r \in 1..l /\ 2 * m + i \in 1..(o + all)
          /\ ~(2 * m + i <= o) /\ (2 * m + i) - o = k + (i - r)
      BY <1>2, <2>2, Lengths
    <3>2. next[i] = left[i - r]
      BY <1>4, <2>2
    <3>3. left[i - r] = coming[k + (i - r)]
      BY <1>5, <3>1
    <3>4. stream[2 * m + i] = coming[(2 * m + i) - o]
      <4> DEFINE x == 2 * m + i
      <4>1. x \in 1..(o + all) /\ ~(x <= o)
        BY <3>1
      <4> HIDE DEF x
      <4>2. stream[x] = coming[x - o]
        BY <1>3, <4>1
      <4> QED
        BY <4>2 DEF x
    <3> QED
      BY <3>1, <3>2, <3>3, <3>4
  <2> QED
    BY <2>1, <2>2
<1> QED
  BY <1>3, <1>4, <1>7, <1>8

LEMMA OnDataKeeps ==
  ASSUME RpcInv, NEW c \in Clients, OnData(c)
  PROVE  RpcInv'
<1> DEFINE old == client[c].old
           coming == toClient[c]
           arrived(k) == SubSeq(coming, 1, k)
           taken(k) == IF client[c].waiting THEN old \o arrived(k) ELSE arrived(k)
           s == Len(seen[c])
<1>1. PICK k \in 1..Len(toClient[c]) :
        /\ toClient' = [toClient EXCEPT ![c] = SubSeq(@, k + 1, Len(@))]
        /\ seen' = [seen EXCEPT ![c] = @ \o Parsed(taken(k))]
        /\ client' = [client EXCEPT ![c] = [old |-> Rest(taken(k)), waiting |-> TRUE]]
        /\ open' = [open EXCEPT ![c] = \A j \in DOMAIN Parsed(taken(k)) : Parsed(taken(k))[j] # Garbled]
  BY DEF OnData
<1>2. /\ open[c] /\ UNCHANGED << up, accepting, op, executed, toServer, sent, rushed >>
      /\ UNCHANGED << kv, files >>
  BY DEF OnData, store
<1>3. ConnInv(c)
  BY DEF RpcInv
<1>4. /\ Len(sent[c]) \in Nat /\ Len(executed[c]) \in Nat /\ s \in Nat
      /\ Len(old) \in Nat /\ Len(coming) \in Nat
      /\ \A j \in 1..Len(executed[c]) : executed[c][j] \in 1..Len(sent[c])
  BY <1>3, ConnFacts
<1>5. /\ IsSeq(old) /\ IsSeq(coming) /\ (client[c].waiting \/ old = << >>) /\ IsSeq(seen[c])
      /\ s <= Len(executed[c])
  BY <1>3 DEF ConnInv, KeptOK, SeenOK
<1>6. Joins(Stream(c), old, coming)
  BY <1>5, Joined DEF Stream, Joins
<1> DEFINE data == taken(k)
<1>7. IsSeq(data) /\ Len(data) = Len(old) + k /\ Begins(data, Stream(c))
  <2>1. /\ IsSeq(arrived(k)) /\ Len(arrived(k)) = k /\ \A i \in 1..k : arrived(k)[i] = coming[i]
    <3>1. 1 \in Nat \ {0} /\ k \in Nat /\ 1 <= k + 1 /\ k <= Len(coming)
      BY <1>4
    <3>2. /\ IsSeq(arrived(k)) /\ Len(arrived(k)) = k - 1 + 1
          /\ \A i \in 1..(k - 1 + 1) : arrived(k)[i] = coming[1 + i - 1]
      BY <1>5, <3>1, Part
    <3>3. k - 1 + 1 = k /\ \A i \in 1..k : 1 + i - 1 = i
      BY <3>1
    <3> QED
      BY <3>2, <3>3
  <2>2. /\ \A i \in 1..(Len(old) + k) : i \in 1..(Len(old) + Len(coming))
        /\ \A i \in 1..(Len(old) + k) : ~(i <= Len(old)) => i - Len(old) \in 1..k
    <3>1. k \in Nat /\ k <= Len(coming)
      BY <1>4
    <3> QED
      BY <1>4, <3>1, Within
  <2> DEFINE a == arrived(k)
  <2>3. IsSeq(a) /\ Len(a) = k /\ \A i \in 1..k : a[i] = coming[i]
    BY <2>1
  <2>4. data = IF client[c].waiting THEN old \o a ELSE a
    OBVIOUS
  <2> HIDE DEF a, data
  <2>5. CASE client[c].waiting
    <3>1. /\ IsSeq(old \o a) /\ Len(old \o a) = Len(old) + Len(a)
          /\ \A i \in 1..(Len(old) + Len(a)) :
               (old \o a)[i] = IF i <= Len(old) THEN old[i] ELSE a[i - Len(old)]
      BY <1>5, <2>3, Joined
    <3> DEFINE j == old \o a
    <3>2. data = j
      BY <2>4, <2>5
    <3>3. /\ IsSeq(j) /\ Len(j) = Len(old) + k
          /\ \A i \in 1..(Len(old) + k) : j[i] = IF i <= Len(old) THEN old[i] ELSE a[i - Len(old)]
      BY <2>3, <3>1
    <3> HIDE DEF j
    <3>4. ASSUME NEW i \in 1..Len(j) PROVE j[i] = Stream(c)[i]
      <4>1. Stream(c)[i] = IF i <= Len(old) THEN old[i] ELSE coming[i - Len(old)]
        BY <1>6, <2>2, <3>3 DEF Joins
      <4>2. CASE i <= Len(old)
        BY <3>3, <4>1, <4>2
      <4>3. CASE ~(i <= Len(old))
        <5>1. a[i - Len(old)] = coming[i - Len(old)]
          BY <2>2, <2>3, <3>3, <4>3
        <5> QED
          BY <3>3, <4>1, <4>3, <5>1
      <4> QED
        BY <4>2, <4>3
    <3> QED
      BY <3>2, <3>3, <3>4 DEF Begins
  <2>6. CASE ~client[c].waiting
    <3>1. Len(old) = 0
      BY <1>5, <2>6, EmptyIsSeq
    <3>2. data = a /\ Len(data) = 0 + k
      BY <2>3, <2>4, <2>6
    <3>3. ASSUME NEW i \in 1..k PROVE a[i] = Stream(c)[i]
      <4>1. i \in 1..(Len(old) + Len(coming)) /\ ~(i <= Len(old)) /\ i - Len(old) = i
        BY <1>4, <3>1
      <4>2. Stream(c)[i] = coming[i - Len(old)]
        BY <1>6, <4>1 DEF Joins
      <4> QED
        BY <2>3, <4>1, <4>2
    <3> QED
      BY <2>3, <3>1, <3>2, <3>3 DEF Begins
  <2> QED
    BY <2>5, <2>6
<1>8. /\ toClient' = [toClient EXCEPT ![c] = SubSeq(coming, k + 1, Len(coming))]
      /\ seen' = [seen EXCEPT ![c] = seen[c] \o Parsed(data)]
      /\ client' = [client EXCEPT ![c] = [old |-> Rest(data), waiting |-> TRUE]]
      /\ open' = [open EXCEPT ![c] = \A j \in DOMAIN Parsed(data) : Parsed(data)[j] # Garbled]
  BY <1>1
<1> HIDE DEF data
<1>9. \A i \in 1..Len(Stream(c)) : Answer(executed[c], sent[c], Puts(c), Stream(c)[i], 2 * s + i)
  BY <1>2, <1>3 DEF ConnInv, StreamOK
<1>10. \A i \in 1..Len(data) :
         /\ data[i] = Stream(c)[i]
         /\ Answer(executed[c], sent[c], Puts(c), Stream(c)[i], 2 * s + i)
  <2>1. \A i \in 1..Len(data) : i \in 1..Len(Stream(c))
    <3>1. Len(Stream(c)) = Len(old) + Len(coming)
      BY <1>6 DEF Joins
    <3>2. \A i \in 1..(Len(old) + k) : i \in 1..(Len(old) + Len(coming))
      <4>1. k \in Nat /\ k <= Len(coming)
        BY <1>4
      <4> QED
        BY <1>4, <4>1, Within
    <3> QED
      BY <1>7, <3>1, <3>2
  <2> QED
    BY <1>7, <1>9, <2>1 DEF Begins
<1>11. PICK m \in Nat : Gets(executed[c], sent[c], Puts(c), data, s, m)
  <2>1. Feeds(executed[c], sent[c], Puts(c), data, s)
    <3>1. \A j \in 1..Len(executed[c]) : executed[c][j] \in Nat \ {0}
      BY <1>4
    <3>2. \A i \in 1..Len(data) : Answer(executed[c], sent[c], Puts(c), data[i], 2 * s + i)
      <4> HIDE DEF s
      <4> QED
        BY <1>10, Zenon
    <3> QED
      BY <3>1, <3>2 DEF Feeds
  <2> HIDE DEF s
  <2> QED
    BY <1>4, <1>5, <1>7, <2>1, NextAnswers
<1> DEFINE left == SubSeq(coming, k + 1, Len(coming))
           rest == Rest(data)
<1>12. Ends(left, coming, k)
  BY <1>5, EndOfSeq
<1> HIDE DEF left
<1>13. PICK r \in {0, 1} : IsSeq(rest) /\ Len(rest) = r
  BY <1>11, RestOfData DEF Gets
<1>14. /\ DOMAIN toClient = Clients /\ DOMAIN seen = Clients /\ DOMAIN client = Clients
       /\ open \in [Clients -> BOOLEAN]
  BY DEF RpcInv, Shape
<1>15. IsSeq(Parsed(data)) /\ Len(Parsed(data)) = m /\ \A j \in DOMAIN Parsed(data) : Parsed(data)[j] # Garbled
  <2>1. IsSeq(Parsed(data)) /\ Len(Parsed(data)) = m /\ \A j \in 1..m : Parsed(data)[j] # Garbled
    BY <1>11 DEF Gets, Takes
  <2> QED
    BY <2>1, SeqFacts
<1>16. open' = open
  BY <1>2, <1>8, <1>14, <1>15
<1>17. /\ toClient'[c] = left /\ seen'[c] = seen[c] \o Parsed(data)
       /\ client'[c].old = rest /\ client'[c].waiting = TRUE
       /\ DOMAIN toClient' = Clients /\ DOMAIN seen' = Clients /\ DOMAIN client' = Clients
  BY <1>8, <1>14 DEF left
<1>18. \A d \in Clients : d # c => Same(d)
  BY <1>2, <1>8, <1>14, <1>16 DEF Same
<1> HIDE DEF rest
<1>19. Joins(Stream(c)', rest, left)
  <2>1. Stream(c)' = rest \o left
    BY <1>17 DEF Stream
  <2>2. Joins(rest \o left, rest, left)
    BY <1>12, <1>13, Joined DEF Ends, Joins
  <2> QED
    BY <2>1, <2>2
<1>20. /\ 2 * m + Len(Stream(c)') = Len(Stream(c)) /\ Len(Stream(c)') \in Nat
       /\ \A i \in 1..Len(Stream(c)') : Stream(c)'[i] = Stream(c)[2 * m + i]
  <2> DEFINE stream == Stream(c)
             next == Stream(c)'
             was == client[c].old
             came == toClient[c]
  <2>1. Joins(next, Rest(data), left)
    BY <1>19 DEF rest
  <2>2. Joins(stream, was, came) /\ Begins(data, stream) /\ Len(data) = Len(was) + k
    BY <1>6, <1>7
  <2>3. Len(was) \in Nat /\ Len(came) \in Nat /\ k \in 1..Len(came) /\ Ends(left, came, k)
    BY <1>4, <1>12
  <2> HIDE DEF stream, next, was, came
  <2>4. /\ 2 * m + Len(next) = Len(stream) /\ Len(next) \in Nat
        /\ \A i \in 1..Len(next) : next[i] = stream[2 * m + i]
    BY <1>11, <2>1, <2>2, <2>3, RestOfStream DEF Gets
  <2> QED
    BY <2>4 DEF stream, next
<1>21. /\ IsSeq(seen'[c]) /\ Len(seen'[c]) = s + m
       /\ \A j \in 1..(s + m) : seen'[c][j] = IF j <= s THEN seen[c][j] ELSE Parsed(data)[j - s]
  <2> DEFINE new == Parsed(data)
  <2>1. IsSeq(new) /\ Len(new) = m /\ seen'[c] = seen[c] \o new
    BY <1>15, <1>17
  <2> HIDE DEF new
  <2>2. /\ IsSeq(seen[c] \o new) /\ Len(seen[c] \o new) = s + Len(new)
        /\ \A j \in 1..(s + Len(new)) : (seen[c] \o new)[j] = IF j <= s THEN seen[c][j] ELSE new[j - s]
    BY <1>5, <2>1, Joined
  <2>3. \A j : new[j] = Parsed(data)[j]
    BY DEF new
  <2> QED
    BY <2>1, <2>2, <2>3
<1>22. \A x \in Clients : Puts(x)' = Puts(x)
  BY <1>2 DEF Puts, decode_base64, validate_key, Arrives
<1>23. SeenOK(c)'
  <2>1. ASSUME NEW j \in 1..(s + m)
        PROVE  /\ seen'[c][j].id = executed[c][j]
               /\ KvRight(Puts(c), sent[c][seen'[c][j].id], seen'[c][j].answer)
    <3>1. CASE j <= s
      <4>1. j \in 1..s /\ seen'[c][j] = seen[c][j]
        BY <1>4, <1>21, <3>1
      <4> QED
        BY <1>3, <4>1 DEF ConnInv, SeenOK
    <3>2. CASE ~(j <= s)
      <4>1. j - s \in 1..m /\ s + (j - s) = j
        BY <1>4, <3>2, Within
      <4>2. seen'[c][j] = Parsed(data)[j - s]
        BY <1>21, <3>2
      <4>3. /\ Parsed(data)[j - s].id = executed[c][s + (j - s)]
            /\ KvRight(Puts(c), sent[c][Parsed(data)[j - s].id], Parsed(data)[j - s].answer)
        BY <1>11, <4>1 DEF Gets
      <4> QED
        BY <4>1, <4>2, <4>3
    <3> QED
      BY <3>1, <3>2
  <2> QED
    BY <1>2, <1>11, <1>21, <1>22, <2>1 DEF SeenOK, Gets
<1>24. StreamOK(c)'
  <2>1. ASSUME NEW i \in 1..Len(Stream(c)')
        PROVE  Answer(executed[c], sent[c], Puts(c), Stream(c)'[i], 2 * (s + m) + i)
    <3>1. 2 * m + i \in 1..Len(Stream(c)) /\ 2 * s + (2 * m + i) = 2 * (s + m) + i
      <4> DEFINE l == Len(Stream(c)')
                 all == Len(Stream(c))
      <4>1. l \in Nat /\ 2 * m + l = all /\ i \in 1..l /\ s \in Nat
        BY <1>4, <1>20
      <4> HIDE DEF l, all, s
      <4>2. 2 * m + i \in 1..all /\ 2 * s + (2 * m + i) = 2 * (s + m) + i
        BY <4>1
      <4> QED
        BY <4>2 DEF all
    <3>2. Answer(executed[c], sent[c], Puts(c), Stream(c)[2 * m + i], 2 * s + (2 * m + i))
      BY <1>9, <3>1
    <3>3. Stream(c)'[i] = Stream(c)[2 * m + i]
      BY <1>20
    <3> QED
      BY <3>1, <3>2, <3>3
  <2> QED
    BY <1>2, <1>21, <1>22, <2>1 DEF StreamOK
<1>25. AllAnswered(c)'
  <2> SUFFICES ASSUME up, open[c], op[c] \in {"unaccepted", "reading", "writing"}
               PROVE  2 * (s + m) + Len(Stream(c)') = 2 * Len(executed[c])
    BY <1>2, <1>16, <1>21 DEF AllAnswered
  <2>1. 2 * s + Len(Stream(c)) = 2 * Len(executed[c])
    BY <1>3 DEF ConnInv, AllAnswered
  <2> DEFINE l == Len(Stream(c)')
             all == Len(Stream(c))
             e == Len(executed[c])
  <2>2. l \in Nat /\ 2 * m + l = all /\ s \in Nat /\ e \in Nat /\ 2 * s + all = 2 * e
    BY <1>4, <1>20, <2>1
  <2> HIDE DEF l, all, s, e
  <2>3. 2 * (s + m) + l = 2 * e
    BY <2>2
  <2> QED
    BY <2>3 DEF l, e
<1>26. KeptOK(c)'
  <2>1. IsSeq(rest) /\ Len(rest) <= 1 /\ IsSeq(left)
    BY <1>12, <1>13 DEF Ends
  <2>2. ASSUME NEW i \in 1..Len(left)
        PROVE  \E j \in 1..Len(executed[c]) : left[i].id = executed[c][j]
    <3>1. left[i] = coming[k + i] /\ k + i \in 1..Len(coming)
      <4>1. left[i] = coming[k + i] /\ i \in 1..(Len(coming) - k)
        BY <1>12 DEF Ends
      <4>2. k \in Nat /\ k <= Len(coming)
        BY <1>4
      <4> QED
        BY <1>4, <4>1, <4>2, Within
    <3> QED
      BY <1>3, <3>1 DEF ConnInv, KeptOK
  <2> QED
    BY <1>2, <1>17, <2>1, <2>2 DEF KeptOK
<1>27. SentOK(c)' /\ ToServerOK(c)' /\ ExecutedOK(c)' /\ Waits(c)'
  BY <1>2, <1>3 DEF ConnInv, SentOK, ToServerOK, Taken, ExecutedOK, Waits
<1>28. ConnInv(c)'
  BY <1>23, <1>24, <1>25, <1>26, <1>27 DEF ConnInv
<1>29. Shape' /\ Stores' /\ KvPut'
  BY <1>2, <1>16, <1>17, <1>22 DEF RpcInv, Shape, Stores, KvPut
<1>30. SentGrows
  BY <1>2, SentStays
<1> QED
  BY <1>2, <1>18, <1>28, <1>29, <1>30, OneConn
----------------------------------------------------------------------------
(* The server reads.                                                        *)

Parts(c, k) == SubSeq(toServer[c], 1, k)

\* What handle_read does whatever it finds.
Reads(c, k) ==
  /\ up /\ op[c] = "reading" /\ k \in 1..Len(toServer[c])
  /\ \E i \in 1..k : Parts(c, k)[i].part = "tail"
  /\ toServer' = [toServer EXCEPT ![c] = SubSeq(@, k + 1, Len(@))]
  /\ UNCHANGED << accepting, client, sent, seen, rushed, open >>

LEMMA ReadParts ==
  ASSUME NEW c \in Clients, ConnInv(c), NEW k \in 1..Len(toServer[c])
  PROVE  /\ Len(Parts(c, k)) = k
         /\ \A i \in 1..k : Request(Parts(c, k)[i], Taken(c) + i)
<1>1. Len(toServer[c]) \in Nat /\ IsSeq(toServer[c])
  BY SeqFacts DEF ConnInv, ToServerOK
<1>2. 1 \in Nat \ {0} /\ k \in Nat /\ 1 <= k + 1 /\ k <= Len(toServer[c])
  BY <1>1
<1>3. /\ Len(Parts(c, k)) = k - 1 + 1
      /\ \A i \in 1..(k - 1 + 1) : Parts(c, k)[i] = toServer[c][1 + i - 1]
  BY <1>1, <1>2, Part DEF Parts
<1>4. k - 1 + 1 = k /\ \A i \in 1..k : 1 + i - 1 = i /\ i \in 1..Len(toServer[c])
  BY <1>1
<1>5. \A i \in 1..k : Parts(c, k)[i] = toServer[c][i]
  BY <1>3, <1>4
<1>6. \A i \in 1..Len(toServer[c]) : Request(toServer[c][i], Taken(c) + i)
  BY DEF ConnInv, ToServerOK
<1> QED
  BY <1>3, <1>4, <1>5, <1>6

LEMMA TakenMoves ==
  ASSUME NEW n \in Nat, NEW l \in Nat, NEW k \in Nat, k <= l, l <= 2 * n
  PROVE  2 * n - (l - k) = (2 * n - l) + k /\ l - k \in Nat /\ l - k <= 2 * n
  OBVIOUS

LEMMA SumAssociates ==
  ASSUME NEW a \in Int, NEW k \in Int
  PROVE  \A i \in Int : (a + k) + i = a + (k + i)
  OBVIOUS

LEMMA ReadTakes ==
  ASSUME RpcInv, NEW c \in Clients, NEW k, Reads(c, k)
  PROVE  /\ DOMAIN toServer' = Clients /\ \A d \in Clients : d # c => toServer'[d] = toServer[d]
         /\ Len(toServer'[c]) = Len(toServer[c]) - k
         /\ Taken(c)' = Taken(c) + k /\ ToServerOK(c)' /\ SentOK(c)'
         /\ (\A x \in Clients : Puts(x)' = Puts(x)) /\ SentGrows
<1>1. /\ k \in 1..Len(toServer[c]) /\ sent' = sent
      /\ toServer' = [toServer EXCEPT ![c] = SubSeq(toServer[c], k + 1, Len(toServer[c]))]
  BY DEF Reads
<1>2. DOMAIN toServer = Clients /\ ConnInv(c)
  BY DEF RpcInv, Shape
<1> DEFINE left == SubSeq(toServer[c], k + 1, Len(toServer[c]))
           l == Len(toServer[c])
           n == Len(sent[c])
<1>3. /\ DOMAIN toServer' = Clients /\ toServer'[c] = left
      /\ \A d \in Clients : d # c => toServer'[d] = toServer[d]
  BY <1>1, <1>2
<1>4. IsSeq(toServer[c]) /\ l \in Nat /\ n \in Nat /\ Taken(c) \in Nat
  BY <1>2, ConnFacts DEF ConnInv, ToServerOK
<1>5. Ends(left, toServer[c], k)
  BY <1>1, <1>4, EndOfSeq
<1>6. /\ IsSeq(left) /\ Len(left) = l - k
      /\ \A i \in 1..Len(left) : left[i] = toServer[c][k + i]
  BY <1>5 DEF Ends
<1> HIDE DEF left
<1>7. k \in Nat /\ k <= l /\ l <= 2 * n
  BY <1>1, <1>2, <1>4 DEF ConnInv, ToServerOK
<1>8. Taken(c) = 2 * n - l /\ Taken(c)' = 2 * n - (l - k)
  BY <1>1, <1>3, <1>6 DEF Taken
<1>9. Taken(c)' = Taken(c) + k /\ l - k \in Nat /\ l - k <= 2 * n
  <2> HIDE DEF l, n
  <2> QED
    BY <1>4, <1>7, <1>8, TakenMoves
<1>10. ASSUME NEW i \in 1..(l - k) PROVE Request(left[i], (Taken(c) + k) + i)
  <2>1. k + i \in 1..l
    BY <1>4, <1>7, Within
  <2>2. Request(toServer[c][k + i], Taken(c) + (k + i))
    BY <1>2, <2>1 DEF ConnInv, ToServerOK
  <2>3. (Taken(c) + k) + i = Taken(c) + (k + i)
    BY <1>4, <1>7, SumAssociates
  <2> QED
    BY <1>6, <2>2, <2>3
<1>11. ToServerOK(c)'
  BY <1>1, <1>3, <1>6, <1>9, <1>10 DEF ToServerOK
<1>12. SentOK(c)'
  BY <1>1, <1>2 DEF ConnInv, SentOK
<1>13. \A x \in Clients : Puts(x)' = Puts(x)
  BY <1>1 DEF Puts, decode_base64, validate_key, Arrives
<1>14. SentGrows
  BY <1>1, SentStays
<1> QED
  BY <1>3, <1>6, <1>9, <1>11, <1>12, <1>13, <1>14

\* The first part that holds text is one of those read.
LEMMA FirstIsRead ==
  ASSUME NEW c \in Clients, ConnInv(c), NEW k \in 1..Len(toServer[c]), Text(c, Parts(c, k)) # {}
  PROVE  \E i \in 1..k : /\ i = Min(Text(c, Parts(c, k))) /\ i \in Text(c, Parts(c, k))
                         /\ First(c, Parts(c, k)) = Parts(c, k)[i]
                         /\ Request(First(c, Parts(c, k)), Taken(c) + i)
<1> DEFINE T == Text(c, Parts(c, k))
<1>1. Len(Parts(c, k)) = k /\ \A i \in 1..k : Request(Parts(c, k)[i], Taken(c) + i)
  BY ReadParts
<1>2. T \subseteq 1..k
  BY <1>1 DEF Text
<1>3. First(c, Parts(c, k)) = Parts(c, k)[Min(T)]
  BY DEF First
<1>4. T # {}
  OBVIOUS
<1>5. T \subseteq Nat
  BY <1>2
<1> HIDE DEF T
<1>6. Min(T) \in T
  BY <1>4, <1>5, MinIsLeast
<1> QED
  BY <1>1, <1>2, <1>3, <1>6 DEF T

LEMMA NewId ==
  ASSUME NEW id \in Nat, NEW t \in Nat, NEW i \in Nat \ {0}, NEW k \in Nat, i <= k, NEW n \in Nat,
         t + i = 2 * id - 1, t + k <= 2 * n
  PROVE  /\ id \in 1..n /\ 2 * id - 1 <= t + k
         /\ \A e \in Nat : 2 * e - 1 <= t => e < id /\ 2 * e - 1 <= t + k
  OBVIOUS

\* A request that is read whole is one of the calls made, and a later one than
\* all that were executed.
LEMMA WholeIsNew ==
  ASSUME NEW c \in Clients, ConnInv(c), NEW k \in 1..Len(toServer[c]),
         Text(c, Parts(c, k)) # {}, BeginsWhole(c, Parts(c, k)),
         NEW id, id = First(c, Parts(c, k)).id
  PROVE  /\ id \in 1..Len(sent[c]) /\ 2 * id - 1 <= Taken(c) + k
         /\ \A j \in 1..Len(executed[c]) :
              executed[c][j] < id /\ 2 * executed[c][j] - 1 <= Taken(c) + k
<1> DEFINE n == Len(sent[c])
           t == Taken(c)
<1>1. n \in Nat /\ t \in Nat /\ Len(toServer[c]) \in Nat
  BY ConnFacts
<1>2. PICK i \in 1..k : /\ First(c, Parts(c, k)) = Parts(c, k)[i]
                        /\ Request(First(c, Parts(c, k)), t + i)
  BY FirstIsRead
<1>3. First(c, Parts(c, k)).part = "head"
  BY DEF BeginsWhole
<1>4. id \in Nat /\ t + i = 2 * id - 1
  BY <1>2, <1>3 DEF Request
<1>5. t + k <= 2 * n
  <2>1. t + Len(toServer[c]) = 2 * n
    BY <1>1, TakenFacts
  <2> DEFINE l == Len(toServer[c])
  <2>2. t + l = 2 * n /\ k \in 1..l /\ l \in Nat
    BY <1>1, <2>1
  <2> HIDE DEF l, t, n
  <2> QED
    BY <1>1, <2>2
<1>6. k \in Nat /\ i \in Nat \ {0} /\ i <= k
  BY <1>1
<1>7. \A j \in 1..Len(executed[c]) : executed[c][j] \in Nat /\ 2 * executed[c][j] - 1 <= t
  BY DEF ConnInv, ExecutedOK
<1> HIDE DEF t, n
<1>8. /\ id \in 1..n /\ 2 * id - 1 <= t + k
      /\ \A e \in Nat : 2 * e - 1 <= t => e < id /\ 2 * e - 1 <= t + k
  BY <1>1, <1>4, <1>5, <1>6, NewId
<1> QED
  BY <1>7, <1>8 DEF t, n

\* Of a client that waits the server reads one whole request.
LEMMA QuietRead ==
  ASSUME RpcInv, NEW c \in Clients, NEW k, Reads(c, k), ~rushed[c]
  PROVE  /\ Text(c, Parts(c, k)) # {} /\ BeginsWhole(c, Parts(c, k))
         /\ k = Len(toServer[c]) /\ Len(executed[c]) + 1 = Len(sent[c])
<1> DEFINE n == Len(sent[c])
           t == Taken(c)
           parts == Parts(c, k)
<1>1. ConnInv(c)
  BY DEF RpcInv
<1>2. n \in Nat /\ t \in Nat /\ Len(toServer[c]) \in Nat /\ k \in 1..Len(toServer[c])
  BY <1>1, ConnFacts DEF Reads
<1>3. Len(toServer[c]) = 2 /\ Len(executed[c]) + 1 = n
  BY <1>1, <1>2 DEF ConnInv, Waits
<1>4. t + 2 = 2 * n
  BY <1>2, <1>3, TakenFacts
<1>5. Len(parts) = k /\ \A i \in 1..k : Request(parts[i], t + i)
  BY <1>1, <1>2, ReadParts
<1>6. PICK i \in 1..k : parts[i].part = "tail"
  BY DEF Reads
<1>7. k \in {1, 2} /\ i \in {1, 2} /\ i <= k
  BY <1>2, <1>3
<1> HIDE DEF parts, t, n
<1>8. parts[1].part = "head" /\ parts[1].id = n
  <2>1. Request(parts[1], t + 1)
    BY <1>5, <1>7
  <2>2. parts[1].id \in Nat /\ ((parts[1].part = "head" /\ t + 1 = 2 * parts[1].id - 1)
                                \/ (parts[1].part = "tail" /\ t + 1 = 2 * parts[1].id))
    BY <2>1 DEF Request
  <2> DEFINE x == parts[1].id
  <2>3. x \in Nat /\ t + 1 # 2 * x /\ (t + 1 = 2 * x - 1 => x = n)
    <3>1. x \in Nat
      BY <2>2
    <3> HIDE DEF x
    <3> QED
      BY <1>2, <1>4, <3>1
  <2> QED
    BY <2>2, <2>3
<1>9. k = 2 /\ i = 2
  <2>1. i # 1
    BY <1>6, <1>8
  <2> QED
    BY <1>7, <2>1
<1>10. parts[2].part = "tail" /\ parts[2].id = n
  <2>1. Request(parts[2], t + 2)
    BY <1>5, <1>9
  <2>2. parts[2].id \in Nat /\ t + 2 = 2 * parts[2].id
    BY <1>6, <1>9, <2>1 DEF Request
  <2> DEFINE x == parts[2].id
  <2>3. x \in Nat /\ 2 * n = 2 * x
    BY <1>4, <2>2
  <2> HIDE DEF x
  <2>4. x = n
    BY <1>2, <2>3
  <2> QED
    BY <1>6, <1>9, <2>4 DEF x
<1>11. 1 \in Text(c, parts)
  BY <1>5, <1>8, <1>9 DEF Text
<1>12. Text(c, parts) \subseteq Nat /\ Text(c, parts) # {}
  BY <1>5, <1>9, <1>11 DEF Text
<1>13. Min(Text(c, parts)) = 1
  <2>1. Min(Text(c, parts)) \in Text(c, parts) /\ Min(Text(c, parts)) <= 1
    BY <1>11, <1>12, MinIsLeast
  <2>2. Text(c, parts) \subseteq 1..2
    BY <1>5, <1>9 DEF Text
  <2>3. Min(Text(c, parts)) \in 1..2
    BY <2>1, <2>2
  <2> QED
    BY <2>1, <2>3
<1>14. First(c, parts) = parts[1]
  BY <1>13 DEF First
<1>15. sent[c][n].cut \in {"inside", "crlf"}
  <2>1. n \in 1..Len(sent[c])
    <3>1. Len(executed[c]) \in Nat
      BY <1>1, ConnFacts
    <3> QED
      BY <1>2, <1>3, <3>1 DEF n
  <2>2. sent[c][n] \in Calls[c]
    BY <1>1, <2>1 DEF ConnInv, SentOK
  <2> QED
    BY <2>2, CallAssumption
<1>16. sent[c][n].cut = "crlf" \/ 2 \in Text(c, parts)
  BY <1>5, <1>9, <1>10, <1>15 DEF Text
<1>17. BeginsWhole(c, parts)
  BY <1>8, <1>13, <1>14, <1>16 DEF BeginsWhole
<1> QED
  BY <1>3, <1>9, <1>12, <1>17 DEF parts, n

LEMMA Counted ==
  ASSUME NEW n \in Nat, NEW x \in 1..n
  PROVE  x \in Nat \ {0}
  OBVIOUS

Executes(c, id) == executed' = [executed EXCEPT ![c] = Append(@, id)]

\* The request dispatched is added to those executed.
LEMMA ExecutedGrows ==
  ASSUME RpcInv, NEW c \in Clients, NEW k, Reads(c, k),
         Text(c, Parts(c, k)) # {}, BeginsWhole(c, Parts(c, k)),
         NEW id, id = First(c, Parts(c, k)).id,
         Executes(c, id)
  PROVE  /\ DOMAIN executed' = Clients /\ \A d \in Clients : d # c => executed'[d] = executed[d]
         /\ Len(executed'[c]) = Len(executed[c]) + 1 /\ executed'[c][Len(executed[c]) + 1] = id
         /\ \A j \in 1..Len(executed[c]) : executed'[c][j] = executed[c][j]
         /\ ExecutedOK(c)' /\ Waits(c)' /\ SeenOK(c)'
<1> DEFINE p == Len(executed[c])
<1>1. ConnInv(c) /\ DOMAIN executed = Clients
  BY DEF RpcInv, Shape
<1>2. p \in Nat /\ Len(seen[c]) \in Nat /\ Len(sent[c]) \in Nat /\ Len(toServer[c]) \in Nat
  BY <1>1, ConnFacts
<1>3. k \in 1..Len(toServer[c]) /\ UNCHANGED << client, sent, seen, rushed, open >>
  BY DEF Reads
<1>4. /\ executed'[c] = Append(executed[c], id) /\ DOMAIN executed' = Clients
      /\ \A d \in Clients : d # c => executed'[d] = executed[d]
  BY <1>1 DEF Executes
<1>5. /\ IsSeq(executed'[c]) /\ Len(executed'[c]) = p + 1 /\ executed'[c][p + 1] = id
      /\ \A j \in 1..p : executed'[c][j] = executed[c][j]
  BY <1>1, <1>4, Appended DEF ConnInv, ExecutedOK
<1>6. /\ id \in 1..Len(sent[c]) /\ 2 * id - 1 <= Taken(c) + k
      /\ \A j \in 1..p : executed[c][j] < id /\ 2 * executed[c][j] - 1 <= Taken(c) + k
  BY <1>1, <1>3, WholeIsNew
<1>7. Taken(c)' = Taken(c) + k /\ Len(toServer'[c]) = Len(toServer[c]) - k /\ (\A x \in Clients : Puts(x)' = Puts(x))
  BY ReadTakes
<1>8. /\ \A j \in 1..p : executed[c][j] \in Nat \ {0}
      /\ \A i, j \in 1..p : i < j => executed[c][i] < executed[c][j]
  BY <1>1 DEF ConnInv, ExecutedOK, Rising
<1>9. id \in Nat \ {0}
  BY <1>2, <1>6, Counted
<1>10. ExecutedOK(c)'
  <2>1. ASSUME NEW j \in 1..(p + 1)
        PROVE  executed'[c][j] \in Nat \ {0} /\ 2 * executed'[c][j] - 1 <= Taken(c) + k
    <3>1. CASE j = p + 1
      BY <1>5, <1>6, <1>9, <3>1
    <3>2. CASE j \in 1..p
      BY <1>5, <1>6, <1>8, <3>2
    <3> QED
      BY <1>2, <3>1, <3>2
  <2>2. ASSUME NEW i \in 1..(p + 1), NEW j \in 1..(p + 1), i < j
        PROVE  executed'[c][i] < executed'[c][j]
    <3>1. i \in 1..p
      BY <1>2, <2>2
    <3>2. CASE j = p + 1
      BY <1>5, <1>6, <3>1, <3>2
    <3>3. CASE j \in 1..p
      BY <1>5, <1>8, <2>2, <3>1, <3>3
    <3> QED
      BY <1>2, <3>2, <3>3
  <2>3. Rising(executed'[c])
    BY <1>5, <2>2 DEF Rising
  <2> QED
    BY <1>5, <1>7, <2>1, <2>3 DEF ExecutedOK, Rising
<1>11. Waits(c)'
  <2> SUFFICES ASSUME ~rushed[c]
               PROVE  Len(toServer'[c]) = 0 /\ Len(executed'[c]) <= Len(sent[c])
    BY <1>3 DEF Waits
  <2>1. k = Len(toServer[c]) /\ p + 1 = Len(sent[c])
    BY QuietRead
  <2> QED
    BY <1>2, <1>5, <1>7, <2>1
<1>12. SeenOK(c)'
  <2>1. /\ IsSeq(seen[c]) /\ Len(seen[c]) <= p
        /\ \A j \in 1..Len(seen[c]) :
             /\ seen[c][j].id = executed[c][j]
             /\ KvRight(Puts(c), sent[c][seen[c][j].id], seen[c][j].answer)
    BY <1>1 DEF ConnInv, SeenOK
  <2>2. Len(seen[c]) <= p + 1 /\ \A j \in 1..Len(seen[c]) : j \in 1..p
    BY <1>2, <2>1
  <2>3. \A j \in 1..Len(seen[c]) : seen[c][j].id = executed'[c][j]
    BY <1>5, <2>1, <2>2
  <2> QED
    BY <1>3, <1>5, <1>7, <2>1, <2>2, <2>3 DEF SeenOK
<1> QED
  BY <1>4, <1>5, <1>10, <1>11, <1>12

\* A put that was sent.
LEMMA PutSent ==
  ASSUME RpcInv, NEW c \in Clients, NEW e \in Clients, NEW i \in 1..Len(sent[e]),
         sent[e][i].method = "kv.put"
  PROVE  \E p \in Puts(c) : /\ p[1] = validate_key(Arrives(sent[e][i].key))
                            /\ p[2] = decode_base64(sent[e][i].value)
                            /\ p[3] = IF e = c THEN "own" ELSE "other"
<1>1. sent[e][i] \in Calls[e]
  BY DEF RpcInv, ConnInv, SentOK
<1>2. Arrives(sent[e][i].key) \in Keys /\ decode_base64(sent[e][i].value) \in Values
  BY <1>1, CallAssumption DEF decode_base64, KvMethods
<1> DEFINE d == validate_key(Arrives(sent[e][i].key))
           v == decode_base64(sent[e][i].value)
           o == IF e = c THEN "own" ELSE "other"
           p == << d, v, o >>
<1>3. d \in Dirs
  BY <1>2, Directories
<1>4. p \in Dirs \X Values \X {"own", "other"} /\ p[1] = d /\ p[2] = v /\ p[3] = o
  BY <1>2, <1>3
<1>5. p \in Puts(c)
  BY <1>4 DEF Puts
<1> QED
  BY <1>4, <1>5

\* The stores after a method: what is in them was put.
LEMMA StoresAfter ==
  ASSUME RpcInv, NEW c \in Clients, NEW i \in 1..Len(sent[c]), NEW e,
         Fits(c, Received(sent[c][i]), e),
         kv' = e.kv, files' = e.files, \A x \in Clients : Puts(x)' = Puts(x)
  PROVE  Stores' /\ KvPut'
<1> DEFINE r == Received(sent[c][i])
<1>1. /\ e.kv \in [Dirs -> SUBSET Contents] /\ e.files \subseteq Files
      /\ \A d \in Dirs : \A v \in e.kv[d] :
           \/ v \in kv[d]
           \/ v = Archive
           \/ r.method = "kv.put" /\ d = validate_key(r.key) /\ v = decode_base64(r.value)
  BY DEF Fits
<1>2. r.method = sent[c][i].method /\ r.key = Arrives(sent[c][i].key) /\ r.value = sent[c][i].value
  BY Arrived
<1> HIDE DEF r
<1>3. ASSUME NEW x \in Clients, NEW d \in Dirs, NEW v \in e.kv[d]
      PROVE  v = Archive \/ \E p \in Puts(x) : p[1] = d /\ p[2] = v
  <2>1. CASE v \in kv[d]
    BY <2>1 DEF RpcInv, KvPut
  <2>2. CASE r.method = "kv.put" /\ d = validate_key(r.key) /\ v = decode_base64(r.value)
    <3>1. sent[c][i].method = "kv.put"
      BY <1>2, <2>2
    <3>2. PICK p \in Puts(x) : /\ p[1] = validate_key(Arrives(sent[c][i].key))
                               /\ p[2] = decode_base64(sent[c][i].value)
      BY <3>1, PutSent
    <3>3. p[1] = d /\ p[2] = v
      BY <1>2, <2>2, <3>2
    <3> QED
      BY <3>3
  <2> QED
    BY <1>1, <2>1, <2>2
<1>4. Stores'
  BY <1>1 DEF Stores, Contents
<1> QED
  BY <1>3, <1>4 DEF KvPut

\* The answer to a kv.get: the content is in the store, or somebody rewrites it.
LEMMA AnswerRight ==
  ASSUME RpcInv, NEW c \in Clients, NEW r \in Calls[c], NEW e, Fits(c, Received(r), e),
         e.out.does = "answer"
  PROVE  KvRight(Puts(c), r, e.out)
<1> DEFINE k == Arrives(r.key)
           v == decode_base64(e.out.content)
<1> SUFFICES ASSUME r.method = "kv.get", e.out.content # NoText
             PROVE  IF v = Garbage THEN \E p \in Puts(c) : p[3] = "other" /\ Digest[p[2]] = k
                    ELSE /\ Digest[v] = k
                         /\ \E p \in Puts(c) : p[1] = validate_key(k) /\ p[2] = v
  BY DEF KvRight
<1>1. Received(r).method = "kv.get" /\ Received(r).key = k
  BY Arrived
<1>2. Delivers(c, Received(r), e.out.content)
  BY <1>1 DEF Fits
<1>3. k \in Keys
  BY CallAssumption DEF KvMethods
<1>4. validate_key(k) \in Dirs
  BY <1>3, Directories
<1>5. CASE v = Garbage
  <2>1. Rewritten(c, k)
    BY <1>1, <1>2, <1>5 DEF Delivers
  <2>2. PICK x \in Clients \ {c} : \E i \in 1..Len(sent[x]) :
          sent[x][i].method = "kv.put" /\ Digest[decode_base64(sent[x][i].value)] = k
    BY <2>1 DEF Rewritten
  <2>3. PICK i \in 1..Len(sent[x]) :
          sent[x][i].method = "kv.put" /\ Digest[decode_base64(sent[x][i].value)] = k
    BY <2>2
  <2>4. PICK p \in Puts(c) : /\ p[2] = decode_base64(sent[x][i].value)
                             /\ p[3] = IF x = c THEN "own" ELSE "other"
    BY <2>3, PutSent
  <2> QED
    BY <1>5, <2>3, <2>4
<1>6. CASE v # Garbage
  <2>1. Digest[v] = k /\ v \in kv[validate_key(k)] /\ v # Archive
    BY <1>1, <1>2, <1>6 DEF Delivers
  <2> QED
    BY <1>4, <1>6, <2>1 DEF RpcInv, KvPut
<1> QED
  BY <1>5, <1>6

LEMMA TakesMore ==
  ASSUME NEW t \in Nat, NEW l \in Nat, NEW k \in 1..l
  PROVE  \A e \in Nat : 2 * e - 1 <= t => 2 * e - 1 <= t + k
  OBVIOUS

LEMMA ExecutedStays ==
  ASSUME RpcInv, NEW c \in Clients, NEW k, Reads(c, k), executed' = executed
  PROVE  ExecutedOK(c)'
<1>1. ConnInv(c)
  BY DEF RpcInv
<1>2. Taken(c)' = Taken(c) + k
  BY ReadTakes
<1>3. Taken(c) \in Nat /\ Len(toServer[c]) \in Nat /\ k \in 1..Len(toServer[c])
  BY <1>1, ConnFacts DEF Reads
<1>4. \A j \in 1..Len(executed[c]) : executed[c][j] \in Nat \ {0} /\ 2 * executed[c][j] - 1 <= Taken(c)
  BY <1>1 DEF ConnInv, ExecutedOK
<1>5. \A e \in Nat : 2 * e - 1 <= Taken(c) => 2 * e - 1 <= Taken(c) + k
  BY <1>3, TakesMore
<1>6. \A j \in 1..Len(executed[c]) : 2 * executed[c][j] - 1 <= Taken(c) + k
  BY <1>4, <1>5
<1> QED
  BY <1>1, <1>2, <1>4, <1>6 DEF ConnInv, ExecutedOK

\* handle_read finds no text.
LEMMA ReadNothing ==
  ASSUME RpcInv, NEW c \in Clients, NEW k, Reads(c, k), Text(c, Parts(c, k)) = {},
         op' = [op EXCEPT ![c] = "deaf"], UNCHANGED << up, toClient, executed, kv, files >>
  PROVE  RpcInv'
<1>1. UNCHANGED << accepting, client, sent, seen, rushed, open >> /\ up
  BY DEF Reads
<1>2. ConnInv(c) /\ op \in [Clients -> Phases]
  BY DEF RpcInv, Shape
<1>3. /\ DOMAIN toServer' = Clients /\ \A d \in Clients : d # c => toServer'[d] = toServer[d]
      /\ Taken(c)' = Taken(c) + k /\ ToServerOK(c)' /\ SentOK(c)' /\ (\A x \in Clients : Puts(x)' = Puts(x)) /\ SentGrows
  BY ReadTakes
<1>4. rushed[c]
  BY QuietRead
<1>5. op' \in [Clients -> Phases] /\ op'[c] = "deaf" /\ \A d \in Clients : d # c => op'[d] = op[d]
  BY <1>2 DEF Phases
<1>6. ExecutedOK(c)'
  BY ExecutedStays
<1>7. SeenOK(c)' /\ StreamOK(c)' /\ KeptOK(c)'
  BY <1>1, <1>2, <1>3 DEF ConnInv, SeenOK, StreamOK, KeptOK, Stream
<1>8. AllAnswered(c)' /\ Waits(c)'
  BY <1>1, <1>4, <1>5 DEF AllAnswered, Waits
<1>9. ConnInv(c)'
  BY <1>3, <1>6, <1>7, <1>8 DEF ConnInv
<1>10. \A d \in Clients : d # c => Same(d)
  BY <1>1, <1>3, <1>5 DEF Same
<1>11. Shape' /\ Stores' /\ KvPut'
  BY <1>1, <1>3, <1>5 DEF RpcInv, Shape, Stores, KvPut
<1>12. MuteCall(c)'
  BY <1>1, <1>4 DEF MuteCall
<1> QED
  BY <1>1, <1>3, <1>9, <1>10, <1>11, <1>12, OneConn

\* handle_read finds text that does not begin with a whole request.
LEMMA ReadTorn ==
  ASSUME RpcInv, NEW c \in Clients, NEW k, Reads(c, k), ~BeginsWhole(c, Parts(c, k)),
         up' = FALSE, UNCHANGED << op, toClient, executed, kv, files >>
  PROVE  RpcInv'
<1>1. UNCHANGED << accepting, client, sent, seen, rushed, open >> /\ up
  BY DEF Reads
<1>2. ConnInv(c)
  BY DEF RpcInv
<1>3. /\ DOMAIN toServer' = Clients /\ \A d \in Clients : d # c => toServer'[d] = toServer[d]
      /\ Taken(c)' = Taken(c) + k /\ ToServerOK(c)' /\ SentOK(c)' /\ (\A x \in Clients : Puts(x)' = Puts(x)) /\ SentGrows
  BY ReadTakes
<1>4. rushed[c]
  BY QuietRead
<1>6. ExecutedOK(c)'
  BY ExecutedStays
<1>7. SeenOK(c)' /\ StreamOK(c)' /\ KeptOK(c)'
  BY <1>1, <1>2, <1>3 DEF ConnInv, SeenOK, StreamOK, KeptOK, Stream
<1>8. AllAnswered(c)' /\ Waits(c)'
  BY <1>1, <1>4 DEF AllAnswered, Waits
<1>9. ConnInv(c)'
  BY <1>3, <1>6, <1>7, <1>8 DEF ConnInv
<1>10. \A d \in Clients : d # c => Same(d)
  BY <1>1, <1>3 DEF Same
<1>14. Stores' /\ KvPut'
  BY <1>3, StoresStay DEF RpcInv
<1>11. Shape' /\ Stores' /\ KvPut'
  BY <1>1, <1>3, <1>14 DEF RpcInv, Shape
<1>12. BadCall(c)'
  BY <1>1, <1>4 DEF BadCall
<1>13. (op'[c] = "deaf" => op[c] = "deaf") /\ (up' => up)
  OBVIOUS
<1> QED
  BY <1>1, <1>3, <1>9, <1>10, <1>11, <1>12, <1>13, OneConn

\* A request is dispatched: what holds whatever becomes of the response.
Dispatches(c, k, id, e) ==
  /\ Reads(c, k) /\ Text(c, Parts(c, k)) # {} /\ BeginsWhole(c, Parts(c, k))
  /\ id = First(c, Parts(c, k)).id /\ e \in Dispatch(c, Received(sent[c][id]))
  /\ Executes(c, id) /\ kv' = e.kv /\ files' = e.files

LEMMA DispatchFacts ==
  ASSUME RpcInv, NEW c \in Clients, NEW k, NEW id, NEW e, Dispatches(c, k, id, e)
  PROVE  /\ id \in 1..Len(sent[c]) /\ sent[c][id] \in Calls[c] /\ Fits(c, Received(sent[c][id]), e)
         /\ SentOK(c)' /\ ToServerOK(c)' /\ ExecutedOK(c)' /\ Waits(c)' /\ SeenOK(c)'
         /\ Stores' /\ KvPut' /\ (\A x \in Clients : Puts(x)' = Puts(x)) /\ SentGrows
         /\ DOMAIN toServer' = Clients /\ DOMAIN executed' = Clients
         /\ \A d \in Clients : d # c => toServer'[d] = toServer[d] /\ executed'[d] = executed[d]
         /\ Len(executed'[c]) = Len(executed[c]) + 1 /\ executed'[c][Len(executed[c]) + 1] = id
         /\ \A j \in 1..Len(executed[c]) : executed'[c][j] = executed[c][j]
         /\ UNCHANGED << accepting, client, sent, seen, rushed, open >>
         /\ up /\ op[c] = "reading"
<1>1. /\ Reads(c, k) /\ Text(c, Parts(c, k)) # {} /\ BeginsWhole(c, Parts(c, k))
      /\ id = First(c, Parts(c, k)).id /\ e \in Dispatch(c, Received(sent[c][id]))
      /\ Executes(c, id) /\ kv' = e.kv /\ files' = e.files
  BY DEF Dispatches
<1>2. ConnInv(c) /\ Stores /\ k \in 1..Len(toServer[c])
  BY <1>1 DEF RpcInv, Reads
<1>3. id \in 1..Len(sent[c])
  BY <1>1, <1>2, WholeIsNew
<1>4. sent[c][id] \in Calls[c]
  BY <1>2, <1>3 DEF ConnInv, SentOK
<1>5. Fits(c, Received(sent[c][id]), e)
  BY <1>1, <1>2, <1>4, DispatchFits
<1>6. /\ DOMAIN toServer' = Clients /\ \A d \in Clients : d # c => toServer'[d] = toServer[d]
      /\ ToServerOK(c)' /\ SentOK(c)' /\ (\A x \in Clients : Puts(x)' = Puts(x)) /\ SentGrows
  BY <1>1, ReadTakes
<1>7. /\ DOMAIN executed' = Clients /\ \A d \in Clients : d # c => executed'[d] = executed[d]
      /\ Len(executed'[c]) = Len(executed[c]) + 1 /\ executed'[c][Len(executed[c]) + 1] = id
      /\ \A j \in 1..Len(executed[c]) : executed'[c][j] = executed[c][j]
      /\ ExecutedOK(c)' /\ Waits(c)' /\ SeenOK(c)'
  BY <1>1, ExecutedGrows
<1>8. Stores' /\ KvPut'
  BY <1>1, <1>3, <1>5, <1>6, StoresAfter
<1>9. UNCHANGED << accepting, client, sent, seen, rushed, open >> /\ up /\ op[c] = "reading"
  BY <1>1 DEF Reads
<1> QED
  BY <1>3, <1>4, <1>5, <1>6, <1>7, <1>8, <1>9

\* No answer is written: those on their way stay right.
LEMMA StreamStays ==
  ASSUME RpcInv, NEW c \in Clients, NEW k, NEW id, NEW e, Dispatches(c, k, id, e),
         toClient' = toClient
  PROVE  StreamOK(c)' /\ KeptOK(c)'
<1>1. ConnInv(c)
  BY DEF RpcInv
<1>2. /\ UNCHANGED << client, sent, seen, open >> /\ (\A x \in Clients : Puts(x)' = Puts(x))
      /\ Len(executed'[c]) = Len(executed[c]) + 1
      /\ \A j \in 1..Len(executed[c]) : executed'[c][j] = executed[c][j]
  BY DispatchFacts
<1>3. Len(executed[c]) \in Nat
  BY <1>1, ConnFacts
<1>4. /\ Len(executed'[c]) \in Nat /\ Len(executed[c]) <= Len(executed'[c])
      /\ \A j \in 1..Len(executed[c]) : j \in 1..Len(executed'[c])
  BY <1>2, <1>3
<1>5. Stream(c)' = Stream(c)
  BY <1>2 DEF Stream
<1>6. \A p, i : Answer(executed[c], sent[c], Puts(c), p, i) => Answer(executed'[c], sent[c], Puts(c), p, i)
  BY <1>2, <1>3, <1>4, AnswerStays
<1>7. StreamOK(c)'
  BY <1>1, <1>2, <1>5, <1>6 DEF ConnInv, StreamOK
<1>8. KeptOK(c)'
  BY <1>1, <1>2, <1>4 DEF ConnInv, KeptOK
<1> QED
  BY <1>7, <1>8

LEMMA DispatchThrows ==
  ASSUME RpcInv, NEW c \in Clients, NEW k, NEW id, NEW e, Dispatches(c, k, id, e),
         e.out.does = "throw", up' = FALSE, UNCHANGED << op, toClient >>
  PROVE  RpcInv'
<1>1. /\ id \in 1..Len(sent[c]) /\ Fits(c, Received(sent[c][id]), e)
      /\ SentOK(c)' /\ ToServerOK(c)' /\ ExecutedOK(c)' /\ Waits(c)' /\ SeenOK(c)'
      /\ Stores' /\ KvPut' /\ (\A x \in Clients : Puts(x)' = Puts(x)) /\ SentGrows
      /\ DOMAIN toServer' = Clients /\ DOMAIN executed' = Clients
      /\ \A d \in Clients : d # c => toServer'[d] = toServer[d] /\ executed'[d] = executed[d]
      /\ UNCHANGED << accepting, client, sent, seen, rushed, open >>
  BY DispatchFacts
<1>2. StreamOK(c)' /\ KeptOK(c)'
  BY StreamStays
<1>3. AllAnswered(c)'
  BY DEF AllAnswered
<1>4. ConnInv(c)'
  BY <1>1, <1>2, <1>3 DEF ConnInv
<1>5. \A d \in Clients : d # c => Same(d)
  BY <1>1 DEF Same
<1>6. Shape'
  BY <1>1 DEF RpcInv, Shape
<1>7. ~Tame(sent[c][id]) \/ Clashing
  BY <1>1, Arrived DEF Fits
<1>8. BadCall(c)' \/ Clashing'
  BY <1>1, <1>7, ClashStays DEF BadCall, Tame
<1>9. (op'[c] = "deaf" => op[c] = "deaf") /\ (up' => up) /\ (rushed[c] => rushed'[c])
  BY <1>1
<1> QED
  BY <1>1, <1>4, <1>5, <1>6, <1>8, <1>9, OneConn

LEMMA DispatchSilent ==
  ASSUME RpcInv, NEW c \in Clients, NEW k, NEW id, NEW e, Dispatches(c, k, id, e),
         e.out.does = "silent", op' = [op EXCEPT ![c] = "deaf"], UNCHANGED << up, toClient >>
  PROVE  RpcInv'
<1>1. /\ id \in 1..Len(sent[c]) /\ Fits(c, Received(sent[c][id]), e)
      /\ SentOK(c)' /\ ToServerOK(c)' /\ ExecutedOK(c)' /\ Waits(c)' /\ SeenOK(c)'
      /\ Stores' /\ KvPut' /\ (\A x \in Clients : Puts(x)' = Puts(x)) /\ SentGrows
      /\ DOMAIN toServer' = Clients /\ DOMAIN executed' = Clients
      /\ \A d \in Clients : d # c => toServer'[d] = toServer[d] /\ executed'[d] = executed[d]
      /\ UNCHANGED << accepting, client, sent, seen, rushed, open >>
  BY DispatchFacts
<1>2. StreamOK(c)' /\ KeptOK(c)'
  BY StreamStays
<1>3. op \in [Clients -> Phases]
  BY DEF RpcInv, Shape
<1>4. op' \in [Clients -> Phases] /\ op'[c] = "deaf" /\ \A d \in Clients : d # c => op'[d] = op[d]
  BY <1>3 DEF Phases
<1>5. AllAnswered(c)'
  BY <1>4 DEF AllAnswered
<1>6. ConnInv(c)'
  BY <1>1, <1>2, <1>5 DEF ConnInv
<1>7. \A d \in Clients : d # c => Same(d)
  BY <1>1, <1>4 DEF Same
<1>8. Shape'
  BY <1>1, <1>4 DEF RpcInv, Shape
<1>9. Mute(sent[c][id])
  BY <1>1, Arrived DEF Fits
<1>10. MuteCall(c)'
  BY <1>1, <1>9 DEF MuteCall, Mute
<1>11. (~up' => ~up) /\ (up' => up) /\ (rushed[c] => rushed'[c])
  BY <1>1
<1> QED
  BY <1>1, <1>6, <1>7, <1>8, <1>10, <1>11, OneConn

LEMMA JoinedTwice ==
  ASSUME NEW a, NEW b, NEW t, IsSeq(a), IsSeq(b), IsSeq(t)
  PROVE  Joins(a \o (b \o t), a \o b, t)
<1> PICK S : a \in Seq(S) /\ b \in Seq(S)
  BY SeqOfTwo
<1> PICK T : t \in Seq(T)
  BY DEF IsSeq
<1>1. a \in Seq(S \cup T) /\ b \in Seq(S \cup T) /\ t \in Seq(S \cup T)
  BY SeqMonotonic
<1>2. (a \o b) \o t = a \o (b \o t)
  BY <1>1, ConcatAssociative
<1>3. IsSeq(a \o b)
  BY Joined
<1> DEFINE s == a \o b
<1>4. Joins(s \o t, s, t)
  <2> HIDE DEF s
  <2> QED
    BY <1>3, Joined DEF Joins, s
<1> QED
  BY <1>2, <1>4

LEMMA LastPlaces ==
  ASSUME NEW s \in Nat, NEW l \in Nat, NEW p \in Nat, 2 * s + l = 2 * p
  PROVE  /\ ~(l + 1 <= l) /\ (l + 1) - l = 1 /\ 2 * s + (l + 1) = 2 * (p + 1) - 1
         /\ ~(l + 2 <= l) /\ (l + 2) - l = 2 /\ 2 * s + (l + 2) = 2 * (p + 1)
  OBVIOUS

\* The two parts of an answer, and the answers of a stream.
Halves(two, id, answer) ==
  /\ IsSeq(two) /\ Len(two) = 2 /\ two[1].part = "a" /\ two[2].part = "z"
  /\ \A i \in {1, 2} : two[i].id = id /\ two[i].answer = answer
Answers(ids, calls, puts, stream, s) ==
  \A i \in 1..Len(stream) : Answer(ids, calls, puts, stream[i], 2 * s + i)

LEMMA UpToTwo ==
  ASSUME NEW l \in Nat, NEW i \in 1..(l + 2)
  PROVE  i <= l \/ i = l + 1 \/ i = l + 2
  OBVIOUS

\* The answer to the last request executed is added to the stream.
LEMMA StreamGrows ==
  ASSUME NEW stream, Len(stream) \in Nat, NEW ids, NEW p \in Nat, Len(ids) = p + 1,
         NEW two, NEW answer, Halves(two, ids[p + 1], answer), NEW next, Joins(next, stream, two),
         NEW calls, NEW puts, NEW s \in Nat, 2 * s + Len(stream) = 2 * p,
         Answers(ids, calls, puts, stream, s), KvRight(puts, calls[ids[p + 1]], answer)
  PROVE  2 * s + Len(next) = 2 * (p + 1) /\ Answers(ids, calls, puts, next, s)
<1> DEFINE l == Len(stream)
<1>1. Len(next) = l + 2 /\ \A i \in 1..(l + 2) : next[i] = IF i <= l THEN stream[i] ELSE two[i - l]
  <2>1. Len(two) = 2
    BY DEF Halves
  <2> QED
    BY <2>1 DEF Joins
<1>2. p + 1 \in 1..Len(ids)
  OBVIOUS
<1>3. Answer(ids, calls, puts, two[1], 2 * (p + 1) - 1) /\ Answer(ids, calls, puts, two[2], 2 * (p + 1))
  <2>1. /\ two[1].part = "a" /\ two[2].part = "z" /\ two[1].id = ids[p + 1] /\ two[2].id = ids[p + 1]
        /\ two[1].answer = answer /\ two[2].answer = answer
    BY DEF Halves
  <2> QED
    BY <1>2, <2>1 DEF Answer
<1>4. ASSUME NEW i \in 1..(l + 2) PROVE Answer(ids, calls, puts, next[i], 2 * s + i)
  <2>1. CASE i <= l
    <3>1. i \in 1..l /\ next[i] = stream[i]
      BY <1>1, <2>1
    <3> QED
      BY <3>1 DEF Answers
  <2>2. CASE i = l + 1
    <3>1. ~(i <= l) /\ i - l = 1 /\ 2 * s + i = 2 * (p + 1) - 1
      BY <2>2, LastPlaces
    <3>2. next[i] = two[1]
      BY <1>1, <3>1
    <3> QED
      BY <1>3, <3>1, <3>2
  <2>3. CASE i = l + 2
    <3>1. ~(i <= l) /\ i - l = 2 /\ 2 * s + i = 2 * (p + 1)
      BY <2>3, LastPlaces
    <3>2. next[i] = two[2]
      BY <1>1, <3>1
    <3> QED
      BY <1>3, <3>1, <3>2
  <2>4. i <= l \/ i = l + 1 \/ i = l + 2
    BY UpToTwo
  <2> QED
    BY <2>1, <2>2, <2>3, <2>4
<1>5. 2 * s + Len(next) = 2 * (p + 1)
  BY <1>1, LastPlaces
<1> QED
  BY <1>1, <1>4, <1>5 DEF Answers

\* The answer is written.
WritesAnswer(c, two) ==
  /\ toClient' = [toClient EXCEPT ![c] = @ \o two]
  /\ op' = [op EXCEPT ![c] = "writing"] /\ up' = up

LEMMA DispatchAnswers ==
  ASSUME RpcInv, NEW c \in Clients, NEW k, NEW id, NEW e, Dispatches(c, k, id, e),
         e.out.does = "answer", NEW two, Halves(two, id, e.out), WritesAnswer(c, two)
  PROVE  RpcInv'
<1>0. /\ IsSeq(two) /\ Len(two) = 2 /\ \A i \in {1, 2} : two[i].id = id
      /\ toClient' = [toClient EXCEPT ![c] = toClient[c] \o two]
      /\ op' = [op EXCEPT ![c] = "writing"] /\ up' = up
  BY DEF Halves, WritesAnswer
<1>1. /\ id \in 1..Len(sent[c]) /\ Fits(c, Received(sent[c][id]), e) /\ sent[c][id] \in Calls[c]
      /\ SentOK(c)' /\ ToServerOK(c)' /\ ExecutedOK(c)' /\ Waits(c)' /\ SeenOK(c)'
      /\ Stores' /\ KvPut' /\ (\A x \in Clients : Puts(x)' = Puts(x)) /\ SentGrows
      /\ DOMAIN toServer' = Clients /\ DOMAIN executed' = Clients
      /\ \A d \in Clients : d # c => toServer'[d] = toServer[d] /\ executed'[d] = executed[d]
      /\ UNCHANGED << accepting, client, sent, seen, rushed, open >>
      /\ up /\ op[c] = "reading"
  BY DispatchFacts
<1>2. /\ Len(executed'[c]) = Len(executed[c]) + 1 /\ executed'[c][Len(executed[c]) + 1] = id
      /\ \A j \in 1..Len(executed[c]) : executed'[c][j] = executed[c][j]
  BY DispatchFacts
<1>3. ConnInv(c) /\ op \in [Clients -> Phases] /\ DOMAIN toClient = Clients
  BY DEF RpcInv, Shape
<1>4. op' \in [Clients -> Phases] /\ op'[c] = "writing" /\ \A d \in Clients : d # c => op'[d] = op[d]
  BY <1>0, <1>3 DEF Phases
<1>5. /\ toClient'[c] = toClient[c] \o two /\ DOMAIN toClient' = Clients
      /\ \A d \in Clients : d # c => toClient'[d] = toClient[d]
  BY <1>0, <1>3
<1> DEFINE old == client[c].old
           coming == toClient[c]
           p == Len(executed[c])
           s == Len(seen[c])
           stream == Stream(c)
           next == Stream(c)'
           ids == executed'[c]
<1>6. IsSeq(old) /\ IsSeq(coming)
  BY <1>3 DEF ConnInv, KeptOK
<1>7. p \in Nat /\ s \in Nat /\ Len(stream) \in Nat
  <2>1. p \in Nat /\ s \in Nat /\ IsSeq(stream)
    BY <1>3, ConnFacts
  <2> QED
    BY <2>1, SeqFacts
<1>8. Joins(next, stream, two)
  <2>1. next = old \o (coming \o two) /\ stream = old \o coming
    BY <1>1, <1>5 DEF Stream
  <2> QED
    BY <1>0, <1>6, <2>1, JoinedTwice
<1>9. KvRight(Puts(c), sent[c][id], e.out)
  BY <1>1, AnswerRight
<1>10. ids[p + 1] = id
  BY <1>2
<1>11. Len(ids) = p + 1 /\ Len(ids) \in Nat /\ p <= Len(ids) /\ \A j \in 1..p : j \in 1..Len(ids)
  BY <1>2, <1>7
<1>12. \A x, i : Answer(executed[c], sent[c], Puts(c), x, i) => Answer(ids, sent[c], Puts(c), x, i)
  BY <1>2, <1>7, <1>11, AnswerStays
<1>13. ASSUME open[c]
       PROVE  /\ 2 * s + Len(next) = 2 * (p + 1)
              /\ Answers(ids, sent[c], Puts(c), next, s)
  <2>1. 2 * s + Len(stream) = 2 * p
    BY <1>1, <1>3, <1>13 DEF ConnInv, AllAnswered
  <2>2. Answers(ids, sent[c], Puts(c), stream, s)
    BY <1>3, <1>12, <1>13 DEF ConnInv, StreamOK, Answers
  <2>3. Halves(two, ids[p + 1], e.out) /\ KvRight(Puts(c), sent[c][ids[p + 1]], e.out)
    BY <1>9, <1>10
  <2> HIDE DEF p, s, stream, next, ids
  <2> QED
    BY <1>7, <1>8, <1>11, <2>1, <2>2, <2>3, StreamGrows
<1>14. StreamOK(c)'
  BY <1>1, <1>13 DEF StreamOK, Answers
<1>15. AllAnswered(c)'
  BY <1>1, <1>11, <1>13 DEF AllAnswered
<1>16. KeptOK(c)'
  <2>1. /\ IsSeq(coming \o two) /\ Len(coming \o two) = Len(coming) + Len(two)
        /\ \A i \in 1..(Len(coming) + Len(two)) :
             (coming \o two)[i] = IF i <= Len(coming) THEN coming[i] ELSE two[i - Len(coming)]
    BY <1>0, <1>6, Joined
  <2> DEFINE l == Len(coming)
             new == coming \o two
  <2>2. l \in Nat
    BY <1>6, SeqFacts
  <2>3. IsSeq(new) /\ Len(new) = l + 2 /\ \A i \in 1..(l + 2) : new[i] = IF i <= l THEN coming[i] ELSE two[i - l]
    BY <1>0, <2>1
  <2>4. \A i \in 1..l : \E j \in 1..p : coming[i].id = executed[c][j]
    BY <1>3 DEF ConnInv, KeptOK
  <2>5. p + 1 \in 1..Len(ids)
    BY <1>7, <1>11
  <2> HIDE DEF l, new, ids
  <2>6. ASSUME NEW i \in 1..(l + 2) PROVE \E j \in 1..Len(ids) : new[i].id = ids[j]
    <3>1. CASE i <= l
      <4>1. i \in 1..l /\ new[i] = coming[i]
        BY <2>2, <2>3, <3>1
      <4>2. PICK j \in 1..p : coming[i].id = executed[c][j]
        BY <2>4, <4>1
      <4>3. j \in 1..Len(ids) /\ ids[j] = executed[c][j]
        BY <1>2, <1>11 DEF ids
      <4> QED
        BY <4>1, <4>2, <4>3
    <3>2. CASE ~(i <= l)
      <4>1. i - l \in {1, 2} /\ new[i] = two[i - l]
        BY <2>2, <2>3, <3>2
      <4>2. two[i - l].id = ids[p + 1]
        BY <1>0, <1>10, <4>1 DEF ids
      <4> QED
        BY <2>5, <4>1, <4>2
    <3> QED
      BY <3>1, <3>2
  <2>7. toClient'[c] = new
    BY <1>5 DEF new
  <2> QED
    BY <1>1, <1>3, <2>3, <2>6, <2>7 DEF ConnInv, KeptOK, ids
<1>17. ConnInv(c)'
  BY <1>1, <1>14, <1>15, <1>16 DEF ConnInv
<1>18. \A d \in Clients : d # c => Same(d)
  BY <1>1, <1>4, <1>5 DEF Same
<1>19. Shape'
  BY <1>0, <1>1, <1>4, <1>5 DEF RpcInv, Shape
<1>20. (~up' => ~up) /\ (up' => up) /\ (rushed[c] => rushed'[c]) /\ op'[c] # "deaf"
  BY <1>0, <1>1, <1>4
<1> QED
  BY <1>1, <1>17, <1>18, <1>19, <1>20, OneConn

LEMMA HandleReadKeeps ==
  ASSUME RpcInv, NEW c \in Clients, HandleRead(c)
  PROVE  RpcInv'
<1>1. PICK k \in 1..Len(toServer[c]) :
        /\ \E i \in 1..k : Parts(c, k)[i].part = "tail"
        /\ toServer' = [toServer EXCEPT ![c] = SubSeq(@, k + 1, Len(@))]
        /\ IF Text(c, Parts(c, k)) = {}
             THEN /\ op' = [op EXCEPT ![c] = "deaf"]
                  /\ UNCHANGED << up, toClient, executed, store >>
             ELSE \E e \in Process(c, Parts(c, k)) :
                    /\ Respond(c, First(c, Parts(c, k)).id, e.out)
                    /\ kv' = e.kv /\ files' = e.files
                    /\ executed' = IF BeginsWhole(c, Parts(c, k))
                         THEN [executed EXCEPT ![c] = Append(@, First(c, Parts(c, k)).id)]
                         ELSE executed
  BY DEF HandleRead, Parts
<1>2. Reads(c, k)
  <2>1. up /\ op[c] = "reading" /\ UNCHANGED << accepting, client, sent, seen, rushed, open >>
    BY DEF HandleRead
  <2> QED
    BY <1>1, <2>1 DEF Reads
<1>3. CASE Text(c, Parts(c, k)) = {}
  <2>1. op' = [op EXCEPT ![c] = "deaf"] /\ UNCHANGED << up, toClient, executed, kv, files >>
    BY <1>1, <1>3 DEF store
  <2> QED
    BY <1>2, <1>3, <2>1, ReadNothing
<1>4. CASE Text(c, Parts(c, k)) # {}
  <2> DEFINE id == First(c, Parts(c, k)).id
  <2>1. PICK e \in Process(c, Parts(c, k)) :
          /\ Respond(c, id, e.out) /\ kv' = e.kv /\ files' = e.files
          /\ executed' = IF BeginsWhole(c, Parts(c, k))
               THEN [executed EXCEPT ![c] = Append(@, id)] ELSE executed
    BY <1>1, <1>4
  <2>2. CASE ~BeginsWhole(c, Parts(c, k))
    <3>1. e = Just(Throws)
      BY <2>2 DEF Process
    <3>2. e.out = Throws /\ e.kv = kv /\ e.files = files
      BY <3>1, OutcomeFields DEF Just
    <3>3. e.out.does = "throw"
      BY <3>2 DEF Throws
    <3>4. up' = FALSE /\ UNCHANGED << op, toClient >>
      BY <2>1, <3>3 DEF Respond
    <3> QED
      BY <1>2, <2>1, <2>2, <3>2, <3>4, ReadTorn
  <2>3. CASE BeginsWhole(c, Parts(c, k))
    <3>1. Dispatches(c, k, id, e)
      BY <1>2, <1>4, <2>1, <2>3 DEF Dispatches, Executes, Process
    <3>2. Fits(c, Received(sent[c][id]), e)
      BY <3>1, DispatchFacts
    <3> HIDE DEF id
    <3>3. CASE e.out.does = "throw"
      <4>1. up' = FALSE /\ UNCHANGED << op, toClient >>
        BY <2>1, <3>3 DEF Respond
      <4> QED
        BY <3>1, <3>3, <4>1, DispatchThrows
    <3>4. CASE e.out.does = "silent"
      <4>1. op' = [op EXCEPT ![c] = "deaf"] /\ UNCHANGED << up, toClient >>
        BY <2>1, <3>4 DEF Respond
      <4> QED
        BY <3>1, <3>4, <4>1, DispatchSilent
    <3>5. CASE e.out.does = "answer"
      <4> DEFINE part(p) == [part |-> p, id |-> id, answer |-> e.out]
                 two == << part("a"), part("z") >>
      <4>1. WritesAnswer(c, two)
        BY <2>1, <3>5 DEF Respond, WritesAnswer
      <4>2. /\ part("a").part = "a" /\ part("z").part = "z" /\ part("a").id = id /\ part("z").id = id
            /\ part("a").answer = e.out /\ part("z").answer = e.out
        OBVIOUS
      <4> HIDE DEF part
      <4>3. IsSeq(two) /\ Len(two) = 2 /\ two[1] = part("a") /\ two[2] = part("z")
        BY PairIsSeq
      <4> HIDE DEF two
      <4>4. Halves(two, id, e.out)
        BY <4>2, <4>3 DEF Halves
      <4> QED
        BY <3>1, <3>5, <4>1, <4>4, DispatchAnswers
    <3> QED
      BY <3>2, <3>3, <3>4, <3>5 DEF Fits
  <2> QED
    BY <2>2, <2>3
<1> QED
  BY <1>3, <1>4
----------------------------------------------------------------------------
(* The theorems.                                                            *)

LEMMA RpcStart ==
  ASSUME Init
  PROVE  RpcInv
<1>1. ASSUME NEW c \in Clients
      PROVE  /\ sent[c] = << >> /\ toServer[c] = << >> /\ toClient[c] = << >> /\ seen[c] = << >>
             /\ executed[c] = << >> /\ client[c].old = << >> /\ ~rushed[c] /\ op[c] = "unaccepted"
  BY DEF Init
<1>2. Shape
  BY DEF Init, Shape, Phases
<1>3. Stores /\ KvPut
  BY DEF Init, Stores, KvPut
<1>4. ASSUME NEW c \in Clients PROVE ConnInv(c)
  <2>1. /\ IsSeq(sent[c]) /\ IsSeq(toServer[c]) /\ IsSeq(toClient[c]) /\ IsSeq(seen[c])
        /\ IsSeq(executed[c]) /\ IsSeq(client[c].old)
        /\ Len(sent[c]) = 0 /\ Len(toServer[c]) = 0 /\ Len(toClient[c]) = 0 /\ Len(seen[c]) = 0
        /\ Len(executed[c]) = 0 /\ Len(client[c].old) = 0
    BY <1>1, EmptyIsSeq
  <2>2. SentOK(c)
    <3>1. MaxCalls[c] \in Nat
      BY CallAssumption
    <3> QED
      BY <2>1, <3>1 DEF SentOK
  <2>3. ToServerOK(c) /\ ExecutedOK(c) /\ SeenOK(c) /\ Waits(c)
    BY <2>1 DEF ToServerOK, ExecutedOK, SeenOK, Waits, Rising
  <2>4. KeptOK(c)
    BY <1>1, <2>1 DEF KeptOK
  <2>5. Len(Stream(c)) = 0
    <3>1. Len(Stream(c)) = Len(client[c].old) + Len(toClient[c])
      BY <2>1, Joined DEF Stream
    <3> QED
      BY <2>1, <3>1
  <2>6. StreamOK(c) /\ AllAnswered(c)
    BY <2>1, <2>5 DEF StreamOK, AllAnswered
  <2> QED
    BY <2>2, <2>3, <2>4, <2>6 DEF ConnInv
<1>5. Blamed
  BY <1>1 DEF Blamed, Init
<1> QED
  BY <1>2, <1>3, <1>4, <1>5 DEF RpcInv

LEMMA RpcStutter ==
  ASSUME RpcInv, UNCHANGED vars
  PROVE  RpcInv'
<1>1. /\ UNCHANGED << up, accepting, op, executed >> /\ UNCHANGED << kv, files >>
      /\ UNCHANGED << toServer, toClient, client, sent, seen, rushed, open >>
  BY DEF vars, wire, store
<1>2. SentGrows
  BY <1>1, SentStays
<1>3. \A d \in Clients : ConnInv(d)'
  BY <1>1, <1>2, OtherConn DEF RpcInv, Same
<1>4. \A x \in Clients : Puts(x)' = Puts(x)
  BY <1>1 DEF Puts, decode_base64, validate_key, Arrives
<1>5. Shape' /\ Stores' /\ KvPut'
  BY <1>1, <1>4, StoresStay DEF RpcInv, Shape
<1>6. Blamed'
  BY <1>1, <1>2, BlamedStays DEF RpcInv
<1> QED
  BY <1>3, <1>5, <1>6 DEF RpcInv

LEMMA RpcStep ==
  ASSUME RpcInv, [Next]_vars
  PROVE  RpcInv'
<1>1. CASE AcceptFails
  BY <1>1, AcceptFailsKeeps
<1>2. ASSUME NEW c \in Clients, Accept(c) PROVE RpcInv'
  BY <1>2, AcceptKeeps
<1>3. ASSUME NEW c \in Clients, HandleRead(c) PROVE RpcInv'
  BY <1>3, HandleReadKeeps
<1>4. ASSUME NEW c \in Clients, HandleWrite(c) PROVE RpcInv'
  BY <1>4, HandleWriteKeeps
<1>5. ASSUME NEW c \in Clients, ReadError(c) PROVE RpcInv'
  BY <1>5, ReadErrorKeeps
<1>6. ASSUME NEW c \in Clients, Call(c) PROVE RpcInv'
  BY <1>6, CallKeeps
<1>7. ASSUME NEW c \in Clients, OnData(c) PROVE RpcInv'
  BY <1>7, OnDataKeeps
<1>8. ASSUME NEW c \in Clients, Close(c) PROVE RpcInv'
  BY <1>8, CloseKeeps
<1>9. CASE UNCHANGED vars
  BY <1>9, RpcStutter
<1> QED
  BY <1>1, <1>2, <1>3, <1>4, <1>5, <1>6, <1>7, <1>8, <1>9 DEF Next, ServerStep

\* The numbering of the two streams and the blame for failures are kept by
\* every step of the server and of the clients.
THEOREM RpcAlways == Spec => []RpcInv
<1>1. Init => RpcInv
  BY RpcStart
<1>2. RpcInv /\ [Next]_vars => RpcInv'
  BY RpcStep
<1> QED
  BY <1>1, <1>2, PTL DEF Spec

LEMMA IdCounted ==
  ASSUME NEW n \in Nat, NEW l \in Nat, NEW t \in Nat, t + l = 2 * n, NEW i \in 1..l, NEW id \in Nat,
         t + i = 2 * id - 1 \/ t + i = 2 * id
  PROVE  id \in 1..n
  OBVIOUS

LEMMA RpcTypes ==
  ASSUME RpcInv
  PROVE  TypeOK
<1>1. ASSUME NEW c \in Clients
      PROVE  /\ Len(sent[c]) <= MaxCalls[c]
             /\ \A i \in 1..Len(toServer[c]) : toServer[c][i].id \in 1..Len(sent[c])
             /\ \A i \in 1..Len(toClient[c]) : toClient[c][i].id \in Range(executed[c])
             /\ Len(client[c].old) <= 1
  <2>1. ConnInv(c)
    BY DEF RpcInv
  <2>2. Len(sent[c]) <= MaxCalls[c] /\ Len(client[c].old) <= 1
    BY <2>1 DEF ConnInv, SentOK, KeptOK
  <2>3. ASSUME NEW i \in 1..Len(toServer[c]) PROVE toServer[c][i].id \in 1..Len(sent[c])
    <3> DEFINE n == Len(sent[c])
               l == Len(toServer[c])
               t == Taken(c)
               id == toServer[c][i].id
    <3>1. n \in Nat /\ l \in Nat /\ t \in Nat
      BY <2>1, ConnFacts
    <3>2. t + l = 2 * n
      BY <3>1, TakenFacts
    <3>3. id \in Nat /\ (t + i = 2 * id - 1 \/ t + i = 2 * id)
      BY <2>1 DEF ConnInv, ToServerOK, Request
    <3>4. i \in 1..l
      OBVIOUS
    <3> HIDE DEF n, l, t, id
    <3>5. id \in 1..n
      BY <3>1, <3>2, <3>3, <3>4, IdCounted
    <3> QED
      BY <3>5 DEF id, n
  <2>4. ASSUME NEW i \in 1..Len(toClient[c]) PROVE toClient[c][i].id \in Range(executed[c])
    <3>1. DOMAIN executed[c] = 1..Len(executed[c])
      BY <2>1, SeqFacts DEF ConnInv, ExecutedOK
    <3>2. \E j \in 1..Len(executed[c]) : toClient[c][i].id = executed[c][j]
      BY <2>1 DEF ConnInv, KeptOK
    <3> QED
      BY <3>1, <3>2 DEF Range
  <2> QED
    BY <2>2, <2>3, <2>4
<1>2. /\ up \in BOOLEAN /\ accepting \in BOOLEAN /\ op \in [Clients -> Phases]
      /\ open \in [Clients -> BOOLEAN] /\ rushed \in [Clients -> BOOLEAN]
      /\ kv \in [Dirs -> SUBSET (Values \cup {Archive})] /\ files \subseteq Files
  BY DEF RpcInv, Shape, Stores, Contents
<1> QED
  BY <1>1, <1>2, Zenon DEF TypeOK

\* What seen holds, element by element.
LEMMA SeenFacts ==
  ASSUME RpcInv, NEW c \in Clients, NEW j \in 1..Len(seen[c])
  PROVE  /\ seen[c][j].id = executed[c][j] /\ j \in 1..Len(executed[c])
         /\ executed[c][j] \in 1..Len(sent[c]) /\ executed[c][j] # 0
         /\ KvRight(Puts(c), sent[c][seen[c][j].id], seen[c][j].answer)
<1>1. ConnInv(c)
  BY DEF RpcInv
<1>2. /\ Len(seen[c]) \in Nat /\ Len(executed[c]) \in Nat /\ Len(sent[c]) \in Nat
      /\ \A i \in 1..Len(executed[c]) : executed[c][i] \in 1..Len(sent[c])
  BY <1>1, ConnFacts
<1>3. /\ Len(seen[c]) <= Len(executed[c]) /\ seen[c][j].id = executed[c][j]
      /\ KvRight(Puts(c), sent[c][seen[c][j].id], seen[c][j].answer)
  BY <1>1 DEF ConnInv, SeenOK
<1>4. j \in 1..Len(executed[c])
  BY <1>2, <1>3
<1>5. executed[c][j] \in 1..Len(sent[c])
  BY <1>2, <1>4
<1>6. executed[c][j] # 0
  BY <1>2, <1>5
<1> QED
  BY <1>3, <1>4, <1>5, <1>6

LEMMA RpcInOrder ==
  ASSUME RpcInv
  PROVE  AnswersOnceInOrder
<1> SUFFICES ASSUME NEW c \in Clients
             PROVE  /\ Rising(executed[c])
                    /\ \A j \in 1..Len(seen[c]) : seen[c][j] # Garbled
                    /\ Rising([j \in 1..Len(seen[c]) |-> seen[c][j].id])
                    /\ \A j \in 1..Len(seen[c]) : seen[c][j].id \in Range(executed[c])
  BY DEF AnswersOnceInOrder
<1>1. ConnInv(c)
  BY DEF RpcInv
<1>2. Rising(executed[c])
  BY <1>1 DEF ConnInv, ExecutedOK
<1>3. DOMAIN executed[c] = 1..Len(executed[c]) /\ Len(seen[c]) \in Nat
  BY <1>1, SeqFacts DEF ConnInv, ExecutedOK, SeenOK
<1>4. ASSUME NEW j \in 1..Len(seen[c]) PROVE seen[c][j] # Garbled
  <2>1. seen[c][j].id # 0
    BY SeenFacts
  <2>2. Garbled.id = 0
    BY DEF Garbled
  <2> QED
    BY <2>1, <2>2
<1>5. ASSUME NEW j \in 1..Len(seen[c]) PROVE seen[c][j].id \in Range(executed[c])
  <2>1. seen[c][j].id = executed[c][j] /\ j \in 1..Len(executed[c])
    BY SeenFacts
  <2> QED
    BY <1>3, <2>1 DEF Range
<1>6. Rising([j \in 1..Len(seen[c]) |-> seen[c][j].id])
  <2> DEFINE n == Len(seen[c])
             ids == [j \in 1..n |-> seen[c][j].id]
  <2>1. Len(ids) = n
    <3>1. n \in Nat /\ ids \in [1..n -> {seen[c][j].id : j \in 1..n}]
      BY <1>3
    <3> HIDE DEF ids, n
    <3> QED
      BY <3>1, SeqDef
  <2>2. ASSUME NEW i \in 1..n, NEW j \in 1..n, i < j PROVE ids[i] < ids[j]
    <3>1. ids[i] = seen[c][i].id /\ ids[j] = seen[c][j].id
      OBVIOUS
    <3> HIDE DEF ids
    <3>2. /\ seen[c][i].id = executed[c][i] /\ i \in 1..Len(executed[c])
          /\ seen[c][j].id = executed[c][j] /\ j \in 1..Len(executed[c])
      BY SeenFacts
    <3> QED
      BY <1>2, <2>2, <3>1, <3>2 DEF Rising
  <2> HIDE DEF ids
  <2>3. Rising(ids)
    BY <2>1, <2>2 DEF Rising
  <2> QED
    BY <2>3 DEF ids
<1> QED
  BY <1>2, <1>4, <1>5, <1>6

LEMMA RpcBlame ==
  ASSUME RpcInv
  PROVE  TameClientsKeepServerUp /\ DeafOnlyByItsOwnClient
<1>1. TameClientsKeepServerUp
  <2> SUFFICES ASSUME ~up PROVE (\E c \in Clients : BadCall(c)) \/ Clashing
    BY DEF TameClientsKeepServerUp, BadCall, SomeCall, Clashing
  <2> QED
    BY DEF RpcInv, Blamed
<1>2. DeafOnlyByItsOwnClient
  BY DEF RpcInv, Blamed, MuteCall, DeafOnlyByItsOwnClient, SomeCall
<1> QED
  BY <1>1, <1>2

LEMMA RpcContents ==
  ASSUME RpcInv
  PROVE  KvContentRight
<1> SUFFICES ASSUME NEW c \in Clients, NEW j \in 1..Len(seen[c]),
                    Received(sent[c][seen[c][j].id]).method = "kv.get",
                    seen[c][j].answer.content # NoText
             PROVE  LET k == Received(sent[c][seen[c][j].id]).key
                        v == decode_base64(seen[c][j].answer.content)
                    IN  IF v = Garbage THEN Rewritten(c, k)
                        ELSE /\ Digest[v] = k
                             /\ \E e \in Clients : \E i \in 1..Len(sent[e]) :
                                  /\ sent[e][i].method = "kv.put"
                                  /\ Writes(sent[e][i], validate_key(k))
                                  /\ decode_base64(sent[e][i].value) = v
  BY DEF KvContentRight, SomeCall
<1> DEFINE r == sent[c][seen[c][j].id]
           answer == seen[c][j].answer
           v == decode_base64(answer.content)
           k == Arrives(r.key)
<1>0. Received(r).key = k /\ r.method = "kv.get"
  BY Arrived
<1>1. KvRight(Puts(c), r, answer)
  BY SeenFacts
<1>2. IF v = Garbage THEN \E p \in Puts(c) : p[3] = "other" /\ Digest[p[2]] = k
      ELSE Digest[v] = k /\ \E p \in Puts(c) : p[1] = validate_key(k) /\ p[2] = v
  BY <1>0, <1>1 DEF KvRight
<1>3. ASSUME NEW p \in Puts(c)
      PROVE  \E e \in Clients : \E i \in 1..Len(sent[e]) :
               /\ sent[e][i].method = "kv.put"
               /\ p[1] = validate_key(Arrives(sent[e][i].key))
               /\ p[2] = decode_base64(sent[e][i].value)
               /\ p[3] = IF e = c THEN "own" ELSE "other"
  BY DEF Puts
<1> HIDE DEF r, v, answer, k
<1>4. CASE v = Garbage
  <2>1. PICK p \in Puts(c) : p[3] = "other" /\ Digest[p[2]] = k
    BY <1>2, <1>4
  <2>2. Rewritten(c, k)
    BY <1>3, <2>1 DEF Rewritten
  <2> QED
    BY <1>0, <1>4, <2>2 DEF r, v, answer
<1>5. CASE v # Garbage
  <2>1. PICK p \in Puts(c) : p[1] = validate_key(k) /\ p[2] = v
    BY <1>2, <1>5
  <2>2. \E e \in Clients : \E i \in 1..Len(sent[e]) :
          /\ sent[e][i].method = "kv.put" /\ Writes(sent[e][i], validate_key(k))
          /\ decode_base64(sent[e][i].value) = v
    BY <1>3, <2>1 DEF Writes
  <2> QED
    BY <1>0, <1>2, <1>5, <2>2 DEF r, v, answer
<1> QED
  BY <1>4, <1>5

\* Parts on the wire belong to calls that were made, answers on their way to
\* requests that were executed, and rpc.js never keeps more than half an answer
\* (rpc_server.cc, rpc.js: the two buffers).
THEOREM RpcTyped == Spec => []TypeOK
  BY RpcAlways, RpcTypes, PTL

\* However TCP cuts the streams, each request is executed at most once, and
\* rpc.js parses the answers once, whole and in the order of the calls
\* (rpc.js:62-109 against rpc_server.cc:79-116).
THEOREM AnswersAlwaysInOrder == Spec => []AnswersOnceInOrder
  BY RpcAlways, RpcInOrder, PTL

\* Clients that wait for their answers, call only methods that do not throw by
\* themselves and write no directory another client uses do not end the daemon
\* (rpc_server.cc:86, ffstore.cc:93 and 169).
THEOREM TameClientsSafe == Spec => []TameClientsKeepServerUp
  BY RpcAlways, RpcBlame, PTL

\* A connection that is no longer read belongs to a client that did not wait or
\* called a method without an answer (rpc_server.cc:93 and 102).
THEOREM DeafnessIsOwn == Spec => []DeafOnlyByItsOwnClient
  BY RpcAlways, RpcBlame, PTL

\* A content kv.get delivers has the key for its digest and was put under a key
\* of the same directory, unless another client rewrites it (rpc_manager.cc:343,
\* ffstore.cc:193-200).
THEOREM KvContentsRight == Spec => []KvContentRight
  BY RpcAlways, RpcContents, PTL
============================================================================
