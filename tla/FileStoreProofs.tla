-------------------------- MODULE FileStoreProofs --------------------------
(***************************************************************************)
(* The files of the block store, for any contents, any block size and any  *)
(* number of workers: no index is left without its blocks, and a file for  *)
(* which the format works is loaded back byte for byte.                    *)
(*                                                                         *)
(* The second needs what the loop of load_file computes, a recursive       *)
(* function.  Induction is used in the form NatInductionSet, whose         *)
(* instances are sets: a set of naturals that is not empty has a least     *)
(* element (WFMin of the library).                                         *)
(***************************************************************************)
EXTENDS FileStore, SequenceTheorems, WellFoundedInduction, TLAPS

LEMMA LeastNat ==
  ASSUME NEW T, T \subseteq Nat, T # {}
  PROVE  \E x \in T : \A y \in T : x <= y
<1> DEFINE R == OpToRel(<, Nat)
<1>1. IsWellFoundedOn(R, Nat)
  BY NatLessThanWellFounded
<1>2. \A x, y \in Nat : x < y => <<x, y>> \in R
  BY DEF OpToRel
<1> HIDE DEF R
<1>3. PICK x \in T : \A y \in T : ~(<<y, x>> \in R)
  BY <1>1, WFMin
<1>4. ASSUME NEW y \in T PROVE x <= y
  <2>1. x \in Nat /\ y \in Nat
    OBVIOUS
  <2>2. ~(y < x)
    BY <1>2, <1>3, <2>1, Zenon
  <2> QED
    BY <2>1, <2>2
<1> QED
  BY <1>4

LEMMA NatInductionSet ==
  ASSUME NEW S, 0 \in S, \A n \in Nat : n \in S => n + 1 \in S
  PROVE  Nat \subseteq S
<1> DEFINE T == Nat \ S
<1> SUFFICES ASSUME T # {} PROVE FALSE
  OBVIOUS
<1> PICK x \in T : \A y \in T : x <= y
  BY LeastNat
<1>1. x # 0
  OBVIOUS
<1>2. x - 1 \in Nat /\ x - 1 \notin T /\ (x - 1) + 1 = x
  BY <1>1
<1> QED
  BY <1>2
----------------------------------------------------------------------------
(* Sizes, blocks and names.                                                 *)

Bytes == Seq(Byte)

LEMMA Division ==
  ASSUME NEW a \in Nat, NEW b \in Nat \ {0}
  PROVE  /\ a \div b \in Nat /\ (a \div b) * b <= a /\ a < ((a \div b) + 1) * b
         /\ a % b \in 0..(b - 1) /\ a % b <= a /\ (a < b => a % b = a)
<1>1. a \div b \in Nat /\ (a \div b) * b <= a /\ a < ((a \div b) + 1) * b
  OBVIOUS
<1>2. a % b \in 0..(b - 1)
  OBVIOUS
<1>3. a % b <= a
  OBVIOUS
<1>4. a < b => a % b = a
  OBVIOUS
<1> QED
  BY <1>1, <1>2, <1>3, <1>4

LEMMA Sizes ==
  ASSUME NEW f \in Bytes
  PROVE  /\ Len(f) \in Nat /\ filesize(f) \in 0..(UintLimit - 1) /\ filesize(f) <= Len(f)
         /\ Len(f) < UintLimit => filesize(f) = Len(f)
         /\ blocks(f) \in Nat \ {0} /\ blocks(f) = (filesize(f) \div BlockSize) + 1
         /\ InBlocks(f) => Len(f) > BlockSize
<1>1. Len(f) \in Nat
  BY DEF Bytes
<1>2. /\ filesize(f) \in 0..(UintLimit - 1) /\ filesize(f) <= Len(f)
      /\ Len(f) < UintLimit => filesize(f) = Len(f)
  BY <1>1, Division, SizeAssumption DEF filesize
<1>3. filesize(f) \div BlockSize \in Nat
  <2>1. filesize(f) \in Nat /\ BlockSize \in Nat \ {0}
    BY <1>2, SizeAssumption
  <2> QED
    BY <2>1, Division
<1>4. blocks(f) \in Nat \ {0} /\ blocks(f) = (filesize(f) \div BlockSize) + 1
  BY <1>3 DEF blocks
<1>5. InBlocks(f) => Len(f) > BlockSize
  BY <1>1, <1>2, SizeAssumption DEF InBlocks
<1> QED
  BY <1>1, <1>2, <1>4, <1>5

LEMMA CutOut ==
  ASSUME NEW s \in Bytes, NEW m \in Nat \ {0}, NEW n \in Int, n <= Len(s)
  PROVE  /\ SubSeq(s, m, n) \in Bytes
         /\ Len(SubSeq(s, m, n)) = IF m <= n THEN n - m + 1 ELSE 0
         /\ \A i \in 1..(n - m + 1) : SubSeq(s, m, n)[i] = s[m + i - 1]
<1>1. m \in Int /\ \A i \in m..n : s[i] \in Byte
  BY DEF Bytes
<1> QED
  BY <1>1, SubSeqProperties DEF Bytes

LEMMA Products ==
  ASSUME NEW i \in Nat \ {0}
  PROVE  /\ (i - 1) * BlockSize \in Nat /\ i * BlockSize \in Nat
         /\ i * BlockSize = (i - 1) * BlockSize + BlockSize
  BY SizeAssumption

LEMMA BlockBytesType ==
  ASSUME NEW f \in Bytes, NEW i \in Nat \ {0}
  PROVE  BlockBytes(f, i) \in Bytes
<1> DEFINE m == (i - 1) * BlockSize + 1
           n == IF i * BlockSize > Len(f) THEN Len(f) ELSE i * BlockSize
<1>1. Len(f) \in Nat
  BY DEF Bytes
<1>2. m \in Nat \ {0} /\ n \in Int /\ n <= Len(f)
  BY <1>1, Products
<1> HIDE DEF m, n
<1>3. SubSeq(f, m, n) \in Bytes
  BY <1>2, CutOut
<1> QED
  BY <1>3 DEF BlockBytes, m, n

LEMMA CStringType ==
  ASSUME NEW s \in Bytes, NEW t \in Bytes
  PROVE  CString(s, t) \in Bytes
<1>1. CASE ~HasNul(s)
  <2>1. s \o t \in Bytes
    BY ConcatProperties DEF Bytes
  <2> QED
    BY <1>1, <2>1 DEF CString
<1>2. CASE HasNul(s)
  <2> DEFINE First(i) == s[i] = 0 /\ \A j \in 1..(i - 1) : s[j] # 0
             c == CHOOSE i \in DOMAIN s : First(i)
             T == {i \in DOMAIN s : s[i] = 0}
  <2>1. DOMAIN s = 1..Len(s) /\ Len(s) \in Nat
    BY DEF Bytes
  <2>2. T # {} /\ T \subseteq Nat
    BY <1>2, <2>1 DEF HasNul
  <2>3. PICK x \in T : \A y \in T : x <= y
    BY <2>2, LeastNat
  <2>4. \E i \in DOMAIN s : First(i)
    <3>1. x \in DOMAIN s /\ s[x] = 0
      OBVIOUS
    <3>2. ASSUME NEW j \in 1..(x - 1), s[j] = 0 PROVE FALSE
      <4>1. j \in T
        BY <2>1, <3>1, <3>2
      <4> QED
        BY <2>1, <2>3, <3>1, <4>1
    <3> QED
      BY <3>1, <3>2
  <2>5. c \in DOMAIN s
    <3> HIDE DEF First
    <3> QED BY <2>4
  <2> HIDE DEF c
  <2>6. c - 1 \in Int /\ c - 1 <= Len(s)
    BY <2>1, <2>5
  <2>7. SubSeq(s, 1, c - 1) \in Bytes
    BY <2>6, CutOut
  <2> QED
    BY <1>2, <2>7 DEF CString, c
<1> QED
  BY <1>1, <1>2

LEMMA BlockIdType ==
  ASSUME NEW f \in Files, NEW i \in Nat \ {0}, NEW t \in Trails
  PROVE  BlockId(f, i, t) \in Bytes
<1>1. f \in Bytes /\ t \in Bytes
  BY ContentAssumption DEF Bytes
<1> QED
  BY <1>1, BlockBytesType, CStringType DEF BlockId

LEMMA IdsType ==
  ASSUME NEW f \in Files, NEW n \in Nat, NEW t \in Trails
  PROVE  /\ Ids(f, n, t) \in Seq(Bytes) /\ Len(Ids(f, n, t)) = n
         /\ DOMAIN Ids(f, n, t) = 1..n
         /\ \A i \in 1..n : Ids(f, n, t)[i] = BlockId(f, i, t)
<1>1. \A i \in 1..n : BlockId(f, i, t) \in Bytes
  BY BlockIdType
<1>2. Ids(f, n, t) \in [1..n -> Bytes]
  BY <1>1 DEF Ids
<1> HIDE DEF Bytes
<1>3. Ids(f, n, t) \in Seq(Bytes) /\ Len(Ids(f, n, t)) = n
  BY <1>2, SeqDef
<1> QED
  BY <1>3 DEF Ids

\* A block of a file that is kept in blocks has one of its block names; if no
\* file's content is such a name, it is not the header of a file.
LEMMA NameOfBlock ==
  ASSUME HeadersApart, NEW f \in Files, InBlocks(f), NEW i \in 1..blocks(f),
         NEW t \in Trails
  PROVE  BlockId(f, i, t) \notin Files
<1>1. f \in Bytes
  BY ContentAssumption DEF Bytes
<1>2. Len(f) > BlockSize
  BY <1>1, Sizes
<1>3. BlockId(f, i, t) \in BlockNames(f)
  BY <1>2 DEF BlockNames
<1> QED
  BY <1>3 DEF HeadersApart
----------------------------------------------------------------------------
(* What a load reads.                                                       *)

\* One round of the loop of load_file.
Round(store, ids, out, n) ==
  IF n = 0 THEN [ok |-> TRUE, bytes |-> <<>>]
  ELSE AppendBlock(out[n - 1], BytesOf(store[ids[n]]))

\* The output exists whatever the blocks hold.
LEMMA OutputEquation ==
  ASSUME NEW store, NEW ids, Len(ids) \in Nat
  PROVE  Output(store, ids) = [n \in 0..Len(ids) |-> Round(store, ids, Output(store, ids), n)]
<1> DEFINE Solves(g, m) == g = [n \in 0..m |-> Round(store, ids, g, n)]
           S == {m \in Nat : \E g : Solves(g, m)}
<1>1. 0 \in S
  <2>1. Solves([n \in 0..0 |-> [ok |-> TRUE, bytes |-> <<>>]], 0)
    BY DEF Round
  <2> QED
    BY <2>1
<1>2. ASSUME NEW m \in Nat, m \in S PROVE m + 1 \in S
  <2> PICK g : Solves(g, m)
    BY <1>2
  <2> DEFINE h == [n \in 0..(m + 1) |->
                     IF n = m + 1 THEN AppendBlock(g[m], BytesOf(store[ids[n]])) ELSE g[n]]
  <2>1. ASSUME NEW n \in 0..(m + 1) PROVE h[n] = Round(store, ids, h, n)
    <3>1. CASE n = m + 1
      BY <3>1 DEF Round
    <3>2. CASE n # m + 1
      <4>1. n \in 0..m /\ h[n] = g[n] /\ (n # 0 => n - 1 \in 0..m /\ h[n - 1] = g[n - 1])
        BY <3>2
      <4>2. g[n] = Round(store, ids, g, n)
        BY <4>1
      <4> HIDE DEF h
      <4> QED
        BY <4>1, <4>2 DEF Round
    <3> QED
      BY <3>1, <3>2
  <2>2. h = [n \in 0..(m + 1) |-> h[n]]
    OBVIOUS
  <2> HIDE DEF h
  <2>3. Solves(h, m + 1)
    BY <2>1, <2>2
  <2> HIDE DEF Solves
  <2> QED
    BY <2>3
<1>3. Nat \subseteq S
  <2> HIDE DEF S
  <2> QED
    BY <1>1, <1>2, NatInductionSet
<1>4. \E g : Solves(g, Len(ids))
  BY <1>3
<1>5. Solves(CHOOSE g : Solves(g, Len(ids)), Len(ids))
  BY <1>4, Zenon
<1> QED
  BY <1>5 DEF Output, Round

\* The first blocks of a file, put together.
Upto(f, n) == SubSeq(f, 1, n * BlockSize)

\* A full block behind the first n gives the first n + 1; the last block gives
\* the file.
LEMMA NextBlock ==
  ASSUME NEW f \in Bytes, NEW n \in Nat, n * BlockSize <= Len(f)
  PROVE  /\ (n + 1) * BlockSize <= Len(f) =>
              /\ Upto(f, n) \o BlockBytes(f, n + 1) = Upto(f, n + 1)
              /\ BlockBytes(f, n + 1) # <<>>
         /\ (n + 1) * BlockSize > Len(f) => Upto(f, n) \o BlockBytes(f, n + 1) = f
<1> DEFINE a == n * BlockSize
           l == Len(f)
           b == IF (n + 1) * BlockSize > l THEN l ELSE (n + 1) * BlockSize
           s == Upto(f, n)
           t == BlockBytes(f, n + 1)
<1>1. l \in Nat /\ a \in Nat /\ a <= l /\ (n + 1) - 1 = n
      /\ (n + 1) * BlockSize = a + BlockSize /\ BlockSize \in Nat \ {0}
  BY SizeAssumption DEF Bytes
<1>2. b \in Nat /\ a <= b /\ b <= l
  BY <1>1
<1>3. s \in Bytes /\ Len(s) = a /\ \A i \in 1..a : s[i] = f[i]
  <2> HIDE DEF a
  <2>1. /\ SubSeq(f, 1, a) \in Bytes
        /\ Len(SubSeq(f, 1, a)) = IF 1 <= a THEN a - 1 + 1 ELSE 0
        /\ \A i \in 1..(a - 1 + 1) : SubSeq(f, 1, a)[i] = f[1 + i - 1]
    BY <1>1, CutOut
  <2>2. a - 1 + 1 = a /\ \A i \in 1..a : 1 + i - 1 = i
    BY <1>1
  <2>3. Len(SubSeq(f, 1, a)) = a
    BY <1>1, <2>1
  <2> QED
    BY <2>1, <2>2, <2>3 DEF Upto, a
<1>4. t \in Bytes /\ Len(t) = b - a /\ \A i \in 1..(b - a) : t[i] = f[a + i]
  <2>0. t = SubSeq(f, a + 1, b)
    BY <1>1 DEF BlockBytes
  <2> HIDE DEF a, b, t
  <2>1. /\ SubSeq(f, a + 1, b) \in Bytes
        /\ Len(SubSeq(f, a + 1, b)) = IF a + 1 <= b THEN b - (a + 1) + 1 ELSE 0
        /\ \A i \in 1..(b - (a + 1) + 1) : SubSeq(f, a + 1, b)[i] = f[(a + 1) + i - 1]
    BY <1>1, <1>2, CutOut
  <2>2. b - (a + 1) + 1 = b - a /\ \A i \in 1..(b - a) : (a + 1) + i - 1 = a + i
    BY <1>1, <1>2
  <2>3. Len(SubSeq(f, a + 1, b)) = b - a
    BY <1>1, <1>2, <2>1
  <2> QED
    BY <2>0, <2>1, <2>2, <2>3
<1> HIDE DEF s, t, a, b
<1>5. /\ s \o t \in Bytes /\ Len(s \o t) = b
      /\ \A i \in 1..b : (s \o t)[i] = f[i]
  <2>1. /\ s \o t \in Bytes /\ Len(s \o t) = Len(s) + Len(t)
        /\ \A i \in 1..(Len(s) + Len(t)) :
             (s \o t)[i] = IF i <= Len(s) THEN s[i] ELSE t[i - Len(s)]
    <3>1. s \in Seq(Byte) /\ t \in Seq(Byte)
      BY <1>3, <1>4 DEF Bytes
    <3> QED
      BY <3>1, ConcatProperties DEF Bytes
  <2>2. Len(s) + Len(t) = b
    BY <1>1, <1>2, <1>3, <1>4
  <2>3. ASSUME NEW i \in 1..b PROVE (s \o t)[i] = f[i]
    <3>1. CASE i <= a
      BY <1>1, <1>3, <2>1, <2>2, <3>1
    <3>2. CASE ~(i <= a)
      <4>1. i - a \in 1..(b - a) /\ a + (i - a) = i
        BY <1>1, <1>2, <3>2
      <4> QED
        BY <1>3, <1>4, <2>1, <2>2, <3>2, <4>1
    <3> QED
      BY <3>1, <3>2
  <2> QED
    BY <2>1, <2>2, <2>3
<1>6. ASSUME (n + 1) * BlockSize <= l
      PROVE  s \o t = Upto(f, n + 1) /\ t # <<>>
  <2>1. b = (n + 1) * BlockSize /\ b = a + BlockSize
    BY <1>1, <1>6 DEF b
  <2>2. /\ SubSeq(f, 1, b) \in Bytes
        /\ Len(SubSeq(f, 1, b)) = IF 1 <= b THEN b - 1 + 1 ELSE 0
        /\ \A i \in 1..(b - 1 + 1) : SubSeq(f, 1, b)[i] = f[1 + i - 1]
    BY <1>2, CutOut
  <2>3. b - 1 + 1 = b /\ \A i \in 1..b : 1 + i - 1 = i
    BY <1>2
  <2>4. Len(SubSeq(f, 1, b)) = b
    BY <1>2, <2>2
  <2>5. s \o t = SubSeq(f, 1, b)
    BY <1>5, <2>2, <2>3, <2>4, SeqEqual DEF Bytes
  <2>6. Len(t) # 0
    BY <1>1, <1>4, <2>1
  <2>7. t # <<>>
    BY <2>6, EmptySeq
  <2> QED
    BY <2>1, <2>5, <2>7 DEF Upto
<1>7. ASSUME (n + 1) * BlockSize > l
      PROVE  s \o t = f
  <2>1. b = l
    BY <1>7 DEF b
  <2> QED
    BY <1>5, <2>1, SeqEqual DEF Bytes
<1>8. ~((n + 1) * BlockSize <= l) <=> (n + 1) * BlockSize > l
  BY <1>1
<1> QED
  BY <1>6, <1>7 DEF s, t

LEMMA BlockRead ==
  ASSUME NEW x, NEW b
  PROVE  /\ BytesOf(Block(b)) = b
         /\ AppendBlock([ok |-> TRUE, bytes |-> x], b).bytes = x \o b
         /\ b # <<>> => AppendBlock([ok |-> TRUE, bytes |-> x], b)
                         = [ok |-> TRUE, bytes |-> x \o b]
<1>1. Block(b).kind = "block" /\ Block(b).bytes = b
  BY DEF Block
<1>2. BytesOf(Block(b)) = b
  BY <1>1 DEF BytesOf
<1> DEFINE r == [ok |-> TRUE, bytes |-> x]
<1>3. r.ok = TRUE /\ r.bytes = x
  OBVIOUS
<1> HIDE DEF r
<1>4. AppendBlock(r, b) = [ok |-> b # <<>>, bytes |-> x \o b]
  <2>1. (r.ok /\ b # <<>>) = (b # <<>>)
    BY <1>3, Zenon
  <2>2. (IF r.ok THEN r.bytes \o b ELSE r.bytes) = x \o b
    BY <1>3
  <2> QED
    BY <2>1, <2>2, Zenon DEF AppendBlock
<1>5. ASSUME b # <<>> PROVE AppendBlock(r, b) = [ok |-> TRUE, bytes |-> x \o b]
  <2>1. (b # <<>>) = TRUE
    BY <1>5, Zenon
  <2> QED
    BY <1>4, <2>1, Zenon
<1>6. AppendBlock(r, b).bytes = x \o b
  BY <1>4
<1> QED
  BY <1>2, <1>5, <1>6, Zenon DEF r

\* Blocks with the right bytes give the file back, the empty block at the end
\* of a file of full blocks included.
LEMMA BlocksGiveFile ==
  ASSUME NEW f \in Bytes, Len(f) < UintLimit, NEW store, NEW ids,
         Len(ids) = blocks(f), DOMAIN ids = 1..blocks(f),
         \A i \in 1..blocks(f) :
           ids[i] \in DOMAIN store /\ store[ids[i]] = Block(BlockBytes(f, i))
  PROVE  ReadBlocks(store, ids) = f
<1> DEFINE m == blocks(f)  out == Output(store, ids)
           Good(n) == [ok |-> TRUE, bytes |-> Upto(f, n)]
           S == {n \in Nat : n < m => out[n] = Good(n)}
<1>1. /\ m \in Nat \ {0} /\ Len(f) \in Nat
      /\ \A n \in 0..(m - 1) : n * BlockSize <= Len(f)
      /\ m * BlockSize > Len(f)
  <2> DEFINE q == Len(f) \div BlockSize
  <2>1. m = q + 1 /\ Len(f) \in Nat /\ BlockSize \in Nat \ {0}
    BY Sizes, SizeAssumption
  <2>2. q \in Nat /\ q * BlockSize <= Len(f) /\ Len(f) < (q + 1) * BlockSize
    BY <2>1, Division
  <2> HIDE DEF q, m
  <2>3. ASSUME NEW n \in 0..(m - 1) PROVE n * BlockSize <= Len(f)
    <3>1. n \in Nat /\ n <= q
      BY <2>1, <2>2
    <3>2. n * BlockSize <= q * BlockSize
      BY <2>1, <2>2, <3>1
    <3>3. n * BlockSize \in Nat /\ q * BlockSize \in Nat
      BY <2>1, <2>2, <3>1
    <3> QED
      BY <2>1, <2>2, <3>2, <3>3
  <2>4. m * BlockSize > Len(f)
    BY <2>1, <2>2
  <2> QED
    BY <2>1, <2>2, <2>3, <2>4
<1>2. \A i \in 1..m : BytesOf(store[ids[i]]) = BlockBytes(f, i)
  BY BlockRead
<1>3. Len(ids) \in Nat /\ Len(ids) = m
  BY <1>1
<1>4. \A n \in 0..m : out[n] = Round(store, ids, out, n)
  <2>1. out = [n \in 0..Len(ids) |-> Round(store, ids, out, n)]
    BY <1>3, OutputEquation
  <2> HIDE DEF out
  <2> QED
    BY <1>3, <2>1
<1> HIDE DEF out, m
<1>5. Upto(f, 0) = <<>>
  <2>1. 0 * BlockSize = 0
    BY SizeAssumption
  <2> QED
    BY <2>1, SubSeqEmpty DEF Upto
<1>6. 0 \in S
  <2>1. out[0] = Round(store, ids, out, 0)
    BY <1>1, <1>4
  <2>2. out[0] = Good(0)
    BY <1>5, <2>1 DEF Round
  <2> QED
    BY <2>2
<1>7. ASSUME NEW n \in Nat, n \in S PROVE n + 1 \in S
  <2> SUFFICES ASSUME n + 1 < m PROVE out[n + 1] = Good(n + 1)
    OBVIOUS
  <2>1. n < m /\ n + 1 \in 0..m /\ n + 1 # 0 /\ (n + 1) - 1 = n /\ n + 1 \in 1..m
    BY <1>1
  <2>2. out[n] = Good(n)
    BY <1>7, <2>1
  <2>3. out[n + 1] = AppendBlock(out[n], BlockBytes(f, n + 1))
    BY <1>2, <1>4, <2>1 DEF Round
  <2>4. n * BlockSize <= Len(f) /\ (n + 1) * BlockSize <= Len(f)
    BY <1>1, <2>1
  <2>5. /\ Upto(f, n) \o BlockBytes(f, n + 1) = Upto(f, n + 1)
        /\ BlockBytes(f, n + 1) # <<>>
    BY <2>4, NextBlock
  <2> QED
    BY <2>2, <2>3, <2>5, BlockRead
<1>8. Nat \subseteq S
  <2> HIDE DEF S
  <2> QED
    BY <1>6, <1>7, NatInductionSet
<1>9. out[m].bytes = f
  <2>1. m - 1 \in Nat /\ m - 1 < m /\ (m - 1) + 1 = m /\ m \in 0..m /\ m # 0 /\ m \in 1..m
    BY <1>1
  <2>2. out[m - 1] = Good(m - 1)
    BY <1>8, <2>1
  <2>3. out[m] = AppendBlock(out[m - 1], BlockBytes(f, m))
    BY <1>2, <1>4, <2>1 DEF Round
  <2>4. (m - 1) * BlockSize <= Len(f)
    BY <1>1, <2>1
  <2>5. Upto(f, m - 1) \o BlockBytes(f, m) = f
    BY <1>1, <2>1, <2>4, NextBlock
  <2> QED
    BY <2>2, <2>3, <2>5, BlockRead
<1> QED
  BY <1>3, <1>9 DEF ReadBlocks, out, m

\* The header of a file for which the format works.
LEMMA HeaderGivesFile ==
  ASSUME NEW f \in Files, Sound(f), NEW t \in Trails, NEW store, f \in DOMAIN store,
         store[f] = Header(f, blocks(f), t),
         InBlocks(f) => \A i \in 1..blocks(f) :
           /\ BlockId(f, i, t) \in DOMAIN store
           /\ store[BlockId(f, i, t)] = Block(BlockBytes(f, i))
  PROVE  load_file(store, f) = f
<1>1. f \in Bytes /\ f \in Seq(Byte)
  BY ContentAssumption DEF Bytes
<1>2. Len(f) < UintLimit /\ Len(f) \in Nat /\ filesize(f) = Len(f) /\ blocks(f) \in Nat
  BY <1>1, Sizes DEF Sound
<1>3. CASE InBlocks(f)
  <2> DEFINE ids == Ids(f, blocks(f), t)
  <2>1. store[f] = Index(Len(f), ids)
    BY <1>2, <1>3 DEF Header
  <2>2. /\ store[f].kind = "index" /\ store[f].size = Len(f) /\ store[f].ids = ids
    BY <2>1 DEF Index
  <2>3. ~(Len(f) <= BlockSize - UintSize)
    BY <1>2, <1>3, SizeAssumption DEF InBlocks
  <2>4. /\ Len(ids) = blocks(f) /\ DOMAIN ids = 1..blocks(f)
        /\ \A i \in 1..blocks(f) : ids[i] = BlockId(f, i, t)
    BY <1>2, IdsType
  <2>5. load_file(store, f) = ReadBlocks(store, ids)
    <3> HIDE DEF ids
    <3> QED BY <2>2, <2>3 DEF load_file
  <2> HIDE DEF ids
  <2>6. \A i \in 1..blocks(f) :
          ids[i] \in DOMAIN store /\ store[ids[i]] = Block(BlockBytes(f, i))
    BY <1>3, <2>4
  <2>7. ReadBlocks(store, ids) = f
    BY <1>1, <1>2, <2>4, <2>6, BlocksGiveFile
  <2> QED
    BY <2>5, <2>7
<1>4. CASE ~InBlocks(f)
  <2>1. Len(f) <= BlockSize - UintSize
    BY <1>2, <1>4, SizeAssumption DEF InBlocks, Sound
  <2>2. store[f] = Inline(Len(f), f)
    BY <1>2, <1>4 DEF Header
  <2>3. /\ store[f].kind = "inline" /\ store[f].size = Len(f) /\ store[f].bytes = f
    BY <2>2 DEF Inline
  <2>4. load_file(store, f) = SubSeq(f, 1, Len(f))
    BY <1>2, <2>1, <2>3 DEF load_file
  <2> QED
    BY <1>1, <2>4, SubSeqFull
<1> QED
  BY <1>3, <1>4
----------------------------------------------------------------------------
(* The directory and the workers.                                           *)

EntryOK(e) ==
  /\ e \in [kind : {"inline", "index", "block"}, size : 0..(UintLimit - 1),
            bytes : Bytes, ids : Seq(Bytes)]
  /\ Len(e.ids) <= (e.size \div BlockSize) + 1

Jobs == [at : {"header", "block", "write", "close"}, file : Files, n : Nat,
         trail : Trails, lost : SUBSET Files]

\* Where a worker is and how many blocks it has written fit together.
JobOK(j) ==
  \/ j = NoJob
  \/ /\ j \in Jobs /\ j.n <= blocks(j.file)
     /\ j.at = "header" => j.n = 0 /\ j.lost = {}
     /\ j.at \in {"block", "write"} => InBlocks(j.file) /\ j.n < blocks(j.file)
     /\ j.at = "close" /\ InBlocks(j.file) => j.n = blocks(j.file)

StoreInv ==
  /\ unique = [x \in DOMAIN unique |-> unique[x]]
  /\ \A x \in DOMAIN unique : EntryOK(unique[x])
  /\ job = [w \in Workers |-> job[w]]
  /\ \A w \in Workers : JobOK(job[w])
  /\ stores \in 0..MaxStores /\ stored \subseteq Files /\ failed \subseteq Files

LEMMA FileFacts ==
  ASSUME NEW f \in Files
  PROVE  /\ f \in Bytes /\ Len(f) \in Nat /\ blocks(f) \in Nat \ {0}
         /\ filesize(f) \in 0..(UintLimit - 1)
         /\ blocks(f) = (filesize(f) \div BlockSize) + 1
<1>1. f \in Bytes
  BY ContentAssumption DEF Bytes
<1> QED
  BY <1>1, Sizes

\* A worker in a call: its job is a record of the fields the steps use.
LEMMA InCall ==
  ASSUME StoreInv, NEW w \in Workers, job[w].at \in {"header", "block", "write", "close"}
  PROVE  /\ job[w] \in Jobs /\ job[w].file \in Files /\ job[w].n \in Nat
         /\ job[w].trail \in Trails /\ job[w].lost \subseteq Files
         /\ job[w].n <= blocks(job[w].file)
         /\ job[w].at = "header" => job[w].n = 0 /\ job[w].lost = {}
         /\ job[w].at \in {"block", "write"} =>
              InBlocks(job[w].file) /\ job[w].n < blocks(job[w].file)
         /\ job[w].at = "close" /\ InBlocks(job[w].file) => job[w].n = blocks(job[w].file)
<1>1. NoJob.at = "idle"
  BY DEF NoJob
<1>2. job[w] # NoJob
  BY <1>1
<1>3. JobOK(job[w])
  BY DEF StoreInv
<1>4. job[w] \in Jobs
  BY <1>2, <1>3 DEF JobOK
<1>5. /\ job[w].file \in Files /\ job[w].n \in Nat
      /\ job[w].trail \in Trails /\ job[w].lost \subseteq Files
  BY <1>4 DEF Jobs
<1> QED
  BY <1>2, <1>3, <1>4, <1>5 DEF JobOK

\* The job of one worker changes.
Moves(w, j) ==
  /\ job' = [x \in Workers |-> job'[x]]
  /\ \A x \in Workers : job'[x] = IF x = w THEN j ELSE job[x]

LEMMA JobSet ==
  ASSUME StoreInv, NEW w \in Workers, NEW j, job' = [job EXCEPT ![w] = j]
  PROVE  Moves(w, j)
<1>1. job = [x \in Workers |-> job[x]]
  BY DEF StoreInv
<1> QED
  BY <1>1 DEF Moves

\* The directory is the old one with e under the name id.
Wrote(id, e) ==
  /\ unique' = [x \in DOMAIN unique' |-> unique'[x]]
  /\ DOMAIN unique' = DOMAIN unique \cup {id}
  /\ unique'[id] = e
  /\ \A x \in DOMAIN unique : x # id => unique'[x] = unique[x]

LEMMA Written ==
  ASSUME NEW id, NEW e, unique' = WriteFile(unique, id, e)
  PROVE  Wrote(id, e)
  BY DEF WriteFile, Wrote

LEMMA Flushed ==
  ASSUME NEW w \in Workers, NEW id, NEW e, Flush(w, id, e)
  PROVE  /\ id \in job[w].lost => unique' = unique
         /\ id \notin job[w].lost => Wrote(id, e)
  BY Written DEF Flush

LEMMA EntriesOK ==
  ASSUME NEW f \in Files, NEW b \in Bytes, NEW n \in Nat, n <= blocks(f), NEW t \in Trails
  PROVE  /\ EntryOK(Block(b)) /\ EntryOK(Inline(filesize(f), b))
         /\ EntryOK(Header(f, n, t))
<1>1. /\ <<>> \in Bytes /\ <<>> \in Seq(Bytes) /\ Len(<<>>) = 0
      /\ f \in Bytes /\ filesize(f) \in 0..(UintLimit - 1) /\ 0 \in 0..(UintLimit - 1)
      /\ blocks(f) = (filesize(f) \div BlockSize) + 1
  <2>1. <<>> \in Bytes /\ <<>> \in Seq(Bytes) /\ Len(<<>>) = 0
    BY EmptySeq DEF Bytes
  <2> QED
    BY <2>1, FileFacts, SizeAssumption
<1>2. \A s \in 0..(UintLimit - 1) : 0 <= (s \div BlockSize) + 1
  <2> SUFFICES ASSUME NEW s \in 0..(UintLimit - 1) PROVE 0 <= (s \div BlockSize) + 1
    OBVIOUS
  <2>1. s \in Nat /\ BlockSize \in Nat \ {0}
    BY SizeAssumption
  <2>2. s \div BlockSize \in Nat
    BY <2>1, Division
  <2> QED
    BY <2>2
<1> HIDE DEF Bytes
<1>3. EntryOK(Block(b))
  BY <1>1, <1>2 DEF EntryOK, Block
<1>4. \A c \in Bytes : EntryOK(Inline(filesize(f), c))
  BY <1>1, <1>2 DEF EntryOK, Inline
<1>5. Ids(f, n, t) \in Seq(Bytes) /\ Len(Ids(f, n, t)) = n
  BY IdsType
<1>6. EntryOK(Index(filesize(f), Ids(f, n, t)))
  BY <1>1, <1>5 DEF EntryOK, Index
<1> QED
  BY <1>1, <1>3, <1>4, <1>6 DEF Header

\* One worker moves and at most one file is written.
LEMMA WriterKeeps ==
  ASSUME StoreInv, NEW w \in Workers, NEW j, JobOK(j), Moves(w, j),
         unique' = unique \/ (\E id, e : EntryOK(e) /\ Wrote(id, e)),
         stores' \in 0..MaxStores, stored' \subseteq Files, failed' \subseteq Files
  PROVE  StoreInv'
<1>1. unique' = [x \in DOMAIN unique' |-> unique'[x]] /\ \A x \in DOMAIN unique' : EntryOK(unique'[x])
  <2>1. CASE unique' = unique
    BY <2>1 DEF StoreInv
  <2>2. ASSUME NEW id, NEW e, EntryOK(e), Wrote(id, e)
        PROVE  /\ unique' = [x \in DOMAIN unique' |-> unique'[x]]
               /\ \A x \in DOMAIN unique' : EntryOK(unique'[x])
    BY <2>2 DEF StoreInv, Wrote
  <2> QED
    BY <2>1, <2>2
<1>2. job' = [x \in Workers |-> job'[x]] /\ \A x \in Workers : JobOK(job'[x])
  BY DEF StoreInv, Moves
<1> QED
  BY <1>1, <1>2 DEF StoreInv

\* The worker goes on with its call.
Stage(w, at, n, lost) ==
  /\ job' = [x \in Workers |-> job'[x]]
  /\ \A x \in Workers : x # w => job'[x] = job[x]
  /\ job'[w] \in Jobs /\ JobOK(job'[w])
  /\ job'[w].at = at /\ job'[w].file = job[w].file /\ job'[w].trail = job[w].trail
  /\ job'[w].n = n /\ job'[w].lost = lost

\* The worker ends its call.
Ends(w) ==
  /\ job' = [x \in Workers |-> job'[x]]
  /\ \A x \in Workers : x # w => job'[x] = job[x]
  /\ job'[w] = NoJob

LEMMA StagedMoves ==
  ASSUME NEW w \in Workers, NEW j, Moves(w, j)
  PROVE  /\ job' = [x \in Workers |-> job'[x]]
         /\ \A x \in Workers : x # w => job'[x] = job[x]
         /\ job'[w] = j
  BY DEF Moves

LEMMA StoreNewDoes ==
  ASSUME StoreInv, NEW w \in Workers, NEW f \in Files, StoreNew(w, f)
  PROVE  /\ job' = [x \in Workers |-> job'[x]]
         /\ \A x \in Workers : x # w => job'[x] = job[x]
         /\ job'[w] \in Jobs /\ JobOK(job'[w]) /\ job'[w].at = "header"
         /\ UNCHANGED <<unique, stored, failed>> /\ stores' \in 0..MaxStores
         /\ job[w].at = "idle"
<1>1. PICK t \in Trails : job' = [job EXCEPT ![w] = Started(f, t)]
  BY DEF StoreNew
<1>2. Moves(w, Started(f, t))
  BY <1>1, JobSet
<1>3. Started(f, t) \in Jobs /\ Started(f, t).at = "header" /\ Started(f, t).n = 0
      /\ Started(f, t).lost = {} /\ Started(f, t).file = f
  BY DEF Started, Jobs
<1>4. JobOK(Started(f, t))
  BY <1>3, FileFacts DEF JobOK
<1>5. stores' \in 0..MaxStores
  BY SizeAssumption DEF StoreNew, StoreInv
<1> QED
  BY <1>2, <1>3, <1>4, <1>5, StagedMoves DEF StoreNew, At

LEMMA OpenHeaderDoes ==
  ASSUME StoreInv, NEW w \in Workers, OpenHeader(w)
  PROVE  /\ job[w].at = "header" /\ job[w].file \in Files /\ Wrote(job[w].file, Block(<<>>))
         /\ Stage(w, IF InBlocks(job[w].file) THEN "block" ELSE "close", 0, {})
         /\ UNCHANGED <<stores, stored, failed>>
<1> DEFINE a == IF InBlocks(job[w].file) THEN "block" ELSE "close"
           j == [job[w] EXCEPT !.at = a]
<1>1. job[w].at = "header"
  BY DEF OpenHeader, At
<1>2. /\ job[w] \in Jobs /\ job[w].file \in Files /\ job[w].n = 0 /\ job[w].lost = {}
  BY <1>1, InCall
<1>3. a \in {"block", "close"} /\ (a = "block" <=> InBlocks(job[w].file))
  OBVIOUS
<1>4. /\ Wrote(job[w].file, Block(<<>>)) /\ job' = [job EXCEPT ![w] = j]
      /\ UNCHANGED <<stores, stored, failed>>
  BY Written DEF OpenHeader
<1> HIDE DEF a
<1>5. /\ j \in Jobs /\ j.at = a /\ j.file = job[w].file /\ j.trail = job[w].trail
      /\ j.n = 0 /\ j.lost = {}
  BY <1>2, <1>3 DEF Jobs
<1> HIDE DEF j
<1>6. JobOK(j)
  BY <1>2, <1>3, <1>5, FileFacts DEF JobOK
<1>7. Stage(w, a, 0, {})
  BY <1>4, <1>5, <1>6, JobSet, StagedMoves DEF Stage
<1> QED
  BY <1>1, <1>2, <1>4, <1>7 DEF a

LEMMA OpenBlockDoes ==
  ASSUME StoreInv, NEW w \in Workers, OpenBlock(w)
  PROVE  /\ job[w].at = "block" /\ Wrote(NextId(w), Block(<<>>))
         /\ Stage(w, "write", job[w].n, job[w].lost \ {NextId(w)})
         /\ UNCHANGED <<stores, stored, failed>>
<1> DEFINE j == [job[w] EXCEPT !.at = "write", !.lost = @ \ {NextId(w)}]
<1>1. job[w].at = "block"
  BY DEF OpenBlock, At
<1>2. /\ job[w] \in Jobs /\ job[w].n \in Nat /\ job[w].lost \subseteq Files
      /\ job[w].n <= blocks(job[w].file)
      /\ InBlocks(job[w].file) /\ job[w].n < blocks(job[w].file)
  BY <1>1, InCall
<1>3. job = [x \in Workers |-> job[x]]
  BY DEF StoreInv
<1>4. /\ Wrote(NextId(w), Block(<<>>)) /\ UNCHANGED <<stores, stored, failed>>
  BY Written DEF OpenBlock
<1>5. job' = [job EXCEPT ![w] = j]
  BY <1>2, <1>3 DEF OpenBlock, Jobs
<1>6. /\ j \in Jobs /\ j.at = "write" /\ j.file = job[w].file /\ j.trail = job[w].trail
      /\ j.n = job[w].n /\ j.lost = job[w].lost \ {NextId(w)}
  BY <1>2 DEF Jobs
<1> HIDE DEF j
<1>7. JobOK(j)
  BY <1>2, <1>6 DEF JobOK
<1> QED
  BY <1>1, <1>4, <1>5, <1>6, <1>7, JobSet, StagedMoves DEF Stage

LEMMA WriteBlockDoes ==
  ASSUME StoreInv, NEW w \in Workers, WriteBlock(w)
  PROVE  /\ job[w].at = "write"
         /\ Flush(w, NextId(w), Block(BlockBytes(job[w].file, job[w].n + 1)))
         /\ \E a \in {"block", "close"} : Stage(w, a, job[w].n + 1, job[w].lost)
         /\ UNCHANGED <<stores, stored, failed>>
<1> DEFINE f == job[w].file  n == job[w].n
           a == IF n + 1 < blocks(f) THEN "block" ELSE "close"
           j == [job[w] EXCEPT !.n = @ + 1, !.at = a]
<1>1. job[w].at = "write"
  BY DEF WriteBlock, At
<1>2. /\ job[w] \in Jobs /\ n \in Nat /\ job[w].lost \subseteq Files /\ f \in Files
      /\ InBlocks(f) /\ n < blocks(f) /\ blocks(f) \in Nat
  BY <1>1, InCall, FileFacts
<1>3. job = [x \in Workers |-> job[x]]
  BY DEF StoreInv
<1>4. /\ Flush(w, NextId(w), Block(BlockBytes(f, n + 1)))
      /\ UNCHANGED <<stores, stored, failed>>
  BY DEF WriteBlock
<1>5. job' = [job EXCEPT ![w] = j]
  BY <1>2, <1>3 DEF WriteBlock, Jobs
<1>6. a \in {"block", "close"} /\ (a = "block" <=> n + 1 < blocks(f))
  OBVIOUS
<1> HIDE DEF a
<1>7. /\ j \in Jobs /\ j.at = a /\ j.file = f /\ j.trail = job[w].trail
      /\ j.n = n + 1 /\ j.lost = job[w].lost
  <2> DEFINE m == n + 1
  <2>1. m \in Nat
    BY <1>2
  <2>2. j = [job[w] EXCEPT !.n = m, !.at = a]
    OBVIOUS
  <2> HIDE DEF m, j
  <2>3. /\ j \in Jobs /\ j.at = a /\ j.file = job[w].file /\ j.trail = job[w].trail
        /\ j.n = m /\ j.lost = job[w].lost
    <3>1. job[w] \in Jobs
      BY <1>2
    <3> HIDE DEF f, n
    <3> QED
      BY <1>6, <2>1, <2>2, <3>1 DEF Jobs
  <2> QED
    BY <2>3 DEF m
<1> HIDE DEF j
<1>8. JobOK(j)
  BY <1>2, <1>6, <1>7 DEF JobOK
<1>9. Stage(w, a, n + 1, job[w].lost)
  BY <1>5, <1>7, <1>8, JobSet, StagedMoves DEF Stage
<1> QED
  BY <1>1, <1>4, <1>6, <1>9

LEMMA CloseHeaderDoes ==
  ASSUME StoreInv, NEW w \in Workers, CloseHeader(w)
  PROVE  /\ job[w].at = "close"
         /\ Flush(w, job[w].file, Header(job[w].file, job[w].n, job[w].trail))
         /\ Ends(w) /\ stored' = stored \cup {job[w].file} /\ UNCHANGED <<stores, failed>>
  BY JobSet, StagedMoves DEF CloseHeader, Return, At, Ends

\* The three ways a store fails.
LEMMA StoreFailsDoes ==
  ASSUME StoreInv, NEW w \in Workers, StoreFails(w)
  PROVE  /\ Ends(w) /\ UNCHANGED <<stores, stored>>
         /\ \/ job[w].at = "header" /\ UNCHANGED <<unique, failed>>
            \/ /\ job[w].at \in {"block", "close"} /\ failed' = failed \cup {job[w].file}
               /\ \/ Flush(w, job[w].file, Inline(filesize(job[w].file), <<>>))
                  \/ Flush(w, job[w].file, Header(job[w].file, job[w].n, job[w].trail))
               /\ job[w].at = "close" =>
                    Flush(w, job[w].file, Inline(filesize(job[w].file), <<>>))
  BY JobSet, StagedMoves DEF StoreFails, At, Ends

LEMMA RemoveDoes ==
  ASSUME StoreInv, NEW f \in Files, Remove(f)
  PROVE  /\ f \in DOMAIN unique /\ unique' = [x \in DOMAIN unique' |-> unique'[x]]
         /\ DOMAIN unique' = DOMAIN unique \ {f}
         /\ \A x \in DOMAIN unique' : unique'[x] = unique[x]
         /\ job' = [w \in Workers |-> job'[w]]
         /\ \A w \in Workers :
              \/ job'[w] = job[w] /\ w \notin Open(f)
              \/ /\ w \in Open(f) /\ job[w].at \in {"block", "write", "close"}
                 /\ job'[w] \in Jobs /\ job'[w].lost = job[w].lost \cup {f}
                 /\ job'[w].at = job[w].at /\ job'[w].file = job[w].file
                 /\ job'[w].n = job[w].n /\ job'[w].trail = job[w].trail
         /\ stored' = stored \ {f} /\ UNCHANGED stores
         /\ failed' = IF Storing(f) THEN failed \cup {f} ELSE failed \ {f}
<1>1. /\ f \in DOMAIN unique /\ unique' = [x \in DOMAIN unique \ {f} |-> unique[x]]
      /\ job' = [w \in Workers |->
           IF w \in Open(f) THEN [job[w] EXCEPT !.lost = @ \cup {f}] ELSE job[w]]
      /\ stored' = stored \ {f} /\ UNCHANGED stores
      /\ failed' = IF Storing(f) THEN failed \cup {f} ELSE failed \ {f}
  BY DEF Remove
<1>2. ASSUME NEW w \in Workers
      PROVE  \/ job'[w] = job[w] /\ w \notin Open(f)
             \/ /\ w \in Open(f) /\ job[w].at \in {"block", "write", "close"}
                /\ job'[w] \in Jobs /\ job'[w].lost = job[w].lost \cup {f}
                /\ job'[w].at = job[w].at /\ job'[w].file = job[w].file
                /\ job'[w].n = job[w].n /\ job'[w].trail = job[w].trail
  <2>1. CASE w \notin Open(f)
    BY <1>1, <2>1
  <2>2. CASE w \in Open(f)
    <3>1. job[w].at \in {"block", "write", "close"}
      BY <2>2 DEF Open, HasHeader
    <3>2. job[w] \in Jobs /\ job[w].lost \subseteq Files
      BY <3>1, InCall
    <3>3. job'[w] = [job[w] EXCEPT !.lost = @ \cup {f}]
      BY <1>1, <2>2
    <3>4. /\ job'[w] \in Jobs /\ job'[w].lost = job[w].lost \cup {f}
          /\ job'[w].at = job[w].at /\ job'[w].file = job[w].file
          /\ job'[w].n = job[w].n /\ job'[w].trail = job[w].trail
      BY <3>2, <3>3 DEF Jobs
    <3> QED
      BY <2>2, <3>1, <3>4
  <2> QED
    BY <2>1, <2>2
<1>3. /\ unique' = [x \in DOMAIN unique' |-> unique'[x]]
      /\ DOMAIN unique' = DOMAIN unique \ {f}
      /\ \A x \in DOMAIN unique' : unique'[x] = unique[x]
  BY <1>1
<1>4. job' = [w \in Workers |-> job'[w]]
  BY <1>1
<1> QED
  BY <1>1, <1>2, <1>3, <1>4
----------------------------------------------------------------------------
LEMMA StoreStart == Init => StoreInv
<1> SUFFICES ASSUME Init PROVE StoreInv
  OBVIOUS
<1>1. DOMAIN unique = {} /\ unique = [x \in DOMAIN unique |-> unique[x]]
  BY DEF Init
<1>2. job = [w \in Workers |-> job[w]] /\ \A w \in Workers : JobOK(job[w])
  BY DEF Init, JobOK
<1>3. stores \in 0..MaxStores /\ stored \subseteq Files /\ failed \subseteq Files
  BY SizeAssumption DEF Init
<1> QED
  BY <1>1, <1>2, <1>3 DEF StoreInv

LEMMA NextIdType ==
  ASSUME StoreInv, NEW w \in Workers, job[w].at \in {"block", "write"}
  PROVE  /\ job[w].n + 1 \in 1..blocks(job[w].file)
         /\ BlockBytes(job[w].file, job[w].n + 1) \in Bytes
<1>1. /\ job[w].file \in Files /\ job[w].n \in Nat /\ job[w].n < blocks(job[w].file)
  BY InCall
<1>2. job[w].file \in Bytes /\ blocks(job[w].file) \in Nat
  BY <1>1, FileFacts
<1>3. job[w].n + 1 \in 1..blocks(job[w].file) /\ job[w].n + 1 \in Nat \ {0}
  BY <1>1, <1>2
<1> QED
  BY <1>2, <1>3, BlockBytesType

\* What a step of a worker writes and where it leaves the worker.
LEMMA StoreStep == StoreInv /\ [Next]_vars => StoreInv'
<1> SUFFICES ASSUME StoreInv, [Next]_vars PROVE StoreInv'
  OBVIOUS
<1>types. stores \in 0..MaxStores /\ stored \subseteq Files /\ failed \subseteq Files
  BY DEF StoreInv
<1>empty. <<>> \in Bytes
  BY EmptySeq DEF Bytes
<1>1. UNCHANGED vars => StoreInv'
  BY DEF vars, StoreInv
<1>2. ASSUME NEW w \in Workers, NEW f \in Files, StoreKnown(w, f) PROVE StoreInv'
  BY <1>2 DEF StoreKnown, StoreInv
<1>3. ASSUME NEW w \in Workers, NEW f \in Files, StoreNew(w, f) PROVE StoreInv'
  <2>1. Moves(w, job'[w]) /\ JobOK(job'[w])
    BY <1>3, StoreNewDoes DEF Moves
  <2>2. /\ UNCHANGED <<unique, stored, failed>> /\ stores' \in 0..MaxStores
    BY <1>3, StoreNewDoes
  <2> QED
    BY <1>types, <2>1, <2>2, WriterKeeps
<1>stage. ASSUME NEW w \in Workers, NEW at, NEW n, NEW lost, Stage(w, at, n, lost),
                 unique' = unique \/ (\E id, e : EntryOK(e) /\ Wrote(id, e)),
                 UNCHANGED <<stores, stored, failed>>
          PROVE  StoreInv'
  <2>1. Moves(w, job'[w]) /\ JobOK(job'[w])
    BY <1>stage DEF Stage, Moves
  <2> QED
    BY <1>types, <1>stage, <2>1, WriterKeeps
<1>4. ASSUME NEW w \in Workers, OpenHeader(w) PROVE StoreInv'
  <2>1. PICK at : Stage(w, at, 0, {})
    BY <1>4, OpenHeaderDoes
  <2>2. Wrote(job[w].file, Block(<<>>)) /\ UNCHANGED <<stores, stored, failed>>
    BY <1>4, OpenHeaderDoes
  <2>3. EntryOK(Block(<<>>))
    <3>1. job[w].at = "header"
      BY <1>4, OpenHeaderDoes
    <3>2. job[w].file \in Files /\ job[w].n \in Nat /\ job[w].trail \in Trails /\ job[w].n <= blocks(job[w].file)
      BY <3>1, InCall
    <3> QED
      BY <1>empty, <3>2, EntriesOK
  <2> QED
    BY <1>stage, <2>1, <2>2, <2>3
<1>5. ASSUME NEW w \in Workers, OpenBlock(w) PROVE StoreInv'
  <2>1. /\ Stage(w, "write", job[w].n, job[w].lost \ {NextId(w)}) /\ job[w].at = "block"
        /\ Wrote(NextId(w), Block(<<>>)) /\ UNCHANGED <<stores, stored, failed>>
    BY <1>5, OpenBlockDoes
  <2>2. EntryOK(Block(<<>>))
    <3>1. job[w].file \in Files /\ job[w].n \in Nat /\ job[w].trail \in Trails /\ job[w].n <= blocks(job[w].file)
      BY <2>1, InCall
    <3> QED
      BY <1>empty, <3>1, EntriesOK
  <2> QED
    BY <1>stage, <2>1, <2>2
<1>6. ASSUME NEW w \in Workers, WriteBlock(w) PROVE StoreInv'
  <2> DEFINE e == Block(BlockBytes(job[w].file, job[w].n + 1))
  <2>1. job[w].at = "write" /\ Flush(w, NextId(w), e) /\ UNCHANGED <<stores, stored, failed>>
    BY <1>6, WriteBlockDoes
  <2>2. PICK at : Stage(w, at, job[w].n + 1, job[w].lost)
    BY <1>6, WriteBlockDoes
  <2>3. EntryOK(e)
    <3>1. job[w].file \in Files /\ job[w].n \in Nat /\ job[w].trail \in Trails /\ job[w].n <= blocks(job[w].file)
      BY <2>1, InCall
    <3>2. BlockBytes(job[w].file, job[w].n + 1) \in Bytes
      BY <2>1, NextIdType
    <3> QED
      BY <3>1, <3>2, EntriesOK
  <2> HIDE DEF e
  <2>4. unique' = unique \/ Wrote(NextId(w), e)
    BY <2>1, Flushed
  <2> QED
    BY <1>stage, <2>1, <2>2, <2>3, <2>4
<1>ends. ASSUME NEW w \in Workers, Ends(w), job[w].at \in {"header", "block", "write", "close"},
                \/ unique' = unique
                \/ Flush(w, job[w].file, Inline(filesize(job[w].file), <<>>))
                \/ Flush(w, job[w].file, Header(job[w].file, job[w].n, job[w].trail)),
                stores' = stores, stored' \subseteq Files, failed' \subseteq Files
         PROVE  StoreInv'
  <2> DEFINE f == job[w].file
             e == Inline(filesize(f), <<>>)
             h == Header(f, job[w].n, job[w].trail)
  <2>1. Moves(w, NoJob) /\ JobOK(NoJob)
    BY <1>ends DEF Ends, Moves, JobOK
  <2>2. f \in Files /\ job[w].n \in Nat /\ job[w].trail \in Trails /\ job[w].n <= blocks(f)
    BY <1>ends, InCall
  <2>3. EntryOK(e) /\ EntryOK(h)
    BY <1>empty, <2>2, EntriesOK
  <2>4. unique' = unique \/ Flush(w, f, e) \/ Flush(w, f, h)
    BY <1>ends
  <2> HIDE DEF e, h
  <2>5. unique' = unique \/ Wrote(f, e) \/ Wrote(f, h)
    BY <2>4, Flushed
  <2>6. unique' = unique \/ (\E id, x : EntryOK(x) /\ Wrote(id, x))
    BY <2>3, <2>5
  <2> QED
    BY <1>types, <1>ends, <2>1, <2>6, WriterKeeps
<1>7. ASSUME NEW w \in Workers, CloseHeader(w) PROVE StoreInv'
  <2>1. /\ job[w].at = "close"
        /\ Flush(w, job[w].file, Header(job[w].file, job[w].n, job[w].trail))
        /\ Ends(w) /\ stored' = stored \cup {job[w].file} /\ UNCHANGED <<stores, failed>>
    BY <1>7, CloseHeaderDoes
  <2>2. job[w].file \in Files
    BY <2>1, InCall
  <2> QED
    BY <1>types, <1>ends, <2>1, <2>2
<1>8. ASSUME NEW w \in Workers, StoreFails(w) PROVE StoreInv'
  <2>1. Ends(w) /\ UNCHANGED <<stores, stored>>
    BY <1>8, StoreFailsDoes
  <2>2. job[w].at \in {"header", "block", "close"}
    BY <1>8, StoreFailsDoes
  <2>3. job[w].file \in Files
    BY <2>2, InCall
  <2>4. failed' \subseteq Files
    BY <1>8, <1>types, <2>3, StoreFailsDoes
  <2>5. \/ unique' = unique
        \/ Flush(w, job[w].file, Inline(filesize(job[w].file), <<>>))
        \/ Flush(w, job[w].file, Header(job[w].file, job[w].n, job[w].trail))
    BY <1>8, StoreFailsDoes
  <2> QED
    BY <1>types, <1>ends, <2>1, <2>2, <2>4, <2>5
<1>9. ASSUME NEW f \in Files, Remove(f) PROVE StoreInv'
  <2>1. /\ unique' = [x \in DOMAIN unique' |-> unique'[x]]
        /\ DOMAIN unique' \subseteq DOMAIN unique
        /\ \A x \in DOMAIN unique' : unique'[x] = unique[x]
        /\ job' = [w \in Workers |-> job'[w]]
    BY <1>9, RemoveDoes
  <2>2. ASSUME NEW w \in Workers PROVE JobOK(job'[w])
    <3>1. CASE job'[w] = job[w]
      BY <3>1 DEF StoreInv
    <3>2. CASE job'[w] # job[w]
      <4>1. /\ job[w].at \in {"block", "write", "close"} /\ job'[w] \in Jobs
            /\ job'[w].at = job[w].at /\ job'[w].file = job[w].file
            /\ job'[w].n = job[w].n
        BY <1>9, <3>2, RemoveDoes
      <4>2. /\ job[w].n <= blocks(job[w].file)
            /\ job[w].at \in {"block", "write"} =>
                 InBlocks(job[w].file) /\ job[w].n < blocks(job[w].file)
            /\ job[w].at = "close" /\ InBlocks(job[w].file) => job[w].n = blocks(job[w].file)
        BY <4>1, InCall
      <4> QED
        BY <4>1, <4>2 DEF JobOK
    <3> QED
      BY <3>1, <3>2
  <2>3. stores' = stores /\ stored' \subseteq Files /\ failed' \subseteq Files
    <3>1. stores' = stores /\ stored' = stored \ {f}
      BY <1>9, RemoveDoes
    <3>2. failed' = IF Storing(f) THEN failed \cup {f} ELSE failed \ {f}
      BY <1>9, RemoveDoes
    <3> QED
      BY <1>types, <3>1, <3>2
  <2> QED
    BY <1>types, <2>1, <2>2, <2>3 DEF StoreInv
<1>10. ASSUME Die PROVE StoreInv'
  <2>1. unique' = unique /\ stores' = stores /\ stored' = stored /\ failed' \subseteq Files
    BY <1>types, <1>10 DEF Die
  <2>2. job' = [w \in Workers |-> job'[w]] /\ \A w \in Workers : JobOK(job'[w])
    BY <1>10 DEF Die, JobOK
  <2> QED
    BY <2>1, <2>2 DEF StoreInv
<1> QED
  BY <1>1, <1>2, <1>3, <1>4, <1>5, <1>6, <1>7, <1>8, <1>9, <1>10 DEF Next

LEMMA StoreAlways == Spec => []StoreInv
  BY StoreStart, StoreStep, PTL DEF Spec

\* The types of the store; an index never names more blocks than the size in
\* front of it asks for, whatever store_file was interrupted by.
THEOREM StoreTyped == Spec => []TypeOK
<1>1. StoreInv => TypeOK
  <2> SUFFICES ASSUME StoreInv PROVE TypeOK
    OBVIOUS
  <2>1. ASSUME NEW x \in DOMAIN unique
        PROVE  /\ unique[x].kind \in {"inline", "index", "block"}
               /\ unique[x].size \in 0..(UintLimit - 1)
               /\ Len(unique[x].ids) <= (unique[x].size \div BlockSize) + 1
    <3>1. EntryOK(unique[x])
      BY DEF StoreInv
    <3> QED
      BY <3>1 DEF EntryOK
  <2> QED
    BY <2>1 DEF TypeOK, Entries, StoreInv
<1> QED
  BY <1>1, StoreAlways, PTL
----------------------------------------------------------------------------
(* Blocks stay while an index names them.                                   *)

\* A worker has its header open: HasHeader, of the job.
Underway(j) == j.at \in {"block", "write", "close"}

\* The blocks an index names, those a worker will name when it closes its
\* header and the one it has open are there, and none is a header.
KeptInv ==
  /\ \A x \in DOMAIN unique : \A i \in DOMAIN unique[x].ids :
       unique[x].ids[i] \in DOMAIN unique /\ unique[x].ids[i] \notin Files
  /\ \A w \in Workers : Underway(job[w]) /\ InBlocks(job[w].file) =>
       \A i \in 1..job[w].n : BlockId(job[w].file, i, job[w].trail) \in DOMAIN unique
  /\ \A w \in Workers : job[w].at = "write" => NextId(w) \in DOMAIN unique

LEMMA NoIds ==
  ASSUME NEW b, NEW s
  PROVE  DOMAIN Block(b).ids = {} /\ DOMAIN Inline(s, b).ids = {}
<1>1. Block(b).ids = <<>> /\ Inline(s, b).ids = <<>>
  BY DEF Block, Inline
<1>2. DOMAIN <<>> = {}
  OBVIOUS
<1> QED
  BY <1>1, <1>2

LEMMA NextIdApart ==
  ASSUME HeadersApart, StoreInv, NEW w \in Workers, job[w].at \in {"block", "write"}
  PROVE  NextId(w) \notin Files
<1>1. /\ job[w].file \in Files /\ job[w].trail \in Trails /\ InBlocks(job[w].file)
  BY InCall
<1>2. job[w].n + 1 \in 1..blocks(job[w].file)
  BY NextIdType
<1> QED
  BY <1>1, <1>2, NameOfBlock DEF NextId

\* The directory grows, by an entry whose names are there.
LEMMA GrowthKeeps ==
  ASSUME KeptInv,
         \/ unique' = unique
         \/ \E id, e :
              /\ Wrote(id, e)
              /\ \A i \in DOMAIN e.ids : e.ids[i] \in DOMAIN unique /\ e.ids[i] \notin Files
  PROVE  /\ DOMAIN unique \subseteq DOMAIN unique'
         /\ \A x \in DOMAIN unique' : \A i \in DOMAIN unique'[x].ids :
              unique'[x].ids[i] \in DOMAIN unique' /\ unique'[x].ids[i] \notin Files
<1>1. CASE unique' = unique
  BY <1>1 DEF KeptInv
<1>2. ASSUME NEW id, NEW e, Wrote(id, e),
             \A i \in DOMAIN e.ids : e.ids[i] \in DOMAIN unique /\ e.ids[i] \notin Files
      PROVE  /\ DOMAIN unique \subseteq DOMAIN unique'
             /\ \A x \in DOMAIN unique' : \A i \in DOMAIN unique'[x].ids :
                  unique'[x].ids[i] \in DOMAIN unique' /\ unique'[x].ids[i] \notin Files
  <2>1. DOMAIN unique' = DOMAIN unique \cup {id}
    BY <1>2 DEF Wrote
  <2>2. ASSUME NEW x \in DOMAIN unique', NEW i \in DOMAIN unique'[x].ids
        PROVE  unique'[x].ids[i] \in DOMAIN unique' /\ unique'[x].ids[i] \notin Files
    <3>1. CASE x = id
      <4>1. unique'[x] = e
        BY <1>2, <3>1 DEF Wrote
      <4> QED
        BY <1>2, <2>1, <2>2, <4>1
    <3>2. CASE x # id
      <4>1. x \in DOMAIN unique /\ unique'[x] = unique[x]
        BY <1>2, <2>1, <3>2 DEF Wrote
      <4> QED
        BY <2>1, <2>2, <4>1 DEF KeptInv
    <3> QED
      BY <3>1, <3>2
  <2> QED
    BY <2>1, <2>2
<1> QED
  BY <1>1, <1>2

\* The names in a header that a worker closes.
LEMMA HeaderNames ==
  ASSUME HeadersApart, StoreInv, KeptInv, NEW w \in Workers, Underway(job[w]),
         NEW e, e = Header(job[w].file, job[w].n, job[w].trail)
  PROVE  \A i \in DOMAIN e.ids : e.ids[i] \in DOMAIN unique /\ e.ids[i] \notin Files
<1> DEFINE f == job[w].file  n == job[w].n  t == job[w].trail
<1>1. f \in Files /\ n \in Nat /\ t \in Trails /\ n <= blocks(f) /\ blocks(f) \in Nat
  BY InCall, FileFacts DEF Underway
<1>2. CASE InBlocks(f)
  <2>1. e = Index(filesize(f), Ids(f, n, t))
    BY <1>2 DEF Header
  <2>2. e.ids = Ids(f, n, t)
    BY <2>1 DEF Index
  <2>3. DOMAIN e.ids = 1..n /\ \A i \in 1..n : e.ids[i] = BlockId(f, i, t)
    BY <1>1, <2>2, IdsType
  <2>4. \A i \in 1..n : BlockId(f, i, t) \in DOMAIN unique
    BY <1>2 DEF KeptInv
  <2>5. \A i \in 1..n : i \in 1..blocks(f)
    BY <1>1
  <2>6. \A i \in 1..n : BlockId(f, i, t) \notin Files
    BY <1>1, <1>2, <2>5, NameOfBlock
  <2> QED
    BY <2>3, <2>4, <2>6
<1>3. CASE ~InBlocks(f)
  <2>1. e = Inline(filesize(f), f)
    BY <1>3 DEF Header
  <2> QED
    BY <2>1, NoIds
<1> QED
  BY <1>2, <1>3

\* The other workers, and a worker that ends, need no block more than before.
LEMMA OthersKept ==
  ASSUME KeptInv, DOMAIN unique \subseteq DOMAIN unique', NEW x \in Workers,
         job'[x] = job[x] \/ job'[x] = NoJob
  PROVE  /\ Underway(job'[x]) /\ InBlocks(job'[x].file) =>
              \A i \in 1..job'[x].n : BlockId(job'[x].file, i, job'[x].trail) \in DOMAIN unique'
         /\ job'[x].at = "write" => NextId(x)' \in DOMAIN unique'
<1>1. CASE job'[x] = job[x]
  <2>1. NextId(x)' = NextId(x)
    BY <1>1 DEF NextId
  <2> QED
    BY <1>1, <2>1 DEF KeptInv
<1>2. CASE job'[x] = NoJob
  <2>1. NoJob.at = "idle"
    BY DEF NoJob
  <2> QED
    BY <1>2, <2>1 DEF Underway
<1> QED
  BY <1>1, <1>2

\* What KeptInv asks of one worker.
WorkerKept(w) ==
  /\ Underway(job[w]) /\ InBlocks(job[w].file) =>
       \A i \in 1..job[w].n : BlockId(job[w].file, i, job[w].trail) \in DOMAIN unique
  /\ job[w].at = "write" => NextId(w) \in DOMAIN unique

LEMMA KeptByWorkers ==
  ASSUME \A x \in DOMAIN unique' : \A i \in DOMAIN unique'[x].ids :
           unique'[x].ids[i] \in DOMAIN unique' /\ unique'[x].ids[i] \notin Files,
         \A w \in Workers : WorkerKept(w)'
  PROVE  KeptInv'
  BY DEF KeptInv, WorkerKept

\* A worker ends its call and writes its header, or nothing.
LEMMA EndKeeps ==
  ASSUME HeadersApart, StoreInv, KeptInv, NEW w \in Workers, Ends(w),
         job[w].at \in {"header", "block", "close"},
         \/ unique' = unique
         \/ Flush(w, job[w].file, Inline(filesize(job[w].file), <<>>))
         \/ /\ job[w].at \in {"block", "close"}
            /\ Flush(w, job[w].file, Header(job[w].file, job[w].n, job[w].trail))
  PROVE  KeptInv'
<1> DEFINE f == job[w].file
           s == filesize(f)
           e == Inline(s, <<>>)
           h == Header(f, job[w].n, job[w].trail)
<1>1. \A i \in DOMAIN e.ids : e.ids[i] \in DOMAIN unique /\ e.ids[i] \notin Files
  BY NoIds
<1>2. job[w].at \in {"block", "close"} =>
        \A i \in DOMAIN h.ids : h.ids[i] \in DOMAIN unique /\ h.ids[i] \notin Files
  BY HeaderNames DEF Underway
<1>3. \/ unique' = unique \/ Flush(w, f, e)
      \/ job[w].at \in {"block", "close"} /\ Flush(w, f, h)
  OBVIOUS
<1> HIDE DEF e, h, f
<1>4. \/ unique' = unique \/ Wrote(f, e)
      \/ job[w].at \in {"block", "close"} /\ Wrote(f, h)
  BY <1>3, Flushed
<1>5. \/ unique' = unique
      \/ \E id, x :
           /\ Wrote(id, x)
           /\ \A i \in DOMAIN x.ids : x.ids[i] \in DOMAIN unique /\ x.ids[i] \notin Files
  BY <1>1, <1>2, <1>4
<1>6. /\ DOMAIN unique \subseteq DOMAIN unique'
      /\ \A x \in DOMAIN unique' : \A i \in DOMAIN unique'[x].ids :
           unique'[x].ids[i] \in DOMAIN unique' /\ unique'[x].ids[i] \notin Files
  BY <1>5, GrowthKeeps
<1>7. \A x \in Workers : job'[x] = job[x] \/ job'[x] = NoJob
  BY DEF Ends
<1>8. \A x \in Workers : WorkerKept(x)'
  BY <1>6, <1>7, OthersKept DEF WorkerKept
<1> QED
  BY <1>6, <1>8, KeptByWorkers

LEMMA KeptStart == Init => KeptInv
<1> SUFFICES ASSUME Init PROVE KeptInv
  OBVIOUS
<1>1. DOMAIN unique = {} /\ \A w \in Workers : job[w].at = "idle"
  BY DEF Init, NoJob
<1> QED
  BY <1>1 DEF KeptInv, Underway

LEMMA KeptStep == HeadersApart /\ StoreInv /\ KeptInv /\ [Next]_vars => KeptInv'
<1> SUFFICES ASSUME HeadersApart, StoreInv, KeptInv, [Next]_vars PROVE KeptInv'
  OBVIOUS
<1>same. ASSUME unique' = unique
         PROVE  /\ DOMAIN unique \subseteq DOMAIN unique'
                /\ \A x \in DOMAIN unique' : \A i \in DOMAIN unique'[x].ids :
                     unique'[x].ids[i] \in DOMAIN unique' /\ unique'[x].ids[i] \notin Files
  BY <1>same, GrowthKeeps
<1>1. UNCHANGED vars => KeptInv'
  BY DEF vars, KeptInv, NextId
<1>2. ASSUME NEW w \in Workers, NEW f \in Files, StoreKnown(w, f) PROVE KeptInv'
  BY <1>2 DEF StoreKnown, KeptInv, NextId
<1>3. ASSUME NEW w \in Workers, NEW f \in Files, StoreNew(w, f) PROVE KeptInv'
  <2>1. /\ unique' = unique /\ job'[w].at = "header"
        /\ \A x \in Workers : x # w => job'[x] = job[x]
    BY <1>3, StoreNewDoes
  <2>2. WorkerKept(w)'
    BY <2>1 DEF WorkerKept, Underway
  <2>3. \A x \in Workers : x # w => WorkerKept(x)'
    BY <1>same, <2>1, OthersKept DEF WorkerKept
  <2> QED
    BY <1>same, <2>1, <2>2, <2>3, KeptByWorkers
<1>4. ASSUME NEW w \in Workers, OpenHeader(w) PROVE KeptInv'
  <2> DEFINE e == Block(<<>>)
  <2>1. PICK a \in {"block", "close"} : Stage(w, a, 0, {})
    BY <1>4, OpenHeaderDoes
  <2>2. Wrote(job[w].file, e)
    BY <1>4, OpenHeaderDoes
  <2>3. \A i \in DOMAIN e.ids : e.ids[i] \in DOMAIN unique /\ e.ids[i] \notin Files
    BY NoIds
  <2> HIDE DEF e
  <2>4. /\ DOMAIN unique \subseteq DOMAIN unique'
        /\ \A x \in DOMAIN unique' : \A i \in DOMAIN unique'[x].ids :
             unique'[x].ids[i] \in DOMAIN unique' /\ unique'[x].ids[i] \notin Files
    BY <2>2, <2>3, GrowthKeeps
  <2>5. WorkerKept(w)'
    BY <2>1 DEF WorkerKept, Stage
  <2>6. \A x \in Workers : x # w => WorkerKept(x)'
    BY <2>1, <2>4, OthersKept DEF WorkerKept, Stage
  <2> QED
    BY <2>4, <2>5, <2>6, KeptByWorkers
<1>5. ASSUME NEW w \in Workers, OpenBlock(w) PROVE KeptInv'
  <2> DEFINE e == Block(<<>>)
  <2>1. /\ job[w].at = "block" /\ Wrote(NextId(w), e)
        /\ Stage(w, "write", job[w].n, job[w].lost \ {NextId(w)})
    BY <1>5, OpenBlockDoes
  <2>2. \A i \in DOMAIN e.ids : e.ids[i] \in DOMAIN unique /\ e.ids[i] \notin Files
    BY NoIds
  <2> HIDE DEF e
  <2>3. /\ DOMAIN unique \subseteq DOMAIN unique'
        /\ \A x \in DOMAIN unique' : \A i \in DOMAIN unique'[x].ids :
             unique'[x].ids[i] \in DOMAIN unique' /\ unique'[x].ids[i] \notin Files
    BY <2>1, <2>2, GrowthKeeps
  <2>4. /\ job'[w].file = job[w].file /\ job'[w].n = job[w].n /\ job'[w].trail = job[w].trail
        /\ \A x \in Workers : x # w => job'[x] = job[x]
    BY <2>1 DEF Stage
  <2>5. NextId(w)' = NextId(w) /\ NextId(w) \in DOMAIN unique'
    BY <2>1, <2>4 DEF NextId, Wrote
  <2>6. WorkerKept(w)'
    BY <2>1, <2>3, <2>4, <2>5 DEF WorkerKept, KeptInv, Underway
  <2>7. \A x \in Workers : x # w => WorkerKept(x)'
    BY <2>3, <2>4, OthersKept DEF WorkerKept
  <2> QED
    BY <2>3, <2>6, <2>7, KeptByWorkers
<1>6. ASSUME NEW w \in Workers, WriteBlock(w) PROVE KeptInv'
  <2> DEFINE b == BlockBytes(job[w].file, job[w].n + 1)
             e == Block(b)
  <2>1. job[w].at = "write" /\ Flush(w, NextId(w), e)
    BY <1>6, WriteBlockDoes
  <2>2. PICK a \in {"block", "close"} : Stage(w, a, job[w].n + 1, job[w].lost)
    BY <1>6, WriteBlockDoes
  <2>3. \A i \in DOMAIN e.ids : e.ids[i] \in DOMAIN unique /\ e.ids[i] \notin Files
    BY NoIds
  <2> HIDE DEF e
  <2>4. unique' = unique \/ Wrote(NextId(w), e)
    BY <2>1, Flushed
  <2>5. /\ DOMAIN unique \subseteq DOMAIN unique'
        /\ \A x \in DOMAIN unique' : \A i \in DOMAIN unique'[x].ids :
             unique'[x].ids[i] \in DOMAIN unique' /\ unique'[x].ids[i] \notin Files
    BY <2>3, <2>4, GrowthKeeps
  <2>6. /\ job'[w].at = a /\ job'[w].file = job[w].file /\ job'[w].n = job[w].n + 1
        /\ job'[w].trail = job[w].trail
        /\ \A x \in Workers : x # w => job'[x] = job[x]
    BY <2>2 DEF Stage
  <2>7. job[w].n \in Nat /\ InBlocks(job[w].file)
    BY <2>1, InCall
  <2>8. NextId(w) \in DOMAIN unique'
    BY <2>1, <2>5 DEF KeptInv
  <2>9. ASSUME NEW i \in 1..(job[w].n + 1)
        PROVE  BlockId(job[w].file, i, job[w].trail) \in DOMAIN unique'
    <3>1. CASE i \in 1..job[w].n
      BY <2>1, <2>5, <2>7, <3>1 DEF KeptInv, Underway
    <3>2. CASE i = job[w].n + 1
      BY <2>8, <3>2 DEF NextId
    <3> QED
      BY <2>7, <3>1, <3>2
  <2>10. WorkerKept(w)'
    BY <2>6, <2>9 DEF WorkerKept
  <2>11. \A x \in Workers : x # w => WorkerKept(x)'
    BY <2>5, <2>6, OthersKept DEF WorkerKept
  <2> QED
    BY <2>5, <2>10, <2>11, KeptByWorkers
<1>7. ASSUME NEW w \in Workers, CloseHeader(w) PROVE KeptInv'
  BY <1>7, CloseHeaderDoes, EndKeeps
<1>8. ASSUME NEW w \in Workers, StoreFails(w) PROVE KeptInv'
  <2>1. Ends(w)
    BY <1>8, StoreFailsDoes
  <2>2. CASE job[w].at = "header" /\ unique' = unique
    BY <2>1, <2>2, EndKeeps
  <2>3. CASE /\ job[w].at \in {"block", "close"}
             /\ \/ Flush(w, job[w].file, Inline(filesize(job[w].file), <<>>))
                \/ Flush(w, job[w].file, Header(job[w].file, job[w].n, job[w].trail))
    BY <2>1, <2>3, EndKeeps
  <2> QED
    BY <1>8, <2>2, <2>3, StoreFailsDoes
<1>9. ASSUME NEW f \in Files, Remove(f) PROVE KeptInv'
  <2>1. /\ DOMAIN unique' = DOMAIN unique \ {f}
        /\ \A x \in DOMAIN unique' : unique'[x] = unique[x]
    BY <1>9, RemoveDoes
  <2>2. \A x \in DOMAIN unique' : \A i \in DOMAIN unique'[x].ids :
          unique'[x].ids[i] \in DOMAIN unique' /\ unique'[x].ids[i] \notin Files
    BY <2>1 DEF KeptInv
  <2>3. ASSUME NEW w \in Workers PROVE WorkerKept(w)'
    <3>1. \/ job'[w] = job[w]
          \/ /\ job'[w].at = job[w].at /\ job'[w].file = job[w].file
             /\ job'[w].n = job[w].n /\ job'[w].trail = job[w].trail
      BY <1>9, RemoveDoes
    <3>2. /\ job'[w].at = job[w].at
          /\ job[w].at # "idle" => /\ job'[w].file = job[w].file
                                   /\ job'[w].n = job[w].n /\ job'[w].trail = job[w].trail
      BY <3>1
    <3>3. ASSUME Underway(job[w]), InBlocks(job[w].file), NEW i \in 1..job[w].n
          PROVE  BlockId(job[w].file, i, job[w].trail) \in DOMAIN unique'
      <4>1. /\ job[w].file \in Files /\ job[w].trail \in Trails /\ job[w].n \in Nat
            /\ job[w].n <= blocks(job[w].file) /\ blocks(job[w].file) \in Nat
        BY <3>3, InCall, FileFacts DEF Underway
      <4>2. i \in 1..blocks(job[w].file)
        BY <4>1
      <4>3. BlockId(job[w].file, i, job[w].trail) \notin Files
        BY <3>3, <4>1, <4>2, NameOfBlock
      <4> QED
        BY <2>1, <3>3, <4>3 DEF KeptInv
    <3>4. ASSUME job[w].at = "write" PROVE NextId(w)' \in DOMAIN unique'
      <4>1. NextId(w)' = NextId(w)
        BY <3>2, <3>4 DEF NextId
      <4>2. NextId(w) \notin Files
        BY <3>4, NextIdApart
      <4> QED
        BY <2>1, <3>4, <4>1, <4>2 DEF KeptInv
    <3> QED
      BY <3>2, <3>3, <3>4 DEF WorkerKept, Underway
  <2> QED
    BY <2>2, <2>3, KeptByWorkers
<1>10. ASSUME Die PROVE KeptInv'
  <2>1. unique' = unique /\ \A w \in Workers : job'[w] = NoJob
    BY <1>10 DEF Die
  <2>2. \A w \in Workers : WorkerKept(w)'
    BY <1>same, <2>1, OthersKept DEF WorkerKept
  <2> QED
    BY <1>same, <2>1, <2>2, KeptByWorkers
<1> QED
  BY <1>1, <1>2, <1>3, <1>4, <1>5, <1>6, <1>7, <1>8, <1>9, <1>10 DEF Next

\* remove_file and interrupted stores never leave an index without a block that
\* it names, as long as no file has the content of a block's name.
THEOREM BlocksStay == Spec => []BlocksKept
<1> DEFINE Kept == HeadersApart => KeptInv
<1>1. Init => Kept
  BY KeptStart
<1>2. StoreInv /\ Kept /\ [Next]_vars => Kept'
  BY KeptStep DEF HeadersApart
<1>3. Kept => BlocksKept
  BY DEF KeptInv, BlocksKept, Entries
<1> HIDE DEF Kept
<1> QED
  BY <1>1, <1>2, <1>3, StoreAlways, PTL DEF Spec
----------------------------------------------------------------------------
(* Stored files load.                                                       *)

\* Under the name of a block is that block or, just opened, nothing.
BlocksRight ==
  \A f \in Files : InBlocks(f) => \A i \in 1..blocks(f), t \in Trails :
    BlockId(f, i, t) \in DOMAIN unique =>
      unique[BlockId(f, i, t)] \in {Block(<<>>), Block(BlockBytes(f, i))}

\* Once nobody has it open, the header of a file none of whose stores failed
\* is complete.
HeaderRight(f) ==
  f \notin failed /\ f \in DOMAIN unique /\ ~Storing(f) =>
    \E t \in Trails : unique[f] = Header(f, blocks(f), t)

\* A stored file has a header, and a worker whose header was removed under it
\* is known to have failed.
StoredThere == stored \ failed \subseteq DOMAIN unique
LossFails ==
  \A w \in Workers : HasHeader(w) /\ job[w].file \in job[w].lost => job[w].file \in failed

LoadInv ==
  /\ BlocksRight
  /\ \A f \in Files : HeaderRight(f)
  /\ StoredThere /\ LossFails

\* A file is written that is no block, or with what belongs there.
LEMMA BlocksGrow ==
  ASSUME HeadersApart, BlocksRight,
         \/ unique' = unique
         \/ \E id, e :
              /\ Wrote(id, e)
              /\ \/ id \in Files
                 \/ \A f \in Files : InBlocks(f) => \A i \in 1..blocks(f), t \in Trails :
                      BlockId(f, i, t) = id => e \in {Block(<<>>), Block(BlockBytes(f, i))}
  PROVE  BlocksRight'
<1> SUFFICES ASSUME NEW f \in Files, InBlocks(f), NEW i \in 1..blocks(f), NEW t \in Trails,
                    BlockId(f, i, t) \in DOMAIN unique'
             PROVE  unique'[BlockId(f, i, t)] \in {Block(<<>>), Block(BlockBytes(f, i))}
  BY DEF BlocksRight
<1>1. BlockId(f, i, t) \notin Files
  BY NameOfBlock
<1>2. CASE unique' = unique
  BY <1>2 DEF BlocksRight
<1>3. ASSUME NEW id, NEW e, Wrote(id, e),
             \/ id \in Files
             \/ \A g \in Files : InBlocks(g) => \A j \in 1..blocks(g), u \in Trails :
                  BlockId(g, j, u) = id => e \in {Block(<<>>), Block(BlockBytes(g, j))}
      PROVE  unique'[BlockId(f, i, t)] \in {Block(<<>>), Block(BlockBytes(f, i))}
  <2>1. CASE BlockId(f, i, t) = id
    <3>1. unique'[id] = e
      BY <1>3 DEF Wrote
    <3> QED
      BY <1>1, <1>3, <2>1, <3>1
  <2>2. CASE BlockId(f, i, t) # id
    <3>1. /\ BlockId(f, i, t) \in DOMAIN unique
          /\ unique'[BlockId(f, i, t)] = unique[BlockId(f, i, t)]
      BY <1>3, <2>2 DEF Wrote
    <3> QED
      BY <3>1 DEF BlocksRight
  <2> QED
    BY <2>1, <2>2
<1> QED
  BY <1>2, <1>3

\* A file whose header the step leaves alone.
LEMMA Bystander ==
  ASSUME NEW f \in Files, HeaderRight(f), f \notin failed' => f \notin failed,
         f \in DOMAIN unique' => f \in DOMAIN unique /\ unique'[f] = unique[f],
         f \notin failed' /\ Storing(f) => Storing(f)'
  PROVE  HeaderRight(f)'
<1> SUFFICES ASSUME f \notin failed', f \in DOMAIN unique', ~Storing(f)'
             PROVE  \E t \in Trails : unique'[f] = Header(f, blocks(f), t)
  BY DEF HeaderRight
<1> QED
  BY DEF HeaderRight

\* Who stores goes on storing, unless it is the worker that ends.
LEMMA StoringStays ==
  ASSUME NEW w \in Workers, \A x \in Workers : x # w => job'[x] = job[x],
         HasHeader(w) => HasHeader(w)' /\ job'[w].file = job[w].file
  PROVE  \A f \in Files : Storing(f) => Storing(f)'
<1> SUFFICES ASSUME NEW f \in Files, NEW x \in Workers, HasHeader(x), job[x].file = f
             PROVE  Storing(f)'
  BY DEF Storing
<1>1. HasHeader(x)' /\ job'[x].file = f
  BY DEF HasHeader
<1> QED
  BY <1>1 DEF Storing

LEMMA OthersStore ==
  ASSUME NEW w \in Workers, Ends(w)
  PROVE  \A f \in Files : f # job[w].file /\ Storing(f) => Storing(f)'
<1> SUFFICES ASSUME NEW f \in Files, f # job[w].file, NEW x \in Workers, HasHeader(x), job[x].file = f
             PROVE  Storing(f)'
  BY DEF Storing
<1>1. HasHeader(x)' /\ job'[x].file = f
  BY DEF HasHeader, Ends
<1> QED
  BY <1>1 DEF Storing

\* A worker in the middle of its call: no header is lost, and none fails.
LEMMA LossStays ==
  ASSUME NEW w \in Workers, LossFails, failed' = failed,
         \A x \in Workers : x # w => job'[x] = job[x],
         HasHeader(w)' /\ job'[w].file \in job'[w].lost => job'[w].file \in failed
  PROVE  LossFails'
<1> SUFFICES ASSUME NEW x \in Workers, HasHeader(x)', job'[x].file \in job'[x].lost
             PROVE  job'[x].file \in failed'
  BY DEF LossFails
<1>1. CASE x = w
  BY <1>1
<1>2. CASE x # w
  BY <1>2 DEF LossFails, HasHeader
<1> QED
  BY <1>1, <1>2

\* A worker opens its header, opens a block or writes one, or nothing.
LEMMA StageLoads ==
  ASSUME HeadersApart, LoadInv, NEW w \in Workers, NEW a, NEW n, NEW lost, NEW id, NEW e,
         Stage(w, a, n, lost), a \in {"block", "write", "close"}, UNCHANGED <<stored, failed>>,
         job[w].file \in Files,
         job[w].file \in lost => HasHeader(w) /\ job[w].file \in job[w].lost,
         unique' = unique \/ Wrote(id, e), id \in Files => id = job[w].file,
         \/ id \in Files
         \/ \A f \in Files : InBlocks(f) => \A i \in 1..blocks(f), t \in Trails :
              BlockId(f, i, t) = id => e \in {Block(<<>>), Block(BlockBytes(f, i))}
  PROVE  LoadInv'
<1>1. BlocksRight'
  BY BlocksGrow DEF LoadInv
<1>2. /\ \A x \in Workers : x # w => job'[x] = job[x]
      /\ job'[w].at = a /\ job'[w].file = job[w].file /\ job'[w].lost = lost
  BY DEF Stage
<1>3. HasHeader(w)'
  BY <1>2 DEF HasHeader
<1>4. \A f \in Files : Storing(f) => Storing(f)'
  BY <1>2, <1>3, StoringStays
<1>5. \A f \in Files : f = job[w].file => Storing(f)'
  BY <1>2, <1>3 DEF Storing
<1>6. ASSUME NEW f \in Files PROVE HeaderRight(f)'
  <2>1. CASE f = job[w].file
    BY <1>5, <2>1 DEF HeaderRight
  <2>2. CASE f # job[w].file
    <3>1. f # id
      BY <2>2
    <3>2. f \in DOMAIN unique' => f \in DOMAIN unique /\ unique'[f] = unique[f]
      BY <3>1 DEF Wrote
    <3>3. HeaderRight(f)
      BY DEF LoadInv
    <3> QED
      BY <1>4, <3>2, <3>3, Bystander
  <2> QED
    BY <2>1, <2>2
<1>7. DOMAIN unique \subseteq DOMAIN unique'
  BY DEF Wrote
<1>8. StoredThere'
  BY <1>7 DEF LoadInv, StoredThere
<1>9. LossFails'
  <2>1. HasHeader(w)' /\ job'[w].file \in job'[w].lost => job'[w].file \in failed
    BY <1>2 DEF LoadInv, LossFails
  <2> QED
    BY <1>2, <2>1, LossStays DEF LoadInv
<1> QED
  BY <1>1, <1>6, <1>8, <1>9 DEF LoadInv

\* A worker ends its call: its header is complete, or the store has failed, or
\* it never opened the header.
LEMMA EndLoads ==
  ASSUME HeadersApart, LoadInv, NEW w \in Workers, Ends(w), NEW f, f = job[w].file, f \in Files,
         NEW e, unique' = unique \/ Wrote(f, e),
         \/ ~HasHeader(w) /\ unique' = unique /\ failed' = failed /\ stored' = stored
         \/ HasHeader(w) /\ failed' = failed \cup {f} /\ stored' = stored
         \/ /\ HasHeader(w) /\ failed' = failed /\ stored' = stored \cup {f}
            /\ f \in job[w].lost \/ Wrote(f, e)
            /\ \E t \in Trails : e = Header(f, blocks(f), t)
  PROVE  LoadInv'
<1>1. BlocksRight'
  BY BlocksGrow DEF LoadInv
<1>2. /\ \A x \in Workers : x # w => job'[x] = job[x]
      /\ job'[w] = NoJob
  BY DEF Ends
<1>3. failed \subseteq failed'
  OBVIOUS
<1>4. ~HasHeader(w)'
  BY <1>2 DEF HasHeader, NoJob
<1>5. LossFails'
  <2> SUFFICES ASSUME NEW x \in Workers, HasHeader(x)', job'[x].file \in job'[x].lost
               PROVE  job'[x].file \in failed'
    BY DEF LossFails
  <2>1. x # w
    BY <1>4
  <2> QED
    BY <1>2, <1>3, <2>1 DEF LoadInv, LossFails, HasHeader
<1>6. ASSUME NEW g \in Files, g # f PROVE HeaderRight(g)'
  <2>1. Storing(g) => Storing(g)'
    BY <1>6, OthersStore
  <2>2. g \in DOMAIN unique' => g \in DOMAIN unique /\ unique'[g] = unique[g]
    BY <1>6 DEF Wrote
  <2>3. HeaderRight(g)
    BY DEF LoadInv
  <2> QED
    BY <1>3, <2>1, <2>2, <2>3, Bystander
<1>7. CASE ~HasHeader(w) /\ unique' = unique /\ failed' = failed /\ stored' = stored
  <2>1. Storing(f) => Storing(f)'
    <3>1. HasHeader(w) => HasHeader(w)' /\ job'[w].file = job[w].file
      BY <1>7
    <3> QED
      BY <1>2, <3>1, StoringStays
  <2>2. HeaderRight(f)'
    <3>1. HeaderRight(f)
      BY DEF LoadInv
    <3> QED
      BY <1>7, <2>1, <3>1, Bystander
  <2>3. StoredThere'
    BY <1>7 DEF LoadInv, StoredThere
  <2> QED
    BY <1>1, <1>5, <1>6, <2>2, <2>3 DEF LoadInv
<1>8. CASE HasHeader(w) /\ failed' = failed \cup {f} /\ stored' = stored
  <2>1. HeaderRight(f)'
    BY <1>8 DEF HeaderRight
  <2>2. StoredThere'
    BY <1>8 DEF LoadInv, StoredThere, Wrote
  <2> QED
    BY <1>1, <1>5, <1>6, <2>1, <2>2 DEF LoadInv
<1>9. CASE /\ HasHeader(w) /\ failed' = failed /\ stored' = stored \cup {f}
           /\ f \in job[w].lost \/ Wrote(f, e)
           /\ \E t \in Trails : e = Header(f, blocks(f), t)
  <2>1. CASE f \in job[w].lost
    <3>1. f \in failed'
      BY <1>9, <2>1 DEF LoadInv, LossFails
    <3>2. HeaderRight(f)'
      BY <3>1 DEF HeaderRight
    <3>3. StoredThere'
      BY <1>9, <3>1 DEF LoadInv, StoredThere, Wrote
    <3> QED
      BY <1>1, <1>5, <1>6, <3>2, <3>3 DEF LoadInv
  <2>2. CASE Wrote(f, e)
    <3>1. unique'[f] = e /\ f \in DOMAIN unique'
      BY <2>2 DEF Wrote
    <3>2. HeaderRight(f)'
      BY <1>9, <3>1 DEF HeaderRight
    <3>3. StoredThere'
      BY <1>9, <2>2, <3>1 DEF LoadInv, StoredThere, Wrote
    <3> QED
      BY <1>1, <1>5, <1>6, <3>2, <3>3 DEF LoadInv
  <2> QED
    BY <1>9, <2>1, <2>2
<1> QED
  BY <1>7, <1>8, <1>9

LEMMA LoadStart == Init => LoadInv
<1> SUFFICES ASSUME Init PROVE LoadInv
  OBVIOUS
<1>1. DOMAIN unique = {} /\ stored = {} /\ \A w \in Workers : job[w].at = "idle"
  BY DEF Init, NoJob
<1> QED
  BY <1>1 DEF LoadInv, BlocksRight, HeaderRight, StoredThere, LossFails, HasHeader

\* A file that fits in its header has the same header after any number of
\* blocks; the others are closed after the last one.
LEMMA ClosedComplete ==
  ASSUME StoreInv, NEW w \in Workers, job[w].at = "close"
  PROVE  \E t \in Trails :
           Header(job[w].file, job[w].n, job[w].trail) = Header(job[w].file, blocks(job[w].file), t)
<1>1. job[w].trail \in Trails /\ (InBlocks(job[w].file) => job[w].n = blocks(job[w].file))
  BY InCall
<1>2. Header(job[w].file, job[w].n, job[w].trail)
        = Header(job[w].file, blocks(job[w].file), job[w].trail)
  BY <1>1 DEF Header
<1> QED
  BY <1>1, <1>2

LEMMA LoadStep ==
  HeadersApart /\ NamesApart /\ StoreInv /\ LoadInv /\ [Next]_vars => LoadInv'
<1> SUFFICES ASSUME HeadersApart, NamesApart, StoreInv, LoadInv, [Next]_vars PROVE LoadInv'
  OBVIOUS
<1>types. failed \subseteq Files /\ stored \subseteq Files
  BY DEF StoreInv
<1>1. UNCHANGED vars => LoadInv'
  BY DEF vars, LoadInv, BlocksRight, HeaderRight, StoredThere, LossFails, HasHeader, Storing
<1>2. ASSUME NEW w \in Workers, NEW f \in Files, StoreKnown(w, f) PROVE LoadInv'
  <2>1. UNCHANGED <<unique, job, failed>> /\ stored' = stored \cup {f} /\ f \in DOMAIN unique
    BY <1>2 DEF StoreKnown
  <2>2. StoredThere'
    BY <2>1 DEF LoadInv, StoredThere
  <2>3. BlocksRight' /\ LossFails' /\ \A g \in Files : HeaderRight(g)'
    BY <2>1 DEF LoadInv, BlocksRight, HeaderRight, LossFails, HasHeader, Storing
  <2> QED
    BY <2>2, <2>3 DEF LoadInv
<1>3. ASSUME NEW w \in Workers, NEW f \in Files, StoreNew(w, f) PROVE LoadInv'
  <2>1. /\ UNCHANGED <<unique, stored, failed>> /\ job'[w].at = "header" /\ job[w].at = "idle"
        /\ \A x \in Workers : x # w => job'[x] = job[x]
    BY <1>3, StoreNewDoes
  <2>2. ~HasHeader(w) /\ ~HasHeader(w)'
    BY <2>1 DEF HasHeader
  <2>3. \A g \in Files : Storing(g) => Storing(g)'
    BY <2>1, <2>2, StoringStays
  <2>4. \A g \in Files : HeaderRight(g)'
    BY <2>1, <2>3, Bystander DEF LoadInv
  <2>5. LossFails'
    BY <2>1, <2>2, LossStays DEF LoadInv
  <2>6. BlocksRight' /\ StoredThere'
    BY <2>1 DEF LoadInv, BlocksRight, StoredThere
  <2> QED
    BY <2>4, <2>5, <2>6 DEF LoadInv
<1>4. ASSUME NEW w \in Workers, OpenHeader(w) PROVE LoadInv'
  <2> DEFINE e == Block(<<>>)
  <2>1. PICK a \in {"block", "close"} : Stage(w, a, 0, {})
    BY <1>4, OpenHeaderDoes
  <2>2. Wrote(job[w].file, e) /\ job[w].file \in Files /\ UNCHANGED <<stored, failed>>
    BY <1>4, OpenHeaderDoes
  <2> HIDE DEF e
  <2> QED
    BY <2>1, <2>2, StageLoads
<1>5. ASSUME NEW w \in Workers, OpenBlock(w) PROVE LoadInv'
  <2> DEFINE lost == job[w].lost \ {NextId(w)}
             id == NextId(w)
  <2>1. /\ job[w].at = "block" /\ Wrote(id, Block(<<>>)) /\ UNCHANGED <<stored, failed>>
        /\ Stage(w, "write", job[w].n, lost)
    BY <1>5, OpenBlockDoes
  <2>2. job[w].file \in Files /\ HasHeader(w) /\ id \notin Files
    BY <2>1, InCall, NextIdApart DEF HasHeader
  <2>3. job[w].file \in lost => HasHeader(w) /\ job[w].file \in job[w].lost
    BY <2>2
  <2> HIDE DEF lost, id
  <2> QED
    BY <2>1, <2>2, <2>3, StageLoads
<1>6. ASSUME NEW w \in Workers, WriteBlock(w) PROVE LoadInv'
  <2> DEFINE f == job[w].file
             n == job[w].n
             b == BlockBytes(f, n + 1)
             e == Block(b)
             id == NextId(w)
  <2>1. job[w].at = "write" /\ Flush(w, id, e) /\ UNCHANGED <<stored, failed>>
    BY <1>6, WriteBlockDoes
  <2>2. PICK a \in {"block", "close"} : Stage(w, a, n + 1, job[w].lost)
    BY <1>6, WriteBlockDoes
  <2>3. f \in Files /\ HasHeader(w) /\ id \notin Files
    BY <2>1, InCall, NextIdApart DEF HasHeader
  <2>4. \A g \in Files : InBlocks(g) => \A i \in 1..blocks(g), t \in Trails :
          BlockId(g, i, t) = id => e \in {Block(<<>>), Block(BlockBytes(g, i))}
    <3> SUFFICES ASSUME NEW g \in Files, InBlocks(g), NEW i \in 1..blocks(g), NEW t \in Trails,
                        BlockId(g, i, t) = id
                 PROVE  b = BlockBytes(g, i)
      OBVIOUS
    <3>1. InBlocks(f) /\ n + 1 \in 1..blocks(f) /\ job[w].trail \in Trails
      BY <2>1, InCall, NextIdType
    <3>2. id = BlockId(f, n + 1, job[w].trail)
      BY DEF NextId
    <3> QED
      BY <2>3, <3>1, <3>2 DEF NamesApart
  <2>5. unique' = unique \/ Wrote(id, e)
    <3> HIDE DEF id, e
    <3> QED
      BY <2>1, Flushed
  <2> DEFINE m == n + 1
             lost == job[w].lost
  <2>6. Stage(w, a, m, lost) /\ (job[w].file \in lost => HasHeader(w) /\ job[w].file \in job[w].lost)
    BY <2>2, <2>3
  <2>7. job[w].file \in Files
    BY <2>3
  <2> HIDE DEF m, lost, id, e
  <2> QED
    BY <2>1, <2>2, <2>3, <2>4, <2>5, <2>6, <2>7, StageLoads
<1>7. ASSUME NEW w \in Workers, CloseHeader(w) PROVE LoadInv'
  <2> DEFINE f == job[w].file
             e == Header(f, job[w].n, job[w].trail)
  <2>1. job[w].at = "close" /\ Flush(w, f, e) /\ Ends(w) /\ stored' = stored \cup {f}
        /\ failed' = failed
    BY <1>7, CloseHeaderDoes
  <2>2. f \in Files /\ HasHeader(w)
    BY <2>1, InCall DEF HasHeader
  <2>3. \E t \in Trails : e = Header(f, blocks(f), t)
    BY <2>1, ClosedComplete
  <2>4. f = job[w].file
    OBVIOUS
  <2> HIDE DEF e, f
  <2>5. (unique' = unique \/ Wrote(f, e)) /\ (f \in job[w].lost \/ Wrote(f, e))
    BY <2>1, Flushed
  <2> QED
    BY <2>1, <2>2, <2>3, <2>4, <2>5, EndLoads
<1>8. ASSUME NEW w \in Workers, StoreFails(w) PROVE LoadInv'
  <2> DEFINE f == job[w].file
             s == filesize(f)
             h == Header(f, job[w].n, job[w].trail)
             e == Inline(s, <<>>)
  <2>1. Ends(w) /\ stored' = stored
    BY <1>8, StoreFailsDoes
  <2>2. \/ job[w].at = "header" /\ UNCHANGED <<unique, failed>>
        \/ /\ job[w].at \in {"block", "close"} /\ failed' = failed \cup {f}
           /\ Flush(w, f, e) \/ Flush(w, f, h)
    BY <1>8, StoreFailsDoes
  <2>3. f \in Files /\ f = job[w].file
    BY <2>2, InCall
  <2> HIDE DEF e, h, f
  <2>4. CASE job[w].at = "header" /\ UNCHANGED <<unique, failed>>
    <3>1. ~HasHeader(w)
      BY <2>4 DEF HasHeader
    <3> QED
      BY <2>1, <2>3, <2>4, <3>1, EndLoads
  <2>5. CASE /\ job[w].at \in {"block", "close"} /\ failed' = failed \cup {f}
             /\ Flush(w, f, e) \/ Flush(w, f, h)
    <3>1. HasHeader(w)
      BY <2>5 DEF HasHeader
    <3>2. PICK x : unique' = unique \/ Wrote(f, x)
      BY <2>5, Flushed
    <3> QED
      BY <2>1, <2>3, <2>5, <3>1, <3>2, EndLoads
  <2> QED
    BY <2>2, <2>4, <2>5
<1>9. ASSUME NEW f \in Files, Remove(f) PROVE LoadInv'
  <2>1. /\ DOMAIN unique' = DOMAIN unique \ {f}
        /\ \A x \in DOMAIN unique' : unique'[x] = unique[x]
        /\ stored' = stored \ {f}
        /\ failed' = IF Storing(f) THEN failed \cup {f} ELSE failed \ {f}
    BY <1>9, RemoveDoes
  <2>2. \A w \in Workers :
          \/ job'[w] = job[w] /\ w \notin Open(f)
          \/ /\ w \in Open(f) /\ job[w].at \in {"block", "write", "close"}
             /\ job'[w].lost = job[w].lost \cup {f}
             /\ job'[w].at = job[w].at /\ job'[w].file = job[w].file
    BY <1>9, RemoveDoes
  <2>3. BlocksRight'
    BY <2>1 DEF LoadInv, BlocksRight
  <2>4. StoredThere'
    BY <2>1 DEF LoadInv, StoredThere
  <2>5. \A w \in Workers : HasHeader(w) <=> HasHeader(w)'
    BY <2>2 DEF HasHeader
  <2>6. \A w \in Workers : HasHeader(w) => job'[w].file = job[w].file
    BY <2>2
  <2>7. \A g \in Files : Storing(g) => Storing(g)'
    BY <2>5, <2>6 DEF Storing
  <2>8. \A g \in Files : g # f => (g \in failed' <=> g \in failed)
    BY <2>1
  <2>9. ASSUME NEW g \in Files PROVE HeaderRight(g)'
    <3>1. CASE g = f
      BY <2>1, <3>1 DEF HeaderRight
    <3>2. CASE g # f
      <4>1. HeaderRight(g)
        BY DEF LoadInv
      <4> QED
        BY <2>1, <2>7, <2>8, <3>2, <4>1, Bystander
    <3> QED
      BY <3>1, <3>2
  <2>10. LossFails'
    <3> SUFFICES ASSUME NEW w \in Workers, HasHeader(w)', job'[w].file \in job'[w].lost
                 PROVE  job'[w].file \in failed'
      BY DEF LossFails
    <3>1. HasHeader(w) /\ job'[w].file = job[w].file
      BY <2>5, <2>6
    <3>2. CASE job[w].file = f
      <4>1. Storing(f)
        BY <3>1, <3>2 DEF Storing
      <4> QED
        BY <2>1, <3>1, <3>2, <4>1
    <3>3. CASE job[w].file # f
      <4>1. job[w].file \in job[w].lost
        BY <2>2, <3>1, <3>3
      <4>2. job[w].file \in failed
        BY <3>1, <4>1 DEF LoadInv, LossFails
      <4> QED
        BY <1>types, <2>8, <3>1, <3>3, <4>2
    <3> QED
      BY <3>2, <3>3
  <2> QED
    BY <2>3, <2>4, <2>9, <2>10 DEF LoadInv
<1>10. ASSUME Die PROVE LoadInv'
  <2>1. /\ unique' = unique /\ stored' = stored /\ \A w \in Workers : job'[w] = NoJob
        /\ failed' = failed \cup {f \in Files : Storing(f)}
    BY <1>10 DEF Die
  <2>2. BlocksRight' /\ StoredThere'
    BY <2>1 DEF LoadInv, BlocksRight, StoredThere
  <2>3. LossFails'
    BY <2>1 DEF LossFails, HasHeader, NoJob
  <2>4. ASSUME NEW f \in Files PROVE HeaderRight(f)'
    <3>1. f \notin failed' => f \notin failed /\ ~Storing(f)
      BY <2>1
    <3>2. HeaderRight(f)
      BY DEF LoadInv
    <3> QED
      BY <2>1, <3>1, <3>2, Bystander
  <2> QED
    BY <2>2, <2>3, <2>4 DEF LoadInv
<1> QED
  BY <1>1, <1>2, <1>3, <1>4, <1>5, <1>6, <1>7, <1>8, <1>9, <1>10 DEF Next

\* What was stored is loaded: the header is complete and names the blocks, they
\* are there, and each holds the bytes it was cut from.
LEMMA LoadGives ==
  ASSUME StoreInv, KeptInv, LoadInv, NEW f \in stored \ failed,
         Sound(f), ~Storing(f), ~Torn(f)
  PROVE  load_file(unique, f) = f
<1>1. f \in Files /\ f \in DOMAIN unique
  BY DEF StoreInv, LoadInv, StoredThere
<1>2. PICK t \in Trails : unique[f] = Header(f, blocks(f), t)
  BY <1>1 DEF LoadInv, HeaderRight
<1>3. ASSUME InBlocks(f), NEW i \in 1..blocks(f)
      PROVE  /\ BlockId(f, i, t) \in DOMAIN unique
             /\ unique[BlockId(f, i, t)] = Block(BlockBytes(f, i))
  <2> DEFINE ids == Ids(f, blocks(f), t)
  <2>1. unique[f] = Index(filesize(f), ids)
    BY <1>2, <1>3 DEF Header
  <2>2. unique[f].ids = ids
    BY <2>1 DEF Index
  <2>3. f \in Bytes /\ blocks(f) \in Nat
    BY <1>1, FileFacts
  <2>4. DOMAIN ids = 1..blocks(f) /\ ids[i] = BlockId(f, i, t)
    BY <1>1, <1>3, <2>3, IdsType
  <2>5. ids[i] \in DOMAIN unique
    BY <1>1, <1>3, <2>2, <2>4 DEF KeptInv
  <2> HIDE DEF ids
  <2>6. unique[ids[i]] = Block(<<>>) => BlockBytes(f, i) = <<>>
    BY <1>1, <1>3, <2>2, <2>4, <2>5 DEF Torn
  <2>7. unique[ids[i]] \in {Block(<<>>), Block(BlockBytes(f, i))}
    BY <1>1, <1>3, <2>4, <2>5 DEF LoadInv, BlocksRight
  <2> QED
    BY <2>4, <2>5, <2>6, <2>7
<1> QED
  BY <1>1, <1>2, <1>3, HeaderGivesFile

\* A file whose size the format can hold, stored and not removed, is loaded
\* back byte for byte whatever else happened: load_file after store_file, with
\* any number of threads, files and blocks.
THEOREM StoredFilesLoad == Spec => []SoundFilesLoad
<1> DEFINE Kept == HeadersApart => KeptInv
           Loads == HeadersApart /\ NamesApart => LoadInv
<1>1. Init => Kept /\ Loads
  BY KeptStart, LoadStart
<1>2. StoreInv /\ Kept /\ Loads /\ [Next]_vars => Kept' /\ Loads'
  BY KeptStep, LoadStep DEF HeadersApart, NamesApart
<1>3. StoreInv /\ Kept /\ Loads => SoundFilesLoad
  BY LoadGives DEF SoundFilesLoad
<1> HIDE DEF Kept, Loads
<1> QED
  BY <1>1, <1>2, <1>3, StoreAlways, PTL DEF Spec
----------------------------------------------------------------------------
(* When the names of the blocks are apart.                                  *)

\* Full blocks are BlockSize bytes long, the one that meets the end is shorter.
LEMMA BlockLength ==
  ASSUME NEW f \in Bytes, NEW i \in Nat \ {0}
  PROVE  /\ MeetsEof(f, i) => Len(BlockBytes(f, i)) < BlockSize
         /\ ~MeetsEof(f, i) => Len(BlockBytes(f, i)) = BlockSize
<1> DEFINE a == (i - 1) * BlockSize
           c == i * BlockSize
           l == Len(f)
<1>1. /\ l \in Nat /\ a \in Nat /\ c \in Nat /\ c = a + BlockSize
      /\ BlockSize \in Nat \ {0}
  BY Products, SizeAssumption DEF Bytes
<1>2. (MeetsEof(f, i) <=> c > l) /\ BlockBytes(f, i) = SubSeq(f, a + 1, IF c > l THEN l ELSE c)
  BY DEF MeetsEof, BlockBytes
<1> HIDE DEF a, c, l
<1>3. CASE c > l
  <2>1. Len(SubSeq(f, a + 1, l)) = IF a + 1 <= l THEN l - (a + 1) + 1 ELSE 0
    BY <1>1, CutOut DEF l
  <2>2. BlockBytes(f, i) = SubSeq(f, a + 1, l)
    BY <1>2, <1>3
  <2> QED
    BY <1>1, <1>2, <1>3, <2>1, <2>2
<1>4. CASE ~(c > l)
  <2>1. c <= l
    BY <1>1, <1>4
  <2>2. Len(SubSeq(f, a + 1, c)) = IF a + 1 <= c THEN c - (a + 1) + 1 ELSE 0
    BY <1>1, <2>1, CutOut DEF l
  <2>3. BlockBytes(f, i) = SubSeq(f, a + 1, c)
    BY <1>2, <1>4
  <2> QED
    BY <1>1, <1>2, <1>4, <2>2, <2>3
<1> QED
  BY <1>3, <1>4

\* Prefixes of the same length of equal sequences are equal.
LEMMA SamePrefix ==
  ASSUME NEW s \in Bytes, NEW t \in Bytes, NEW u \in Bytes, NEW v \in Bytes,
         Len(s) = Len(t), s \o u = t \o v
  PROVE  s = t
<1>1. Len(s) \in Nat /\ s \in Seq(Byte) /\ t \in Seq(Byte) /\ u \in Seq(Byte) /\ v \in Seq(Byte)
  BY DEF Bytes
<1>2. \A i \in 1..Len(s) : (s \o u)[i] = s[i] /\ (t \o v)[i] = t[i]
  BY <1>1, ConcatProperties
<1>3. \A i \in 1..Len(s) : s[i] = t[i]
  BY <1>2
<1> QED
  BY <1>1, <1>3, SeqEqual

\* The name of a full block without a NUL: the block, and what follows it.
LEMMA FullBlockId ==
  ASSUME NEW f \in Files, NEW i \in Nat \ {0}, NEW t \in Trails, ~MeetsEof(f, i),
         ~HasNul(BlockBytes(f, i))
  PROVE  BlockId(f, i, t) = BlockBytes(f, i) \o t
  BY DEF BlockId, CString

\* Hashing a full block as a C string (BlockId) only confuses blocks when one of
\* them holds a NUL: without NULs in full blocks the hypothesis of
\* SoundFilesLoad about names holds, whatever follows the buffer in memory.
THEOREM NulFreeNamesApart ==
  ASSUME \A f \in Files : InBlocks(f) => \A i \in 1..blocks(f) :
           ~MeetsEof(f, i) => ~HasNul(BlockBytes(f, i))
  PROVE  NamesApart
<1> SUFFICES ASSUME NEW f \in Files, NEW g \in Files, InBlocks(f), InBlocks(g),
                    NEW i \in 1..blocks(f), NEW j \in 1..blocks(g),
                    NEW t \in Trails, NEW u \in Trails, BlockId(f, i, t) = BlockId(g, j, u)
             PROVE  BlockBytes(f, i) = BlockBytes(g, j)
  BY DEF NamesApart
<1> DEFINE b == BlockBytes(f, i)
           c == BlockBytes(g, j)
<1>1. /\ f \in Bytes /\ g \in Bytes /\ t \in Bytes /\ u \in Bytes
      /\ i \in Nat \ {0} /\ j \in Nat \ {0}
  <2>1. f \in Bytes /\ g \in Bytes /\ t \in Bytes /\ u \in Bytes
    BY ContentAssumption DEF Bytes
  <2>2. blocks(f) \in Nat /\ blocks(g) \in Nat
    BY FileFacts
  <2> QED
    BY <2>1, <2>2
<1>2. b \in Bytes /\ c \in Bytes
  BY <1>1, BlockBytesType
<1>3. /\ MeetsEof(f, i) => BlockId(f, i, t) = b /\ Len(b) < BlockSize
      /\ ~MeetsEof(f, i) => BlockId(f, i, t) = b \o t /\ Len(b) = BlockSize
  BY <1>1, BlockLength, FullBlockId DEF BlockId
<1>4. /\ MeetsEof(g, j) => BlockId(g, j, u) = c /\ Len(c) < BlockSize
      /\ ~MeetsEof(g, j) => BlockId(g, j, u) = c \o u /\ Len(c) = BlockSize
  BY <1>1, BlockLength, FullBlockId DEF BlockId
<1> HIDE DEF b, c
<1>5. /\ Len(b \o t) = Len(b) + Len(t) /\ Len(c \o u) = Len(c) + Len(u)
      /\ Len(b) \in Nat /\ Len(c) \in Nat /\ Len(t) \in Nat /\ Len(u) \in Nat
  BY <1>1, <1>2, ConcatProperties DEF Bytes
<1>6. CASE MeetsEof(f, i) /\ MeetsEof(g, j)
  BY <1>3, <1>4, <1>6 DEF b, c
<1>7. CASE MeetsEof(f, i) /\ ~MeetsEof(g, j)
  BY <1>3, <1>4, <1>5, <1>7, SizeAssumption
<1>8. CASE ~MeetsEof(f, i) /\ MeetsEof(g, j)
  BY <1>3, <1>4, <1>5, <1>8, SizeAssumption
<1>9. CASE ~MeetsEof(f, i) /\ ~MeetsEof(g, j)
  <2>1. b \o t = c \o u /\ Len(b) = Len(c)
    BY <1>3, <1>4, <1>9
  <2>2. b = c
    BY <1>1, <1>2, <2>1, SamePrefix
  <2> QED
    BY <2>2 DEF b, c
<1> QED
  BY <1>6, <1>7, <1>8, <1>9
============================================================================
