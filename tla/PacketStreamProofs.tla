--------------------------- MODULE PacketStreamProofs ---------------------------
(***************************************************************************)
(* Proofs about the framing of a connection and the VarInts it is made of, *)
(* for any width of integers, any packets that fit, any compression        *)
(* threshold or none, and any number of packets and interruptions.         *)
(***************************************************************************)
EXTENDS PacketStream, FiniteSetTheorems, FunctionTheorems, WellFoundedInduction, NaturalsInduction, TLAPS

-------------------------------------------------------------------------------
(* VarInts *)

(* The functions inside of Encode and Value                                *)
Segments == CHOOSE bytes : bytes =
  [v \in 0 .. 2^Width - 1 |->
     IF v < CONTINUE_BIT THEN <<v>>
     ELSE <<(v % CONTINUE_BIT) + CONTINUE_BIT>> \o bytes[v \div CONTINUE_BIT]]
Words(bytes) == CHOOSE word : word =
  [i \in 0 .. Len(bytes) |->
     IF i = 0 THEN 0 ELSE word[i - 1] + (bytes[i] % CONTINUE_BIT) * 2^(SegmentBits * (i - 1))]

(* A set of natural numbers has a least element, ...                       *)
LEMMA LeastOf ==
  ASSUME NEW T, T \subseteq Nat, T # {}
  PROVE  \E n \in T : \A m \in T : n <= m
<1> DEFINE R == OpToRel(<, Nat)
<1>1. IsWellFoundedOn(R, Nat)
  BY NatLessThanWellFounded
<1>2. \A m \in Nat, n \in Nat : m < n => <<m, n>> \in R
  BY DEF OpToRel
<1> HIDE DEF R
<1>3. PICK n \in T : \A m \in T : ~(<<m, n>> \in R)
  BY <1>1, WFMin
<1>4. \A m \in T : ~(m < n)
  BY <1>2, <1>3
<1>5. \A m \in T : n <= m
  BY <1>4
<1> QED
  BY <1>5

(* ... so that a set with 0 and all successors has them all.               *)
LEMMA Induction ==
  ASSUME NEW T, 0 \in T, \A n \in Nat : n \in T => n + 1 \in T
  PROVE  Nat \subseteq T
<1> DEFINE C == Nat \ T
<1> SUFFICES ASSUME C # {} PROVE FALSE
  OBVIOUS
<1>1. PICK n \in C : \A m \in C : n <= m
  BY LeastOf
<1>2. n # 0 /\ n - 1 \in Nat /\ (n - 1) + 1 = n
  BY <1>1
<1>3. n - 1 \in T
  BY <1>1, <1>2
<1> QED
  BY <1>1, <1>2, <1>3

(* A power of two counts the subsets of an interval, and one element more *)
(* doubles them.                                                           *)
LEMMA Doubling ==
  ASSUME NEW n \in Nat
  PROVE  2^n \in Nat /\ 2^(n + 1) = 2 * 2^n
<1> DEFINE S == 1..n
           T == 1..n + 1
           Both == (SUBSET S) \X {0, 1}
           f == [X \in SUBSET T |-> <<X \ {n + 1}, IF n + 1 \in X THEN 1 ELSE 0>>]
<1>1. IsFiniteSet(S) /\ Cardinality(S) = n /\ IsFiniteSet(T) /\ Cardinality(T) = n + 1
  BY FS_Interval
<1>2. /\ IsFiniteSet(SUBSET S) /\ Cardinality(SUBSET S) = 2^n
      /\ IsFiniteSet(SUBSET T) /\ Cardinality(SUBSET T) = 2^(n + 1)
  BY <1>1, FS_SUBSET
<1>3. IsFiniteSet({0, 1}) /\ Cardinality({0, 1}) = 2
  <2>1. IsFiniteSet({0}) /\ Cardinality({0}) = 1
    BY FS_Singleton
  <2>2. {0, 1} = {0} \cup {1}
    OBVIOUS
  <2> QED
    BY <2>1, <2>2, FS_AddElement
<1>4. Cardinality(SUBSET S) \in Nat
  BY <1>2, FS_CardinalityType
<1>5. Cardinality(Both) = Cardinality(SUBSET S) * 2
  BY <1>2, <1>3, FS_Product
<1>6. f \in Bijection(SUBSET T, Both)
  <2>1. f \in [SUBSET T -> Both]
    <3>1. ASSUME NEW X \in SUBSET T PROVE <<X \ {n + 1}, IF n + 1 \in X THEN 1 ELSE 0>> \in Both
      <4>1. X \ {n + 1} \in SUBSET S
        OBVIOUS
      <4>2. (IF n + 1 \in X THEN 1 ELSE 0) \in {0, 1}
        OBVIOUS
      <4> QED
        BY <4>1, <4>2
    <3> QED
      BY <3>1
  <2>2. ASSUME NEW X \in SUBSET T, NEW Y \in SUBSET T, f[X] = f[Y] PROVE X = Y
    <3>1. X \ {n + 1} = Y \ {n + 1} /\ (n + 1 \in X <=> n + 1 \in Y)
      BY <2>2
    <3> QED
      BY <3>1
  <2>3. ASSUME NEW pair \in Both PROVE \E X \in SUBSET T : f[X] = pair
    <3> DEFINE X == IF pair[2] = 1 THEN pair[1] \cup {n + 1} ELSE pair[1]
    <3>1. X \in SUBSET T /\ X \ {n + 1} = pair[1] /\ (n + 1 \in X <=> pair[2] = 1)
      <4>1. pair[1] \in SUBSET S /\ pair[2] \in {0, 1}
        OBVIOUS
      <4>2. pair[1] \subseteq T /\ n + 1 \notin pair[1] /\ n + 1 \in T
        BY <4>1
      <4>3. CASE pair[2] = 1
        BY <4>2, <4>3
      <4>4. CASE pair[2] = 0
        BY <4>2, <4>4
      <4> QED
        BY <4>1, <4>3, <4>4
    <3>2. pair = <<pair[1], pair[2]>> /\ pair[2] \in {0, 1}
      OBVIOUS
    <3> HIDE DEF X
    <3>3. f[X] = <<X \ {n + 1}, IF n + 1 \in X THEN 1 ELSE 0>>
      BY <3>1
    <3>4. f[X] = pair
      BY <3>1, <3>2, <3>3
    <3> QED
      BY <3>1, <3>4
  <2> HIDE DEF f, Both
  <2> QED
    BY <2>1, <2>2, <2>3 DEF Bijection, Injection, Surjection, IsInjective
<1>7. ExistsBijection(SUBSET T, Both)
  BY <1>6 DEF ExistsBijection
<1>8. Cardinality(Both) = Cardinality(SUBSET T)
  BY <1>2, <1>7, FS_Bijection
<1> QED
  BY <1>2, <1>4, <1>5, <1>8

(* The laws of powers the segments need                                    *)
LEMMA PowersGrow ==
  /\ \A n \in Nat : 2^n \in Nat \ {0}
  /\ \A n \in Nat \ {0} : 2^n \in Nat \ {0, 1} /\ 2^n = 2 * 2^(n - 1)
  /\ \A i, j \in Nat : 2^(i + j) = 2^i * 2^j
<1>1. \A n \in Nat : 2^n \in Nat /\ 2^(n + 1) = 2 * 2^n
  BY Doubling
<1>2. \A n \in Nat : 2^n # 0
  <2> DEFINE T == {n \in Nat : 2^n # 0}
  <2>1. 0 \in T
    OBVIOUS
  <2>2. \A n \in Nat : n \in T => n + 1 \in T
    BY <1>1
  <2> HIDE DEF T
  <2>3. Nat \subseteq T
    BY <2>1, <2>2, Induction
  <2> QED
    BY <2>3 DEF T
<1>3. ASSUME NEW n \in Nat \ {0} PROVE 2^n \in Nat \ {0, 1} /\ 2^n = 2 * 2^(n - 1)
  <2>1. n - 1 \in Nat /\ (n - 1) + 1 = n
    OBVIOUS
  <2>2. 2^n = 2 * 2^(n - 1) /\ 2^(n - 1) \in Nat /\ 2^(n - 1) # 0
    BY <1>1, <1>2, <2>1
  <2> QED
    BY <2>2
<1>4. ASSUME NEW i \in Nat, NEW j \in Nat PROVE 2^(i + j) = 2^i * 2^j
  <2> DEFINE T == {n \in Nat : 2^(i + n) = 2^i * 2^n}
  <2>1. 0 \in T
    <3>1. i + 0 = i /\ 2^0 = 1 /\ 2^i \in Nat
      BY <1>1
    <3> QED
      BY <3>1
  <2>2. ASSUME NEW n \in Nat, n \in T PROVE n + 1 \in T
    <3>1. i + (n + 1) = (i + n) + 1 /\ i + n \in Nat
      OBVIOUS
    <3>2. 2^(i + (n + 1)) = 2 * (2^i * 2^n)
      BY <1>1, <2>2, <3>1
    <3>3. 2^(n + 1) = 2 * 2^n /\ 2^i \in Nat /\ 2^n \in Nat
      BY <1>1
    <3>4. 2 * (2^i * 2^n) = 2^i * (2 * 2^n)
      BY <3>3
    <3> QED
      BY <3>2, <3>3, <3>4
  <2> HIDE DEF T
  <2>3. Nat \subseteq T
    BY <2>1, <2>2, Induction
  <2> QED
    BY <2>3 DEF T
<1> QED
  BY <1>1, <1>2, <1>3, <1>4

(* The sizes of a byte, of the integer and of its segments                 *)
LEMMA Sizes ==
  ASSUME Fits
  PROVE  /\ CONTINUE_BIT \in Nat \ {0, 1}
         /\ 2^Width \in Nat \ {0} /\ 2^(Width - 1) \in Nat \ {0} /\ 2^Width = 2 * 2^(Width - 1)
         /\ \A i \in Nat : 2^(SegmentBits * i) \in Nat \ {0}
         /\ \A i \in Nat : 2^(SegmentBits * (i + 1)) = 2^(SegmentBits * i) * CONTINUE_BIT
         /\ 2^(SegmentBits * 0) = 1
         /\ 2^Width <= 2^(SegmentBits * MaxBytes)
         /\ MaxBytes \in Nat \ {0}
<1> USE DEF Fits, CONTINUE_BIT
<1>1. CONTINUE_BIT \in Nat \ {0, 1}
  BY PowersGrow
<1>2. 2^Width \in Nat \ {0} /\ 2^(Width - 1) \in Nat \ {0} /\ 2^Width = 2 * 2^(Width - 1)
  <2>1. Width - 1 \in Nat
    OBVIOUS
  <2> QED
    BY <2>1, PowersGrow
<1>3. \A i \in Nat : 2^(SegmentBits * i) \in Nat \ {0}
  <2>1. \A i \in Nat : SegmentBits * i \in Nat
    OBVIOUS
  <2> QED
    BY <2>1, PowersGrow
<1>4. ASSUME NEW i \in Nat PROVE 2^(SegmentBits * (i + 1)) = 2^(SegmentBits * i) * CONTINUE_BIT
  <2>1. SegmentBits * (i + 1) = SegmentBits * i + SegmentBits /\ SegmentBits * i \in Nat
    OBVIOUS
  <2> QED
    BY <2>1, PowersGrow
<1>5. 2^(SegmentBits * 0) = 1
  <2>1. SegmentBits * 0 = 0 /\ 2^0 = 1
    BY DEF Fits
  <2>2. 2^(SegmentBits * 0) = 2^0
    BY ONLY <2>1, Zenon
  <2> QED
    BY ONLY <2>1, <2>2
<1>6. 2^Width <= 2^(SegmentBits * MaxBytes)
  <2> DEFINE rest == SegmentBits * MaxBytes - Width
  <2>1. rest \in Nat /\ SegmentBits * MaxBytes = Width + rest
    OBVIOUS
  <2> HIDE DEF rest
  <2>2. 2^(Width + rest) = 2^Width * 2^rest /\ 2^Width \in Nat \ {0} /\ 2^rest \in Nat \ {0}
    BY <2>1, PowersGrow
  <2>3. \A x, y \in Nat \ {0} : x <= x * y
    OBVIOUS
  <2> QED
    BY <2>1, <2>2, <2>3
<1>7. MaxBytes # 0
  <2>1. SegmentBits * 0 = 0
    OBVIOUS
  <2> QED
    BY <2>1
<1> QED
  BY <1>1, <1>2, <1>3, <1>4, <1>5, <1>6, <1>7

(* Quotient and remainder                                                  *)
LEMMA Division ==
  ASSUME NEW c \in Nat \ {0, 1}, NEW v \in Nat
  PROVE  /\ v % c \in 0 .. c - 1 /\ v \div c \in Nat /\ v = (v % c) + c * (v \div c)
         /\ ((v % c) + c) % c = v % c
         /\ v >= c => v \div c < v /\ v \div c > 0
         /\ v < c => v % c = v
<1>1. v % c \in 0 .. c - 1 /\ v \div c \in Nat /\ v = (v % c) + c * (v \div c)
  OBVIOUS
<1>2. ((v % c) + c) % c = v % c
  <2> DEFINE r == v % c
  <2>1. r \in 0 .. c - 1
    BY <1>1
  <2> HIDE DEF r
  <2>2. (r + c) % c = r
    BY <2>1
  <2> QED
    BY <2>2 DEF r
<1>3. ASSUME v >= c PROVE v \div c < v /\ v \div c > 0
  BY <1>3
<1>4. v < c => v % c = v
  OBVIOUS
<1> QED
  BY <1>1, <1>2, <1>3, <1>4

(* The recursion of write_to ends: every word has its bytes.               *)
LEMMA SegmentsOf ==
  ASSUME Fits, NEW v \in 0 .. 2^Width - 1
  PROVE  Segments[v] = IF v < CONTINUE_BIT THEN <<v>>
                       ELSE <<(v % CONTINUE_BIT) + CONTINUE_BIT>> \o Segments[v \div CONTINUE_BIT]
<1> DEFINE C == CONTINUE_BIT
           Of(f, w) == IF w < C THEN <<w>> ELSE <<(w % C) + C>> \o f[w \div C]
           T == {n \in Nat : \E f : f = [w \in 0 .. n - 1 |-> Of(f, w)]}
<1>1. C \in Nat \ {0, 1} /\ 2^Width \in Nat \ {0}
  BY Sizes
<1> HIDE DEF C
<1>2. 0 \in T
  <2> DEFINE f == [w \in 0 .. 0 - 1 |-> <<>>]
  <2>1. 0 .. 0 - 1 = {}
    OBVIOUS
  <2>2. f = [w \in 0 .. 0 - 1 |-> Of(f, w)]
    BY <2>1
  <2> HIDE DEF Of, f
  <2> QED
    BY <2>2
<1>3. ASSUME NEW n \in Nat, n \in T PROVE n + 1 \in T
  <2>1. PICK f : f = [w \in 0 .. n - 1 |-> Of(f, w)]
    BY <1>3
  <2> DEFINE g == [w \in 0 .. (n + 1) - 1 |-> Of(f, w)]
  <2>2. ASSUME NEW w \in 0 .. (n + 1) - 1 PROVE g[w] = Of(g, w)
    <3>1. CASE w < C
      BY <3>1
    <3>2. CASE w >= C
      <4>1. w \div C \in 0 .. n - 1
        <5>1. w \in Nat /\ w <= n
          OBVIOUS
        <5>2. w \div C \in Nat /\ w \div C < w
          BY <1>1, <3>2, <5>1, Division
        <5> QED
          BY <5>1, <5>2
      <4>2. f[w \div C] = Of(f, w \div C)
        BY <2>1, <4>1
      <4>3. g[w \div C] = Of(f, w \div C)
        BY <4>1
      <4> QED
        BY <3>2, <4>2, <4>3
    <3> QED
      BY <1>1, <3>1, <3>2
  <2>3. g = [w \in 0 .. (n + 1) - 1 |-> g[w]]
    OBVIOUS
  <2> HIDE DEF g, Of
  <2>4. g = [w \in 0 .. (n + 1) - 1 |-> Of(g, w)]
    BY <2>2, <2>3
  <2> QED
    BY <2>4
<1> HIDE DEF T
<1>4. 2^Width \in T
  BY <1>1, <1>2, <1>3, Induction
<1>5. Segments = [w \in 0 .. 2^Width - 1 |-> Of(Segments, w)]
  BY <1>4 DEF T, Segments, C
<1> QED
  BY <1>5 DEF C

(* ... and the loop of read: every prefix of the bytes has its word.       *)
LEMMA WordsOf ==
  ASSUME Fits, NEW bytes, Len(bytes) \in Nat
  PROVE  /\ Words(bytes)[0] = 0
         /\ \A i \in 1 .. Len(bytes) :
              Words(bytes)[i] = Words(bytes)[i - 1] + (bytes[i] % CONTINUE_BIT) * 2^(SegmentBits * (i - 1))
<1> DEFINE Of(f, i) == IF i = 0 THEN 0 ELSE f[i - 1] + (bytes[i] % CONTINUE_BIT) * 2^(SegmentBits * (i - 1))
           T == {n \in Nat : \E f : f = [i \in 0 .. n |-> Of(f, i)]}
<1>1. 0 \in T
  <2> DEFINE f == [i \in 0 .. 0 |-> 0]
  <2>1. f = [i \in 0 .. 0 |-> Of(f, i)]
    OBVIOUS
  <2> HIDE DEF f, Of
  <2> QED
    BY <2>1
<1>2. ASSUME NEW n \in Nat, n \in T PROVE n + 1 \in T
  <2>1. PICK f : f = [i \in 0 .. n |-> Of(f, i)]
    BY <1>2
  <2> DEFINE g == [i \in 0 .. n + 1 |-> Of(f, i)]
  <2>2. ASSUME NEW i \in 0 .. n + 1 PROVE g[i] = Of(g, i)
    <3>1. CASE i = 0
      BY <3>1
    <3>2. CASE i # 0
      <4>1. i - 1 \in 0 .. n
        BY <3>2
      <4>2. f[i - 1] = Of(f, i - 1)
        BY <2>1, <4>1
      <4>3. g[i - 1] = Of(f, i - 1)
        BY <4>1
      <4>4. g[i - 1] = f[i - 1]
        BY <4>2, <4>3
      <4> QED
        BY <3>2, <4>4
    <3> QED
      BY <3>1, <3>2
  <2>3. g = [i \in 0 .. n + 1 |-> g[i]]
    OBVIOUS
  <2> HIDE DEF g, Of
  <2>4. g = [i \in 0 .. n + 1 |-> Of(g, i)]
    BY <2>2, <2>3
  <2> QED
    BY <2>4
<1> HIDE DEF T
<1>3. Len(bytes) \in T
  BY <1>1, <1>2, Induction
<1>4. Words(bytes) = [i \in 0 .. Len(bytes) |-> Of(Words(bytes), i)]
  BY <1>3 DEF T, Words
<1>5. \A i \in 0 .. Len(bytes) : Words(bytes)[i] = Of(Words(bytes), i)
  <2> HIDE DEF Of
  <2> QED
    BY <1>4
<1> QED
  BY <1>5

(* What write_to writes for a word: bytes with the continue bit, and a last *)
(* one without it.                                                         *)
Shape(bytes) ==
  /\ bytes \in Seq(Byte) /\ Len(bytes) \in Nat \ {0}
  /\ \A i \in 1 .. Len(bytes) - 1 : bytes[i] >= CONTINUE_BIT
  /\ bytes[Len(bytes)] < CONTINUE_BIT

(* A byte in front shifts the word of the rest by one segment.             *)
LEMMA WordsShift ==
  ASSUME Fits, NEW first \in Byte, NEW rest \in Seq(Byte)
  PROVE  \A i \in 0 .. Len(rest) :
           /\ Words(rest)[i] \in Nat
           /\ Words(<<first>> \o rest)[i + 1] = (first % CONTINUE_BIT) + CONTINUE_BIT * Words(rest)[i]
<1> DEFINE C == CONTINUE_BIT
           bytes == <<first>> \o rest
           P(i) == /\ Words(rest)[i] \in Nat
                   /\ Words(bytes)[i + 1] = (first % C) + C * Words(rest)[i]
           T == {i \in Nat : i <= Len(rest) => P(i)}
<1>1. C \in Nat \ {0, 1} /\ Byte = 0 .. 2 * C - 1
  BY Sizes DEF Byte
<1>2. /\ bytes \in Seq(Byte) /\ Len(bytes) = Len(rest) + 1 /\ bytes[1] = first
      /\ \A i \in 1 .. Len(rest) : bytes[i + 1] = rest[i] /\ rest[i] \in Byte
  OBVIOUS
<1> HIDE DEF bytes, C
<1>3. /\ Words(bytes)[0] = 0
      /\ \A i \in 1 .. Len(rest) + 1 :
           Words(bytes)[i] = Words(bytes)[i - 1] + (bytes[i] % C) * 2^(SegmentBits * (i - 1))
  BY <1>2, WordsOf DEF C
<1>4. /\ Words(rest)[0] = 0
      /\ \A i \in 1 .. Len(rest) :
           Words(rest)[i] = Words(rest)[i - 1] + (rest[i] % C) * 2^(SegmentBits * (i - 1))
  BY WordsOf DEF C
<1>5. \A b \in Byte : b % C \in Nat
  BY <1>1
<1>6. 0 \in T
  <2>1. Words(bytes)[1] = Words(bytes)[0] + (bytes[1] % C) * 2^(SegmentBits * 0)
    BY <1>3
  <2>2. 2^(SegmentBits * 0) = 1 /\ first % C \in Nat
    BY <1>5, Sizes
  <2> QED
    BY <1>1, <1>2, <1>3, <1>4, <2>1, <2>2
<1>7. ASSUME NEW n \in Nat, n \in T PROVE n + 1 \in T
  <2> SUFFICES ASSUME n + 1 <= Len(rest) PROVE P(n + 1)
    BY DEF T
  <2> DEFINE p == 2^(SegmentBits * n)
             w == Words(rest)[n]
             d == rest[n + 1] % C
  <2>1. /\ w \in Nat /\ Words(bytes)[n + 1] = (first % C) + C * w
    BY <1>7
  <2>2. p \in Nat /\ 2^(SegmentBits * (n + 1)) = p * C
    BY Sizes DEF C
  <2>3. d \in Nat /\ first % C \in Nat
    BY <1>2, <1>5
  <2>4. Words(rest)[n + 1] = w + d * p
    <3>1. n + 1 \in 1 .. Len(rest) /\ (n + 1) - 1 = n
      OBVIOUS
    <3> QED
      BY <1>4, <3>1
  <2>5. Words(bytes)[n + 2] = Words(bytes)[n + 1] + d * (p * C)
    <3>1. n + 2 \in 1 .. Len(rest) + 1 /\ (n + 2) - 1 = n + 1 /\ n + 1 \in 1 .. Len(rest)
      OBVIOUS
    <3>2. bytes[n + 2] = rest[n + 1]
      BY <1>2, <3>1
    <3> QED
      BY <1>3, <2>2, <3>1, <3>2
  <2> HIDE DEF p, w, d
  <2>6. w + d * p \in Nat
    BY <2>1, <2>2, <2>3
  <2>7. ((first % C) + C * w) + d * (p * C) = (first % C) + C * (w + d * p)
    <3> DEFINE f == first % C
    <3>1. f \in Nat
      BY <2>3
    <3> HIDE DEF f
    <3>2. (f + C * w) + d * (p * C) = f + C * (w + d * p)
      BY <1>1, <2>1, <2>2, <2>3, <3>1
    <3> QED
      BY <3>2 DEF f
  <2>8. (n + 1) + 1 = n + 2
    OBVIOUS
  <2> QED
    BY <2>1, <2>4, <2>5, <2>6, <2>7, <2>8
<1> HIDE DEF T
<1>8. Nat \subseteq T
  BY <1>6, <1>7, Induction
<1> QED
  BY <1>8 DEF T, bytes, C

(* What the loop of write_to produces is of that shape, the loop of read   *)
(* puts the word together again, and small words take few bytes.           *)
LEMMA SegmentsAreRead ==
  ASSUME Fits, NEW v \in 0 .. 2^Width - 1
  PROVE  /\ Shape(Segments[v])
         /\ Words(Segments[v])[Len(Segments[v])] = v
         /\ \A k \in Nat \ {0} : v < 2^(SegmentBits * k) => Len(Segments[v]) <= k
<1> DEFINE C == CONTINUE_BIT
           P(w) == /\ Shape(Segments[w])
                   /\ Words(Segments[w])[Len(Segments[w])] = w
                   /\ \A k \in Nat \ {0} : w < 2^(SegmentBits * k) => Len(Segments[w]) <= k
           T == {n \in Nat : \A w \in 0 .. 2^Width - 1 : w < n => P(w)}
<1>1. C \in Nat \ {0, 1} /\ Byte = 0 .. 2 * C - 1 /\ 2^Width \in Nat \ {0}
  BY Sizes DEF Byte
<1> HIDE DEF C
<1>2. 0 \in T
  OBVIOUS
<1>3. ASSUME NEW n \in Nat, n \in T PROVE n + 1 \in T
  <2> SUFFICES ASSUME NEW w \in 0 .. 2^Width - 1, w < n + 1 PROVE P(w)
    BY DEF T
  <2> DEFINE M == 2^Width
  <2>a. M \in Nat /\ w \in 0 .. M - 1
    BY <1>1
  <2> HIDE DEF M
  <2>b. w \in Nat
    BY <2>a
  <2>0. Segments[w] = IF w < C THEN <<w>> ELSE <<(w % C) + C>> \o Segments[w \div C]
    BY SegmentsOf DEF C
  <2>1. CASE w < C
    <3>1. Segments[w] = <<w>> /\ w \in Byte
      BY <1>1, <2>0, <2>1
    <3>2. Shape(Segments[w])
      BY <2>1, <3>1 DEF Shape, C
    <3>3. Words(<<w>>)[1] = w
      <4>1. Len(<<w>>) = 1 /\ <<w>>[1] = w /\ 1 - 1 = 0
        OBVIOUS
      <4>2. Words(<<w>>)[0] = 0 /\ Words(<<w>>)[1] = Words(<<w>>)[0] + (w % C) * 2^(SegmentBits * 0)
        BY <4>1, WordsOf DEF C
      <4>3. w % C = w /\ 2^(SegmentBits * 0) = 1
        BY <1>1, <2>1, <2>b, Sizes, Division
      <4> QED
        BY <4>2, <4>3
    <3> QED
      BY <3>1, <3>2, <3>3
  <2>2. CASE w >= C
    <3> DEFINE u == w \div C
               r == w % C
               rest == Segments[u]
    <3>1. /\ u \in Nat /\ r \in 0 .. C - 1 /\ w = r + C * u /\ u < w /\ u > 0 /\ (r + C) % C = r
      BY <1>1, <2>2, <2>b, Division
    <3>2. u \in 0 .. 2^Width - 1 /\ u < n
      <4>1. u \in 0 .. M - 1 /\ u < n
        BY <2>a, <3>1
      <4> QED
        BY <4>1 DEF M
    <3>3. Segments[w] = <<r + C>> \o rest
      BY <1>1, <2>0, <2>2, <2>b
    <3> HIDE DEF u, r
    <3>c. r + C \in Byte /\ r + C >= C
      BY <1>1, <3>1
    <3>4. P(u)
      BY <1>3, <3>2
    <3>5. rest \in Seq(Byte) /\ Len(rest) \in Nat \ {0}
      BY <3>4 DEF Shape
    <3>6. /\ Segments[w] \in Seq(Byte) /\ Len(Segments[w]) = Len(rest) + 1
          /\ Segments[w][1] = r + C
          /\ \A i \in 1 .. Len(rest) : Segments[w][i + 1] = rest[i]
      BY <3>3, <3>c, <3>5
    <3>7. Shape(Segments[w])
      <4>1. ASSUME NEW i \in 1 .. Len(Segments[w]) - 1 PROVE Segments[w][i] >= C
        <5>1. CASE i = 1
          BY <3>c, <3>6, <5>1
        <5>2. CASE i # 1
          <6>1. i - 1 \in 1 .. Len(rest) - 1 /\ i - 1 \in 1 .. Len(rest) /\ (i - 1) + 1 = i
            BY <3>5, <3>6, <5>2
          <6> QED
            BY <3>4, <3>6, <6>1 DEF Shape, C
        <5> QED
          BY <5>1, <5>2
      <4>2. Segments[w][Len(Segments[w])] < C
        <5>1. Len(rest) \in 1 .. Len(rest)
          BY <3>5
        <5> QED
          BY <3>4, <3>6, <5>1 DEF Shape, C
      <4> QED
        BY <3>5, <3>6, <4>1, <4>2 DEF Shape, C
    <3>8. Words(Segments[w])[Len(Segments[w])] = w
      <4>1. Words(<<r + C>> \o rest)[Len(rest) + 1] = ((r + C) % C) + C * Words(rest)[Len(rest)]
        <5>1. Len(rest) \in 0 .. Len(rest)
          BY <3>5
        <5> HIDE DEF rest
        <5> QED
          BY <3>c, <3>5, <5>1, WordsShift DEF C
      <4> QED
        BY <3>1, <3>3, <3>4, <3>6, <4>1
    <3>9. ASSUME NEW k \in Nat \ {0}, w < 2^(SegmentBits * k) PROVE Len(Segments[w]) <= k
      <4>1. k # 1
        <5>1. 2^(SegmentBits * (0 + 1)) = 2^(SegmentBits * 0) * C /\ 2^(SegmentBits * 0) = 1
          BY Sizes DEF C
        <5>2. 2^(SegmentBits * 1) = C
          BY <1>1, <5>1
        <5> QED
          BY <1>1, <2>2, <3>9, <5>2
      <4>2. k - 1 \in Nat \ {0} /\ (k - 1) + 1 = k
        BY <4>1
      <4> DEFINE p == 2^(SegmentBits * (k - 1))
      <4>3. p \in Nat /\ 2^(SegmentBits * k) = p * C
        BY <4>2, Sizes DEF C
      <4> HIDE DEF p
      <4>4. u < p
        <5>1. r + C * u < p * C
          BY <3>1, <3>9, <4>3
        <5>2. ASSUME u >= p PROVE FALSE
          <6>1. C * u >= C * p
            BY <1>1, <3>1, <4>3, <5>2
          <6> QED
            BY <1>1, <3>1, <4>3, <5>1, <6>1
        <5> QED
          BY <3>1, <4>3, <5>2
      <4>5. Len(rest) <= k - 1
        BY <3>4, <4>2, <4>4 DEF p
      <4> QED
        BY <3>5, <3>6, <4>2, <4>5
    <3> QED
      BY <3>7, <3>8, <3>9
  <2> QED
    BY <1>1, <2>1, <2>2
<1> HIDE DEF T
<1>4. Nat \subseteq T
  BY <1>2, <1>3, Induction
<1>5. v + 1 \in T /\ v < v + 1
  BY <1>1, <1>4
<1> QED
  BY <1>5 DEF T

(* The casts undo each other.                                              *)
LEMMA CastsAgree ==
  ASSUME Fits, NEW value \in Signed
  PROVE  /\ AsUnsigned(value) \in 0 .. 2^Width - 1
         /\ AsSigned(AsUnsigned(value) % 2^Width) = value
<1> DEFINE H == 2^(Width - 1)
           M == 2^Width
<1>1. H \in Nat \ {0} /\ M = 2 * H /\ value \in -H .. H - 1
  BY Sizes DEF Signed
<1> HIDE DEF H, M
<1>2. CASE value >= 0
  <2>1. value % M = value /\ value \in 0 .. M - 1 /\ value < H
    BY <1>1, <1>2
  <2> QED
    BY <1>1, <2>1 DEF AsUnsigned, AsSigned, H, M
<1>3. CASE value < 0
  <2>1. value % M = value + M /\ value + M \in 0 .. M - 1 /\ value + M >= H /\ (value + M) % M = value + M
    BY <1>1, <1>3
  <2>2. (value + M) - M = value
    BY <1>1
  <2> QED
    BY <1>1, <2>1, <2>2 DEF AsUnsigned, AsSigned, H, M
<1> QED
  BY <1>1, <1>2, <1>3

(* Decoding what encoding gave, from bytes that begin with it: before the  *)
(* last of its bytes is there, nothing is read; from then on, the value.   *)
LEMMA DecodeOf ==
  ASSUME Fits, NEW value \in Signed, NEW bytes \in Seq(Byte),
         \A i \in DOMAIN bytes \cap DOMAIN Encode(value) : bytes[i] = Encode(value)[i]
  PROVE  /\ Shape(Encode(value)) /\ Len(Encode(value)) <= MaxBytes
         /\ Len(bytes) < Len(Encode(value)) => Decode(bytes) = Eof
         /\ Len(bytes) >= Len(Encode(value)) =>
              Decode(bytes) = [error |-> "none", read |-> Len(Encode(value)), value |-> value]
<1> DEFINE E == Encode(value)
           n == Len(E)
           last == {i \in DOMAIN bytes : bytes[i] < CONTINUE_BIT}
<1>1. E = Segments[AsUnsigned(value)] /\ AsUnsigned(value) \in 0 .. 2^Width - 1
  BY CastsAgree DEF Encode, Segments
<1>2. Shape(E) /\ Words(E)[n] = AsUnsigned(value) /\ n <= MaxBytes
  <2>1. AsUnsigned(value) < 2^(SegmentBits * MaxBytes) /\ MaxBytes \in Nat \ {0}
    <3>1. /\ 2^Width \in Nat /\ 2^Width <= 2^(SegmentBits * MaxBytes) /\ MaxBytes \in Nat \ {0}
          /\ 2^(SegmentBits * MaxBytes) \in Nat
      BY Sizes
    <3> HIDE DEF E
    <3> QED
      BY <1>1, <3>1
  <2> HIDE DEF E
  <2> QED
    BY <1>1, <2>1, SegmentsAreRead
<1>3. CONTINUE_BIT \in Nat /\ Byte \subseteq Nat
  BY Sizes DEF Byte
<1>4. E \in Seq(Byte) /\ n \in Nat \ {0} /\ DOMAIN E = 1 .. n /\ DOMAIN bytes = 1 .. Len(bytes) /\ Len(bytes) \in Nat
  BY <1>2 DEF Shape
<1>5. Value(E) = value
  BY <1>2, CastsAgree DEF Value, Words
<1>8. ASSUME NEW i \in 1 .. Len(bytes), i <= n PROVE bytes[i] = E[i] /\ i \in 1 .. n /\ bytes[i] \in Nat
  <2>1. i \in DOMAIN E /\ i \in DOMAIN bytes
    BY <1>4, <1>8
  <2>2. bytes[i] = E[i]
    BY <2>1
  <2>3. bytes[i] \in Byte
    BY <2>1
  <2> QED
    BY <1>3, <1>4, <2>1, <2>2, <2>3
<1> HIDE DEF E
<1>6. ASSUME Len(bytes) < n PROVE Decode(bytes) = Eof
  <2>1. ASSUME NEW i \in last PROVE FALSE
    <3>1. i \in 1 .. n - 1 /\ bytes[i] = E[i] /\ bytes[i] \in Nat /\ bytes[i] < CONTINUE_BIT
      BY <1>4, <1>6, <1>8
    <3> QED
      BY <1>2, <1>3, <3>1 DEF Shape
  <2>2. ~(Len(bytes) > MaxBytes)
    BY <1>2, <1>4, <1>6 DEF Fits
  <2> QED
    BY <2>1, <2>2 DEF Decode
<1>7. ASSUME Len(bytes) >= n PROVE Decode(bytes) = [error |-> "none", read |-> n, value |-> value]
  <2>1. n \in last
    BY <1>2, <1>4, <1>7, <1>8 DEF Shape
  <2>2. \A i \in last : n <= i
    <3>1. ASSUME NEW i \in last, i < n PROVE FALSE
      <4>1. i \in 1 .. n - 1
        BY <1>4, <3>1
      <4>2. bytes[i] = E[i] /\ bytes[i] < CONTINUE_BIT /\ E[i] \in Nat
        BY <1>4, <1>8, <3>1
      <4> QED
        BY <1>2, <1>3, <4>1, <4>2 DEF Shape
    <3> QED
      BY <1>4, <3>1
  <2>3. Min(last) = n
    <3>1. \A x \in last : (\A y \in last : x <= y) => x = n
      BY <1>4, <2>1, <2>2
    <3> QED
      BY <2>1, <2>2, <3>1 DEF Min
  <2>4. SubSeq(bytes, 1, n) = E
    <3>1. SubSeq(bytes, 1, n) \in Seq(Byte) /\ Len(SubSeq(bytes, 1, n)) = n
      BY <1>4, <1>7
    <3>2. \A i \in 1 .. n : SubSeq(bytes, 1, n)[i] = E[i]
      BY <1>4, <1>7, <1>8
    <3> QED
      BY <1>4, <3>1, <3>2
  <2>5. last # {} /\ Min(last) <= MaxBytes
    BY <1>2, <2>1, <2>3
  <2> HIDE DEF last
  <2> QED
    BY <1>5, <2>3, <2>4, <2>5 DEF Decode, last
<1> QED
  BY <1>2, <1>6, <1>7 DEF E

(* Every value is read as it was written, with any bytes behind it, and is *)
(* not read before its last byte is there; it takes no more bytes than the *)
(* reader accepts, and no byte more than its word needs: k bytes, if k     *)
(* segments hold the word.  VarInt::write_to and VarInt::read, for any     *)
(* width.                                                                  *)
THEOREM VarIntsRoundTrip ==
  ASSUME NEW value \in Signed, NEW rest \in Seq(Byte)
  PROVE  /\ Decode(Encode(value) \o rest) = [error |-> "none", read |-> Len(Encode(value)), value |-> value]
         /\ Len(Encode(value)) <= MaxBytes
         /\ \A k \in Nat \ {0} : AsUnsigned(value) < 2^(SegmentBits * k) => Len(Encode(value)) <= k
         /\ \A m \in 0 .. Len(Encode(value)) - 1 : Decode(SubSeq(Encode(value), 1, m)) = Eof
<1> USE VarIntAssumption
<1> DEFINE E == Encode(value)
<1>1. E \in Seq(Byte) /\ Len(E) <= MaxBytes
  <2>1. Shape(Encode(value)) /\ Len(Encode(value)) <= MaxBytes
    <3>1. <<>> \in Seq(Byte) /\ DOMAIN <<>> = {}
      OBVIOUS
    <3> QED
      BY <3>1, DecodeOf
  <2> QED
    BY <2>1 DEF Shape
<1> HIDE DEF E
<1>2. Decode(E \o rest) = [error |-> "none", read |-> Len(E), value |-> value]
  <2>1. /\ E \o rest \in Seq(Byte) /\ Len(E \o rest) >= Len(E)
        /\ \A i \in DOMAIN (E \o rest) \cap DOMAIN E : (E \o rest)[i] = E[i]
    BY <1>1
  <2> QED
    BY <2>1, DecodeOf DEF E
<1>3. ASSUME NEW m \in 0 .. Len(E) - 1 PROVE Decode(SubSeq(E, 1, m)) = Eof
  <2>1. /\ SubSeq(E, 1, m) \in Seq(Byte) /\ Len(SubSeq(E, 1, m)) < Len(E)
        /\ \A i \in DOMAIN SubSeq(E, 1, m) \cap DOMAIN E : SubSeq(E, 1, m)[i] = E[i]
    BY <1>1
  <2> QED
    BY <2>1, DecodeOf DEF E
<1>4. ASSUME NEW k \in Nat \ {0}, AsUnsigned(value) < 2^(SegmentBits * k) PROVE Len(E) <= k
  <2> DEFINE word == AsUnsigned(value)
  <2>1. word \in 0 .. 2^Width - 1 /\ E = Segments[word]
    BY CastsAgree DEF Encode, Segments, E
  <2> HIDE DEF word
  <2>2. word < 2^(SegmentBits * k)
    BY <1>4 DEF word
  <2> QED
    BY <2>1, <2>2, SegmentsAreRead
<1> QED
  BY <1>1, <1>2, <1>3, <1>4 DEF E

-------------------------------------------------------------------------------
(* Frames *)

(* Lengths up to the longest packet are signed, and have their bytes.      *)
LEMMA LengthsAreSigned ==
  ASSUME Fits, FramesFit, NEW n \in 0 .. MAXIMUM_PACKET_LENGTH
  PROVE  /\ n \in Signed /\ Encode(n) \in Seq(Byte) /\ Len(Encode(n)) \in 1 .. MaxBytes
<1>1. n \in Signed
  <2> DEFINE H == 2^(Width - 1)
  <2>1. H \in Nat \ {0}
    BY Sizes
  <2> HIDE DEF H
  <2>2. n \in -H .. H - 1
    BY <2>1 DEF FramesFit, H
  <2> QED
    BY <2>2 DEF Signed, H
<1>2. Shape(Encode(n)) /\ Len(Encode(n)) <= MaxBytes
  <2>1. <<>> \in Seq(Byte) /\ DOMAIN <<>> = {}
    OBVIOUS
  <2> QED
    BY <1>1, <2>1, DecodeOf
<1> QED
  BY <1>1, <1>2 DEF Shape, Fits

(* What is behind the head of a sequence                                   *)
LEMMA BehindHead ==
  ASSUME NEW T, NEW s \in Seq(T), NEW t \in Seq(T)
  PROVE  /\ s \o t \in Seq(T) /\ Len(s \o t) = Len(s) + Len(t)
         /\ SubSeq(s \o t, Len(s) + 1, Len(s \o t)) = t
<1>1. s \o t \in Seq(T) /\ Len(s \o t) = Len(s) + Len(t) /\ Len(s) \in Nat /\ Len(t) \in Nat
  OBVIOUS
<1>2. \A i \in 1 .. Len(t) : SubSeq(s \o t, Len(s) + 1, Len(s \o t))[i] = t[i]
  OBVIOUS
<1> QED
  BY <1>1, <1>2

(* What is in a frame                                                      *)
Contents(packet, compression) ==
  CASE ~compression -> packet
    [] compression /\ Len(packet) >= Threshold -> Encode(Len(packet)) \o Compress(packet)
    [] OTHER -> Encode(0) \o packet

(* ... decodes to the packet, if the server expects its format.            *)
LEMMA ContentsDecode ==
  ASSUME Fits, FramesFit, NEW packet \in Packet, NEW compression \in BOOLEAN
  PROVE  /\ Frame(packet, compression) = WithLength(Contents(packet, compression))
         /\ Contents(packet, compression) \in Seq(Byte)
         /\ Len(Contents(packet, compression)) \in 1 .. MAXIMUM_PACKET_LENGTH
         /\ compression => Uncompressed(Contents(packet, compression)) = packet
         /\ ~compression => Contents(packet, compression) = packet
<1> DEFINE n == Len(packet)
           content == Contents(packet, compression)
<1>1. packet \in Seq(Byte) /\ packet # <<>> /\ n \in Nat \ {0}
  BY DEF FramesFit
<1>2. n \in 0 .. MAXIMUM_PACKET_LENGTH /\ Len(Encode(n)) + 1 + n <= MAXIMUM_PACKET_LENGTH
      /\ MAXIMUM_PACKET_LENGTH \in Nat
  <2>1. Shape(Encode(n)) => Len(Encode(n)) \in Nat
    BY DEF Shape
  <2>2. Len(Encode(n)) \in Nat
    <3>1. AsUnsigned(n) \in 0 .. 2^Width - 1
      <4> DEFINE M == 2^Width
      <4>1. M \in Nat \ {0}
        BY Sizes
      <4> HIDE DEF M
      <4>2. n % M \in 0 .. M - 1
        BY <1>1, <4>1
      <4> QED
        BY <4>2 DEF AsUnsigned, M
    <3>2. Encode(n) = Segments[AsUnsigned(n)]
      BY DEF Encode, Segments
    <3> QED
      BY <3>1, <3>2, SegmentsAreRead DEF Shape
  <2>3. /\ MAXIMUM_PACKET_LENGTH \in Nat
        /\ Len(Encode(n)) + 1 + n <= MAXIMUM_PACKET_LENGTH
    BY DEF FramesFit
  <2> QED
    BY <1>1, <2>2, <2>3
<1>3. 0 \in 0 .. MAXIMUM_PACKET_LENGTH
  BY <1>2
<1>4. ZlibHeader \in Byte
  BY Sizes DEF ZlibHeader, Byte
<1>5. Frame(packet, compression) = WithLength(content)
  BY DEF Frame, Contents
<1>6. CASE ~compression
  BY <1>1, <1>2, <1>5, <1>6 DEF Contents
<1>7. CASE compression /\ n >= Threshold
  <2> DEFINE head == Encode(n)
             payload == <<ZlibHeader>> \o packet
  <2>1. content = head \o payload
    BY <1>7 DEF Contents, Compress
  <2>2. head \in Seq(Byte) /\ Len(head) \in 1 .. MaxBytes /\ n \in Signed /\ MaxBytes \in Nat
    BY <1>2, LengthsAreSigned DEF Fits
  <2>3. payload \in Seq(Byte) /\ Len(payload) = n + 1 /\ Head(payload) = ZlibHeader /\ Tail(payload) = packet
    BY <1>1, <1>4
  <2> HIDE DEF payload, content
  <2>4. Decode(head \o payload) = [error |-> "none", read |-> Len(head), value |-> n]
    BY <2>2, <2>3, VarIntsRoundTrip
  <2> HIDE DEF head
  <2>5. SubSeq(content, Len(head) + 1, Len(content)) = payload
    BY <2>1, <2>2, <2>3, BehindHead
  <2>6. content \in Seq(Byte) /\ Len(content) = Len(head) + n + 1
    <3>1. content \in Seq(Byte) /\ Len(content) = Len(head) + (n + 1)
      BY <2>1, <2>2, <2>3, BehindHead
    <3>2. Len(head) \in Nat
      BY <2>2
    <3> QED
      BY <1>1, <3>1, <3>2
  <2>7. Uncompressed(content) = packet
    <3>1. /\ Decode(content).error = "none" /\ Decode(content).value = n /\ n # 0
          /\ SubSeq(content, Decode(content).read + 1, Len(content)) = payload
      BY <1>1, <2>1, <2>4, <2>5
    <3>2. IsCompressed(payload) /\ Decompress(payload) = packet
      <4>1. payload # <<>>
        BY <1>1, <2>3
      <4> QED
        BY <2>3, <4>1 DEF IsCompressed, Decompress
    <3> QED
      BY <1>2, <3>1, <3>2 DEF Uncompressed
  <2>8. Len(content) \in 1 .. MAXIMUM_PACKET_LENGTH
    BY <1>1, <1>2, <2>2, <2>6 DEF head
  <2> QED
    BY <1>5, <1>7, <2>6, <2>7, <2>8 DEF content
<1>8. CASE compression /\ ~(n >= Threshold)
  <2> DEFINE head == Encode(0)
  <2>1. content = head \o packet
    BY <1>8 DEF Contents
  <2>2. head \in Seq(Byte) /\ Len(head) \in 1 .. MaxBytes /\ 0 \in Signed /\ MaxBytes \in Nat
    BY <1>3, LengthsAreSigned DEF Fits
  <2> HIDE DEF content
  <2>3. Decode(head \o packet) = [error |-> "none", read |-> Len(head), value |-> 0]
    BY <1>1, <2>2, VarIntsRoundTrip
  <2>a. Len(head) = 1
    <3> DEFINE M == 2^Width
    <3>1. M \in Nat \ {0}
      BY Sizes
    <3> HIDE DEF M
    <3>2. 0 % M = 0 /\ 0 \in 0 .. M - 1
      BY <3>1
    <3>3. head = Segments[0]
      BY <3>2 DEF Encode, Segments, AsUnsigned, M
    <3>4. Segments[0] = <<0>>
      <4>1. 0 < CONTINUE_BIT
        BY Sizes
      <4>2. 0 \in 0 .. 2^Width - 1
        BY <3>2 DEF M
      <4> QED
        BY <4>1, <4>2, SegmentsOf
    <3> QED
      BY <3>3, <3>4
  <2> HIDE DEF head
  <2>5. SubSeq(content, Len(head) + 1, Len(content)) = packet
    BY <1>1, <2>1, <2>2
  <2>6. content \in Seq(Byte) /\ Len(content) = Len(head) + n
    BY <1>1, <2>1, <2>2
  <2>7. Uncompressed(content) = packet
    BY <1>1, <1>2, <2>1, <2>3, <2>5 DEF Uncompressed
  <2>8. Len(content) \in 1 .. MAXIMUM_PACKET_LENGTH
    <3>1. Len(Encode(n)) \in Nat
      BY <1>2, LengthsAreSigned
    <3> QED
      BY <1>1, <1>2, <2>a, <2>6, <3>1
  <2> QED
    BY <1>5, <1>8, <2>6, <2>7, <2>8 DEF content
<1> QED
  BY <1>6, <1>7, <1>8

(* Reading bytes that begin a frame: the server wants more until the frame *)
(* is whole, never more than the frame has, and then has the packet.       *)
LEMMA FrameIsRead ==
  ASSUME Fits, FramesFit, NEW packet \in Packet, NEW compression \in BOOLEAN,
         NEW bytes \in Seq(Byte), Len(bytes) <= Len(Frame(packet, compression)),
         \A i \in 1 .. Len(bytes) : bytes[i] = Frame(packet, compression)[i]
  PROVE  /\ Frame(packet, compression) \in Seq(Byte) /\ Len(Frame(packet, compression)) \in Nat \ {0}
         /\ Length(bytes) \in {"more", "known"}
         /\ Len(bytes) < Len(Frame(packet, compression)) =>
              /\ ~Complete(bytes)
              /\ Needed(bytes) \in 1 .. Len(Frame(packet, compression)) - Len(bytes)
         /\ Len(bytes) = Len(Frame(packet, compression)) =>
              /\ Complete(bytes) /\ Needed(bytes) = 0
              /\ compression_settings = compression => Content(bytes) = packet
<1> DEFINE z == Contents(packet, compression)
           L == Len(z)
           head == Encode(L)
           F == Frame(packet, compression)
           h == Len(head)
<1>1. F = head \o z /\ z \in Seq(Byte) /\ L \in 1 .. MAXIMUM_PACKET_LENGTH
  BY ContentsDecode DEF WithLength
<1>2. L \in 0 .. MAXIMUM_PACKET_LENGTH /\ L # 0 /\ MAXIMUM_PACKET_LENGTH \in Nat
  BY <1>1 DEF FramesFit
<1>3. L \in Signed /\ head \in Seq(Byte) /\ h \in 1 .. MaxBytes /\ MaxBytes \in Nat
  BY <1>2, LengthsAreSigned DEF Fits
<1>4. compression => Uncompressed(z) = packet
  BY ContentsDecode
<1>5. ~compression => z = packet
  BY ContentsDecode
<1> HIDE DEF z, F
<1>6. /\ F \in Seq(Byte) /\ Len(F) = h + L /\ h \in Nat \ {0} /\ L \in Nat \ {0}
      /\ SubSeq(F, h + 1, Len(F)) = z
      /\ \A i \in 1 .. h : F[i] = head[i]
  <2> HIDE DEF head
  <2>1. F \in Seq(Byte) /\ Len(F) = h + L /\ SubSeq(F, h + 1, Len(F)) = z
    BY <1>1, <1>3, BehindHead
  <2>2. \A i \in 1 .. h : F[i] = head[i]
    BY <1>1, <1>3
  <2> QED
    BY <1>2, <1>3, <2>1, <2>2
<1>7. Len(bytes) \in Nat /\ Len(bytes) <= Len(F) /\ \A i \in 1 .. Len(bytes) : bytes[i] = F[i]
  BY DEF F
<1>8. \A i \in DOMAIN bytes \cap DOMAIN Encode(L) : bytes[i] = Encode(L)[i]
  <2>1. DOMAIN bytes = 1 .. Len(bytes) /\ DOMAIN head = 1 .. h
    BY <1>3
  <2> QED
    BY <1>6, <1>7, <2>1
<1>9. /\ Len(bytes) < h => Decode(bytes) = Eof
      /\ Len(bytes) >= h => Decode(bytes) = [error |-> "none", read |-> h, value |-> L]
  BY <1>3, <1>8, DecodeOf
<1> HIDE DEF head, L, h
<1>10. CASE Len(bytes) < h
  <2>1. Decode(bytes) = Eof /\ Len(bytes) < MaxBytes
    BY <1>3, <1>7, <1>9, <1>10
  <2>2. Length(bytes) = "more"
    BY <1>3, <1>7, <2>1 DEF Length, Eof
  <2>3. ~Complete(bytes) /\ Needed(bytes) = 1
    BY <2>2 DEF Complete, Needed
  <2> QED
    BY <1>6, <1>7, <1>10, <2>2, <2>3 DEF F
<1>11. CASE Len(bytes) >= h
  <2>1. Decode(bytes).error = "none" /\ Decode(bytes).read = h /\ Decode(bytes).value = L
    BY <1>9, <1>11
  <2>2. Length(bytes) = "known"
    BY <1>2, <2>1 DEF Length
  <2>3. FrameLength(bytes) = Len(F)
    BY <1>6, <2>1 DEF FrameLength
  <2>4. Needed(bytes) = Len(F) - Len(bytes) /\ (Complete(bytes) <=> Len(bytes) = Len(F))
    BY <2>2, <2>3 DEF Needed, Complete
  <2>5. ASSUME Len(bytes) = Len(F), compression_settings = compression PROVE Content(bytes) = packet
    <3>1. bytes = F
      BY <1>6, <1>7, <2>5
    <3>2. SubSeq(bytes, Decode(bytes).read + 1, Len(bytes)) = z
      BY <1>6, <2>1, <3>1
    <3> QED
      BY <1>4, <1>5, <2>5, <3>2 DEF Content
  <2> QED
    BY <1>6, <1>7, <2>2, <2>4, <2>5 DEF F
<1> QED
  BY <1>3, <1>7, <1>10, <1>11, <1>6

(* Nothing is complete before its first byte.                              *)
LEMMA NothingIsRead ==
  ASSUME Fits
  PROVE  Length(<<>>) = "more" /\ ~Complete(<<>>) /\ Needed(<<>>) = 1
<1>1. Decode(<<>>) = Eof
  <2>1. Len(<<>>) = 0 /\ DOMAIN <<>> = {}
    OBVIOUS
  <2>2. ~(Len(<<>>) > MaxBytes)
    BY <2>1 DEF Fits
  <2> QED
    BY <2>1, <2>2 DEF Decode
<1>2. MaxBytes \in Nat \ {0}
  BY Sizes
<1>3. Length(<<>>) = "more"
  BY <1>1, <1>2 DEF Length, Eof
<1> QED
  BY <1>3 DEF Complete, Needed

-------------------------------------------------------------------------------
(* The inductive invariant *)

StreamTyped ==
  /\ up \in Seq(Byte) /\ consumed \in Seq(Byte)
  /\ sent \in Seq(Packet) /\ received \in Seq(Seq(Byte) \ {<<>>})
  /\ down \in Seq([packet : {SetCompression, LoggedIn, "KeepAlive"}, compressed : BOOLEAN])
  /\ client_compression \in BOOLEAN /\ compression_settings \in BOOLEAN /\ open \in BOOLEAN
  /\ cancelled \in Nat /\ interrupts \in Nat /\ cancelled <= interrupts

(* The format of the client's i-th packet: the first, the login, is from   *)
(* before the switch.                                                      *)
FormatOf(i) == i > 1 /\ Threshold >= 0
FrameOf(i) == Frame(sent[i], FormatOf(i))

(* What the server has read of and what is under way: the frames of the    *)
(* packets it has not handled, one after the other.  cut[i] is where the   *)
(* frame of packet i ends.                                                 *)
Boundaries(cut) ==
  /\ cut \in [Len(received) .. Len(sent) -> Nat]
  /\ cut[Len(received)] = 0 /\ cut[Len(sent)] = Len(consumed \o up)
  /\ \A i \in Len(received) + 1 .. Len(sent) :
       /\ cut[i] = cut[i - 1] + Len(FrameOf(i))
       /\ \A x \in 1 .. Len(FrameOf(i)) : (consumed \o up)[cut[i - 1] + x] = FrameOf(i)[x]
  /\ Len(received) < Len(sent) => Len(consumed) <= cut[Len(received) + 1]

BoundariesKept ==
  cancelled = 0 =>
    /\ failures = 0 /\ Len(received) <= Len(sent)
    /\ \A i \in 1 .. Len(received) : received[i] = sent[i]
    /\ \E cut : Boundaries(cut)

(* The answer to the login, and how far it is                              *)
RepliesInOrder ==
  /\ received = <<>> => replies = <<>> /\ ~compression_settings
  /\ received # <<>> =>
       <<replies, compression_settings>> \in
         IF Threshold >= 0
         THEN {<<<<SetCompression, "enable", LoggedIn>>, FALSE>>, <<<<"enable", LoggedIn>>, FALSE>>,
               <<<<LoggedIn>>, TRUE>>, <<<<>>, TRUE>>}
         ELSE {<<<<LoggedIn>>, FALSE>>, <<<<>>, FALSE>>}

(* Whether the client has switched once it has read n more frames          *)
Announced(n) == client_compression \/ \E j \in 1 .. n : down[j].packet = SetCompression
FormatsAgree ==
  /\ \A i \in DOMAIN down : down[i].compressed = Announced(i - 1)
  /\ Announced(Len(down)) = (compression_settings \/ (replies # <<>> /\ Head(replies) = "enable"))

IInv == StreamTyped /\ BoundariesKept /\ RepliesInOrder /\ FormatsAgree

(* Nothing was sent and nothing is on the wire.                            *)
LEMMA InitIInv == Init => IInv
<1> SUFFICES ASSUME Init PROVE IInv
  OBVIOUS
<1>1. StreamTyped
  <2>1. \A T : <<>> \in Seq(T)
    OBVIOUS
  <2>2. up \in Seq(Byte) /\ consumed \in Seq(Byte) /\ sent \in Seq(Packet) /\ received \in Seq(Seq(Byte) \ {<<>>})
    BY <2>1 DEF Init
  <2>3. down \in Seq([packet : {SetCompression, LoggedIn, "KeepAlive"}, compressed : BOOLEAN])
    BY <2>1 DEF Init
  <2>4. /\ client_compression \in BOOLEAN /\ compression_settings \in BOOLEAN /\ open \in BOOLEAN
        /\ cancelled \in Nat /\ interrupts \in Nat /\ cancelled <= interrupts
    <3>1. /\ client_compression = FALSE /\ compression_settings = FALSE /\ open = TRUE
          /\ cancelled = 0 /\ interrupts = 0
      BY Zenon DEF Init
    <3>2. client_compression \in BOOLEAN /\ compression_settings \in BOOLEAN /\ open \in BOOLEAN
      BY <3>1, Zenon
    <3>3. cancelled \in Nat /\ interrupts \in Nat /\ cancelled <= interrupts
      <4>1. cancelled = 0 /\ interrupts = 0
        BY <3>1
      <4> QED
        BY ONLY <4>1
    <3> QED
      BY <3>2, <3>3
  <2> QED
    BY <2>2, <2>3, <2>4 DEF StreamTyped
<1>2. BoundariesKept
  <2> DEFINE cut == [i \in 0 .. 0 |-> 0]
  <2>1. received = <<>> /\ sent = <<>> /\ Len(received) = 0 /\ Len(sent) = 0 /\ Len(consumed \o up) = 0 /\ failures = 0
    BY DEF Init
  <2>2. Boundaries(cut)
    BY <2>1 DEF Boundaries
  <2> QED
    BY <2>1, <2>2 DEF BoundariesKept
<1>3. RepliesInOrder /\ FormatsAgree
  BY DEF Init, RepliesInOrder, FormatsAgree, Announced
<1> QED
  BY <1>1, <1>2, <1>3 DEF IInv

(* A frame is bytes, in either format.                                     *)
LEMMA FramesTyped ==
  ASSUME Fits, FramesFit, NEW packet \in Packet, NEW compression \in BOOLEAN
  PROVE  Frame(packet, compression) \in Seq(Byte)
<1> DEFINE z == Contents(packet, compression)
<1>1. z \in Seq(Byte) /\ Len(z) \in 1 .. MAXIMUM_PACKET_LENGTH /\ Frame(packet, compression) = WithLength(z)
  BY ContentsDecode
<1> HIDE DEF z
<1>2. Encode(Len(z)) \in Seq(Byte)
  <2>1. Len(z) \in 0 .. MAXIMUM_PACKET_LENGTH
    BY <1>1 DEF FramesFit
  <2> QED
    BY <2>1, LengthsAreSigned
<1> QED
  BY <1>1, <1>2, BehindHead DEF WithLength

(* The next frame, as far as the server has taken it from the socket       *)
LEMMA NextFrame ==
  ASSUME Fits, FramesFit, StreamTyped, NEW cut, Boundaries(cut), Len(received) < Len(sent)
  PROVE  LET i == Len(received) + 1 IN
         /\ i \in 1 .. Len(sent) /\ sent[i] \in Packet /\ FormatOf(i) \in BOOLEAN
         /\ FrameOf(i) \in Seq(Byte) /\ Len(FrameOf(i)) \in Nat \ {0}
         /\ cut[i] = Len(FrameOf(i)) /\ Len(consumed) <= Len(FrameOf(i))
         /\ \A x \in 1 .. Len(consumed) : consumed[x] = FrameOf(i)[x]
<1> DEFINE i == Len(received) + 1
<1>1. i \in 1 .. Len(sent) /\ i \in Len(received) + 1 .. Len(sent) /\ i - 1 = Len(received)
  BY DEF StreamTyped
<1>2. sent[i] \in Packet /\ FormatOf(i) \in BOOLEAN
  BY <1>1 DEF StreamTyped, FormatOf
<1>3. FrameOf(i) \in Seq(Byte) /\ Len(FrameOf(i)) \in Nat \ {0}
  <2>1. <<>> \in Seq(Byte) /\ Len(<<>>) = 0 /\ 1 .. 0 = {}
    OBVIOUS
  <2>2. Len(Frame(sent[i], FormatOf(i))) >= 0
    <3>1. Frame(sent[i], FormatOf(i)) \in Seq(Byte)
      BY <1>2, FramesTyped
    <3> QED
      BY <3>1
  <2> QED
    BY <1>2, <2>1, <2>2, FrameIsRead DEF FrameOf
<1> HIDE DEF i
<1>4. cut[i] = cut[i - 1] + Len(FrameOf(i)) /\ cut[i - 1] = 0
  BY <1>1 DEF Boundaries
<1>5. cut[i] = Len(FrameOf(i)) /\ Len(consumed) <= Len(FrameOf(i))
  BY <1>3, <1>4 DEF Boundaries, i
<1>6. ASSUME NEW x \in 1 .. Len(consumed) PROVE consumed[x] = FrameOf(i)[x]
  <2>1. (consumed \o up)[x] = consumed[x]
    BY DEF StreamTyped
  <2>2. x \in 1 .. Len(FrameOf(i)) /\ 0 + x = x
    BY <1>3, <1>5 DEF StreamTyped
  <2>3. (consumed \o up)[cut[i - 1] + x] = FrameOf(i)[x]
    BY <1>1, <2>2 DEF Boundaries
  <2> QED
    BY <1>4, <2>1, <2>2, <2>3
<1> QED
  BY <1>1, <1>2, <1>3, <1>5, <1>6 DEF i

(* With nothing on the way, nothing is on the wire.                        *)
LEMMA EmptyWire ==
  ASSUME StreamTyped, NEW cut, Boundaries(cut), ~(Len(received) < Len(sent)), Len(received) <= Len(sent)
  PROVE  consumed = <<>> /\ up = <<>>
<1>1. Len(received) = Len(sent)
  BY DEF StreamTyped
<1>2. Len(consumed \o up) = 0
  BY <1>1 DEF Boundaries
<1> QED
  BY <1>2 DEF StreamTyped

(* The cuts are in order, up to what was written.                          *)
LEMMA CutsGrow ==
  ASSUME Fits, FramesFit, StreamTyped, NEW cut, Boundaries(cut), Len(received) <= Len(sent)
  PROVE  \A i \in Len(received) .. Len(sent) : cut[i] <= Len(consumed \o up)
<1> DEFINE k == Len(sent)
           r == Len(received)
           n == Len(consumed \o up)
           T == {d \in Nat : d <= k - r => cut[k - d] <= n}
<1>1. k \in Nat /\ r \in Nat /\ r <= k /\ n \in Nat
  BY DEF StreamTyped
<1>2. cut \in [r .. k -> Nat] /\ cut[k] = n /\ \A i \in r + 1 .. k : cut[i] = cut[i - 1] + Len(FrameOf(i))
  BY DEF Boundaries
<1>3. ASSUME NEW i \in r + 1 .. k PROVE Len(FrameOf(i)) \in Nat
  <2>1. i \in 1 .. k /\ sent[i] \in Packet /\ FormatOf(i) \in BOOLEAN
    BY <1>1 DEF StreamTyped, FormatOf
  <2>2. FrameOf(i) \in Seq(Byte)
    BY <2>1, FramesTyped DEF FrameOf
  <2> QED
    BY <2>2
<1> HIDE DEF k, r, n
<1>4. 0 \in T
  BY <1>1, <1>2
<1>5. ASSUME NEW d \in Nat, d \in T PROVE d + 1 \in T
  <2> SUFFICES ASSUME d + 1 <= k - r PROVE cut[k - (d + 1)] <= n
    OBVIOUS
  <2>1. k - d \in r + 1 .. k /\ (k - d) - 1 = k - (d + 1) /\ k - (d + 1) \in r .. k /\ k - d \in r .. k /\ d <= k - r
    BY <1>1
  <2>2. cut[k - d] = cut[k - (d + 1)] + Len(FrameOf(k - d)) /\ Len(FrameOf(k - d)) \in Nat
    BY <1>2, <1>3, <2>1
  <2>3. cut[k - d] <= n /\ cut[k - (d + 1)] \in Nat /\ cut[k - d] \in Nat
    BY <1>2, <1>5, <2>1
  <2> QED
    BY <1>1, <2>2, <2>3
<1> HIDE DEF T
<1>6. Nat \subseteq T
  BY <1>4, <1>5, Induction
<1>7. ASSUME NEW i \in r .. k PROVE cut[i] <= n
  <2>1. k - i \in Nat /\ k - i <= k - r /\ k - (k - i) = i
    BY <1>1
  <2>2. k - i \in T
    BY <1>6, <2>1
  <2> QED
    BY <2>1, <2>2 DEF T
<1> QED
  BY <1>7 DEF k, r, n

(* ... and the first frame comes before the others.                        *)
LEMMA CutsAbove ==
  ASSUME Fits, FramesFit, StreamTyped, NEW cut, Boundaries(cut), Len(received) < Len(sent)
  PROVE  \A i \in Len(received) + 1 .. Len(sent) : cut[i] \in Nat /\ cut[i] >= cut[Len(received) + 1]
<1> DEFINE k == Len(sent)
           r == Len(received)
           T == {d \in Nat : r + 1 + d <= k => cut[r + 1 + d] >= cut[r + 1]}
<1>1. k \in Nat /\ r \in Nat /\ r < k
  BY DEF StreamTyped
<1>2. cut \in [r .. k -> Nat] /\ \A i \in r + 1 .. k : cut[i] = cut[i - 1] + Len(FrameOf(i))
  BY DEF Boundaries
<1>3. ASSUME NEW i \in r + 1 .. k PROVE Len(FrameOf(i)) \in Nat
  <2>1. i \in 1 .. k /\ sent[i] \in Packet /\ FormatOf(i) \in BOOLEAN
    BY <1>1 DEF StreamTyped, FormatOf
  <2>2. FrameOf(i) \in Seq(Byte)
    BY <2>1, FramesTyped DEF FrameOf
  <2> QED
    BY <2>2
<1> HIDE DEF k, r
<1>4. 0 \in T
  <2>1. r + 1 \in r .. k /\ r + 1 + 0 = r + 1
    BY <1>1
  <2>2. cut[r + 1] \in Nat
    BY <1>2, <2>1
  <2> QED
    BY <2>1, <2>2
<1>5. ASSUME NEW d \in Nat, d \in T PROVE d + 1 \in T
  <2> SUFFICES ASSUME r + 1 + (d + 1) <= k PROVE cut[r + 1 + (d + 1)] >= cut[r + 1]
    OBVIOUS
  <2>1. /\ r + 1 + (d + 1) \in r + 1 .. k /\ (r + 1 + (d + 1)) - 1 = r + 1 + d
        /\ r + 1 + (d + 1) \in r .. k /\ r + 1 + d \in r .. k /\ r + 1 + d <= k /\ r + 1 \in r .. k
    BY <1>1
  <2>2. cut[r + 1 + (d + 1)] = cut[r + 1 + d] + Len(FrameOf(r + 1 + (d + 1))) /\ Len(FrameOf(r + 1 + (d + 1))) \in Nat
    BY <1>2, <1>3, <2>1
  <2>3. cut[r + 1 + d] >= cut[r + 1] /\ cut[r + 1 + d] \in Nat /\ cut[r + 1] \in Nat
    BY <1>2, <1>5, <2>1
  <2> QED
    BY <2>2, <2>3
<1> HIDE DEF T
<1>6. Nat \subseteq T
  BY <1>4, <1>5, Induction
<1>7. ASSUME NEW i \in r + 1 .. k PROVE cut[i] \in Nat /\ cut[i] >= cut[r + 1]
  <2>1. i - (r + 1) \in Nat /\ r + 1 + (i - (r + 1)) = i /\ i <= k /\ i \in r .. k
    BY <1>1
  <2>2. i - (r + 1) \in T
    BY <1>6, <2>1
  <2> QED
    BY <1>2, <2>1, <2>2 DEF T
<1> QED
  BY <1>7 DEF k, r

(* Bytes that are written come last, and reading only moves them.          *)
LEMMA Written ==
  ASSUME NEW T, NEW s \in Seq(T), NEW t \in Seq(T), NEW u \in Seq(T)
  PROVE  /\ Len(s \o (t \o u)) = Len(s \o t) + Len(u)
         /\ \A x \in 1 .. Len(s \o t) : (s \o (t \o u))[x] = (s \o t)[x]
         /\ \A x \in 1 .. Len(u) : (s \o (t \o u))[Len(s \o t) + x] = u[x]
<1>1. s \o (t \o u) = (s \o t) \o u /\ s \o t \in Seq(T)
  OBVIOUS
<1> QED
  BY <1>1

(* The frame of a packet comes after all that is on the wire.              *)
LEMMA ClientSendIInv == ASSUME Fits, FramesFit, IInv, NEW packet \in Packet, ClientSend(packet) PROVE IInv'
<1>a. PICK F : F = Frame(packet, client_compression)
  OBVIOUS
<1>b. PICK k : k = Len(sent)
  OBVIOUS
<1>0. /\ sent' = Append(sent, packet) /\ up' = up \o F
      /\ sent = <<>> \/ client_compression = (Threshold >= 0)
      /\ UNCHANGED <<open, client_compression, reading, writing>>
  BY <1>a DEF ClientSend
<1>1. F \in Seq(Byte) /\ Len(F) \in Nat
  <2>1. client_compression \in BOOLEAN
    BY DEF IInv, StreamTyped
  <2>2. F \in Seq(Byte)
    BY <1>a, <2>1, FramesTyped
  <2> QED
    BY <2>2
<1>2. StreamTyped'
  BY <1>0, <1>1 DEF IInv, StreamTyped, reading, writing
<1>3. RepliesInOrder' /\ FormatsAgree'
  BY <1>0 DEF IInv, RepliesInOrder, FormatsAgree, Announced, reading, writing
<1>4. BoundariesKept'
  <2> SUFFICES ASSUME cancelled = 0 PROVE BoundariesKept'
    BY <1>0 DEF BoundariesKept, reading
  <2>1. /\ failures = 0 /\ Len(received) <= k
        /\ \A i \in 1 .. Len(received) : received[i] = sent[i]
    BY <1>b DEF IInv, BoundariesKept
  <2>2. PICK cut : Boundaries(cut)
    BY DEF IInv, BoundariesKept
  <2>n. PICK n : n = Len(consumed \o up)
    OBVIOUS
  <2>r. PICK r : r = Len(received)
    OBVIOUS
  <2>c. PICK cut2 : cut2 = [i \in r .. k + 1 |-> IF i = k + 1 THEN n + Len(F) ELSE cut[i]]
    OBVIOUS
  <2>3. /\ k \in Nat /\ r \in Nat /\ sent \in Seq(Packet) /\ n \in Nat
        /\ consumed \in Seq(Byte) /\ up \in Seq(Byte)
    BY <1>b, <2>n, <2>r DEF IInv, StreamTyped
  <2>4. /\ Len(sent') = k + 1 /\ sent'[k + 1] = packet
        /\ \A i \in 1 .. k : sent'[i] = sent[i]
    BY <1>0, <1>b, <2>3
  <2>5. /\ consumed' = consumed /\ received' = received /\ failures' = failures
        /\ Len(consumed' \o up') = n + Len(F)
        /\ \A x \in 1 .. n : (consumed' \o up')[x] = (consumed \o up)[x]
        /\ \A x \in 1 .. Len(F) : (consumed' \o up')[n + x] = F[x]
    <3>1. consumed' = consumed /\ received' = received /\ failures' = failures /\ up' = up \o F
      BY <1>0 DEF reading
    <3> QED
      BY <1>1, <2>3, <2>n, <3>1, Written
  <2>6. client_compression = FormatOf(k + 1)
    <3>1. CASE sent = <<>>
      <4>1. received = <<>> /\ k = 0
        BY <1>b, <2>1, <2>3, <3>1 DEF IInv, StreamTyped
      <4>2. client_compression = FALSE
        <5>1. client_compression \in BOOLEAN
          BY DEF IInv, StreamTyped
        <5>2. replies = <<>> /\ ~compression_settings
          BY <4>1 DEF IInv, RepliesInOrder
        <5>3. ~Announced(Len(down))
          BY <5>2 DEF IInv, FormatsAgree
        <5> QED
          BY <5>1, <5>3 DEF Announced
      <4>3. ~(k + 1 > 1)
        BY <4>1
      <4>4. FormatOf(k + 1) = FALSE
        BY <4>3 DEF FormatOf
      <4> QED
        BY <4>2, <4>4
    <3>2. CASE sent # <<>>
      <4>1. k + 1 > 1 /\ client_compression = (Threshold >= 0)
        BY <1>0, <1>b, <2>3, <3>2
      <4> QED
        BY <4>1 DEF FormatOf
    <3> QED
      BY <3>1, <3>2
  <2>7. FrameOf(k + 1)' = F /\ \A i \in 1 .. k : FrameOf(i)' = FrameOf(i)
    <3>1. FrameOf(k + 1)' = Frame(packet, FormatOf(k + 1))
      BY <2>4 DEF FrameOf, FormatOf
    <3>2. FrameOf(k + 1)' = F
      BY <1>a, <2>6, <3>1
    <3> QED
      BY <2>4, <3>2 DEF FrameOf, FormatOf
  <2>8. cut \in [r .. k -> Nat] /\ cut[r] = 0 /\ cut[k] = n
    BY <1>b, <2>2, <2>n, <2>r DEF Boundaries
  <2>9. cut2 \in [r .. k + 1 -> Nat]
    BY <1>1, <2>1, <2>3, <2>8, <2>c, <2>r
  <2>10. cut2[k + 1] = n + Len(F) /\ \A i \in r .. k : cut2[i] = cut[i]
    BY <2>1, <2>3, <2>c, <2>r
  <2>11. ASSUME NEW i \in r + 1 .. k + 1
         PROVE  /\ cut2[i] = cut2[i - 1] + Len(FrameOf(i)')
                /\ \A x \in 1 .. Len(FrameOf(i)') : (consumed' \o up')[cut2[i - 1] + x] = FrameOf(i)'[x]
    <3>1. CASE i = k + 1
      <4>1. k \in r .. k /\ i - 1 = k /\ cut2[k] = n
        BY <2>1, <2>3, <2>8, <2>10, <2>r, <3>1
      <4> QED
        BY <2>5, <2>7, <2>10, <3>1, <4>1
    <3>2. CASE i # k + 1
      <4>1. i \in r + 1 .. k /\ i \in 1 .. k /\ i - 1 \in r .. k /\ i \in r .. k
        BY <2>1, <2>3, <2>r, <3>2
      <4>2. cut2[i] = cut[i] /\ cut2[i - 1] = cut[i - 1] /\ cut[i - 1] \in Nat /\ cut[i] \in Nat
        BY <2>8, <2>10, <4>1
      <4>3. cut[i] = cut[i - 1] + Len(FrameOf(i)) /\ FrameOf(i)' = FrameOf(i)
        BY <1>b, <2>2, <2>7, <2>r, <4>1 DEF Boundaries
      <4>4. ASSUME NEW x \in 1 .. Len(FrameOf(i)) PROVE (consumed' \o up')[cut[i - 1] + x] = FrameOf(i)[x]
        <5>1. (consumed \o up)[cut[i - 1] + x] = FrameOf(i)[x]
          BY <1>b, <2>2, <2>r, <4>1 DEF Boundaries
        <5>2. cut[i - 1] + x \in 1 .. n
          <6>1. cut[i] <= n
            BY <1>b, <2>1, <2>2, <2>3, <2>n, <2>r, <4>1, CutsGrow DEF IInv
          <6>2. x \in Nat /\ x >= 1 /\ cut[i - 1] + x <= cut[i]
            BY <4>2, <4>3
          <6> QED
            BY <2>3, <4>2, <6>1, <6>2
        <5> QED
          BY <2>5, <5>1, <5>2
      <4> QED
        BY <4>2, <4>3, <4>4
    <3> QED
      BY <3>1, <3>2
  <2>12. r < k + 1 => Len(consumed) <= cut2[r + 1]
    <3>1. CASE r < k
      <4>1. r + 1 \in r .. k
        BY <2>3, <3>1
      <4> QED
        BY <1>b, <2>2, <2>10, <2>r, <3>1, <4>1 DEF Boundaries
    <3>2. CASE ~(r < k)
      <4>1. consumed = <<>>
        BY <1>b, <2>1, <2>2, <2>r, <3>2, EmptyWire DEF IInv
      <4>2. r + 1 \in r .. k + 1 /\ Len(consumed) = 0
        BY <2>1, <2>3, <2>r, <3>2, <4>1
      <4> QED
        BY <2>9, <4>2
    <3> QED
      BY <3>1, <3>2
  <2>13. Boundaries(cut2)'
    <3>1. cut2[r] = 0
      <4>1. r \in r .. k
        BY <2>1, <2>3, <2>r
      <4> QED
        BY <2>8, <2>10, <4>1
    <3>2. received' = received /\ Len(received') = r /\ Len(sent') = k + 1 /\ consumed' = consumed
      BY <2>4, <2>5, <2>r
    <3>3. cut2[k + 1] = Len(consumed' \o up')
      BY <2>5, <2>10
    <3>4. (cut2 \in [Len(received) .. Len(sent) -> Nat])'
      BY <2>9, <3>2
    <3>5. (cut2[Len(received)] = 0 /\ cut2[Len(sent)] = Len(consumed \o up))'
      BY <3>1, <3>2, <3>3
    <3>6. (\A i \in Len(received) + 1 .. Len(sent) :
             /\ cut2[i] = cut2[i - 1] + Len(FrameOf(i))
             /\ \A x \in 1 .. Len(FrameOf(i)) : (consumed \o up)[cut2[i - 1] + x] = FrameOf(i)[x])'
      BY <2>11, <3>2
    <3>7. (Len(received) < Len(sent) => Len(consumed) <= cut2[Len(received) + 1])'
      BY <2>12, <3>2
    <3> QED
      BY <3>4, <3>5, <3>6, <3>7 DEF Boundaries
  <2>14. \A i \in 1 .. r : received[i] = sent'[i]
    BY <1>b, <2>1, <2>3, <2>4, <2>r
  <2>15. r <= Len(sent')
    BY <2>1, <2>3, <2>4, <2>r
  <2> QED
    BY <1>0, <2>1, <2>5, <2>13, <2>14, <2>15, <2>r DEF BoundariesKept, reading
<1> QED
  BY <1>2, <1>3, <1>4 DEF IInv

(* The client switches when it reads SetCompression.                       *)
LEMMA ClientReceiveIInv == ASSUME IInv, ClientReceive PROVE IInv'
<1>1. /\ down # <<>> /\ down' = Tail(down)
      /\ client_compression' = (client_compression \/ Head(down).packet = SetCompression)
      /\ UNCHANGED <<up, open, sent, consumed, received, cancelled, failures, compression_settings, replies, interrupts>>
  BY DEF ClientReceive, reading
<1>2. down \in Seq([packet : {SetCompression, LoggedIn, "KeepAlive"}, compressed : BOOLEAN])
  BY DEF IInv, StreamTyped
<1>3. /\ Len(down) \in Nat \ {0} /\ Len(down') = Len(down) - 1 /\ Head(down) = down[1]
      /\ \A i \in 1 .. Len(down) - 1 : down'[i] = down[i + 1]
      /\ DOMAIN down' = 1 .. Len(down) - 1 /\ DOMAIN down = 1 .. Len(down)
  BY <1>1, <1>2
<1>4. StreamTyped'
  <2>1. client_compression' \in BOOLEAN
    BY <1>1
  <2>2. down' \in Seq([packet : {SetCompression, LoggedIn, "KeepAlive"}, compressed : BOOLEAN])
    BY <1>1, <1>2
  <2> QED
    BY <1>1, <2>1, <2>2 DEF IInv, StreamTyped
<1>5. ASSUME NEW n \in 0 .. Len(down) - 1 PROVE Announced(n)' = Announced(n + 1)
  <2>1. ASSUME Announced(n)' PROVE Announced(n + 1)
    <3>1. CASE client_compression \/ Head(down).packet = SetCompression
      <4>1. 1 \in 1 .. n + 1
        OBVIOUS
      <4> QED
        BY <1>3, <3>1, <4>1 DEF Announced
    <3>2. CASE \E j \in 1 .. n : down'[j].packet = SetCompression
      <4>1. PICK j \in 1 .. n : down'[j].packet = SetCompression
        BY <3>2
      <4>2. j + 1 \in 1 .. n + 1 /\ j \in 1 .. Len(down) - 1
        BY <1>3
      <4> QED
        BY <1>3, <4>1, <4>2 DEF Announced
    <3> QED
      BY <1>1, <2>1, <3>1, <3>2 DEF Announced
  <2>2. ASSUME Announced(n + 1) PROVE Announced(n)'
    <3>1. CASE client_compression
      BY <1>1, <3>1 DEF Announced
    <3>2. CASE \E j \in 1 .. n + 1 : down[j].packet = SetCompression
      <4>1. PICK j \in 1 .. n + 1 : down[j].packet = SetCompression
        BY <3>2
      <4>2. CASE j = 1
        BY <1>1, <1>3, <4>1, <4>2 DEF Announced
      <4>3. CASE j # 1
        <5>1. j - 1 \in 1 .. n /\ j - 1 \in 1 .. Len(down) - 1 /\ (j - 1) + 1 = j
          BY <1>3, <4>3
        <5>2. down'[j - 1].packet = SetCompression
          BY <1>3, <4>1, <5>1
        <5> QED
          BY <5>1, <5>2 DEF Announced
      <4> QED
        BY <4>2, <4>3
    <3> QED
      BY <2>2, <3>1, <3>2 DEF Announced
  <2>3. Announced(n)' \in BOOLEAN /\ Announced(n + 1) \in BOOLEAN
    BY DEF Announced
  <2> QED
    BY <2>1, <2>2, <2>3
<1>6. FormatsAgree'
  <2>1. ASSUME NEW i \in DOMAIN down' PROVE down'[i].compressed = Announced(i - 1)'
    <3>1. i \in 1 .. Len(down) - 1 /\ i + 1 \in DOMAIN down /\ i - 1 \in 0 .. Len(down) - 1 /\ (i + 1) - 1 = i /\ (i - 1) + 1 = i
      BY <1>3
    <3>2. down[i + 1].compressed = Announced(i)
      BY <3>1 DEF IInv, FormatsAgree
    <3>3. Announced(i - 1)' = Announced(i)
      BY <1>5, <3>1
    <3> QED
      BY <1>3, <3>1, <3>2, <3>3
  <2>2. Announced(Len(down))' = Announced(Len(down))
    <3>1. PICK n : n = Len(down) - 1
      OBVIOUS
    <3>2. n \in 0 .. Len(down) - 1 /\ n + 1 = Len(down) /\ Len(down') = n
      BY <1>3, <3>1
    <3>3. Announced(n)' = Announced(Len(down))
      BY <1>5, <3>2
    <3> QED
      BY <3>2, <3>3 DEF Announced
  <2>3. Announced(Len(down)) = (compression_settings \/ (replies # <<>> /\ Head(replies) = "enable"))
    BY DEF IInv, FormatsAgree
  <2> QED
    BY <1>1, <2>1, <2>2, <2>3 DEF FormatsAgree
<1>7. BoundariesKept' /\ RepliesInOrder'
  <2>1. RepliesInOrder'
    BY <1>1 DEF IInv, RepliesInOrder
  <2>2. BoundariesKept'
    BY <1>1 DEF IInv, BoundariesKept, Boundaries, FrameOf, FormatOf
  <2> QED
    BY <2>1, <2>2
<1> QED
  BY <1>4, <1>6, <1>7 DEF IInv

(* A step that moves bytes into the server and none of its packets         *)
LEMMA SameWire ==
  ASSUME IInv, UNCHANGED <<sent, received, failures, cancelled>>,
         consumed' \o up' = consumed \o up,
         cancelled = 0 /\ Len(received) < Len(sent) => Len(consumed') <= Len(FrameOf(Len(received) + 1)),
         Fits, FramesFit
  PROVE  BoundariesKept'
<1> SUFFICES ASSUME cancelled = 0 PROVE BoundariesKept'
  BY DEF BoundariesKept
<1>1. PICK cut : Boundaries(cut)
  BY DEF IInv, BoundariesKept
<1>2. Len(received) < Len(sent) => cut[Len(received) + 1] = Len(FrameOf(Len(received) + 1))
  BY <1>1, NextFrame DEF IInv
<1>3. Boundaries(cut)'
  <2>1. \A i : FrameOf(i)' = FrameOf(i)
    BY DEF FrameOf, FormatOf
  <2>2. (cut \in [Len(received) .. Len(sent) -> Nat])'
    BY <1>1 DEF Boundaries
  <2>3. (cut[Len(received)] = 0 /\ cut[Len(sent)] = Len(consumed \o up))'
    BY <1>1 DEF Boundaries
  <2>4. (\A i \in Len(received) + 1 .. Len(sent) :
             /\ cut[i] = cut[i - 1] + Len(FrameOf(i))
             /\ \A x \in 1 .. Len(FrameOf(i)) : (consumed \o up)[cut[i - 1] + x] = FrameOf(i)[x])'
    <3>1. ASSUME NEW i \in Len(received) + 1 .. Len(sent)
          PROVE  /\ cut[i] = cut[i - 1] + Len(FrameOf(i)')
                 /\ \A x \in 1 .. Len(FrameOf(i)') : (consumed' \o up')[cut[i - 1] + x] = FrameOf(i)'[x]
      <4>1. /\ cut[i] = cut[i - 1] + Len(FrameOf(i))
            /\ \A x \in 1 .. Len(FrameOf(i)) : (consumed \o up)[cut[i - 1] + x] = FrameOf(i)[x]
        BY <1>1 DEF Boundaries
      <4> QED
        BY <2>1, <4>1
    <3> QED
      BY <3>1
  <2>5. (Len(received) < Len(sent) => Len(consumed) <= cut[Len(received) + 1])'
    BY <1>2
  <2> QED
    BY <2>2, <2>3, <2>4, <2>5 DEF Boundaries
<1> QED
  BY <1>3 DEF IInv, BoundariesKept

(* What is decoded is a number, whatever the bytes are.                    *)
LEMMA DecodeTyped ==
  ASSUME Fits, NEW bytes \in Seq(Byte)
  PROVE  Decode(bytes).read \in Nat /\ Decode(bytes).value \in Int
<1> DEFINE last == {i \in DOMAIN bytes : bytes[i] < CONTINUE_BIT}
<1>1. CASE last # {} /\ Min(last) <= MaxBytes
  <2>1. Min(last) \in 1 .. Len(bytes)
    <3>1. last \subseteq Nat /\ last \subseteq 1 .. Len(bytes)
      OBVIOUS
    <3> HIDE DEF last
    <3>2. \E n \in last : \A m \in last : n <= m
      BY <1>1, <3>1, LeastOf
    <3>3. Min(last) \in last
      BY <3>2 DEF Min
    <3> QED
      BY <3>1, <3>3
  <2>2. PICK n : n = Min(last)
    OBVIOUS
  <2>3. PICK s : s = SubSeq(bytes, 1, n)
    OBVIOUS
  <2>4. s \in Seq(Byte) /\ Len(s) = n /\ n \in Nat
    <3>1. n \in 1 .. Len(bytes) /\ bytes \in Seq(Byte)
      BY <2>1, <2>2
    <3> HIDE DEF last
    <3> QED
      BY ONLY <3>1, <2>3
  <2>5. Words(s)[n] \in Nat
    <3>1. 0 \in Byte
      <4>1. CONTINUE_BIT \in Nat \ {0, 1}
        BY Sizes
      <4>2. 0 \in 0 .. 2 * CONTINUE_BIT - 1
        BY ONLY <4>1
      <4> QED
        BY <4>2 DEF Byte
    <3>2. n \in 0 .. Len(s)
      BY <2>4
    <3> QED
      BY <2>4, <3>1, <3>2, WordsShift
  <2>6. Value(s) \in Int
    <3>1. Value(s) = AsSigned(Words(s)[n] % 2^Width)
      BY <2>4 DEF Value, Words
    <3>2. 2^Width \in Nat \ {0} /\ 2^(Width - 1) \in Nat
      BY Sizes
    <3> DEFINE M == 2^Width
               w == Words(s)[n]
    <3> HIDE DEF M, w
    <3>3. w % M \in Nat /\ M \in Nat
      BY <2>5, <3>2 DEF M, w
    <3> QED
      BY <3>1, <3>3 DEF AsSigned, M, w
  <2>7. Decode(bytes) = [error |-> "none", read |-> n, value |-> Value(s)]
    BY <1>1, <2>2, <2>3 DEF Decode
  <2> QED
    BY <2>4, <2>6, <2>7
<1>2. CASE ~(last # {} /\ Min(last) <= MaxBytes)
  <2>1. Decode(bytes) \in {TooBig, Eof}
    BY <1>2 DEF Decode
  <2> QED
    BY <2>1 DEF TooBig, Eof, Fits
<1> QED
  BY <1>1, <1>2

(* What is asked for is a number of bytes.                                 *)
LEMMA NeededTyped ==
  ASSUME Fits, NEW bytes \in Seq(Byte)
  PROVE  Needed(bytes) \in Int
<1>1. FrameLength(bytes) \in Int
  BY DecodeTyped DEF FrameLength
<1> QED
  BY <1>1 DEF Needed

(* Reading only moves bytes.                                               *)
LEMMA Same ==
  ASSUME NEW s \in Seq(Byte), NEW t \in Seq(Byte), Len(s) = Len(t), \A i \in 1 .. Len(t) : s[i] = t[i]
  PROVE  s = t
OBVIOUS

(* What the socket has lost the server has.                                *)
LEMMA Joined ==
  ASSUME NEW s \in Seq(Byte), NEW t \in Seq(Byte)
  PROVE  /\ s \o t \in Seq(Byte) /\ Len(s \o t) = Len(s) + Len(t)
         /\ \A i \in 1 .. Len(s) : (s \o t)[i] = s[i]
         /\ \A i \in 1 .. Len(t) : (s \o t)[Len(s) + i] = t[i]
         /\ \A i \in 1 .. Len(s \o t) : i > Len(s) => (s \o t)[i] = t[i - Len(s)]
OBVIOUS

(* The parts of a sequence, ...                                            *)
LEMMA Parts ==
  ASSUME NEW t \in Seq(Byte), NEW n \in 1 .. Len(t)
  PROVE  /\ SubSeq(t, 1, n) \in Seq(Byte) /\ Len(SubSeq(t, 1, n)) = n
         /\ \A i \in 1 .. n : SubSeq(t, 1, n)[i] = t[i]
         /\ SubSeq(t, n + 1, Len(t)) \in Seq(Byte) /\ Len(SubSeq(t, n + 1, Len(t))) = Len(t) - n
         /\ \A i \in 1 .. Len(t) - n : SubSeq(t, n + 1, Len(t))[i] = t[n + i]
OBVIOUS

(* ... put together in either order, ...                                   *)
LEMMA Associative ==
  ASSUME NEW s \in Seq(Byte), NEW t \in Seq(Byte), NEW u \in Seq(Byte)
  PROVE  (s \o t) \o u = s \o (t \o u)
OBVIOUS

(* ... are what was there.                                                 *)
LEMMA Taken ==
  ASSUME NEW s \in Seq(Byte), NEW t \in Seq(Byte), NEW n \in 1 .. Len(t)
  PROVE  /\ s \o SubSeq(t, 1, n) \in Seq(Byte) /\ SubSeq(t, n + 1, Len(t)) \in Seq(Byte)
         /\ Len(s \o SubSeq(t, 1, n)) = Len(s) + n
         /\ (s \o SubSeq(t, 1, n)) \o SubSeq(t, n + 1, Len(t)) = s \o t
<1> DEFINE a == SubSeq(t, 1, n)
           b == SubSeq(t, n + 1, Len(t))
<1>1. /\ a \in Seq(Byte) /\ Len(a) = n /\ \A i \in 1 .. n : a[i] = t[i]
      /\ b \in Seq(Byte) /\ Len(b) = Len(t) - n /\ \A i \in 1 .. Len(t) - n : b[i] = t[n + i]
  BY Parts
<1>0. Len(t) \in Nat /\ n \in Nat /\ n <= Len(t)
  OBVIOUS
<1> HIDE DEF a, b
<1>2. a \o b = t
  <2>1. /\ a \o b \in Seq(Byte) /\ Len(a \o b) = Len(t)
        /\ \A i \in 1 .. n : (a \o b)[i] = t[i]
        /\ \A i \in 1 .. Len(t) - n : (a \o b)[n + i] = t[n + i]
    <3>1. /\ a \o b \in Seq(Byte) /\ Len(a \o b) = Len(a) + Len(b)
          /\ \A i \in 1 .. Len(a) : (a \o b)[i] = a[i]
          /\ \A i \in 1 .. Len(b) : (a \o b)[Len(a) + i] = b[i]
      BY <1>1, Joined
    <3>2. n + (Len(t) - n) = Len(t)
      BY <1>0
    <3> QED
      BY <1>1, <3>1, <3>2
  <2>2. ASSUME NEW i \in 1 .. Len(t) PROVE (a \o b)[i] = t[i]
    <3>1. CASE i <= n
      BY <2>1, <3>1
    <3>2. CASE i > n
      <4>1. i - n \in 1 .. Len(t) - n /\ n + (i - n) = i
        BY <1>0, <3>2
      <4> QED
        BY <2>1, <4>1
    <3>3. i <= n \/ i > n
      BY <1>0
    <3> QED
      BY <3>1, <3>2, <3>3
  <2> QED
    BY <2>1, <2>2, Same
<1>3. (s \o a) \o b = s \o (a \o b)
  BY <1>1, Associative
<1>4. s \o a \in Seq(Byte) /\ Len(s \o a) = Len(s) + n
  BY <1>1, Joined
<1> QED
  BY <1>1, <1>2, <1>3, <1>4 DEF a, b

(* A read takes no byte of the frame behind the one it reads.              *)
LEMMA ReadBytesIInv ==
  ASSUME Fits, FramesFit, IInv, NEW n \in 1 .. Needed(consumed), ReadBytes(n)
  PROVE  IInv'
<1>1. /\ replies = <<>> /\ n <= Len(up)
      /\ consumed' = consumed \o SubSeq(up, 1, n) /\ up' = SubSeq(up, n + 1, Len(up))
      /\ UNCHANGED <<open, client_compression, sent, received, cancelled, failures, down, compression_settings, replies, interrupts>>
  BY DEF ReadBytes, Polling, clientside, writing
<1>2. consumed \in Seq(Byte) /\ up \in Seq(Byte)
  BY DEF IInv, StreamTyped
<1>3. /\ consumed' \in Seq(Byte) /\ up' \in Seq(Byte)
      /\ Len(consumed') = Len(consumed) + n /\ consumed' \o up' = consumed \o up
  <2>1. n \in 1 .. Len(up)
    <3>1. Needed(consumed) \in Int
      BY <1>2, NeededTyped
    <3>2. n \in Int /\ n >= 1
      BY <3>1
    <3> QED
      BY <1>1, <1>2, <3>2
  <2>2. /\ consumed \o SubSeq(up, 1, n) \in Seq(Byte) /\ SubSeq(up, n + 1, Len(up)) \in Seq(Byte)
        /\ Len(consumed \o SubSeq(up, 1, n)) = Len(consumed) + n
        /\ (consumed \o SubSeq(up, 1, n)) \o SubSeq(up, n + 1, Len(up)) = consumed \o up
    BY ONLY <1>2, <2>1, Taken
  <2> QED
    BY <1>1, <2>2
<1>4. ASSUME cancelled = 0, Len(received) < Len(sent)
      PROVE  Len(consumed') <= Len(FrameOf(Len(received) + 1))
  <2>1. PICK cut : Boundaries(cut)
    BY <1>4 DEF IInv, BoundariesKept
  <2> DEFINE i == Len(received) + 1
  <2>2. /\ i \in 1 .. Len(sent) /\ sent[i] \in Packet /\ FormatOf(i) \in BOOLEAN
        /\ FrameOf(i) \in Seq(Byte) /\ Len(FrameOf(i)) \in Nat \ {0}
        /\ Len(consumed) <= Len(FrameOf(i))
        /\ \A x \in 1 .. Len(consumed) : consumed[x] = FrameOf(i)[x]
    BY <1>4, <2>1, NextFrame DEF IInv
  <2> HIDE DEF i
  <2>3. /\ Len(consumed) < Len(FrameOf(i)) => Needed(consumed) \in 1 .. Len(FrameOf(i)) - Len(consumed)
        /\ Len(consumed) = Len(FrameOf(i)) => Needed(consumed) = 0
    BY <1>2, <2>2, FrameIsRead DEF FrameOf
  <2>4. Len(consumed) \in Nat
    BY <1>2
  <2> QED
    BY <1>3, <2>2, <2>3, <2>4 DEF i
<1>5. BoundariesKept'
  BY <1>1, <1>3, <1>4, SameWire
<1>6. StreamTyped'
  BY <1>1, <1>3 DEF IInv, StreamTyped
<1>7. RepliesInOrder' /\ FormatsAgree'
  BY <1>1 DEF IInv, RepliesInOrder, FormatsAgree, Announced
<1> QED
  BY <1>5, <1>6, <1>7 DEF IInv

(* When the server reads, it expects the format of the next packet.        *)
LEMMA ExpectedFormat ==
  ASSUME IInv, replies = <<>>
  PROVE  compression_settings = FormatOf(Len(received) + 1)
<1>1. received \in Seq(Seq(Byte) \ {<<>>}) /\ compression_settings \in BOOLEAN
  BY DEF IInv, StreamTyped
<1>2. CASE received = <<>>
  <2>1. compression_settings = FALSE
    BY <1>1, <1>2 DEF IInv, RepliesInOrder
  <2>2. ~(Len(received) + 1 > 1)
    BY <1>2
  <2>3. FormatOf(Len(received) + 1) = FALSE
    BY <2>2 DEF FormatOf
  <2> QED
    BY <2>1, <2>3
<1>3. CASE received # <<>>
  <2>1. Len(received) + 1 > 1
    BY <1>1, <1>3
  <2>2. <<replies, compression_settings>> \in
         IF Threshold >= 0
         THEN {<<<<SetCompression, "enable", LoggedIn>>, FALSE>>, <<<<"enable", LoggedIn>>, FALSE>>,
               <<<<LoggedIn>>, TRUE>>, <<<<>>, TRUE>>}
         ELSE {<<<<LoggedIn>>, FALSE>>, <<<<>>, FALSE>>}
    BY <1>3 DEF IInv, RepliesInOrder
  <2>3. CASE Threshold >= 0
    <3>1. compression_settings = TRUE
      <4>1. <<replies, compression_settings>> \in
              {<<<<SetCompression, "enable", LoggedIn>>, FALSE>>, <<<<"enable", LoggedIn>>, FALSE>>,
               <<<<LoggedIn>>, TRUE>>, <<<<>>, TRUE>>}
        BY <2>2, <2>3
      <4>2. /\ <<>> # <<SetCompression, "enable", LoggedIn>> /\ <<>> # <<"enable", LoggedIn>>
            /\ <<>> # <<LoggedIn>>
        OBVIOUS
      <4> QED
        BY <4>1, <4>2
    <3>2. FormatOf(Len(received) + 1) = TRUE
      BY <2>1, <2>3 DEF FormatOf
    <3> QED
      BY <3>1, <3>2
  <2>4. CASE ~(Threshold >= 0)
    <3>1. compression_settings = FALSE
      BY <2>2, <2>4
    <3>2. FormatOf(Len(received) + 1) = FALSE
      BY <2>4 DEF FormatOf
    <3> QED
      BY <3>1, <3>2
  <2> QED
    BY <2>3, <2>4
<1> QED
  BY <1>2, <1>3

(* As long as no read was cancelled: a read ends with the next packet, and *)
(* nothing else.                                                           *)
LEMMA NextRead ==
  ASSUME Fits, FramesFit, IInv, replies = <<>>, cancelled = 0
  PROVE  /\ Length(consumed) \in {"more", "known"}
         /\ Complete(consumed) =>
              /\ Len(received) < Len(sent)
              /\ Len(consumed) = Len(FrameOf(Len(received) + 1))
              /\ Content(consumed) = sent[Len(received) + 1]
<1>1. PICK cut : Boundaries(cut)
  BY DEF IInv, BoundariesKept
<1>2. Len(received) <= Len(sent) /\ StreamTyped
  BY DEF IInv, BoundariesKept
<1>3. CASE Len(received) < Len(sent)
  <2>i. PICK i : i = Len(received) + 1
    OBVIOUS
  <2>1. /\ i \in 1 .. Len(sent) /\ sent[i] \in Packet /\ FormatOf(i) \in BOOLEAN
        /\ FrameOf(i) \in Seq(Byte) /\ Len(FrameOf(i)) \in Nat \ {0}
        /\ Len(consumed) <= Len(FrameOf(i))
        /\ \A x \in 1 .. Len(consumed) : consumed[x] = FrameOf(i)[x]
    BY <1>1, <1>2, <1>3, <2>i, NextFrame
  <2>2. consumed \in Seq(Byte) /\ Len(consumed) \in Nat
    BY <1>2 DEF StreamTyped
  <2>3. /\ Length(consumed) \in {"more", "known"}
        /\ Len(consumed) < Len(FrameOf(i)) => ~Complete(consumed)
        /\ Len(consumed) = Len(FrameOf(i)) =>
             (compression_settings = FormatOf(i) => Content(consumed) = sent[i])
    BY <2>1, <2>2, FrameIsRead DEF FrameOf
  <2>4. compression_settings = FormatOf(i)
    BY <2>i, ExpectedFormat
  <2>5. Complete(consumed) => Len(consumed) = Len(FrameOf(i)) /\ Content(consumed) = sent[i]
    BY <2>1, <2>2, <2>3, <2>4
  <2> QED
    BY <1>3, <2>i, <2>3, <2>5
<1>4. CASE ~(Len(received) < Len(sent))
  BY <1>1, <1>2, <1>4, EmptyWire, NothingIsRead
<1> QED
  BY <1>3, <1>4

(* No read fails unless one was dropped.                                   *)
LEMMA ReadFailsIInv == ASSUME Fits, FramesFit, IInv, ReadFails PROVE IInv'
<1>1. /\ replies = <<>> /\ consumed' = <<>> /\ failures' = failures + 1
      /\ Length(consumed) \notin {"more", "known"} \/ (Complete(consumed) /\ Content(consumed) = <<>>)
      /\ UNCHANGED <<up, open, client_compression, sent, received, cancelled, down, compression_settings, replies, interrupts>>
  BY DEF ReadFails, Polling, clientside, writing
<1>2. cancelled # 0
  <2> SUFFICES ASSUME cancelled = 0 PROVE FALSE
    OBVIOUS
  <2>1. Complete(consumed) /\ Content(consumed) = <<>>
    BY <1>1, NextRead
  <2>2. Len(received) < Len(sent) /\ Content(consumed) = sent[Len(received) + 1]
    BY <1>1, <2>1, NextRead
  <2>3. sent[Len(received) + 1] \in Packet
    <3>1. Len(received) + 1 \in 1 .. Len(sent)
      BY <2>2 DEF IInv, StreamTyped
    <3> QED
      BY <3>1 DEF IInv, StreamTyped
  <2> QED
    BY <2>1, <2>2, <2>3 DEF FramesFit
<1>3. StreamTyped'
  <2>1. <<>> \in Seq(Byte)
    OBVIOUS
  <2> QED
    BY <1>1, <2>1 DEF IInv, StreamTyped
<1>4. BoundariesKept'
  BY <1>1, <1>2 DEF BoundariesKept
<1>5. RepliesInOrder' /\ FormatsAgree'
  BY <1>1 DEF IInv, RepliesInOrder, FormatsAgree, Announced
<1> QED
  BY <1>3, <1>4, <1>5 DEF IInv

(* Whatever the bytes are, a packet is bytes.                              *)
LEMMA ContentTyped == ASSUME Fits, NEW bytes \in Seq(Byte) PROVE Content(bytes) \in Seq(Byte)
<1>1. ASSUME NEW s \in Seq(Byte) PROVE SubSeq(s, Decode(s).read + 1, Len(s)) \in Seq(Byte)
  <2>1. PICK n : n = Decode(s).read
    OBVIOUS
  <2>2. n \in Nat
    BY <2>1, DecodeTyped
  <2>3. SubSeq(s, n + 1, Len(s)) \in Seq(Byte)
    BY <2>2
  <2> QED
    BY <2>1, <2>3
<1>2. ASSUME NEW s \in Seq(Byte) PROVE Uncompressed(s) \in Seq(Byte)
  <2>1. PICK payload : payload = SubSeq(s, Decode(s).read + 1, Len(s))
    OBVIOUS
  <2>2. payload \in Seq(Byte)
    BY <1>1, <2>1
  <2>3. Uncompressed(s) \in {payload, <<>>} \/ (payload # <<>> /\ Uncompressed(s) = Tail(payload))
    BY <2>1 DEF Uncompressed, Decompress, IsCompressed
  <2>4. <<>> \in Seq(Byte) /\ (payload # <<>> => Tail(payload) \in Seq(Byte))
    BY <2>2
  <2> QED
    BY <2>2, <2>3, <2>4
<1> QED
  BY <1>1, <1>2 DEF Content

(* A whole frame is the next packet, and the frames behind it stay.        *)
LEMMA ReadPacketIInv == ASSUME Fits, FramesFit, IInv, ReadPacket PROVE IInv'
<1>p. PICK packet : packet = Content(consumed)
  OBVIOUS
<1>1. /\ replies = <<>> /\ Complete(consumed) /\ packet # <<>>
      /\ received' = Append(received, packet) /\ consumed' = <<>>
      /\ replies' = IF received = <<>> THEN LoginReplies ELSE <<>>
      /\ UNCHANGED <<up, open, client_compression, sent, cancelled, failures, down, compression_settings, interrupts>>
  BY <1>p DEF ReadPacket, Polling, clientside
<1>2. packet \in Seq(Byte) \ {<<>>}
  <2>1. consumed \in Seq(Byte)
    BY DEF IInv, StreamTyped
  <2> QED
    BY <1>1, <1>p, <2>1, ContentTyped
<1>3. received \in Seq(Seq(Byte) \ {<<>>}) /\ Len(received) \in Nat /\ received' # <<>>
  <2>1. received \in Seq(Seq(Byte) \ {<<>>})
    BY DEF IInv, StreamTyped
  <2>2. Len(received') = Len(received) + 1 /\ Len(received) \in Nat
    BY <1>1, <2>1
  <2>3. received' # <<>>
    BY <2>2
  <2> QED
    BY <2>1, <2>2, <2>3
<1>4. StreamTyped'
  <2>1. received' \in Seq(Seq(Byte) \ {<<>>}) /\ consumed' \in Seq(Byte)
    BY <1>1, <1>2, <1>3
  <2> QED
    BY <1>1, <2>1 DEF IInv, StreamTyped
<1>5. RepliesInOrder'
  <2>1. CASE received = <<>>
    <3>1. compression_settings' = FALSE
      BY <1>1, <2>1 DEF IInv, RepliesInOrder, StreamTyped
    <3>2. CASE Threshold >= 0
      <4>1. replies' = <<SetCompression, "enable", LoggedIn>>
        BY <1>1, <2>1, <3>2 DEF LoginReplies
      <4> QED
        BY <1>3, <3>1, <3>2, <4>1 DEF RepliesInOrder
    <3>3. CASE ~(Threshold >= 0)
      <4>1. replies' = <<LoggedIn>>
        BY <1>1, <2>1, <3>3 DEF LoginReplies
      <4> QED
        BY <1>3, <3>1, <3>3, <4>1 DEF RepliesInOrder
    <3> QED
      BY <3>2, <3>3
  <2>2. CASE received # <<>>
    BY <1>1, <1>3, <2>2 DEF IInv, RepliesInOrder
  <2> QED
    BY <2>1, <2>2
<1>6. FormatsAgree'
  <2>1. ~(replies' # <<>> /\ Head(replies') = "enable")
    <3>1. CASE Threshold >= 0
      BY <1>1, <3>1 DEF LoginReplies, SetCompression
    <3>2. CASE ~(Threshold >= 0)
      BY <1>1, <3>2 DEF LoginReplies, LoggedIn
    <3> QED
      BY <3>1, <3>2
  <2>2. Announced(Len(down)) = compression_settings /\ \A i \in DOMAIN down : down[i].compressed = Announced(i - 1)
    <3>1. compression_settings \in BOOLEAN
      BY DEF IInv, StreamTyped
    <3>2. Announced(Len(down)) = (compression_settings \/ (replies # <<>> /\ Head(replies) = "enable"))
      BY DEF IInv, FormatsAgree
    <3> QED
      BY <1>1, <3>1, <3>2 DEF IInv, FormatsAgree
  <2>3. \A n : Announced(n)' = Announced(n)
    BY <1>1 DEF Announced
  <2>4. compression_settings \in BOOLEAN
    BY DEF IInv, StreamTyped
  <2>5. Announced(Len(down))' = Announced(Len(down))
    BY <1>1 DEF Announced
  <2> QED
    BY <1>1, <2>1, <2>2, <2>3, <2>4, <2>5 DEF FormatsAgree
<1>7. BoundariesKept'
  <2> SUFFICES ASSUME cancelled = 0 PROVE BoundariesKept'
    BY <1>1 DEF BoundariesKept
  <2>1. PICK cut : Boundaries(cut)
    BY DEF IInv, BoundariesKept
  <2>2. PICK r : r = Len(received)
    OBVIOUS
  <2>3. PICK k : k = Len(sent)
    OBVIOUS
  <2>4. /\ r \in Nat /\ k \in Nat /\ r < k /\ packet = sent[r + 1]
        /\ Len(consumed) = Len(FrameOf(r + 1)) /\ failures = 0
        /\ \A i \in 1 .. r : received[i] = sent[i]
    <3>1. r \in Nat /\ k \in Nat
      BY <2>2, <2>3 DEF IInv, StreamTyped
    <3>2. r < k /\ packet = sent[r + 1] /\ Len(consumed) = Len(FrameOf(r + 1))
      BY <1>1, <1>p, <2>2, <2>3, NextRead
    <3> QED
      BY <2>2, <3>1, <3>2 DEF IInv, BoundariesKept
  <2>5. Len(received') = r + 1 /\ \A i \in 1 .. r + 1 : received'[i] = sent[i]
    BY <1>1, <1>3, <2>2, <2>4
  <2>6. /\ cut \in [r .. k -> Nat] /\ cut[k] = Len(consumed \o up) /\ cut[r] = 0
        /\ \A i \in r + 1 .. k :
             /\ cut[i] = cut[i - 1] + Len(FrameOf(i))
             /\ \A x \in 1 .. Len(FrameOf(i)) : (consumed \o up)[cut[i - 1] + x] = FrameOf(i)[x]
    BY <2>1, <2>2, <2>3 DEF Boundaries
  <2>c. PICK c : c = Len(consumed)
    OBVIOUS
  <2>7. c \in Nat /\ cut[r + 1] = c
    <3>1. r + 1 \in r + 1 .. k /\ (r + 1) - 1 = r
      BY <2>4
    <3>2. cut[r + 1] = cut[r] + Len(FrameOf(r + 1))
      BY <2>6, <3>1
    <3>3. c \in Nat
      BY <2>c DEF IInv, StreamTyped
    <3> QED
      BY <2>4, <2>6, <2>c, <3>2, <3>3
  <2>8. ASSUME NEW i \in r + 1 .. k PROVE cut[i] >= c /\ cut[i] \in Nat
    BY <2>1, <2>2, <2>3, <2>4, <2>7, <2>8, CutsAbove DEF IInv
  <2>9. /\ Len(consumed \o up) = c + Len(up) /\ Len(up) \in Nat /\ consumed' \o up' = up
        /\ \A x \in 1 .. Len(up) : (consumed \o up)[c + x] = up[x]
    <3>1. consumed \in Seq(Byte) /\ up \in Seq(Byte)
      BY DEF IInv, StreamTyped
    <3>2. consumed' \o up' = up
      BY <1>1, <3>1
    <3> QED
      BY <2>c, <3>1, <3>2, Joined
  <2>10. PICK cut2 : cut2 = [i \in r + 1 .. k |-> cut[i] - c]
    OBVIOUS
  <2>11. cut2 \in [r + 1 .. k -> Nat] /\ \A i \in r + 1 .. k : cut2[i] = cut[i] - c
    BY <2>7, <2>8, <2>10
  <2>12. cut2[r + 1] = 0 /\ cut2[k] = Len(up)
    <3>1. r + 1 \in r + 1 .. k /\ k \in r + 1 .. k
      BY <2>4
    <3> QED
      BY <2>6, <2>7, <2>9, <2>11, <3>1
  <2>13. \A i : FrameOf(i)' = FrameOf(i)
    BY <1>1 DEF FrameOf, FormatOf
  <2>14. ASSUME NEW i \in r + 2 .. k
         PROVE  /\ cut2[i] = cut2[i - 1] + Len(FrameOf(i)')
                /\ \A x \in 1 .. Len(FrameOf(i)') : (consumed' \o up')[cut2[i - 1] + x] = FrameOf(i)'[x]
    <3>1. i \in r + 1 .. k /\ i - 1 \in r + 1 .. k
      BY <2>4
    <3>2. /\ cut2[i] = cut[i] - c /\ cut2[i - 1] = cut[i - 1] - c
          /\ cut[i] \in Nat /\ cut[i - 1] \in Nat /\ cut[i - 1] >= c
          /\ cut[i] = cut[i - 1] + Len(FrameOf(i))
      BY <2>6, <2>8, <2>11, <3>1
    <3>3. Len(FrameOf(i)) \in Nat
      <4>1. i \in 1 .. k /\ sent[i] \in Packet /\ FormatOf(i) \in BOOLEAN
        BY <2>3, <2>4, <3>1 DEF IInv, StreamTyped, FormatOf
      <4>2. FrameOf(i) \in Seq(Byte)
        BY <4>1, FramesTyped DEF FrameOf
      <4> QED
        BY <4>2
    <3>4. cut[i] <= c + Len(up)
      <4>1. i \in r .. k
        BY <2>4, <3>1
      <4>2. Len(received) <= Len(sent) /\ StreamTyped
        BY <2>2, <2>3, <2>4 DEF IInv
      <4>3. cut[i] <= Len(consumed \o up)
        BY <2>1, <2>2, <2>3, <4>1, <4>2, CutsGrow
      <4> QED
        BY <2>9, <4>3
    <3>5. ASSUME NEW x \in 1 .. Len(FrameOf(i)) PROVE up[cut2[i - 1] + x] = FrameOf(i)[x]
      <4>1. (consumed \o up)[cut[i - 1] + x] = FrameOf(i)[x]
        BY <2>6, <3>1
      <4>2. cut2[i - 1] + x \in 1 .. Len(up) /\ c + (cut2[i - 1] + x) = cut[i - 1] + x
        <5>1. PICK f : f = Len(FrameOf(i))
          OBVIOUS
        <5>2. PICK p : p = cut[i - 1]
          OBVIOUS
        <5>3. PICK u : u = Len(up)
          OBVIOUS
        <5>4. f \in Nat /\ p \in Nat /\ u \in Nat /\ c \in Nat /\ p >= c /\ p + f <= c + u /\ x \in 1 .. f
          BY <2>7, <2>9, <3>2, <3>3, <3>4, <5>1, <5>2, <5>3
        <5>5. (p - c) + x \in 1 .. u /\ c + ((p - c) + x) = p + x
          BY ONLY <5>4
        <5> QED
          BY <3>2, <5>2, <5>3, <5>5
      <4> QED
        BY <2>9, <4>1, <4>2
    <3>6. cut2[i] = cut2[i - 1] + Len(FrameOf(i))
      <4>1. PICK f : f = Len(FrameOf(i))
        OBVIOUS
      <4>2. PICK p : p = cut[i - 1]
        OBVIOUS
      <4>3. f \in Nat /\ p \in Nat /\ c \in Nat /\ cut2[i] = (p + f) - c /\ cut2[i - 1] = p - c
        BY <2>7, <3>2, <3>3, <4>1, <4>2
      <4>4. (p + f) - c = (p - c) + f
        BY ONLY <4>3
      <4> QED
        BY <4>1, <4>3, <4>4
    <3>7. FrameOf(i)' = FrameOf(i)
      BY <2>13
    <3> QED
      BY <2>9, <3>5, <3>6, <3>7
  <2>15. Boundaries(cut2)'
    <3>1. Len(received') = r + 1 /\ Len(sent') = k
      BY <1>1, <2>3, <2>5
    <3>2. (cut2 \in [Len(received) .. Len(sent) -> Nat])'
      BY <2>11, <3>1
    <3>3. (cut2[Len(received)] = 0 /\ cut2[Len(sent)] = Len(consumed \o up))'
      BY <2>9, <2>12, <3>1
    <3>4. (\A i \in Len(received) + 1 .. Len(sent) :
             /\ cut2[i] = cut2[i - 1] + Len(FrameOf(i))
             /\ \A x \in 1 .. Len(FrameOf(i)) : (consumed \o up)[cut2[i - 1] + x] = FrameOf(i)[x])'
      <4>1. (r + 1) + 1 = r + 2
        BY <2>4
      <4> QED
        BY <2>14, <3>1, <4>1
    <3>5. (Len(received) < Len(sent) => Len(consumed) <= cut2[Len(received) + 1])'
      <4>1. Len(consumed') = 0
        BY <1>1
      <4>2. r + 1 < k => cut2[(r + 1) + 1] \in Nat
        <5>1. r + 1 < k => (r + 1) + 1 \in r + 1 .. k
          BY <2>4
        <5> QED
          BY <2>11, <5>1
      <4> QED
        BY <3>1, <4>1, <4>2
    <3> QED
      BY <3>2, <3>3, <3>4, <3>5 DEF Boundaries
  <2>16. Len(received') <= Len(sent') /\ failures' = 0 /\ \A i \in 1 .. Len(received') : received'[i] = sent'[i]
    BY <1>1, <2>3, <2>4, <2>5
  <2> QED
    BY <2>15, <2>16 DEF BoundariesKept
<1> QED
  BY <1>4, <1>5, <1>6, <1>7 DEF IInv

(* A frame that goes out in the format the client has switched to by then  *)
LEMMA FrameSent ==
  ASSUME IInv, NEW packet \in {SetCompression, LoggedIn, "KeepAlive"},
         ~(replies # <<>> /\ Head(replies) = "enable"),
         down' = Append(down, [packet |-> packet, compressed |-> compression_settings]),
         client_compression' = client_compression
  PROVE  /\ down' \in Seq([packet : {SetCompression, LoggedIn, "KeepAlive"}, compressed : BOOLEAN])
         /\ \A i \in DOMAIN down' : down'[i].compressed = Announced(i - 1)'
         /\ Announced(Len(down))' = (compression_settings \/ packet = SetCompression)
<1> DEFINE n == Len(down)
           frame == [packet |-> packet, compressed |-> compression_settings]
<1>1. /\ down \in Seq([packet : {SetCompression, LoggedIn, "KeepAlive"}, compressed : BOOLEAN])
      /\ compression_settings \in BOOLEAN
  BY DEF IInv, StreamTyped
<1>2. frame \in [packet : {SetCompression, LoggedIn, "KeepAlive"}, compressed : BOOLEAN]
  BY <1>1
<1>n. PICK m : m = n
  OBVIOUS
<1>3. /\ down' \in Seq([packet : {SetCompression, LoggedIn, "KeepAlive"}, compressed : BOOLEAN])
      /\ m \in Nat /\ Len(down') = m + 1 /\ down'[m + 1] = frame /\ \A i \in 1 .. m : down'[i] = down[i]
      /\ DOMAIN down' = 1 .. m + 1 /\ DOMAIN down = 1 .. m
  BY <1>1, <1>2, <1>n
<1>4. Announced(m) = compression_settings
  BY <1>1, <1>n DEF IInv, FormatsAgree
<1>5. \A j \in 0 .. m : Announced(j)' = Announced(j)
  <2>1. ASSUME NEW j \in 0 .. m PROVE Announced(j)' = Announced(j)
    <3>1. \A x \in 1 .. j : down'[x] = down[x]
      BY <1>3
    <3> QED
      BY <3>1 DEF Announced
  <2> QED
    BY <2>1
<1>6. ASSUME NEW i \in DOMAIN down' PROVE down'[i].compressed = Announced(i - 1)'
  <2>1. CASE i = m + 1
    <3>1. m \in 0 .. m /\ (m + 1) - 1 = m
      BY <1>3
    <3>2. Announced(m)' = compression_settings
      BY <1>4, <1>5, <3>1
    <3>3. down'[m + 1].compressed = compression_settings
      BY <1>3
    <3> QED
      BY <2>1, <3>1, <3>2, <3>3
  <2>2. CASE i # m + 1
    <3>1. i \in 1 .. m /\ i - 1 \in 0 .. m
      BY <1>3, <2>2
    <3>2. down[i].compressed = Announced(i - 1)
      BY <1>3, <3>1 DEF IInv, FormatsAgree
    <3> QED
      BY <1>3, <1>5, <3>1, <3>2
  <2> QED
    BY <2>1, <2>2
<1>7. Announced(Len(down))' = (Announced(m) \/ packet = SetCompression)
  <2>1. Announced(Len(down))' = (client_compression \/ \E j \in 1 .. m + 1 : down'[j].packet = SetCompression)
    BY <1>3 DEF Announced
  <2>2. (\E j \in 1 .. m + 1 : down'[j].packet = SetCompression)
        <=> (\E j \in 1 .. m : down[j].packet = SetCompression) \/ packet = SetCompression
    <3>1. ASSUME NEW j \in 1 .. m + 1, down'[j].packet = SetCompression
          PROVE  (\E y \in 1 .. m : down[y].packet = SetCompression) \/ packet = SetCompression
      <4>1. CASE j = m + 1
        BY <1>3, <3>1, <4>1
      <4>2. CASE j # m + 1
        <5>1. j \in 1 .. m
          BY <1>3, <4>2
        <5> QED
          BY <1>3, <3>1, <5>1
      <4> QED
        BY <4>1, <4>2
    <3>2. ASSUME NEW j \in 1 .. m, down[j].packet = SetCompression
          PROVE  \E y \in 1 .. m + 1 : down'[y].packet = SetCompression
      <4>1. j \in 1 .. m + 1
        BY <1>3
      <4> QED
        BY <1>3, <3>2, <4>1
    <3>3. ASSUME packet = SetCompression PROVE \E y \in 1 .. m + 1 : down'[y].packet = SetCompression
      <4>1. m + 1 \in 1 .. m + 1
        BY <1>3
      <4> QED
        BY <1>3, <3>3, <4>1
    <3> QED
      BY <3>1, <3>2, <3>3
  <2> QED
    BY <2>1, <2>2 DEF Announced
<1> QED
  BY <1>3, <1>4, <1>6, <1>7

(* The server switches right after the frame that announces it.            *)
LEMMA ReplyIInv == ASSUME Fits, FramesFit, IInv, Reply PROVE IInv'
<1>1. /\ replies # <<>> /\ replies' = Tail(replies)
      /\ UNCHANGED <<up, open, client_compression, sent, consumed, received, cancelled, failures, interrupts>>
  BY DEF Reply, clientside, reading
<1>2. BoundariesKept'
  BY <1>1 DEF IInv, BoundariesKept, Boundaries, FrameOf, FormatOf
<1>3. received # <<>>
  BY <1>1 DEF IInv, RepliesInOrder
<1>4. <<replies, compression_settings>> \in
         IF Threshold >= 0
         THEN {<<<<SetCompression, "enable", LoggedIn>>, FALSE>>, <<<<"enable", LoggedIn>>, FALSE>>,
               <<<<LoggedIn>>, TRUE>>, <<<<>>, TRUE>>}
         ELSE {<<<<LoggedIn>>, FALSE>>, <<<<>>, FALSE>>}
  BY <1>3 DEF IInv, RepliesInOrder
<1>5. \/ Threshold >= 0 /\ replies = <<SetCompression, "enable", LoggedIn>> /\ compression_settings = FALSE
      \/ Threshold >= 0 /\ replies = <<"enable", LoggedIn>> /\ compression_settings = FALSE
      \/ Threshold >= 0 /\ replies = <<LoggedIn>> /\ compression_settings = TRUE
      \/ ~(Threshold >= 0) /\ replies = <<LoggedIn>> /\ compression_settings = FALSE
  <2>1. CASE Threshold >= 0
    BY <1>1, <1>4, <2>1
  <2>2. CASE ~(Threshold >= 0)
    BY <1>1, <1>4, <2>2
  <2> QED
    BY <2>1, <2>2
<1>6. /\ "enable" # SetCompression /\ "enable" # LoggedIn /\ LoggedIn # SetCompression
      /\ "KeepAlive" # SetCompression
  BY DEF SetCompression, LoggedIn
<1>a. \A i \in DOMAIN down : down[i].compressed = Announced(i - 1)
  BY DEF IInv, FormatsAgree
<1>7. CASE Threshold >= 0 /\ replies = <<SetCompression, "enable", LoggedIn>> /\ compression_settings = FALSE
  <2>1. Head(replies) = SetCompression /\ Tail(replies) = <<"enable", LoggedIn>>
    BY <1>7
  <2>2. /\ down' = Append(down, [packet |-> SetCompression, compressed |-> compression_settings])
        /\ compression_settings' = FALSE /\ replies' = <<"enable", LoggedIn>>
    BY <1>1, <1>6, <1>7, <2>1 DEF Reply
  <2>3. /\ down' \in Seq([packet : {SetCompression, LoggedIn, "KeepAlive"}, compressed : BOOLEAN])
        /\ \A i \in DOMAIN down' : down'[i].compressed = Announced(i - 1)'
        /\ Announced(Len(down))' = (compression_settings \/ SetCompression = SetCompression)
    BY <1>1, <1>6, <2>1, <2>2, FrameSent
  <2>4. StreamTyped'
    BY <1>1, <2>2, <2>3 DEF IInv, StreamTyped
  <2>5. RepliesInOrder'
    BY <1>1, <1>3, <1>7, <2>2 DEF RepliesInOrder
  <2>6. FormatsAgree'
    <3>1. replies' # <<>> /\ Head(replies') = "enable"
      BY <2>2
    <3> QED
      BY <2>3, <3>1 DEF FormatsAgree
  <2> QED
    BY <1>2, <2>4, <2>5, <2>6 DEF IInv
<1>8. CASE Threshold >= 0 /\ replies = <<"enable", LoggedIn>> /\ compression_settings = FALSE
  <2>1. Head(replies) = "enable" /\ Tail(replies) = <<LoggedIn>>
    BY <1>8
  <2>2. down' = down /\ compression_settings' = TRUE /\ replies' = <<LoggedIn>>
    BY <1>1, <2>1 DEF Reply
  <2>3. StreamTyped'
    BY <1>1, <2>2 DEF IInv, StreamTyped
  <2>4. RepliesInOrder'
    BY <1>1, <1>3, <1>8, <2>2 DEF RepliesInOrder
  <2>5. FormatsAgree'
    <3>1. Announced(Len(down)) = TRUE
      BY <1>1, <2>1 DEF IInv, FormatsAgree
    <3>2. \A n : Announced(n)' = Announced(n)
      BY <1>1, <2>2 DEF Announced
    <3>3. Announced(Len(down))' = Announced(Len(down))
      BY <1>1, <2>2 DEF Announced
    <3> QED
      BY <1>a, <2>2, <3>1, <3>2, <3>3 DEF FormatsAgree
  <2> QED
    BY <1>2, <2>3, <2>4, <2>5 DEF IInv
<1>9. CASE /\ replies = <<LoggedIn>>
           /\ \/ Threshold >= 0 /\ compression_settings = TRUE
              \/ ~(Threshold >= 0) /\ compression_settings = FALSE
  <2>1. Head(replies) = LoggedIn /\ Tail(replies) = <<>>
    BY <1>9
  <2>2. /\ down' = Append(down, [packet |-> LoggedIn, compressed |-> compression_settings])
        /\ compression_settings' = compression_settings /\ replies' = <<>>
    BY <1>1, <1>6, <2>1 DEF Reply
  <2>3. /\ down' \in Seq([packet : {SetCompression, LoggedIn, "KeepAlive"}, compressed : BOOLEAN])
        /\ \A i \in DOMAIN down' : down'[i].compressed = Announced(i - 1)'
        /\ Announced(Len(down))' = (compression_settings \/ LoggedIn = SetCompression)
    BY <1>1, <1>6, <2>1, <2>2, FrameSent
  <2>4. StreamTyped'
    BY <1>1, <2>2, <2>3 DEF IInv, StreamTyped
  <2>5. RepliesInOrder'
    <3>1. CASE Threshold >= 0
      BY <1>1, <1>3, <1>9, <2>2, <3>1 DEF RepliesInOrder
    <3>2. CASE ~(Threshold >= 0)
      BY <1>1, <1>3, <1>9, <2>2, <3>2 DEF RepliesInOrder
    <3> QED
      BY <3>1, <3>2
  <2>6. FormatsAgree'
    BY <1>6, <2>2, <2>3 DEF FormatsAgree
  <2> QED
    BY <1>2, <2>4, <2>5, <2>6 DEF IInv
<1> QED
  BY <1>5, <1>7, <1>8, <1>9

(* A dropped read counts if it had bytes, and loses nothing if not.        *)
LEMMA InterruptIInv == ASSUME Fits, FramesFit, IInv, Interrupt PROVE IInv'
<1>1. /\ replies = <<>> /\ received # <<>> /\ consumed' = <<>>
      /\ interrupts' = interrupts + 1
      /\ cancelled' = cancelled + (IF consumed = <<>> THEN 0 ELSE 1)
      /\ down' = Append(down, [packet |-> "KeepAlive", compressed |-> compression_settings])
      /\ UNCHANGED <<up, open, client_compression, sent, received, failures, compression_settings, replies>>
  BY DEF Interrupt, Polling, clientside
<1>2. "KeepAlive" # SetCompression
  BY DEF SetCompression
<1>3. /\ down' \in Seq([packet : {SetCompression, LoggedIn, "KeepAlive"}, compressed : BOOLEAN])
      /\ \A i \in DOMAIN down' : down'[i].compressed = Announced(i - 1)'
      /\ Announced(Len(down))' = (compression_settings \/ "KeepAlive" = SetCompression)
  BY <1>1, FrameSent
<1>4. StreamTyped'
  <2>1. cancelled' \in Nat /\ interrupts' \in Nat /\ cancelled' <= interrupts'
    BY <1>1 DEF IInv, StreamTyped
  <2>2. consumed' \in Seq(Byte)
    BY <1>1
  <2> QED
    BY <1>1, <1>3, <2>1, <2>2 DEF IInv, StreamTyped
<1>5. RepliesInOrder'
  BY <1>1 DEF IInv, RepliesInOrder
<1>6. FormatsAgree'
  BY <1>1, <1>2, <1>3 DEF FormatsAgree
<1>7. BoundariesKept'
  <2>1. CASE consumed = <<>>
    <3>1. UNCHANGED <<up, sent, consumed, received, failures>> /\ cancelled' = cancelled
      BY <1>1, <2>1 DEF IInv, StreamTyped
    <3> QED
      BY <3>1 DEF IInv, BoundariesKept, Boundaries, FrameOf, FormatOf
  <2>2. CASE consumed # <<>>
    <3>1. cancelled' # 0
      BY <1>1, <2>2 DEF IInv, StreamTyped
    <3> QED
      BY <3>1 DEF BoundariesKept
  <2> QED
    BY <2>1, <2>2
<1> QED
  BY <1>4, <1>5, <1>6, <1>7 DEF IInv

(* Every step keeps the invariant.                                         *)
LEMMA StepIInv == Fits /\ FramesFit /\ IInv /\ [Next]_vars => IInv'
<1> SUFFICES ASSUME Fits, FramesFit, IInv, [Next]_vars PROVE IInv'
  OBVIOUS
<1>1. ASSUME UNCHANGED <<up, sent, consumed, received, failures, cancelled, replies, down,
                         client_compression, compression_settings, interrupts>>, open' \in BOOLEAN
      PROVE  IInv'
  <2>1. StreamTyped' /\ RepliesInOrder'
    BY <1>1 DEF IInv, StreamTyped, RepliesInOrder
  <2>2. BoundariesKept'
    BY <1>1 DEF IInv, BoundariesKept, Boundaries, FrameOf, FormatOf
  <2>3. FormatsAgree'
    BY <1>1 DEF IInv, FormatsAgree, Announced
  <2> QED
    BY <2>1, <2>2, <2>3 DEF IInv
<1>2. CASE Disconnect
  <2>1. open' \in BOOLEAN
    BY <1>2 DEF Disconnect
  <2> QED
    BY <1>1, <1>2, <2>1 DEF Disconnect, clientside, reading, writing
<1>3. CASE UNCHANGED vars
  <2>1. open' \in BOOLEAN
    BY <1>3 DEF vars, IInv, StreamTyped
  <2> QED
    BY <1>1, <1>3, <2>1 DEF vars, clientside, reading, writing
<1> QED
  BY <1>2, <1>3, ClientSendIInv, ClientReceiveIInv, ReadBytesIInv, ReadPacketIInv, ReadFailsIInv,
     ReplyIInv, InterruptIInv DEF Next, ServerStep

(* The inductive invariant: while no read with bytes in it was dropped,    *)
(* the bytes the server holds and those under way are the frames of the    *)
(* packets it has not handled, cut where the client cut them; the format   *)
(* of each follows from its place, and the answer to the login says how    *)
(* far either side has come with the switch.                               *)
THEOREM Invariance == Spec => []IInv
<1>1. Fits /\ FramesFit
  BY VarIntAssumption, PacketStreamAssumption
<1>2. IInv /\ [Next]_vars => IInv'
  BY <1>1, StepIInv
<1> QED
  BY InitIInv, <1>2, PTL DEF Spec

(* Whatever the client sends and however its bytes arrive, before, during  *)
(* and after the switch to compressed frames: unless a read with bytes in  *)
(* it was dropped, the server has handled the packets in order and no read *)
(* has failed; and every frame reaches the client in the format it expects.*)
THEOREM OnlyCancelledReadsEverLose == Spec => []OnlyCancelledReadsLose
<1>1. IInv => OnlyCancelledReadsLose
  <2> SUFFICES ASSUME IInv PROVE OnlyCancelledReadsLose
    OBVIOUS
  <2>1. ASSUME cancelled = 0 PROVE IsPrefix(received, sent) /\ failures = 0
    <3>1. /\ failures = 0 /\ Len(received) <= Len(sent)
          /\ \A i \in 1 .. Len(received) : received[i] = sent[i]
      BY <2>1 DEF IInv, BoundariesKept
    <3>2. Len(received) \in Nat /\ Len(sent) \in Nat /\ sent \in Seq(Packet) /\ received \in Seq(Seq(Byte) \ {<<>>})
      BY DEF IInv, StreamTyped
    <3>3. PICK k \in Nat : k = Len(received)
      BY <3>2
    <3>4. SubSeq(received, 1, k) = [i \in 1 .. k |-> received[i]]
      BY <3>2, <3>3
    <3>5. SubSeq(sent, 1, k) = [i \in 1 .. k |-> sent[i]]
      BY <3>1, <3>2, <3>3
    <3>6. \A i \in 1 .. k : received[i] = sent[i]
      BY <3>1, <3>3
    <3>7. SubSeq(received, 1, Len(received)) = SubSeq(sent, 1, Len(received))
      BY <3>3, <3>4, <3>5, <3>6
    <3> QED
      BY <3>1, <3>7 DEF IsPrefix
  <2>2. ASSUME down # <<>> PROVE Head(down).compressed = client_compression
    <3>1. 1 \in DOMAIN down /\ Head(down) = down[1]
      BY <2>2 DEF IInv, StreamTyped
    <3>2. down[1].compressed = Announced(1 - 1)
      BY <3>1 DEF IInv, FormatsAgree
    <3>3. Announced(1 - 1) = client_compression
      <4>1. 1 .. 1 - 1 = {} /\ client_compression \in BOOLEAN
        BY DEF IInv, StreamTyped
      <4> QED
        BY <4>1 DEF Announced
    <3> QED
      BY <3>1, <3>2, <3>3
  <2> QED
    BY <2>1, <2>2 DEF OnlyCancelledReadsLose
<1> QED
  BY Invariance, <1>1, PTL

-------------------------------------------------------------------------------
(* The bounds of the model                                                 *)
Bounded == Len(sent) <= MaxPackets /\ interrupts <= MaxInterrupts

(* A step stays in them.                                                   *)
LEMMA StepBounded == ASSUME IInv, Bounded, [Next]_vars PROVE Bounded'
<1>1. sent \in Seq(Packet) /\ interrupts \in Nat
  BY DEF IInv, StreamTyped
<1>2. ASSUME NEW packet, ClientSend(packet) PROVE Bounded'
  <2>1. Len(sent') = Len(sent) + 1 /\ Len(sent) < MaxPackets
    BY <1>1, <1>2 DEF ClientSend
  <2> QED
    BY <1>1, <1>2, <2>1, PacketStreamAssumption DEF ClientSend, writing, Bounded
<1>3. CASE Interrupt
  BY <1>1, <1>3, PacketStreamAssumption DEF Interrupt, clientside, Bounded
<1>4. ASSUME UNCHANGED <<sent, interrupts>> PROVE Bounded'
  BY <1>4 DEF Bounded
<1>5. CASE ClientReceive
  BY <1>4, <1>5 DEF ClientReceive
<1>6. CASE ServerStep
  BY <1>4, <1>6 DEF ServerStep, ReadBytes, ReadPacket, ReadFails, Reply, clientside, writing
<1>7. CASE Disconnect
  BY <1>4, <1>7 DEF Disconnect, clientside, writing
<1>8. CASE UNCHANGED vars
  BY <1>4, <1>8 DEF vars, clientside, writing
<1> QED
  BY <1>2, <1>3, <1>5, <1>6, <1>7, <1>8 DEF Next

(* Every variable keeps its type, received packets are not empty, and no   *)
(* more reads are dropped than other branches were taken.                  *)
THEOREM TypeCorrect == Spec => []TypeOK
<1>1. Init => Bounded
  BY PacketStreamAssumption DEF Init, Bounded
<1>2. IInv /\ Bounded /\ [Next]_vars => Bounded'
  BY StepBounded
<1>3. IInv /\ Bounded => TypeOK
  <2> SUFFICES ASSUME IInv, Bounded PROVE TypeOK
    OBVIOUS
  <2>0. received \in Seq(Seq(Byte) \ {<<>>})
    BY DEF IInv, StreamTyped
  <2>1. \A i \in DOMAIN received : received[i] \in Seq(Byte) \ {<<>>}
    <3>1. ASSUME NEW i \in DOMAIN received PROVE received[i] \in Seq(Byte) \ {<<>>}
      <4>1. received \in [1 .. Len(received) -> Seq(Byte) \ {<<>>}]
        BY <2>0
      <4> QED
        BY <2>0, <3>1, <4>1
    <3> QED
      BY <3>1
  <2>2. \A i \in DOMAIN down : down[i].packet \in {SetCompression, LoggedIn, "KeepAlive"}
    <3> DEFINE Frames == [packet : {SetCompression, LoggedIn, "KeepAlive"}, compressed : BOOLEAN]
    <3>1. down \in Seq(Frames)
      BY DEF IInv, StreamTyped
    <3>2. \A frame \in Frames : frame.packet \in {SetCompression, LoggedIn, "KeepAlive"}
      OBVIOUS
    <3> HIDE DEF Frames
    <3>3. \A i \in DOMAIN down : down[i] \in Frames
      BY <3>1
    <3> QED
      BY <3>2, <3>3
  <2>3. cancelled \in 0 .. interrupts /\ interrupts \in 0 .. MaxInterrupts
    BY PacketStreamAssumption DEF IInv, StreamTyped, Bounded
  <2> QED
    BY <2>1, <2>2, <2>3 DEF TypeOK, IInv, StreamTyped, Bounded
<1> QED
  BY Invariance, <1>1, <1>2, <1>3, PTL DEF Spec
=================================================================================
