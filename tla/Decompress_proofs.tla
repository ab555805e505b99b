-------------------------- MODULE Decompress_proofs --------------------------
(***************************************************************************)
(* Proofs about Huffman alphabets, for every HUFFMAN_BITS, HUFFMAN_QL_BITS  *)
(* and table of lengths that satisfy the assumptions of Huffman and         *)
(* Decompress: huffman_alphabet accepts exactly the tables that are unused  *)
(* or complete, and an accepted alphabet decodes by the canonical code.     *)
(***************************************************************************)
EXTENDS Decompress, Arithmetic_proofs, FiniteSetTheorems

----------------------------------------------------------------------------
(* What the loops over bits compute *)

\* What holds at the start of a loop over 1 .. n, and after each step, holds at the end.
LEMMA Steps ==
  ASSUME NEW n \in Nat, NEW S, 0 \in S, \A k \in 1 .. n : k - 1 \in S => k \in S
  PROVE  \A k \in 0 .. n : k \in S
<1> DEFINE B == {k \in 0 .. n : k \notin S}
<1>1. ASSUME B # {} PROVE FALSE
  <2>1. B \in SUBSET Nat
    OBVIOUS
  <2>2. PICK m \in B : \A x \in B : m <= x
    <3> HIDE DEF B
    <3> QED BY <1>1, <2>1, LeastNatural
  <2>3. m \in 1 .. n /\ m \notin S
    OBVIOUS
  <2>4. m - 1 \in 0 .. n /\ ~(m <= m - 1)
    BY <2>3
  <2>5. m - 1 \in S
    BY <2>2, <2>4
  <2> QED BY <2>3, <2>5
<1> QED BY <1>1

\* The values of a variable that step k of a loop over 1 .. n replaces by T[k] of it.
IsIterate(n, V, T, b, f) ==
  f \in [0 .. n -> V] /\ f[0] = b /\ \A k \in 1 .. n : f[k] = T[k][f[k - 1]]

LEMMA Iterates ==
  ASSUME NEW n \in Nat, NEW V, NEW T \in [1 .. n -> [V -> V]], NEW b \in V
  PROVE  \E f : IsIterate(n, V, T, b, f)
<1> DEFINE S == {m \in 0 .. n : \E f : IsIterate(m, V, T, b, f)}
<1>1. 0 \in S
  <2>1. IsIterate(0, V, T, b, [k \in 0 .. 0 |-> b])
    BY DEF IsIterate
  <2> QED BY <2>1
<1>2. ASSUME NEW m \in 1 .. n, m - 1 \in S PROVE m \in S
  <2>1. PICK f : IsIterate(m - 1, V, T, b, f)
    BY <1>2
  <2> DEFINE g == [k \in 0 .. m |-> IF k = m THEN T[m][f[m - 1]] ELSE f[k]]
  <2>2. /\ f \in [0 .. m - 1 -> V] /\ f[0] = b
        /\ \A k \in 1 .. m - 1 : f[k] = T[k][f[k - 1]]
    BY <2>1 DEF IsIterate
  <2>3. f[m - 1] \in V /\ T[m] \in [V -> V]
    BY <2>2
  <2>4. g \in [0 .. m -> V] /\ g[0] = b
    BY <2>2, <2>3
  <2>5. ASSUME NEW k \in 1 .. m PROVE g[k] = T[k][g[k - 1]]
    BY <2>2
  <2> HIDE DEF g
  <2>6. IsIterate(m, V, T, b, g)
    BY <2>4, <2>5 DEF IsIterate
  <2> QED BY <2>6
<1> HIDE DEF S
<1>3. \A k \in 0 .. n : k \in S
  <2>1. \A k \in 1 .. n : k - 1 \in S => k \in S
    BY <1>2
  <2> QED BY <1>1, <2>1, Steps
<1>4. n \in S
  BY <1>3
<1> QED BY <1>4 DEF S

LEMMA PowerFacts ==
  /\ HUFFMAN_BITS \in Nat
  /\ Power \in [0 .. HUFFMAN_BITS + 1 -> Nat \ {0}] /\ Power[0] = 1
  /\ \A k \in 1 .. HUFFMAN_BITS + 1 : Power[k] = 2 * Power[k - 1]
<1> DEFINE n == HUFFMAN_BITS + 1
           V == Nat \ {0}
           T == [k \in 1 .. n |-> [v \in V |-> 2 * v]]
           S == {k \in 0 .. n : Power[k] \in V}
<1>1. HUFFMAN_BITS \in Nat /\ n \in Nat /\ 1 \in V
  BY HuffmanAssumption
<1>2. T \in [1 .. n -> [V -> V]]
  OBVIOUS
<1>3. PICK f : IsIterate(n, V, T, 1, f)
  <2> HIDE DEF n, V, T
  <2> QED BY <1>1, <1>2, Iterates, Zenon
<1>4. f = [k \in 0 .. n |-> IF k = 0 THEN 1 ELSE 2 * f[k - 1]]
  <2>1. f \in [0 .. n -> V] /\ f[0] = 1 /\ \A k \in 1 .. n : f[k] = T[k][f[k - 1]]
    BY <1>3 DEF IsIterate
  <2>2. ASSUME NEW k \in 1 .. n PROVE f[k] = 2 * f[k - 1]
    <3>1. k - 1 \in 0 .. n /\ f[k - 1] \in V
      BY <1>1, <2>1
    <3>2. f[k] = T[k][f[k - 1]]
      BY <2>1
    <3> QED BY <3>1, <3>2
  <2> HIDE DEF T
  <2> QED BY <1>1, <2>1, <2>2
<1>5. Power = [k \in 0 .. n |-> IF k = 0 THEN 1 ELSE 2 * Power[k - 1]]
  BY <1>4 DEF Power
<1>6. Power[0] = 1 /\ \A k \in 1 .. n : Power[k] = 2 * Power[k - 1]
  <2> HIDE DEF n
  <2>1. 0 \in 0 .. n
    BY <1>1
  <2> QED BY <1>1, <1>5, <2>1
<1>7. 0 \in S /\ \A k \in 1 .. n : k - 1 \in S => k \in S
  <2> HIDE DEF n
  <2> QED BY <1>1, <1>6
<1>8. \A k \in 0 .. n : k \in S
  <2> HIDE DEF n, S
  <2> QED BY <1>1, <1>7, Steps
<1>9. Power \in [0 .. n -> V]
  <2> HIDE DEF n, V
  <2> QED BY <1>5, <1>8
<1> QED BY <1>1, <1>6, <1>9

\* A power of a sum.
LEMMA PowerSum ==
  ASSUME NEW a \in Nat, NEW b \in Nat, a + b <= HUFFMAN_BITS + 1
  PROVE  Power[a + b] = Power[a] * Power[b]
<1> DEFINE S == {k \in 0 .. b : Power[a + k] = Power[a] * Power[k]}
<1>1. Power[a] \in Nat /\ Power[a + 0] = Power[a] * Power[0]
  BY PowerFacts
<1>2. ASSUME NEW k \in 1 .. b, k - 1 \in S PROVE k \in S
  <2>1. a + k \in 1 .. HUFFMAN_BITS + 1 /\ k \in 1 .. HUFFMAN_BITS + 1
    BY PowerFacts
  <2>2. Power[a + k] = 2 * Power[(a + k) - 1] /\ Power[k] = 2 * Power[k - 1]
    BY <2>1, PowerFacts
  <2>3. (a + k) - 1 = a + (k - 1)
    OBVIOUS
  <2>4. Power[a + (k - 1)] = Power[a] * Power[k - 1]
    BY <1>2
  <2>5. Power[k - 1] \in Nat
    BY <2>1, PowerFacts
  <2>6. PICK x \in Nat, y \in Nat : x = Power[a] /\ y = Power[k - 1]
    BY <1>1, <2>5
  <2>7. 2 * (x * y) = x * (2 * y)
    OBVIOUS
  <2>8. Power[a + k] = Power[a] * Power[k]
    BY <2>2, <2>3, <2>4, <2>6, <2>7, Zenon
  <2> QED BY <2>8
<1>3. 0 \in S
  BY <1>1
<1>4. \A k \in 1 .. b : k - 1 \in S => k \in S
  BY <1>2
<1> HIDE DEF S
<1>5. \A k \in 0 .. b : k \in S
  BY <1>3, <1>4, Steps
<1>6. b \in S
  BY <1>5
<1> QED BY <1>6 DEF S

\* What a loop over the lengths carries along.
LEMMA CarriedFacts ==
  ASSUME NEW freq \in [CodeBits -> Nat], NEW factor \in Nat, NEW t, t = Carried(freq, factor)
  PROVE  /\ t \in [1 .. HUFFMAN_BITS + 1 -> Nat] /\ t[1] = 0
         /\ \A bits \in CodeBits : t[bits + 1] = factor * (t[bits] + freq[bits])
<1> DEFINE n == HUFFMAN_BITS
           D == 1 .. n + 1
           T == [k \in 1 .. n |-> [v \in Nat |-> factor * (v + freq[k])]]
           S == {k \in 0 .. n : t[k + 1] \in Nat}
<1>1. n \in Nat /\ CodeBits = 1 .. n
  BY HuffmanAssumption DEF CodeBits
<1>2. T \in [1 .. n -> [Nat -> Nat]]
  BY <1>1
<1>3. PICK f : IsIterate(n, Nat, T, 0, f)
  <2> HIDE DEF n, T
  <2> QED BY <1>1, <1>2, Iterates
<1> DEFINE g == [bits \in D |-> f[bits - 1]]
<1>4. g = [bits \in D |-> IF bits = 1 THEN 0 ELSE factor * (g[bits - 1] + freq[bits - 1])]
  <2>1. f \in [0 .. n -> Nat] /\ f[0] = 0 /\ \A k \in 1 .. n : f[k] = T[k][f[k - 1]]
    BY <1>3 DEF IsIterate
  <2>2. ASSUME NEW k \in 1 .. n PROVE f[k] = factor * (f[k - 1] + freq[k])
    <3>1. k - 1 \in 0 .. n /\ f[k - 1] \in Nat
      BY <1>1, <2>1
    <3>2. f[k] = T[k][f[k - 1]]
      BY <2>1
    <3> QED BY <3>1, <3>2
  <2> HIDE DEF T, n
  <2>3. ASSUME NEW bits \in D
        PROVE  g[bits] = IF bits = 1 THEN 0 ELSE factor * (g[bits - 1] + freq[bits - 1])
    <3>1. CASE bits = 1
      BY <1>1, <2>1, <3>1
    <3>2. CASE bits # 1
      <4>1. bits - 1 \in 1 .. n /\ bits - 1 \in D
        BY <1>1, <3>2
      <4> QED BY <2>2, <3>2, <4>1
    <3> QED BY <3>1, <3>2
  <2> QED BY <2>3
<1>5. t = [bits \in D |-> IF bits = 1 THEN 0 ELSE factor * (t[bits - 1] + freq[bits - 1])]
  <2> HIDE DEF g
  <2> QED BY <1>4 DEF Carried
<1> HIDE DEF n
<1>6. t[1] = 0
  BY <1>1, <1>5
<1>7. \A bits \in CodeBits : t[bits + 1] = factor * (t[bits] + freq[bits])
  <2> SUFFICES ASSUME NEW bits \in CodeBits PROVE t[bits + 1] = factor * (t[bits] + freq[bits])
    OBVIOUS
  <2>1. bits + 1 \in D /\ bits + 1 # 1 /\ (bits + 1) - 1 = bits
    BY <1>1
  <2> HIDE DEF D
  <2> QED BY <1>5, <2>1, Zenon
<1>8. 0 \in S
  BY <1>1, <1>6
<1>9. ASSUME NEW k \in 1 .. n, k - 1 \in S PROVE k \in S
  <2>1. k \in CodeBits /\ t[k] \in Nat /\ freq[k] \in Nat
    BY <1>1, <1>9
  <2>2. t[k + 1] = factor * (t[k] + freq[k])
    BY <1>7, <2>1
  <2>3. PICK x \in Nat, y \in Nat : x = t[k] /\ y = freq[k]
    BY <2>1
  <2>4. factor * (x + y) \in Nat
    OBVIOUS
  <2>5. t[k + 1] \in Nat
    BY <2>2, <2>3, <2>4
  <2>6. k \in 0 .. n
    BY <1>1
  <2> QED BY <2>5, <2>6
<1>10. \A k \in 1 .. n : k - 1 \in S => k \in S
  BY <1>9
<1>11. \A k \in 0 .. n : k \in S
  <2> HIDE DEF S
  <2> QED BY <1>1, <1>8, <1>10, Steps
<1>12. t \in [D -> Nat]
  <2>1. ASSUME NEW bits \in D PROVE t[bits] \in Nat
    <3>1. bits - 1 \in 0 .. n /\ (bits - 1) + 1 = bits
      BY <1>1
    <3> QED BY <1>11, <3>1
  <2> QED BY <1>5, <2>1
<1> QED BY <1>6, <1>7, <1>12 DEF n

----------------------------------------------------------------------------
(* Sets of symbols and the numbers they share out *)

Tables == Seq(0 .. HUFFMAN_BITS)

LEMMA SequenceFacts ==
  ASSUME NEW S, NEW s \in Seq(S)
  PROVE  Len(s) \in Nat /\ DOMAIN s = 1 .. Len(s) /\ \A i \in DOMAIN s : s[i] \in S
OBVIOUS

LEMMA TableFacts ==
  ASSUME NEW lengths \in Tables
  PROVE  /\ IsFiniteSet(DOMAIN lengths)
         /\ \A i \in DOMAIN lengths : i \in Nat /\ lengths[i] \in 0 .. HUFFMAN_BITS
         /\ \A S \in SUBSET DOMAIN lengths : IsFiniteSet(S) /\ Cardinality(S) \in Nat
<1>1. /\ Len(lengths) \in Nat /\ DOMAIN lengths = 1 .. Len(lengths)
      /\ \A i \in DOMAIN lengths : lengths[i] \in 0 .. HUFFMAN_BITS
  BY SequenceFacts DEF Tables
<1>2. IsFiniteSet(DOMAIN lengths)
  <2>1. 1 \in Int /\ Len(lengths) \in Int
    BY <1>1
  <2> QED BY <1>1, <2>1, FS_Interval
<1>3. \A S \in SUBSET DOMAIN lengths : IsFiniteSet(S) /\ Cardinality(S) \in Nat
  BY <1>2, FS_Subset, FS_CardinalityType
<1> QED BY <1>1, <1>2, <1>3

\* The sizes of two disjoint sets add up to that of their union.
LEMMA Disjoint ==
  ASSUME NEW S, IsFiniteSet(S), NEW T, IsFiniteSet(T), S \cap T = {}
  PROVE  /\ IsFiniteSet(S \cup T) /\ Cardinality(S) \in Nat /\ Cardinality(T) \in Nat
         /\ Cardinality(S \cup T) = Cardinality(S) + Cardinality(T)
<1>1. Cardinality(S) \in Nat /\ Cardinality(T) \in Nat
  BY FS_CardinalityType
<1>2. /\ IsFiniteSet(S \cup T)
      /\ Cardinality(S \cup T) = Cardinality(S) + Cardinality(T) - Cardinality(S \cap T)
  BY FS_Union
<1>3. Cardinality(S \cap T) = 0
  BY FS_EmptySet
<1> QED BY <1>1, <1>2, <1>3

\* The numbers that a symbol's share contains, as pairs.
PairsOf(lengths, i) == {i} \X (1 .. Share(lengths, i))
Pairs(lengths, S) == UNION {PairsOf(lengths, i) : i \in S}

LEMMA SharesAreCounted ==
  ASSUME NEW lengths, NEW S
  PROVE  Shares(lengths, S) = Cardinality(Pairs(lengths, S))
BY DEF Shares, Pairs, PairsOf

LEMMA PowerAt ==
  ASSUME NEW k \in 0 .. HUFFMAN_BITS + 1
  PROVE  Power[k] \in Nat \ {0}
BY PowerFacts

LEMMA ShareFacts ==
  ASSUME NEW lengths \in Tables, NEW i \in Coded(lengths)
  PROVE  /\ lengths[i] \in CodeBits /\ i \in Nat /\ i \in DOMAIN lengths
         /\ Share(lengths, i) \in Nat \ {0} /\ Share(lengths, i) <= Power[HUFFMAN_BITS]
<1>1. HUFFMAN_BITS \in Nat /\ i \in DOMAIN lengths /\ lengths[i] > 0 /\ i \in Nat
      /\ lengths[i] \in 0 .. HUFFMAN_BITS
  BY TableFacts, HuffmanAssumption DEF Coded
<1>2. PICK k \in 0 .. HUFFMAN_BITS : k = lengths[i]
  BY <1>1
<1>3. k \in Nat /\ HUFFMAN_BITS - k \in Nat /\ (HUFFMAN_BITS - k) + k = HUFFMAN_BITS
      /\ k \in 0 .. HUFFMAN_BITS + 1 /\ HUFFMAN_BITS - k \in 0 .. HUFFMAN_BITS + 1
      /\ HUFFMAN_BITS <= HUFFMAN_BITS + 1
  BY <1>1, <1>2
<1>4. Power[HUFFMAN_BITS] = Power[HUFFMAN_BITS - k] * Power[k]
  BY <1>3, PowerSum
<1>5. PICK x \in Nat \ {0}, y \in Nat \ {0} : x = Power[HUFFMAN_BITS - k] /\ y = Power[k]
  BY <1>3, PowerAt
<1>6. x * 1 <= x * y
  BY TimesKeepsOrder
<1>7. x <= x * y
  BY <1>6
<1>8. Share(lengths, i) = x
  BY <1>2, <1>5 DEF Share
<1>9. Power[HUFFMAN_BITS] = x * y
  BY <1>4, <1>5
<1> QED BY <1>1, <1>2, <1>7, <1>8, <1>9 DEF CodeBits

LEMMA PairsAreFinite ==
  ASSUME NEW lengths \in Tables, NEW S \in SUBSET Coded(lengths)
  PROVE  /\ IsFiniteSet(S) /\ IsFiniteSet(Pairs(lengths, S)) /\ Shares(lengths, S) \in Nat
         /\ Cardinality(S) \in Nat
<1> DEFINE m == Power[HUFFMAN_BITS]
           B == S \X (1 .. m)
<1>1. m \in Nat
  BY PowerFacts
<1>2. IsFiniteSet(S) /\ Cardinality(S) \in Nat
  BY TableFacts DEF Coded
<1>3. IsFiniteSet(1 .. m)
  BY <1>1, FS_Interval
<1>4. IsFiniteSet(B)
  <2> HIDE DEF m
  <2> QED BY <1>2, <1>3, FS_Product
<1>5. Pairs(lengths, S) \in SUBSET B
  <2>1. ASSUME NEW i \in S PROVE PairsOf(lengths, i) \in SUBSET B
    <3>1. Share(lengths, i) \in Nat /\ Share(lengths, i) <= m
      BY ShareFacts
    <3>2. 1 .. Share(lengths, i) \in SUBSET (1 .. m)
      <4> HIDE DEF m
      <4> QED BY <1>1, <3>1
    <3> HIDE DEF m
    <3> QED BY <3>2 DEF PairsOf
  <2> QED BY <2>1 DEF Pairs
<1>6. IsFiniteSet(Pairs(lengths, S))
  BY <1>4, <1>5, FS_Subset
<1>7. Shares(lengths, S) \in Nat
  BY <1>6, SharesAreCounted, FS_CardinalityType
<1> QED BY <1>2, <1>6, <1>7

\* The shares of disjoint sets add up.
LEMMA SharesAddUp ==
  ASSUME NEW lengths \in Tables, NEW S \in SUBSET Coded(lengths),
         NEW T \in SUBSET Coded(lengths), S \cap T = {}
  PROVE  Shares(lengths, S \cup T) = Shares(lengths, S) + Shares(lengths, T)
<1> DEFINE A == Pairs(lengths, S)
           B == Pairs(lengths, T)
<1>1. IsFiniteSet(A) /\ IsFiniteSet(B)
  BY PairsAreFinite
<1>2. Pairs(lengths, S \cup T) = A \cup B
  BY DEF Pairs
<1>3. A \cap B = {}
  <2>1. ASSUME NEW c \in A, c \in B PROVE FALSE
    <3>1. PICK i \in S : c \in PairsOf(lengths, i)
      BY DEF Pairs
    <3>2. PICK j \in T : c \in PairsOf(lengths, j)
      BY <2>1 DEF Pairs
    <3>3. c[1] = i /\ c[1] = j
      BY <3>1, <3>2 DEF PairsOf
    <3> QED BY <3>3
  <2> QED BY <2>1
<1> HIDE DEF A, B
<1>4. Cardinality(A \cup B) = Cardinality(A) + Cardinality(B)
  BY <1>1, <1>3, Disjoint
<1> QED BY <1>2, <1>4, SharesAreCounted DEF A, B

\* More symbols have no smaller share.
LEMMA SharesGrow ==
  ASSUME NEW lengths \in Tables, NEW T \in SUBSET Coded(lengths), NEW S \in SUBSET T
  PROVE  Shares(lengths, S) <= Shares(lengths, T)
<1>1. S \in SUBSET Coded(lengths) /\ T \ S \in SUBSET Coded(lengths) /\ S \cap (T \ S) = {}
      /\ S \cup (T \ S) = T
  OBVIOUS
<1>2. Shares(lengths, S \cup (T \ S)) = Shares(lengths, S) + Shares(lengths, T \ S)
  BY <1>1, SharesAddUp
<1>3. Shares(lengths, S) \in Nat /\ Shares(lengths, T \ S) \in Nat
  BY <1>1, PairsAreFinite
<1>4. Shares(lengths, T) = Shares(lengths, S) + Shares(lengths, T \ S)
  BY <1>1, <1>2, Zenon
<1> QED BY <1>3, <1>4

\* Symbols of one length have equal shares.
LEMMA SharesOfLength ==
  ASSUME NEW lengths \in Tables, NEW bits \in CodeBits, NEW S \in SUBSET WithLength(lengths, bits)
  PROVE  /\ S \in SUBSET Coded(lengths)
         /\ Shares(lengths, S) = Cardinality(S) * Power[HUFFMAN_BITS - bits]
<1> DEFINE p == Power[HUFFMAN_BITS - bits]
<1>1. bits > 0 /\ bits \in Nat /\ HUFFMAN_BITS - bits \in 0 .. HUFFMAN_BITS + 1
  BY HuffmanAssumption DEF CodeBits
<1>2. S \in SUBSET Coded(lengths)
  BY <1>1 DEF WithLength, Coded
<1>3. p \in Nat
  BY <1>1, PowerAt
<1>4. \A i \in S : PairsOf(lengths, i) = {i} \X (1 .. p)
  BY DEF PairsOf, Share, WithLength
<1>5. Pairs(lengths, S) = S \X (1 .. p)
  <2> HIDE DEF p
  <2>1. Pairs(lengths, S) = UNION {{i} \X (1 .. p) : i \in S}
    BY <1>4 DEF Pairs
  <2> QED BY <2>1
<1>6. IsFiniteSet(S)
  BY <1>2, PairsAreFinite
<1> HIDE DEF p
<1>7. IsFiniteSet(1 .. p) /\ Cardinality(1 .. p) = p
  <2>1. 1 \in Int /\ p \in Int
    BY <1>3
  <2>2. IsFiniteSet(1 .. p) /\ Cardinality(1 .. p) = IF 1 > p THEN 0 ELSE p - 1 + 1
    BY <2>1, FS_Interval
  <2> QED BY <1>3, <2>2
<1>8. Cardinality(S \X (1 .. p)) = Cardinality(S) * p
  BY <1>6, <1>7, FS_Product
<1>9. Shares(lengths, S) = Cardinality(S) * p
  BY <1>5, <1>8, SharesAreCounted
<1> QED BY <1>2, <1>9 DEF p

----------------------------------------------------------------------------
(* What the loop over bits computes *)

Shorter(lengths, bits) == {i \in Coded(lengths) : lengths[i] < bits}

LEMMA BitsFacts ==
  /\ HUFFMAN_BITS \in Nat \ {0} /\ HUFFMAN_QL_BITS \in 1 .. HUFFMAN_BITS
  /\ HUFFMAN_QL_SHIFT \in Nat /\ HUFFMAN_QL_BITS + HUFFMAN_QL_SHIFT = HUFFMAN_BITS
  /\ \A bits \in CodeBits :
       /\ bits \in Nat \ {0} /\ bits \in 1 .. HUFFMAN_BITS + 1 /\ bits <= HUFFMAN_BITS
       /\ bits + 1 \in 1 .. HUFFMAN_BITS + 1
       /\ HUFFMAN_BITS - bits \in 0 .. HUFFMAN_BITS
BY HuffmanAssumption DEF CodeBits, HUFFMAN_QL_SHIFT

LEMMA FrequenciesTyped ==
  ASSUME NEW lengths \in Tables
  PROVE  Frequencies(lengths) \in [CodeBits -> Nat]
<1>1. ASSUME NEW bits \in CodeBits PROVE Cardinality(WithLength(lengths, bits)) \in Nat
  BY TableFacts DEF WithLength
<1>2. CASE Coded(lengths) = {}
  BY <1>2 DEF Frequencies
<1>3. CASE Coded(lengths) # {}
  <2>1. Frequencies(lengths) = [bits \in CodeBits |-> Cardinality(WithLength(lengths, bits))]
    BY <1>3 DEF Frequencies
  <2> QED BY <1>1, <2>1
<1> QED BY <1>2, <1>3

\* The symbols with codes shorter than b + 1 bits are those with shorter codes and those of b.
LEMMA ShorterGrows ==
  ASSUME NEW lengths \in Tables
  PROVE  /\ Shorter(lengths, 1) = {}
         /\ Shorter(lengths, HUFFMAN_BITS + 1) = Coded(lengths)
         /\ \A bits \in CodeBits :
              /\ Shorter(lengths, bits + 1)
                   = Shorter(lengths, bits) \cup WithLength(lengths, bits)
              /\ Shorter(lengths, bits) \cap WithLength(lengths, bits) = {}
              /\ WithLength(lengths, bits) \in SUBSET Coded(lengths)
              /\ Shorter(lengths, bits) \in SUBSET Coded(lengths)
<1>1. HUFFMAN_BITS \in Nat /\ \A i \in DOMAIN lengths : lengths[i] \in 0 .. HUFFMAN_BITS
  BY BitsFacts, TableFacts
<1>2. \A i \in Coded(lengths) : i \in DOMAIN lengths /\ lengths[i] > 0
  BY DEF Coded
<1>3. Shorter(lengths, 1) = {}
  BY <1>1, <1>2 DEF Shorter
<1>4. Shorter(lengths, HUFFMAN_BITS + 1) = Coded(lengths)
  BY <1>1, <1>2 DEF Shorter
<1>5. ASSUME NEW bits \in CodeBits
      PROVE  /\ Shorter(lengths, bits + 1)
                  = Shorter(lengths, bits) \cup WithLength(lengths, bits)
             /\ Shorter(lengths, bits) \cap WithLength(lengths, bits) = {}
             /\ WithLength(lengths, bits) \in SUBSET Coded(lengths)
             /\ Shorter(lengths, bits) \in SUBSET Coded(lengths)
  <2>1. bits \in Nat \ {0}
    BY BitsFacts
  <2>2. \A i \in DOMAIN lengths : lengths[i] \in Nat
    BY <1>1
  <2>3. \A i \in DOMAIN lengths : lengths[i] < bits + 1 <=> lengths[i] < bits \/ lengths[i] = bits
    BY <2>1, <2>2
  <2>4. \A i \in DOMAIN lengths : lengths[i] = bits => lengths[i] > 0 /\ ~(lengths[i] < bits)
    BY <2>1, <2>2
  <2> QED BY <2>3, <2>4 DEF Shorter, WithLength, Coded
<1> QED BY <1>3, <1>4, <1>5

\* cum_freq counts the symbols with shorter codes.
LEMMA CumIs ==
  ASSUME NEW lengths \in Tables, Coded(lengths) # {},
         NEW cum, cum = CumulativeFreq(Frequencies(lengths)), NEW bits \in CodeBits
  PROVE  cum[bits] = Cardinality(Shorter(lengths, bits))
<1> DEFINE n == HUFFMAN_BITS
           freq == Frequencies(lengths)
           S == {k \in 0 .. n : cum[k + 1] = Cardinality(Shorter(lengths, k + 1))}
<1>1. n \in Nat /\ CodeBits = 1 .. n
  BY BitsFacts DEF CodeBits
<1>2. freq \in [CodeBits -> Nat] /\ 1 \in Nat /\ cum = Carried(freq, 1)
  BY FrequenciesTyped DEF CumulativeFreq
<1>3. /\ cum \in [1 .. HUFFMAN_BITS + 1 -> Nat] /\ cum[1] = 0
      /\ \A k \in CodeBits : cum[k + 1] = 1 * (cum[k] + freq[k])
  <2> HIDE DEF freq
  <2> QED BY <1>2, CarriedFacts
<1>4. \A k \in CodeBits : freq[k] = Cardinality(WithLength(lengths, k))
  BY DEF Frequencies
<1> HIDE DEF freq
<1>5. 0 \in S
  <2>1. Shorter(lengths, 0 + 1) = {}
    BY ShorterGrows
  <2>2. cum[0 + 1] = 0 /\ 0 \in 0 .. n
    BY <1>1, <1>3
  <2> QED BY <2>1, <2>2, FS_EmptySet
<1>6. ASSUME NEW k \in 1 .. n, k - 1 \in S PROVE k \in S
  <2>1. k \in CodeBits /\ (k - 1) + 1 = k /\ k \in 0 .. n
    BY <1>1
  <2>2. cum[k] = Cardinality(Shorter(lengths, k))
    BY <1>6, <2>1
  <2> DEFINE A == Shorter(lengths, k)
             B == WithLength(lengths, k)
  <2>3. /\ Shorter(lengths, k + 1) = A \cup B /\ A \cap B = {}
        /\ A \in SUBSET Coded(lengths) /\ B \in SUBSET Coded(lengths)
    BY <2>1, ShorterGrows
  <2>4. IsFiniteSet(A) /\ IsFiniteSet(B)
    BY <2>3, PairsAreFinite
  <2> HIDE DEF A, B
  <2>5. /\ Cardinality(A \cup B) = Cardinality(A) + Cardinality(B)
        /\ Cardinality(A) \in Nat /\ Cardinality(B) \in Nat
    BY <2>3, <2>4, Disjoint
  <2>6. cum[k + 1] = 1 * (cum[k] + freq[k])
    BY <1>3, <2>1
  <2>7. cum[k] = Cardinality(A) /\ freq[k] = Cardinality(B)
    BY <1>4, <2>1, <2>2 DEF A, B
  <2>8. cum[k + 1] = Cardinality(A \cup B)
    BY <2>5, <2>6, <2>7
  <2> QED BY <2>1, <2>3, <2>8
<1>7. \A k \in 1 .. n : k - 1 \in S => k \in S
  BY <1>6
<1>8. \A k \in 0 .. n : k \in S
  <2> HIDE DEF S
  <2> QED BY <1>1, <1>5, <1>7, Steps
<1>9. bits - 1 \in 0 .. n /\ (bits - 1) + 1 = bits
  BY <1>1
<1>10. bits - 1 \in S
  BY <1>8, <1>9
<1> QED BY <1>9, <1>10

\* The codes up to a length, counted in numbers of HUFFMAN_BITS bits, are the shares of the
\* symbols with such codes.
LEMMA CodesUpTo ==
  ASSUME NEW lengths \in Tables, Coded(lengths) # {},
         NEW freq, freq = Frequencies(lengths),
         NEW huf, huf = FirstCodes(freq), NEW bits \in CodeBits
  PROVE  /\ huf[bits] \in Nat /\ freq[bits] \in Nat
         /\ huf[bits] * Power[HUFFMAN_BITS - bits] = Shares(lengths, Shorter(lengths, bits))
         /\ (huf[bits] + freq[bits]) * Power[HUFFMAN_BITS - bits]
              = Shares(lengths, Shorter(lengths, bits + 1))
         /\ huf[bits + 1] = 2 * (huf[bits] + freq[bits])
<1> DEFINE n == HUFFMAN_BITS
           Is(k) == huf[k] * Power[n - k] = Shares(lengths, Shorter(lengths, k))
           S == {k \in 0 .. n - 1 : Is(k + 1)}
<1>1. n \in Nat \ {0} /\ CodeBits = 1 .. n
  BY BitsFacts DEF CodeBits
<1>2. freq \in [CodeBits -> Nat] /\ 2 \in Nat /\ huf = Carried(freq, 2)
  BY FrequenciesTyped DEF FirstCodes
<1>3. /\ huf \in [1 .. HUFFMAN_BITS + 1 -> Nat] /\ huf[1] = 0
      /\ \A k \in CodeBits : huf[k + 1] = 2 * (huf[k] + freq[k])
  BY <1>2, CarriedFacts
<1>4. \A k \in CodeBits : freq[k] = Cardinality(WithLength(lengths, k))
  BY DEF Frequencies
<1>5. ASSUME NEW k \in CodeBits
      PROVE  huf[k] \in Nat /\ freq[k] \in Nat /\ Power[n - k] \in Nat
  <2>1. k \in 1 .. HUFFMAN_BITS + 1 /\ n - k \in 0 .. HUFFMAN_BITS + 1
    BY BitsFacts
  <2> QED BY <1>2, <1>3, <2>1, PowerAt
<1>6. ASSUME NEW k \in CodeBits, Is(k)
      PROVE  (huf[k] + freq[k]) * Power[n - k] = Shares(lengths, Shorter(lengths, k + 1))
  <2> DEFINE A == Shorter(lengths, k)
             B == WithLength(lengths, k)
  <2>1. /\ Shorter(lengths, k + 1) = A \cup B /\ A \cap B = {}
        /\ A \in SUBSET Coded(lengths) /\ B \in SUBSET Coded(lengths)
    BY ShorterGrows
  <2>2. Shares(lengths, A \cup B) = Shares(lengths, A) + Shares(lengths, B)
    <3> HIDE DEF A, B
    <3> QED BY <2>1, SharesAddUp
  <2>3. Shares(lengths, B) = freq[k] * Power[n - k]
    <3>1. B \in SUBSET WithLength(lengths, k)
      OBVIOUS
    <3> HIDE DEF B
    <3>2. Shares(lengths, B) = Cardinality(B) * Power[n - k]
      BY <3>1, SharesOfLength
    <3> QED BY <1>4, <3>2 DEF B
  <2>4. Shares(lengths, A) = huf[k] * Power[n - k]
    BY <1>6
  <2>5. PICK x \in Nat, y \in Nat, z \in Nat : x = huf[k] /\ y = freq[k] /\ z = Power[n - k]
    BY <1>5
  <2>6. (x + y) * z = x * z + y * z
    OBVIOUS
  <2> HIDE DEF A, B
  <2> QED BY <2>1, <2>2, <2>3, <2>4, <2>5, <2>6, Zenon
<1>7. 0 \in S
  <2>1. Shorter(lengths, 1) = {}
    BY ShorterGrows
  <2>2. Shares(lengths, {}) = 0
    <3>1. Pairs(lengths, {}) = {}
      BY DEF Pairs
    <3> QED BY <3>1, FS_EmptySet, SharesAreCounted
  <2>3. Power[n - 1] \in Nat /\ 0 + 1 = 1 /\ 0 \in 0 .. n - 1
    BY <1>1, <1>5
  <2>4. PICK z \in Nat : z = Power[n - 1]
    BY <2>3
  <2>5. 0 * z = 0
    OBVIOUS
  <2>6. Is(1)
    BY <1>3, <2>1, <2>2, <2>4, <2>5, Zenon
  <2> QED BY <2>3, <2>6
<1>8. ASSUME NEW k \in 1 .. n - 1, k - 1 \in S PROVE k \in S
  <2>1. k \in CodeBits /\ k + 1 \in CodeBits /\ (k - 1) + 1 = k /\ k \in 0 .. n - 1
        /\ n - k \in 1 .. HUFFMAN_BITS + 1 /\ (n - k) - 1 = n - (k + 1)
        /\ n - (k + 1) \in 0 .. HUFFMAN_BITS + 1
    BY <1>1
  <2>2. Is(k)
    <3>1. Is((k - 1) + 1)
      BY <1>8
    <3> QED BY <2>1, <3>1, Zenon
  <2>3. (huf[k] + freq[k]) * Power[n - k] = Shares(lengths, Shorter(lengths, k + 1))
    BY <1>6, <2>1, <2>2
  <2>4. huf[k + 1] = 2 * (huf[k] + freq[k])
    BY <1>3, <2>1
  <2>5. Power[n - k] = 2 * Power[n - (k + 1)]
    BY <2>1, PowerFacts
  <2>6. Power[n - (k + 1)] \in Nat
    BY <2>1, PowerAt
  <2>7. PICK x \in Nat, y \in Nat, z \in Nat :
          x = huf[k] /\ y = freq[k] /\ z = Power[n - (k + 1)]
    BY <1>5, <2>1, <2>6
  <2>8. (2 * (x + y)) * z = (x + y) * (2 * z)
    OBVIOUS
  <2>9. Is(k + 1)
    BY <2>3, <2>4, <2>5, <2>7, <2>8, Zenon
  <2> QED BY <2>1, <2>9
<1>9. \A k \in 1 .. n - 1 : k - 1 \in S => k \in S
  BY <1>8
<1>10. \A k \in 0 .. n - 1 : k \in S
  <2>1. n - 1 \in Nat
    BY <1>1
  <2> HIDE DEF S, n
  <2> QED BY <1>7, <1>9, <2>1, Steps
<1>11. bits - 1 \in 0 .. n - 1 /\ (bits - 1) + 1 = bits
  BY <1>1
<1>12. bits - 1 \in S
  BY <1>10, <1>11
<1>13. Is(bits)
  <2>1. Is((bits - 1) + 1)
    BY <1>12
  <2> QED BY <1>11, <2>1, Zenon
<1>14. (huf[bits] + freq[bits]) * Power[n - bits] = Shares(lengths, Shorter(lengths, bits + 1))
  BY <1>6, <1>13
<1> QED BY <1>3, <1>5, <1>13, <1>14

----------------------------------------------------------------------------
(* Which tables are accepted *)

\* The checks of huffman_alphabet.
IsSound(freq, huf) ==
  /\ \A bits \in CodeBits : huf[bits] + freq[bits] <= Power[bits]
  /\ huf[HUFFMAN_BITS + 1] = Power[HUFFMAN_BITS + 1]

LEMMA PowerSplit ==
  ASSUME NEW bits \in 0 .. HUFFMAN_BITS
  PROVE  /\ Power[bits] \in Nat \ {0} /\ Power[HUFFMAN_BITS - bits] \in Nat \ {0}
         /\ Power[HUFFMAN_BITS] = Power[bits] * Power[HUFFMAN_BITS - bits]
<1>1. HUFFMAN_BITS \in Nat
  BY BitsFacts
<1>2. /\ bits \in Nat /\ bits \in 0 .. HUFFMAN_BITS + 1
      /\ HUFFMAN_BITS - bits \in Nat /\ HUFFMAN_BITS - bits \in 0 .. HUFFMAN_BITS + 1
      /\ bits + (HUFFMAN_BITS - bits) = HUFFMAN_BITS /\ HUFFMAN_BITS <= HUFFMAN_BITS + 1
  BY <1>1
<1>3. Power[bits + (HUFFMAN_BITS - bits)] = Power[bits] * Power[HUFFMAN_BITS - bits]
  BY <1>2, PowerSum
<1> QED BY <1>2, <1>3, PowerAt

\* An unused alphabet is accepted.
LEMMA EmptyIsSound ==
  ASSUME NEW lengths \in Tables, Coded(lengths) = {},
         NEW freq, freq = Frequencies(lengths), NEW huf, huf = FirstCodes(freq)
  PROVE  IsSound(freq, huf)
<1> DEFINE n == HUFFMAN_BITS
           S == {k \in 0 .. n : k = 0 \/ huf[k + 1] = Power[k + 1]}
<1>1. n \in Nat \ {0} /\ CodeBits = 1 .. n
  BY BitsFacts DEF CodeBits
<1>2. freq \in [CodeBits -> Nat] /\ 2 \in Nat /\ huf = Carried(freq, 2)
  BY FrequenciesTyped DEF FirstCodes
<1>3. /\ huf \in [1 .. HUFFMAN_BITS + 1 -> Nat] /\ huf[1] = 0
      /\ \A k \in CodeBits : huf[k + 1] = 2 * (huf[k] + freq[k])
  BY <1>2, CarriedFacts
<1>4. \A k \in CodeBits : freq[k] = IF k = 1 THEN 2 ELSE 0
  BY DEF Frequencies
<1>5. /\ Power[0] = 1 /\ \A k \in 1 .. n + 1 : Power[k] = 2 * Power[k - 1] /\ Power[k] \in Nat
  BY PowerFacts
<1>6. Power[1] = 2 /\ Power[2] = 4
  <2>1. 1 \in 1 .. n + 1 /\ 2 \in 1 .. n + 1 /\ 1 - 1 = 0 /\ 2 - 1 = 1
    BY <1>1
  <2>2. Power[1] = 2 * 1
    BY <1>5, <2>1
  <2>3. Power[2] = 2 * Power[1]
    BY <1>5, <2>1
  <2> QED BY <2>2, <2>3
<1>7. 0 \in S
  BY <1>1
<1>8. ASSUME NEW k \in 1 .. n, k - 1 \in S PROVE k \in S
  <2>1. k \in CodeBits /\ k \in 0 .. n /\ k \in 1 .. n + 1 /\ k + 1 \in 1 .. n + 1
        /\ (k + 1) - 1 = k
    BY <1>1
  <2>2. huf[k + 1] = 2 * (huf[k] + freq[k]) /\ Power[k + 1] = 2 * Power[k]
    BY <1>3, <1>5, <2>1
  <2>3. CASE k = 1
    <3>1. huf[1 + 1] = 2 * (0 + 2)
      BY <1>3, <1>4, <2>1, <2>2, <2>3
    <3>2. huf[k + 1] = 4 /\ Power[k + 1] = 4
      BY <1>6, <2>3, <3>1
    <3> QED BY <2>1, <3>2
  <2>4. CASE k # 1
    <3>1. huf[k] = Power[k]
      <4>1. (k - 1) + 1 = k /\ k - 1 # 0
        BY <2>4
      <4>2. huf[(k - 1) + 1] = Power[(k - 1) + 1]
        BY <1>8, <4>1
      <4> QED BY <4>1, <4>2, Zenon
    <3>2. freq[k] = 0 /\ Power[k] \in Nat
      BY <1>4, <1>5, <2>1, <2>4
    <3>3. huf[k + 1] = Power[k + 1]
      BY <2>2, <3>1, <3>2
    <3> QED BY <2>1, <3>3
  <2> QED BY <2>3, <2>4
<1>9. \A k \in 1 .. n : k - 1 \in S => k \in S
  BY <1>8
<1>10. \A k \in 0 .. n : k \in S
  <2> HIDE DEF S
  <2> QED BY <1>1, <1>7, <1>9, Steps
<1>11. n \in S /\ n # 0
  BY <1>1, <1>10
<1>12. huf[n + 1] = Power[n + 1]
  BY <1>11
<1>13. ASSUME NEW bits \in CodeBits PROVE huf[bits] + freq[bits] <= Power[bits]
  <2>1. CASE bits = 1
    BY <1>3, <1>4, <1>6, <2>1
  <2>2. CASE bits # 1
    <3>1. bits - 1 \in 0 .. n /\ bits - 1 # 0 /\ (bits - 1) + 1 = bits /\ bits \in 1 .. n + 1
      BY <1>1, <2>2
    <3>2. huf[(bits - 1) + 1] = Power[(bits - 1) + 1]
      BY <1>10, <3>1
    <3>3. huf[bits] = Power[bits]
      BY <3>1, <3>2, Zenon
    <3>4. freq[bits] = 0 /\ Power[bits] \in Nat
      BY <1>4, <1>5, <2>2, <3>1
    <3> QED BY <3>3, <3>4
  <2> QED BY <2>1, <2>2
<1> QED BY <1>12, <1>13 DEF IsSound

\* An alphabet that is used is accepted when its symbols share out all numbers.
LEMMA SoundIsComplete ==
  ASSUME NEW lengths \in Tables, Coded(lengths) # {},
         NEW freq, freq = Frequencies(lengths), NEW huf, huf = FirstCodes(freq)
  PROVE  IsSound(freq, huf) <=> Shares(lengths, Coded(lengths)) = Power[HUFFMAN_BITS]
<1> DEFINE n == HUFFMAN_BITS
           all == Shares(lengths, Coded(lengths))
<1>1. n \in CodeBits /\ n \in Nat \ {0} /\ n - n = 0 /\ n + 1 \in 1 .. HUFFMAN_BITS + 1
      /\ (n + 1) - 1 = n
  BY BitsFacts DEF CodeBits
<1>2. /\ huf[n] \in Nat /\ freq[n] \in Nat
      /\ (huf[n] + freq[n]) * Power[0] = Shares(lengths, Shorter(lengths, n + 1))
      /\ huf[n + 1] = 2 * (huf[n] + freq[n])
  <2>1. /\ huf[n] \in Nat /\ freq[n] \in Nat
        /\ (huf[n] + freq[n]) * Power[n - n] = Shares(lengths, Shorter(lengths, n + 1))
        /\ huf[n + 1] = 2 * (huf[n] + freq[n])
    BY <1>1, CodesUpTo
  <2> QED BY <1>1, <2>1, Zenon
<1>3. huf[n + 1] = 2 * all /\ all \in Nat
  <2>1. Shorter(lengths, n + 1) = Coded(lengths)
    BY ShorterGrows
  <2>2. (huf[n] + freq[n]) * 1 = all
    BY <1>2, <2>1, PowerFacts
  <2>3. huf[n] + freq[n] = all
    BY <1>2, <2>2
  <2> QED BY <1>2, <2>3
<1>4. Power[n + 1] = 2 * Power[n] /\ Power[n] \in Nat
  <2>1. Power[n + 1] = 2 * Power[(n + 1) - 1]
    BY <1>1, PowerFacts
  <2> QED BY <1>1, <2>1, PowerFacts
<1>5. huf[n + 1] = Power[n + 1] <=> all = Power[n]
  <2> HIDE DEF all, n
  <2> QED BY <1>3, <1>4
<1>6. ASSUME all = Power[n], NEW bits \in CodeBits PROVE huf[bits] + freq[bits] <= Power[bits]
  <2>1. /\ huf[bits] \in Nat /\ freq[bits] \in Nat
        /\ (huf[bits] + freq[bits]) * Power[n - bits]
             = Shares(lengths, Shorter(lengths, bits + 1))
    BY CodesUpTo
  <2>2. Shares(lengths, Shorter(lengths, bits + 1)) <= all
    <3>1. Shorter(lengths, bits + 1) \in SUBSET Coded(lengths)
      BY DEF Shorter
    <3>2. Coded(lengths) \in SUBSET Coded(lengths)
      OBVIOUS
    <3> QED BY <3>1, <3>2, SharesGrow
  <2>3. bits \in 0 .. n
    BY BitsFacts
  <2>4. /\ Power[bits] \in Nat /\ Power[n - bits] \in Nat \ {0}
        /\ Power[n] = Power[bits] * Power[n - bits]
    BY <2>3, PowerSplit
  <2>5. PICK x \in Nat, y \in Nat, z \in Nat \ {0} :
          x = huf[bits] + freq[bits] /\ y = Power[bits] /\ z = Power[n - bits]
    BY <2>1, <2>4
  <2>6. x * z <= y * z
    <3>1. x * z = Shares(lengths, Shorter(lengths, bits + 1)) /\ y * z = all
      BY <1>6, <2>1, <2>4, <2>5, Zenon
    <3> QED BY <2>2, <3>1, Zenon
  <2>7. x <= y
    <3>1. ASSUME y + 1 <= x PROVE FALSE
      <4>1. z * (y + 1) <= z * x
        BY <3>1, TimesKeepsOrder
      <4>2. z * (y + 1) = y * z + z /\ z * x = x * z
        OBVIOUS
      <4>3. y * z \in Nat /\ x * z \in Nat
        OBVIOUS
      <4> QED BY <2>6, <4>1, <4>2, <4>3
    <3> QED BY <3>1
  <2> QED BY <2>5, <2>7
<1> QED BY <1>5, <1>6 DEF IsSound

----------------------------------------------------------------------------
(* Decoding *)

\* The symbols of the same length that come before symbol i.
Before(lengths, i) == {j \in WithLength(lengths, lengths[i]) : j < i}

LEMMA EarlierFacts ==
  ASSUME NEW lengths \in Tables, NEW i \in Coded(lengths)
  PROVE  /\ Earlier(lengths, i) = Shorter(lengths, lengths[i]) \cup Before(lengths, i)
         /\ Shorter(lengths, lengths[i]) \cap Before(lengths, i) = {}
         /\ Shorter(lengths, lengths[i]) \in SUBSET Coded(lengths)
         /\ Before(lengths, i) \in SUBSET WithLength(lengths, lengths[i])
         /\ Before(lengths, i) \in SUBSET Coded(lengths)
         /\ Earlier(lengths, i) \in SUBSET Coded(lengths) /\ i \notin Earlier(lengths, i)
<1>1. i \in Nat /\ lengths[i] \in Nat
  BY TableFacts DEF Coded
<1>2. \A j \in Coded(lengths) : j \in DOMAIN lengths /\ lengths[j] \in Nat
  BY TableFacts DEF Coded
<1>3. lengths[i] > 0
  BY DEF Coded
<1>4. \A j \in DOMAIN lengths : lengths[j] = lengths[i] => j \in Coded(lengths)
  BY <1>3 DEF Coded
<1>5. ASSUME NEW j
      PROVE  /\ j \in Earlier(lengths, i)
                  <=> j \in Shorter(lengths, lengths[i]) \/ j \in Before(lengths, i)
             /\ ~(j \in Shorter(lengths, lengths[i]) /\ j \in Before(lengths, i))
             /\ j \in Before(lengths, i) => j \in Coded(lengths)
  <2>1. CASE j \in Coded(lengths)
    <3>1. j \in DOMAIN lengths /\ lengths[j] \in Nat
      BY <1>2, <2>1
    <3>2. ~(lengths[j] < lengths[i] /\ lengths[j] = lengths[i])
      BY <1>1, <3>1
    <3> QED BY <2>1, <3>1, <3>2, Zenon DEF Earlier, Shorter, Before, WithLength
  <2>2. CASE j \notin Coded(lengths)
    BY <1>4, <2>2, Zenon DEF Earlier, Shorter, Before, WithLength
  <2> QED BY <2>1, <2>2
<1>6. i \notin Earlier(lengths, i)
  BY <1>1 DEF Earlier
<1>7. /\ Shorter(lengths, lengths[i]) \in SUBSET Coded(lengths)
      /\ Earlier(lengths, i) \in SUBSET Coded(lengths)
      /\ Before(lengths, i) \in SUBSET WithLength(lengths, lengths[i])
  BY DEF Shorter, Earlier, Before
<1>8. Before(lengths, i) \in SUBSET Coded(lengths)
  BY <1>5
<1>9. Earlier(lengths, i) = Shorter(lengths, lengths[i]) \cup Before(lengths, i)
  BY <1>5
<1>10. Shorter(lengths, lengths[i]) \cap Before(lengths, i) = {}
  BY <1>5
<1> QED BY <1>6, <1>7, <1>8, <1>9, <1>10

\* Of two symbols with a code one is earlier, and has all that are earlier than itself before
\* the other, too.
LEMMA EarlierOrders ==
  ASSUME NEW lengths \in Tables, NEW i \in Coded(lengths), NEW j \in Coded(lengths)
  PROVE  /\ i # j => i \in Earlier(lengths, j) \/ j \in Earlier(lengths, i)
         /\ i \in Earlier(lengths, j) =>
              Earlier(lengths, i) \cup {i} \in SUBSET Earlier(lengths, j)
<1>1. /\ i \in Nat /\ j \in Nat
      /\ \A k \in Coded(lengths) : k \in Nat /\ lengths[k] \in Nat
  BY TableFacts DEF Coded
<1>2. i # j => i \in Earlier(lengths, j) \/ j \in Earlier(lengths, i)
  BY <1>1 DEF Earlier
<1>3. ASSUME i \in Earlier(lengths, j), NEW k \in Earlier(lengths, i)
      PROVE  k \in Earlier(lengths, j)
  BY <1>1, <1>3 DEF Earlier
<1> QED BY <1>2, <1>3

\* A symbol's place is behind the earlier ones: no two symbols share one.
LEMMA PlaceFacts ==
  ASSUME NEW lengths \in Tables, NEW cum, cum = CumulativeFreq(Frequencies(lengths)),
         NEW i \in Coded(lengths)
  PROVE  /\ Place(lengths, cum, i) = Cardinality(Earlier(lengths, i)) + 1
         /\ Place(lengths, cum, i) \in 1 .. Cardinality(Coded(lengths))
         /\ \A j \in Coded(lengths) : Place(lengths, cum, j) = Place(lengths, cum, i) => j = i
<1>1. ASSUME NEW j \in Coded(lengths)
      PROVE  /\ Place(lengths, cum, j) = Cardinality(Earlier(lengths, j)) + 1
             /\ Cardinality(Earlier(lengths, j)) \in Nat
  <2> DEFINE A == Shorter(lengths, lengths[j])
             B == Before(lengths, j)
  <2>1. /\ Earlier(lengths, j) = A \cup B /\ A \cap B = {}
        /\ A \in SUBSET Coded(lengths) /\ B \in SUBSET Coded(lengths)
    BY EarlierFacts
  <2>2. IsFiniteSet(A) /\ IsFiniteSet(B)
    BY <2>1, PairsAreFinite
  <2>3. lengths[j] \in CodeBits
    BY ShareFacts
  <2>4. cum[lengths[j]] = Cardinality(A)
    BY <2>3, CumIs
  <2>5. Place(lengths, cum, j) = cum[lengths[j]] + Cardinality(B) + 1
    BY DEF Place, Before
  <2> HIDE DEF A, B
  <2>6. /\ Cardinality(A \cup B) = Cardinality(A) + Cardinality(B)
        /\ Cardinality(A) \in Nat /\ Cardinality(B) \in Nat
    BY <2>1, <2>2, Disjoint
  <2> QED BY <2>1, <2>4, <2>5, <2>6
<1>2. ASSUME NEW j \in Coded(lengths), NEW T \in SUBSET Coded(lengths),
             Earlier(lengths, j) \cup {j} \in SUBSET T
      PROVE  Cardinality(Earlier(lengths, j)) + 1 <= Cardinality(T)
  <2>1. IsFiniteSet(T) /\ Cardinality(T) \in Nat
    BY PairsAreFinite
  <2>2. Earlier(lengths, j) \in SUBSET Coded(lengths) /\ j \notin Earlier(lengths, j)
    BY EarlierFacts
  <2>3. IsFiniteSet(Earlier(lengths, j))
    BY <2>2, PairsAreFinite
  <2>4. Cardinality(Earlier(lengths, j) \cup {j}) = Cardinality(Earlier(lengths, j)) + 1
    BY <2>2, <2>3, FS_AddElement
  <2>5. Cardinality(Earlier(lengths, j) \cup {j}) <= Cardinality(T)
    BY <1>2, <2>1, FS_Subset
  <2> QED BY <2>4, <2>5
<1>3. Cardinality(Earlier(lengths, i)) + 1 <= Cardinality(Coded(lengths))
  <2>1. Earlier(lengths, i) \cup {i} \in SUBSET Coded(lengths)
    BY EarlierFacts
  <2> QED BY <1>2, <2>1
<1>4. Cardinality(Coded(lengths)) \in Nat
  BY PairsAreFinite
<1>5. ASSUME NEW j \in Coded(lengths), NEW k \in Coded(lengths), j \in Earlier(lengths, k)
      PROVE  Place(lengths, cum, j) # Place(lengths, cum, k)
  <2>1. Earlier(lengths, j) \cup {j} \in SUBSET Earlier(lengths, k)
    BY <1>5, EarlierOrders
  <2>2. Earlier(lengths, k) \in SUBSET Coded(lengths)
    BY EarlierFacts
  <2>3. Cardinality(Earlier(lengths, j)) + 1 <= Cardinality(Earlier(lengths, k))
    BY <1>2, <2>1, <2>2
  <2>4. /\ Place(lengths, cum, j) = Cardinality(Earlier(lengths, j)) + 1
        /\ Cardinality(Earlier(lengths, j)) \in Nat
    BY <1>1
  <2>5. /\ Place(lengths, cum, k) = Cardinality(Earlier(lengths, k)) + 1
        /\ Cardinality(Earlier(lengths, k)) \in Nat
    BY <1>1
  <2> QED BY <2>3, <2>4, <2>5
<1>6. \A j \in Coded(lengths) : Place(lengths, cum, j) = Place(lengths, cum, i) => j = i
  BY <1>5, EarlierOrders, Zenon
<1>7. /\ Place(lengths, cum, i) = Cardinality(Earlier(lengths, i)) + 1
      /\ Cardinality(Earlier(lengths, i)) \in Nat
  BY <1>1
<1>8. Place(lengths, cum, i) \in 1 .. Cardinality(Coded(lengths))
  BY <1>3, <1>4, <1>7
<1> QED BY <1>6, <1>7, <1>8

\* Each symbol is in its place.
LEMMA RawAtPlace ==
  ASSUME NEW lengths \in Tables, NEW cum, cum = CumulativeFreq(Frequencies(lengths)),
         NEW i \in Coded(lengths)
  PROVE  /\ RawSymbols(lengths, cum)[Place(lengths, cum, i)] = i - 1
         /\ RawSymbols(lengths, cum) # <<>>
<1> DEFINE p == Place(lengths, cum, i)
           c == CHOOSE k \in Coded(lengths) : Place(lengths, cum, k) = p
<1>1. p \in 1 .. Cardinality(Coded(lengths))
  BY PlaceFacts
<1>2. c \in Coded(lengths) /\ Place(lengths, cum, c) = p
  OBVIOUS
<1>3. c = i
  <2> HIDE DEF c
  <2> QED BY <1>2, PlaceFacts
<1>4. RawSymbols(lengths, cum)[p] = c - 1
  <2> HIDE DEF p
  <2> QED BY <1>1 DEF RawSymbols
<1>5. p \in DOMAIN RawSymbols(lengths, cum)
  <2> HIDE DEF p
  <2> QED BY <1>1 DEF RawSymbols
<1>6. DOMAIN RawSymbols(lengths, cum) # {}
  BY <1>5
<1>7. DOMAIN <<>> = {}
  OBVIOUS
<1>8. RawSymbols(lengths, cum) # <<>>
  BY <1>6, <1>7, Zenon
<1> HIDE DEF c
<1> QED BY <1>3, <1>4, <1>8

\* The numbers that a symbol shares, in terms of its code.
LEMMA ShareIsCode ==
  ASSUME NEW lengths \in Tables, Coded(lengths) # {},
         Shares(lengths, Coded(lengths)) = Power[HUFFMAN_BITS],
         NEW huf, huf = FirstCodes(Frequencies(lengths)),
         NEW i \in Coded(lengths), NEW start, start = CanonicalStart(lengths, i),
         NEW input \in start .. start + Share(lengths, i) - 1
  PROVE  /\ start \in Nat /\ input \in Nat /\ input < Power[HUFFMAN_BITS]
         /\ \A bits \in CodeBits :
              Start(huf, bits) \in Nat /\ (Start(huf, bits) <= input <=> bits <= lengths[i])
         /\ huf[lengths[i]] \in Nat /\ Cardinality(Before(lengths, i)) \in Nat
         /\ input \div Power[HUFFMAN_BITS - lengths[i]]
              = huf[lengths[i]] + Cardinality(Before(lengths, i))
<1> DEFINE share == Share(lengths, i)
           E == Earlier(lengths, i)
           L == lengths[i]
<1>1. /\ E \in SUBSET Coded(lengths) /\ i \notin E
      /\ E = Shorter(lengths, L) \cup Before(lengths, i)
      /\ Shorter(lengths, L) \cap Before(lengths, i) = {}
      /\ Shorter(lengths, L) \in SUBSET Coded(lengths)
      /\ Before(lengths, i) \in SUBSET WithLength(lengths, L)
      /\ Before(lengths, i) \in SUBSET Coded(lengths)
  BY EarlierFacts
<1>2. start = Shares(lengths, E) /\ start \in Nat
  BY <1>1, PairsAreFinite DEF CanonicalStart
<1>3. share \in Nat \ {0} /\ L \in CodeBits /\ share = Power[HUFFMAN_BITS - L]
  BY ShareFacts DEF Share
<1>4. input \in Nat /\ start <= input /\ input < start + share
  <2>1. input \in start .. start + share - 1
    OBVIOUS
  <2> HIDE DEF share
  <2> QED BY <1>2, <1>3, <2>1
<1>5. /\ E \cup {i} \in SUBSET Coded(lengths)
      /\ Shares(lengths, E \cup {i}) = start + share
  <2>1. {i} \in SUBSET Coded(lengths) /\ E \cap {i} = {}
    BY <1>1
  <2>2. Shares(lengths, E \cup {i}) = Shares(lengths, E) + Shares(lengths, {i})
    <3> HIDE DEF E
    <3> QED BY <1>1, <2>1, SharesAddUp
  <2>3. Shares(lengths, {i}) = Cardinality({i}) * Power[HUFFMAN_BITS - L]
    <3>1. {i} \in SUBSET WithLength(lengths, L)
      BY DEF WithLength, Coded
    <3> HIDE DEF L
    <3> QED BY <1>3, <3>1, SharesOfLength
  <2>4. Shares(lengths, {i}) = share
    <3>1. Cardinality({i}) = 1
      BY FS_Singleton
    <3>2. Shares(lengths, {i}) = 1 * share
      BY <1>3, <2>3, <3>1, Zenon
    <3> HIDE DEF share
    <3> QED BY <1>3, <3>2
  <2> QED BY <1>1, <1>2, <2>1, <2>2, <2>4
<1>6. input < Power[HUFFMAN_BITS]
  <2>1. Coded(lengths) \in SUBSET Coded(lengths)
    OBVIOUS
  <2>2. start + share <= Power[HUFFMAN_BITS]
    <3> HIDE DEF E, share
    <3> QED BY <1>5, <2>1, SharesGrow
  <2>3. Power[HUFFMAN_BITS] \in Nat
    BY PowerFacts
  <2> HIDE DEF share
  <2> QED BY <1>2, <1>3, <1>4, <2>2, <2>3
<1>7. ASSUME NEW bits \in CodeBits
      PROVE  Start(huf, bits) \in Nat /\ (Start(huf, bits) <= input <=> bits <= L)
  <2>1. Start(huf, bits) = Shares(lengths, Shorter(lengths, bits))
    BY CodesUpTo DEF Start
  <2>2. Shorter(lengths, bits) \in SUBSET Coded(lengths)
    BY DEF Shorter
  <2>3. Start(huf, bits) \in Nat
    BY <2>1, <2>2, PairsAreFinite
  <2>4. bits \in Nat /\ L \in Nat
    BY <1>3, BitsFacts
  <2>5. \A j \in Coded(lengths) : lengths[j] \in Nat
    BY TableFacts DEF Coded
  <2>6. CASE bits <= L
    <3>1. Shorter(lengths, bits) \in SUBSET E
      BY <2>4, <2>5, <2>6 DEF Shorter, Earlier
    <3>2. Start(huf, bits) <= start
      <4> HIDE DEF E
      <4> QED BY <1>1, <1>2, <2>1, <3>1, SharesGrow
    <3> QED BY <1>2, <1>4, <2>3, <2>6, <3>2
  <2>7. CASE ~(bits <= L)
    <3>1. E \cup {i} \in SUBSET Shorter(lengths, bits)
      BY <2>4, <2>5, <2>7 DEF Shorter, Earlier
    <3>2. start + share <= Start(huf, bits)
      <4> HIDE DEF E, share
      <4> QED BY <1>5, <2>1, <2>2, <3>1, SharesGrow
    <3> HIDE DEF share, L
    <3> QED BY <1>2, <1>3, <1>4, <2>3, <2>7, <3>2
  <2> QED BY <2>6, <2>7
<1>8. /\ huf[L] \in Nat /\ Cardinality(Before(lengths, i)) \in Nat
      /\ start = huf[L] * share + Cardinality(Before(lengths, i)) * share
  <2>1. huf[L] \in Nat /\ huf[L] * share = Shares(lengths, Shorter(lengths, L))
    BY <1>3, CodesUpTo
  <2>2. Shares(lengths, Before(lengths, i)) = Cardinality(Before(lengths, i)) * share
    BY <1>1, <1>3, SharesOfLength
  <2>3. Cardinality(Before(lengths, i)) \in Nat
    BY <1>1, PairsAreFinite
  <2>4. Shares(lengths, E) = Shares(lengths, Shorter(lengths, L))
                               + Shares(lengths, Before(lengths, i))
    <3> HIDE DEF E, L
    <3> QED BY <1>1, SharesAddUp
  <2> QED BY <1>2, <2>1, <2>2, <2>3, <2>4
<1>9. input \div share = huf[L] + Cardinality(Before(lengths, i))
  <2>1. PICK x \in Nat, y \in Nat, z \in Nat \ {0} :
          x = huf[L] /\ y = Cardinality(Before(lengths, i)) /\ z = share
    BY <1>3, <1>8
  <2>2. z * (x + y) = x * z + y * z
    OBVIOUS
  <2>3. start = x * z + y * z
    BY <1>8, <2>1, Zenon
  <2>4. z * (x + y) <= input /\ input < z * (x + y) + z
    <3>1. input < start + z
      BY <1>4, <2>1, Zenon
    <3> QED BY <1>4, <2>2, <2>3, <3>1
  <2>5. input \div z = x + y
    <3>1. input \in Int /\ x + y \in Int
      BY <1>4
    <3> QED BY <2>4, <3>1, QuotientIs
  <2> QED BY <2>1, <2>5, Zenon
<1>10. input \div Power[HUFFMAN_BITS - L] = huf[L] + Cardinality(Before(lengths, i))
  BY <1>3, <1>9, Zenon
<1> QED BY <1>2, <1>4, <1>6, <1>7, <1>8, <1>10

\* The quick lookup table never begins the walk below the length of the code.
LEMMA SymIsFound ==
  ASSUME NEW huf, NEW length \in CodeBits, NEW input \in Nat, input < Power[HUFFMAN_BITS],
         NEW alphabet, alphabet.lookup = Lookup(huf),
         alphabet.start = [bits \in CodeBits |-> Start(huf, bits)],
         \A bits \in CodeBits :
           Start(huf, bits) \in Nat /\ (Start(huf, bits) <= input <=> bits <= length)
  PROVE  huffman_sym(alphabet, input) = length
<1> DEFINE q == Power[HUFFMAN_QL_SHIFT]
           prefix == input \div q
           Fits(bits) == Start(huf, bits) \div q <= prefix
           L == {bits \in CodeBits : Fits(bits)}
           top == Max(L)
           W == {bits \in 1 .. top : alphabet.start[bits] <= input}
<1>1. /\ q \in Nat \ {0} /\ Power[HUFFMAN_QL_BITS] \in Nat \ {0}
      /\ Power[HUFFMAN_BITS] = Power[HUFFMAN_QL_BITS] * q
  <2>1. /\ HUFFMAN_QL_BITS \in 0 .. HUFFMAN_BITS
        /\ HUFFMAN_BITS - HUFFMAN_QL_BITS = HUFFMAN_QL_SHIFT
    BY BitsFacts DEF HUFFMAN_QL_SHIFT
  <2>2. /\ Power[HUFFMAN_QL_BITS] \in Nat \ {0}
        /\ Power[HUFFMAN_BITS - HUFFMAN_QL_BITS] \in Nat \ {0}
        /\ Power[HUFFMAN_BITS]
             = Power[HUFFMAN_QL_BITS] * Power[HUFFMAN_BITS - HUFFMAN_QL_BITS]
    BY <2>1, PowerSplit
  <2> QED BY <2>1, <2>2, Zenon
<1>2. prefix \in 0 .. Power[HUFFMAN_QL_BITS] - 1
  <2>1. PICK z \in Nat \ {0}, y \in Nat \ {0} : z = q /\ y = Power[HUFFMAN_QL_BITS]
    BY <1>1
  <2>2. input < y * z
    BY <1>1, <2>1, Zenon
  <2>3. /\ input \div z \in Int /\ input % z \in 0 .. z - 1
        /\ input = z * (input \div z) + (input % z)
    <3>1. input \in Int
      OBVIOUS
    <3> QED BY <3>1, DivMod
  <2>4. PICK d \in Int, r \in 0 .. z - 1 : d = input \div z /\ r = input % z
    BY <2>3
  <2>5. input = z * d + r
    BY <2>3, <2>4
  <2>6. d >= 0
    <3>1. ASSUME d <= -1 PROVE FALSE
      <4>1. z * d <= z * (-1)
        BY <3>1, TimesKeepsOrder
      <4>2. z * (-1) = -z /\ z * d \in Int
        OBVIOUS
      <4> QED BY <2>5, <4>1, <4>2
    <3> QED BY <3>1
  <2>7. d < y
    <3>1. ASSUME y <= d PROVE FALSE
      <4>1. z * y <= z * d
        BY <3>1, TimesKeepsOrder
      <4>2. z * y = y * z /\ z * d \in Int /\ y * z \in Int
        OBVIOUS
      <4> QED BY <2>2, <2>5, <4>1, <4>2
    <3> QED BY <3>1
  <2>8. d \in 0 .. y - 1
    BY <2>6, <2>7
  <2> QED BY <2>1, <2>4, <2>8, Zenon
<1>3. length \in L
  <2>1. Start(huf, length) \in Nat /\ Start(huf, length) <= input
    <3>1. length <= length
      BY BitsFacts
    <3> QED BY <3>1
  <2>2. PICK s \in Nat, z \in Nat \ {0} : s = Start(huf, length) /\ z = q
    BY <1>1, <2>1
  <2>3. s <= input
    BY <2>1, <2>2
  <2>4. s \div z <= input \div z
    <3>1. /\ s \div z \in Int /\ s % z \in 0 .. z - 1 /\ s = z * (s \div z) + (s % z)
          /\ input \div z \in Int /\ input % z \in 0 .. z - 1
          /\ input = z * (input \div z) + (input % z)
      <4>1. s \in Int /\ input \in Int
        OBVIOUS
      <4> QED BY <4>1, DivMod
    <3>2. PICK d \in Int, r \in 0 .. z - 1 : d = s \div z /\ r = s % z
      BY <3>1
    <3>3. PICK e \in Int, t \in 0 .. z - 1 : e = input \div z /\ t = input % z
      BY <3>1
    <3>4. s = z * d + r /\ input = z * e + t
      BY <3>1, <3>2, <3>3
    <3>5. ASSUME e + 1 <= d PROVE FALSE
      <4>1. z * (e + 1) <= z * d
        BY <3>5, TimesKeepsOrder
      <4>2. z * (e + 1) = z * e + z /\ z * e \in Int /\ z * d \in Int
        OBVIOUS
      <4> QED BY <2>3, <3>4, <4>1, <4>2
    <3>6. d <= e
      BY <3>5
    <3> QED BY <3>2, <3>3, <3>6
  <2>5. Fits(length)
    BY <2>2, <2>4, Zenon
  <2> QED BY <2>5
<1>4. L \in SUBSET Nat /\ \A bits \in L : bits <= HUFFMAN_BITS
  BY BitsFacts
<1>5. top \in L /\ length <= top
  <2> HIDE DEF L
  <2>1. HUFFMAN_BITS \in Nat
    BY BitsFacts
  <2> QED BY <1>3, <1>4, <2>1, MaxNat
<1>6. top \in CodeBits
  BY <1>5
<1>7. alphabet.lookup[prefix] = top
  <2>1. Lookup(huf) = [p \in 0 .. Power[HUFFMAN_QL_BITS] - 1 |->
                        Max({bits \in CodeBits : Start(huf, bits) \div q <= p})]
    BY DEF Lookup
  <2> HIDE DEF q, prefix
  <2> QED BY <1>2, <2>1
<1>8. huffman_sym(alphabet, input) = Max(W)
  <2>1. huffman_sym(alphabet, input)
          = Max({bits \in 1 .. alphabet.lookup[prefix] : alphabet.start[bits] <= input})
    BY DEF huffman_sym
  <2> HIDE DEF prefix, top
  <2> QED BY <1>7, <2>1
<1> HIDE DEF top, L, prefix, q
<1>9. \A bits \in 1 .. top : bits \in CodeBits
  BY <1>6, BitsFacts DEF CodeBits
<1>10. \A bits \in 1 .. top : alphabet.start[bits] <= input <=> bits <= length
  <2> SUFFICES ASSUME NEW bits \in 1 .. top
               PROVE  alphabet.start[bits] <= input <=> bits <= length
    OBVIOUS
  <2>1. bits \in CodeBits
    BY <1>9
  <2>2. alphabet.start[bits] = Start(huf, bits)
    BY <2>1
  <2> QED BY <2>1, <2>2
<1>11. length \in 1 .. top /\ top \in Nat
  BY <1>5, <1>6, BitsFacts DEF CodeBits
<1>12. /\ W \in SUBSET Nat /\ length \in W
       /\ \A bits \in W : bits <= length
  <2>1. length <= length
    BY <1>11
  <2> QED BY <1>10, <1>11, <2>1
<1>13. Max(W) = length
  <2> HIDE DEF W
  <2> QED BY <1>12, MaxIs
<1> QED BY <1>8, <1>13

\* An alphabet decodes by the canonical code of its table.
THEOREM AlphabetsDecode ==
  ASSUME NEW lengths \in Tables
  PROVE  HuffmanDecodes(lengths, huffman_alphabet(lengths))
<1> DEFINE freq == Frequencies(lengths)
           huf == FirstCodes(freq)
           cum == CumulativeFreq(freq)
           alphabet == huffman_alphabet(lengths)
           all == Shares(lengths, Coded(lengths))
<1>1. /\ alphabet.rc = IF IsSound(freq, huf) THEN 0 ELSE -1
      /\ alphabet.start = [bits \in CodeBits |-> Start(huf, bits)]
      /\ alphabet.first = [bits \in CodeBits |-> cum[bits] - huf[bits]]
      /\ alphabet.raw = RawSymbols(lengths, cum)
      /\ alphabet.lookup = Lookup(huf)
  BY DEF huffman_alphabet, IsSound
<1>2. alphabet.rc = 0 <=> IsSound(freq, huf)
  <2> HIDE DEF alphabet, freq, huf
  <2> QED BY <1>1
<1>3. IsSound(freq, huf) <=> Coded(lengths) = {} \/ all = Power[HUFFMAN_BITS]
  <2>1. CASE Coded(lengths) = {}
    <3>1. IsSound(freq, huf)
      BY <2>1, EmptyIsSound
    <3> QED BY <2>1, <3>1
  <2>2. CASE Coded(lengths) # {}
    <3>1. IsSound(freq, huf) <=> all = Power[HUFFMAN_BITS]
      BY <2>2, SoundIsComplete
    <3> QED BY <2>2, <3>1
  <2> QED BY <2>1, <2>2
<1>4. ASSUME alphabet.rc = 0, NEW i \in Coded(lengths), NEW start,
             start = CanonicalStart(lengths, i),
             NEW input \in start .. start + Share(lengths, i) - 1
      PROVE  /\ huffman_sym(alphabet, input) = lengths[i]
             /\ huffman_raw(alphabet, lengths[i], input) = i - 1
  <2> DEFINE L == lengths[i]
             r == Cardinality(Before(lengths, i))
  <2>1. Coded(lengths) # {} /\ all = Power[HUFFMAN_BITS]
    BY <1>2, <1>3, <1>4
  <2>2. /\ input \in Nat /\ input < Power[HUFFMAN_BITS]
        /\ \A bits \in CodeBits :
             Start(huf, bits) \in Nat /\ (Start(huf, bits) <= input <=> bits <= L)
        /\ huf[L] \in Nat /\ r \in Nat
        /\ input \div Power[HUFFMAN_BITS - L] = huf[L] + r
    BY <1>4, <2>1, ShareIsCode
  <2>3. L \in CodeBits
    BY ShareFacts
  <2>4. huffman_sym(alphabet, input) = L
    <3> HIDE DEF alphabet, huf, L
    <3> QED BY <1>1, <2>2, <2>3, SymIsFound
  <2>5. alphabet.first[L] = cum[L] - huf[L]
    <3> HIDE DEF alphabet, huf, cum, L
    <3> QED BY <1>1, <2>3
  <2>6. cum[L] \in Nat
    <3>1. cum[L] = Cardinality(Shorter(lengths, L))
      BY <2>1, <2>3, CumIs
    <3>2. Shorter(lengths, L) \in SUBSET Coded(lengths)
      BY DEF Shorter
    <3> QED BY <3>1, <3>2, PairsAreFinite
  <2>7. alphabet.first[L] + input \div Power[HUFFMAN_BITS - L] + 1 = cum[L] + r + 1
    <3> HIDE DEF alphabet, huf, cum, L, r
    <3> QED BY <2>2, <2>5, <2>6
  <2>8. Place(lengths, cum, i) = cum[L] + r + 1
    BY DEF Place, Before
  <2>9. RawSymbols(lengths, cum)[cum[L] + r + 1] = i - 1 /\ RawSymbols(lengths, cum) # <<>>
    <3>1. /\ RawSymbols(lengths, cum)[Place(lengths, cum, i)] = i - 1
          /\ RawSymbols(lengths, cum) # <<>>
      BY RawAtPlace
    <3> HIDE DEF cum, L, r
    <3> QED BY <2>8, <3>1
  <2>10. huffman_raw(alphabet, L, input) = i - 1
    <3> HIDE DEF alphabet, cum, L, r, huf
    <3>1. huffman_raw(alphabet, L, input)
            = IF alphabet.raw = <<>> THEN 0
              ELSE alphabet.raw[alphabet.first[L] + input \div Power[HUFFMAN_BITS - L] + 1]
      BY DEF huffman_raw
    <3> QED BY <1>1, <2>7, <2>9, <3>1, Zenon
  <2> QED BY <2>4, <2>10
<1> HIDE DEF alphabet, huf, freq, cum
<1>5. \A i \in Coded(lengths) :
        LET start == CanonicalStart(lengths, i) IN
        \A input \in start .. start + Share(lengths, i) - 1 :
          alphabet.rc = 0 =>
            /\ huffman_sym(alphabet, input) = lengths[i]
            /\ huffman_raw(alphabet, lengths[i], input) = i - 1
  BY <1>4
<1>6. alphabet.rc = 0 <=> Coded(lengths) = {} \/ all = Power[HUFFMAN_BITS]
  BY <1>2, <1>3
<1>7. HuffmanDecodes(lengths, alphabet)
  BY <1>5, <1>6, Zenon DEF HuffmanDecodes
<1> QED BY <1>7 DEF alphabet

----------------------------------------------------------------------------
(* The alphabets that are built *)

\* A table that is built is one of the formats', and has been built by huffman_alphabet.
AlphabetInv ==
  stream.format = "alphabet" =>
    /\ data \in Tables
    /\ lens = <<>> \/ dec = huffman_alphabet(data)

LEMMA AlphabetInit == Init => AlphabetInv
<1> SUFFICES ASSUME Init, stream.format = "alphabet" PROVE AlphabetInv
  BY Zenon DEF AlphabetInv
<1>1. stream \in Streams /\ lens = <<>>
  BY Zenon DEF Init
<1>2. stream.data \in Seq(0 .. HUFFMAN_BITS)
  BY <1>1, TablesAssumption, Zenon
<1> QED BY <1>1, <1>2, Zenon DEF AlphabetInv, Tables, data

\* The decompressors leave a table of lengths alone.
LEMMA DecompressorsRead ==
  /\ lznt1_decompress => stream.format # "alphabet" /\ stream' = stream
  /\ lzx_decompress => stream.format # "alphabet" /\ stream' = stream
  /\ xca_decompress => stream.format # "alphabet" /\ stream' = stream
<1>0. /\ Fail => stream' = stream
      /\ \A r, next : Continue(r, next) => stream' = stream
  BY Zenon DEF Fail, Return, Continue
<1>1. ASSUME lznt1_decompress PROVE stream.format = "lznt1" /\ stream' = stream
  <2>1. lznt1_return => stream.format = "lznt1" /\ stream' = stream
    BY <1>0, Zenon DEF lznt1_return, Lznt1Between, Return
  <2>2. lznt1_compressed => stream.format = "lznt1" /\ stream' = stream
    BY <1>0, Zenon DEF lznt1_compressed, BlockBegins, Lznt1Between
  <2>3. lznt1_uncompressed => stream.format = "lznt1" /\ stream' = stream
    BY <1>0, Zenon DEF lznt1_uncompressed, BlockBegins, Lznt1Between
  <2>4. lznt1_overrun => stream.format = "lznt1" /\ stream' = stream
    BY <1>0, Zenon DEF lznt1_overrun, BlockBegins, Lznt1Between
  <2>5. lznt1_block_end => stream.format = "lznt1" /\ stream' = stream
    BY <1>0, Zenon DEF lznt1_block_end, InBlock
  <2>6. lznt1_literal => stream.format = "lznt1" /\ stream' = stream
    BY <1>0, Zenon DEF lznt1_literal, ValueDue, InBlock
  <2>7. lznt1_pair => stream.format = "lznt1" /\ stream' = stream
    BY <1>0, Zenon DEF lznt1_pair, ValueDue, InBlock
  <2>8. lznt1_pair_overrun => stream.format = "lznt1" /\ stream' = stream
    BY <1>0, Zenon DEF lznt1_pair_overrun, ValueDue, InBlock
  <2>9. Fill(lznt1_init) => stream' = stream
    BY Zenon DEF Fill
  <2> QED BY <1>1, <2>1, <2>2, <2>3, <2>4, <2>5, <2>6, <2>7, <2>8, <2>9, Zenon DEF lznt1_decompress
<1>2. ASSUME lzx_decompress PROVE stream.format = "lzx" /\ stream' = stream
  <2>1. lzx_odd => stream.format = "lzx" /\ stream' = stream
    BY <1>0, Zenon DEF lzx_odd, LzxRuns
  <2>2. lzx_compressed_header => stream.format = "lzx" /\ stream' = stream
    BY <1>0, Zenon DEF lzx_compressed_header, HeaderDue, BetweenBlocks, LzxRuns
  <2>3. lzx_alignoffset_alphabet => stream.format = "lzx" /\ stream' = stream
    BY <1>0, Zenon DEF lzx_alignoffset_alphabet, LzxTableDue, LzxRuns
  <2>4. lzx_main_literals => stream.format = "lzx" /\ stream' = stream
    BY <1>0, Zenon DEF lzx_main_literals, LzxTableDue, LzxRuns
  <2>5. lzx_main_alphabet => stream.format = "lzx" /\ stream' = stream
    BY <1>0, Zenon DEF lzx_main_alphabet, LzxTableDue, LzxRuns
  <2>6. lzx_length_alphabet => stream.format = "lzx" /\ stream' = stream
    BY <1>0, Zenon DEF lzx_length_alphabet, LzxTableDue, LzxRuns
  <2>7. lzx_uncompressed_header => stream.format = "lzx" /\ stream' = stream
    BY <1>0, Zenon DEF lzx_uncompressed_header, HeaderDue, BetweenBlocks, LzxRuns
  <2>8. lzx_bad_header => stream.format = "lzx" /\ stream' = stream
    BY <1>0, Zenon DEF lzx_bad_header, HeaderDue, BetweenBlocks, LzxRuns
  <2>9. lzx_uncompressed => stream.format = "lzx" /\ stream' = stream
    BY <1>0, Zenon DEF lzx_uncompressed, LzxRuns
  <2>10. lzx_literal => stream.format = "lzx" /\ stream' = stream
    BY <1>0, Zenon DEF lzx_literal, TokenDue, LzxRuns
  <2>11. lzx_match => stream.format = "lzx" /\ stream' = stream
    BY <1>0, Zenon DEF lzx_match, TokenDue, LzxRuns
  <2>12. lzx_bad_token => stream.format = "lzx" /\ stream' = stream
    BY <1>0, Zenon DEF lzx_bad_token, TokenDue, LzxRuns
  <2>13. lzx_return => stream.format = "lzx" /\ stream' = stream
    BY <1>0, Zenon DEF lzx_return, BetweenBlocks, LzxRuns, Return
  <2>14. Fill(lzx_init) => stream' = stream
    BY Zenon DEF Fill
  <2> QED BY <1>2, <2>1, <2>2, <2>3, <2>4, <2>5, <2>6, <2>7, <2>8, <2>9, <2>10, <2>11, <2>12, <2>13, <2>14, Zenon DEF lzx_decompress
<1>3. ASSUME xca_decompress PROVE stream.format = "xca" /\ stream' = stream
  <2>1. xca_table => stream.format = "xca" /\ stream' = stream
    BY <1>0, Zenon DEF xca_table, TableDue, XcaLoop, XcaRuns
  <2>2. xca_literal => stream.format = "xca" /\ stream' = stream
    BY <1>0, Zenon DEF xca_literal, SymbolDue, XcaLoop, XcaRuns, Keep
  <2>3. xca_end => stream.format = "xca" /\ stream' = stream
    BY <1>0, Zenon DEF xca_end, SymbolDue, XcaLoop, XcaRuns, Return
  <2>4. xca_match => stream.format = "xca" /\ stream' = stream
    BY <1>0, Zenon DEF xca_match, SymbolDue, XcaLoop, XcaRuns, Keep
  <2>5. xca_return => stream.format = "xca" /\ stream' = stream
    BY <1>0, Zenon DEF xca_return, XcaRuns, Return
  <2>6. Fill(xca_init) => stream' = stream
    BY Zenon DEF Fill
  <2> QED BY <1>3, <2>1, <2>2, <2>3, <2>4, <2>5, <2>6, Zenon DEF xca_decompress
<1> QED BY <1>1, <1>2, <1>3

LEMMA AlphabetNext == AlphabetInv /\ [Next]_decompressVars => AlphabetInv'
<1> SUFFICES ASSUME AlphabetInv, [Next]_decompressVars PROVE AlphabetInv'
  OBVIOUS
<1>1. CASE BuildAlphabet
  <2>1. stream' = stream /\ stream.format = "alphabet" /\ dec' = huffman_alphabet(data)
    BY <1>1, Zenon DEF BuildAlphabet
  <2> QED BY <2>1, Zenon DEF AlphabetInv, data
<1>2. CASE lznt1_decompress \/ lzx_decompress \/ xca_decompress
  <2>1. stream.format # "alphabet" /\ stream' = stream
    BY <1>2, DecompressorsRead, Zenon
  <2> QED BY <2>1, Zenon DEF AlphabetInv
<1>3. CASE UNCHANGED decompressVars
  <2>1. stream' = stream /\ lens' = lens /\ dec' = dec
    BY <1>3, Zenon DEF decompressVars
  <2> QED BY <2>1, Zenon DEF AlphabetInv, data
<1> QED BY <1>1, <1>2, <1>3, Zenon DEF Next

\* AlphabetIsCanonical, for every table of lengths: huffman_alphabet accepts exactly the
\* tables that are unused or complete, and huffman_sym and huffman_raw find the symbol whose
\* canonical code an input begins with.
THEOREM AlphabetsAreCanonical == Spec => []AlphabetIsCanonical
<1>1. AlphabetInv => AlphabetIsCanonical
  BY AlphabetsDecode, Zenon DEF AlphabetInv, AlphabetIsCanonical
<1> QED BY <1>1, AlphabetInit, AlphabetNext, PTL DEF Spec
=============================================================================
