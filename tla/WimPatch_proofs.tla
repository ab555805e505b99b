--------------------------- MODULE WimPatch_proofs --------------------------
(***************************************************************************)
(* Proofs about the patched WIM, for every WIM file that its writer made as *)
(* PatchAssumption and WriterAssumption say, every set of loaded files and  *)
(* all windows: the patch is made once, the regions it consists of are      *)
(* apart, windows read from it agree, every injected file is found in what  *)
(* is read, and nothing that was in the WIM is lost.                        *)
(***************************************************************************)
EXTENDS WimPatch, Arithmetic_proofs, SequenceTheorems, FiniteSetTheorems

----------------------------------------------------------------------------
(* The walk over the entries of a directory *)

\* What a walk finds at an entry, given what it finds behind each.
WalkFrom(length, f, at) ==
  IF length[at] = 0 THEN {}
  ELSE {at} \union IF at + length[at] \in DOMAIN length THEN f[at + length[at]] ELSE {}

\* The walk is well defined: every entry leads to one behind it.
LEMMA WalkStep ==
  ASSUME NEW L \in Nat, NEW length \in [0 .. L -> Nat]
  PROVE  /\ DOMAIN DirWalk(length) = 0 .. L
         /\ \A at \in 0 .. L :
              DirWalk(length)[at] = WalkFrom(length, DirWalk(length), at)
<1> DEFINE Good(f, n) ==
             /\ f = [at \in 0 .. L |-> f[at]]
             /\ \A at \in 0 .. L : at + n >= L => f[at] = WalkFrom(length, f, at)
           Bad == {n \in Nat : \A f : ~Good(f, n)}
<1>0. DOMAIN length = 0 .. L
  OBVIOUS
<1>1. Bad = {}
  <2> SUFFICES ASSUME Bad # {} PROVE FALSE
    OBVIOUS
  <2>1. Bad \in SUBSET Nat
    OBVIOUS
  <2>2. PICK n \in Bad : \A m \in Bad : n <= m
    <3> HIDE DEF Bad
    <3> QED BY <2>1, LeastNatural
  <2>3. n \in Nat /\ \A f : ~Good(f, n)
    BY DEF Bad
  <2>4. CASE n = 0
    <3> DEFINE f == [at \in 0 .. L |-> IF length[at] = 0 THEN {} ELSE {at}]
    <3>1. ASSUME NEW at \in 0 .. L, at + n >= L PROVE f[at] = WalkFrom(length, f, at)
      <4>1. at = L /\ length[at] \in Nat
        BY <2>4, <3>1
      <4>2. length[at] # 0 => ~(at + length[at] \in DOMAIN length)
        BY <1>0, <4>1
      <4> QED BY <4>1, <4>2 DEF WalkFrom
    <3>2. Good(f, n)
      BY <3>1
    <3> QED BY <2>3, <3>2
  <2>5. CASE n # 0
    <3>1. n - 1 \in Nat /\ n - 1 \notin Bad
      <4> HIDE DEF Bad
      <4> QED BY <2>2, <2>3, <2>5
    <3>2. PICK f : Good(f, n - 1)
      BY <3>1
    <3> DEFINE g == [at \in 0 .. L |-> IF at + n = L THEN WalkFrom(length, f, at) ELSE f[at]]
    <3>3. ASSUME NEW at \in 0 .. L, at + n >= L PROVE g[at] = WalkFrom(length, g, at)
      <4>1. length[at] \in Nat
        OBVIOUS
      <4>2. ASSUME length[at] # 0, at + length[at] \in 0 .. L
            PROVE  g[at + length[at]] = f[at + length[at]]
        BY <2>3, <3>3, <4>1, <4>2
      <4>3. WalkFrom(length, g, at) = WalkFrom(length, f, at)
        BY <1>0, <4>2 DEF WalkFrom
      <4>4. CASE at + n = L
        <5>1. g[at] = WalkFrom(length, f, at)
          <6> HIDE DEF Good, Bad
          <6> QED BY <4>4
        <5> QED BY <4>3, <5>1
      <4>5. CASE at + n # L
        <5>1. at + (n - 1) >= L
          <6> HIDE DEF Good, Bad
          <6>1. n \in Nat /\ at \in Nat
            BY <2>3
          <6> QED BY <3>3, <4>5, <6>1
        <5>2. f[at] = WalkFrom(length, f, at)
          BY <3>2, <5>1
        <5> QED BY <4>3, <4>5, <5>2
      <4> QED BY <4>4, <4>5
    <3>4. g = [at \in 0 .. L |-> g[at]]
      OBVIOUS
    <3>5. Good(g, n)
      BY <3>3, <3>4
    <3> QED BY <2>3, <3>5
  <2> QED BY <2>4, <2>5
<1>2. PICK f : Good(f, L)
  BY <1>1
<1>3. ASSUME NEW at \in 0 .. L PROVE f[at] = WalkFrom(length, f, at)
  BY <1>2, <1>3
<1>4. f = [at \in DOMAIN length |-> WalkFrom(length, f, at)]
  BY <1>0, <1>2, <1>3
<1> DEFINE w == DirWalk(length)
<1>5. w = CHOOSE h : h = [at \in DOMAIN length |-> WalkFrom(length, h, at)]
  BY DEF DirWalk, WalkFrom
<1>6. w = [at \in DOMAIN length |-> WalkFrom(length, w, at)]
  <2> HIDE DEF w
  <2> QED BY <1>4, <1>5
<1> HIDE DEF w
<1>7. DOMAIN w = 0 .. L /\ \A at \in 0 .. L : w[at] = WalkFrom(length, w, at)
  BY <1>0, <1>6
<1> QED BY <1>7 DEF w

\* A walk goes forward, to the end of each entry, and over entries that are not empty.
WalkSound(length, o) ==
  LET w == DirWalk(length)[o]
  IN  /\ \A x \in w : x \in Nat /\ o <= x /\ x \in DOMAIN length /\ length[x] # 0
      /\ \A x, z \in w : z < x => z + length[z] \in w /\ z + length[z] <= x
      /\ \A z \in w : z + length[z] \in DOMAIN length /\ length[z + length[z]] # 0
                        => z + length[z] \in w

LEMMA WalkIsSound ==
  ASSUME NEW L \in Nat, NEW length \in [0 .. L -> Nat], NEW o \in 0 .. L
  PROVE  WalkSound(length, o)
<1> DEFINE Bad == {n \in 0 .. L : ~WalkSound(length, L - n)}
           w == DirWalk(length)
<1>0. DOMAIN length = 0 .. L
  OBVIOUS
<1>1. \A at \in 0 .. L : w[at] = WalkFrom(length, w, at)
  BY WalkStep
<1> HIDE DEF w
<1>2. ASSUME Bad # {} PROVE FALSE
  <2>1. Bad \in SUBSET Nat
    OBVIOUS
  <2>2. PICK n \in Bad : \A m \in Bad : n <= m
    <3> HIDE DEF Bad
    <3> QED BY <1>2, <2>1, LeastNatural
  <2>3. PICK b \in 0 .. L : b = L - n
    OBVIOUS
  <2>4. n \in 0 .. L /\ ~WalkSound(length, b)
    BY <2>3
  <2>5. ASSUME NEW c \in 0 .. L, b < c PROVE WalkSound(length, c)
    <3>1. L - c \in 0 .. L /\ L - c < n /\ L - (L - c) = c
      BY <2>3, <2>4, <2>5
    <3>2. L - c \notin Bad
      <4> HIDE DEF Bad
      <4> QED BY <2>1, <2>2, <3>1
    <3> QED BY <3>1, <3>2
  <2> HIDE DEF Bad
  <2>6. w[b] = WalkFrom(length, w, b) /\ length[b] \in Nat /\ b \in Nat
    BY <1>1
  <2>7. CASE length[b] = 0
    <3>1. w[b] = {}
      BY <2>6, <2>7 DEF WalkFrom
    <3>2. WalkSound(length, b)
      BY <3>1 DEF WalkSound, w
    <3> QED BY <2>4, <3>2
  <2>8. CASE length[b] # 0 /\ b + length[b] \notin 0 .. L
    <3>1. w[b] = {b}
      BY <1>0, <2>6, <2>8 DEF WalkFrom
    <3>2. WalkSound(length, b)
      BY <1>0, <2>6, <2>8, <3>1 DEF WalkSound, w
    <3> QED BY <2>4, <3>2
  <2>9. CASE length[b] # 0 /\ b + length[b] \in 0 .. L
    <3>1. PICK c \in 0 .. L : c = b + length[b]
      BY <2>9
    <3>2. w[b] = {b} \union w[c] /\ b < c /\ c \in Nat
      BY <1>0, <2>6, <2>9, <3>1 DEF WalkFrom
    <3>3. /\ \A x \in w[c] : x \in Nat /\ c <= x /\ x \in DOMAIN length /\ length[x] # 0
          /\ \A x, z \in w[c] : z < x => z + length[z] \in w[c] /\ z + length[z] <= x
          /\ \A z \in w[c] : z + length[z] \in DOMAIN length /\ length[z + length[z]] # 0
                               => z + length[z] \in w[c]
      BY <2>5, <3>2 DEF WalkSound, w
    <3>4. length[c] # 0 => c \in w[c]
      BY <1>1 DEF WalkFrom
    <3>5. w[c] # {} => c \in w[c]
      <4>1. length[c] = 0 => w[c] = {}
        BY <1>1 DEF WalkFrom
      <4> QED BY <3>4, <4>1
    <3>6. ASSUME NEW x \in w[b]
          PROVE  x \in Nat /\ b <= x /\ x \in DOMAIN length /\ length[x] # 0
      BY <1>0, <2>6, <2>9, <3>2, <3>3
    <3>7. ASSUME NEW x \in w[b], NEW z \in w[b], z < x
          PROVE  z + length[z] \in w[b] /\ z + length[z] <= x
      <4>1. x \in w[c]
        <5>1. x # b
          BY <3>6, <3>7, <2>6
        <5> QED BY <3>2, <5>1
      <4>2. CASE z = b
        BY <3>1, <3>2, <3>3, <3>5, <4>1, <4>2
      <4>3. CASE z \in w[c]
        BY <3>2, <3>3, <3>7, <4>1, <4>3
      <4> QED BY <3>2, <4>2, <4>3
    <3>8. ASSUME NEW z \in w[b], z + length[z] \in DOMAIN length,
                 length[z + length[z]] # 0
          PROVE  z + length[z] \in w[b]
      <4>1. CASE z = b
        BY <3>1, <3>2, <3>4, <3>8, <4>1
      <4>2. CASE z \in w[c]
        BY <3>2, <3>3, <3>8, <4>2
      <4> QED BY <3>2, <4>1, <4>2
    <3>9. WalkSound(length, b)
      BY <3>6, <3>7, <3>8 DEF WalkSound, w
    <3> QED BY <2>4, <3>9
  <2> QED BY <2>7, <2>8, <2>9
<1>3. L - o \in 0 .. L /\ L - (L - o) = o
  OBVIOUS
<1>4. L - o \notin Bad
  <2> HIDE DEF Bad
  <2> QED BY <1>2
<1> QED BY <1>3, <1>4

\* Two walks that find the same lengths find the same entries: those of the second lie d
\* behind those of the first, up to the entry a.
WalksAlike(length, other, M, d, o, a) ==
  \A x \in DirWalk(length)[o] : x <= a => x + d <= M /\ other[x + d] = length[x]

WalkFollows(length, other, M, d, o, a) ==
  /\ o + d \in 0 .. M /\ a + d \in DirWalk(other)[o + d]
  /\ \A y \in DirWalk(other)[o + d] : y < a + d => y - d \in DirWalk(length)[o] /\ y - d < a

LEMMA WalksAgree ==
  ASSUME NEW L \in Nat, NEW length \in [0 .. L -> Nat],
         NEW M \in Nat, NEW other \in [0 .. M -> Nat],
         NEW d \in Nat, NEW o \in 0 .. L, NEW a \in DirWalk(length)[o],
         WalksAlike(length, other, M, d, o, a)
  PROVE  WalkFollows(length, other, M, d, o, a)
<1> DEFINE w == DirWalk(length)
           v == DirWalk(other)
           Same(b) == \A x \in w[b] : x <= a => x + d <= M /\ other[x + d] = length[x]
           Agree(b) == /\ b + d \in 0 .. M /\ a + d \in v[b + d]
                       /\ \A y \in v[b + d] : y < a + d => y - d \in w[b] /\ y - d < a
           Bad == {n \in 0 .. L : a \in w[L - n] /\ Same(L - n) /\ ~Agree(L - n)}
<1>0. DOMAIN length = 0 .. L /\ DOMAIN other = 0 .. M
  OBVIOUS
<1>1. /\ \A at \in 0 .. L : w[at] = WalkFrom(length, w, at)
      /\ \A at \in 0 .. M : v[at] = WalkFrom(other, v, at)
  BY WalkStep
<1>2. /\ \A b \in 0 .. L : \A x \in w[b] : x \in 0 .. L /\ b <= x /\ length[x] # 0
      /\ \A b \in 0 .. M : \A x \in v[b] : x \in 0 .. M /\ b <= x
  BY <1>0, WalkIsSound DEF WalkSound
<1> HIDE DEF w, v
<1>3. a \in 0 .. L /\ a \in Nat
  BY <1>2 DEF w
<1>4. ASSUME Bad # {} PROVE FALSE
  <2>1. Bad \in SUBSET Nat
    OBVIOUS
  <2>2. PICK n \in Bad : \A m \in Bad : n <= m
    <3> HIDE DEF Bad
    <3> QED BY <1>4, <2>1, LeastNatural
  <2>3. PICK b \in 0 .. L : b = L - n
    OBVIOUS
  <2>4. n \in 0 .. L /\ a \in w[b] /\ Same(b) /\ ~Agree(b)
    <3> HIDE DEF Same, Agree
    <3> QED BY <2>3
  <2>5. ASSUME NEW c \in 0 .. L, b < c, a \in w[c], Same(c) PROVE Agree(c)
    <3>1. L - c \in 0 .. L /\ L - c < n /\ L - (L - c) = c
      <4> HIDE DEF Same, Agree, Bad
      <4> QED BY <2>3, <2>4, <2>5
    <3>2. L - c \notin Bad
      <4> HIDE DEF Bad
      <4> QED BY <2>1, <2>2, <3>1
    <3> HIDE DEF Same, Agree
    <3> QED BY <2>5, <3>1, <3>2
  <2> HIDE DEF Bad
  <2>6. w[b] = WalkFrom(length, w, b) /\ length[b] \in Nat /\ b \in Nat /\ b <= a
    <3> HIDE DEF Same, Agree
    <3> QED BY <1>1, <1>2, <2>4
  <2>7. length[b] # 0
    BY <2>4, <2>6 DEF WalkFrom
  <2>8. b \in w[b]
    BY <2>6, <2>7 DEF WalkFrom
  <2>9. b + d \in 0 .. M /\ other[b + d] = length[b]
    <3>1. b + d <= M /\ other[b + d] = length[b]
      <4> HIDE DEF Agree
      <4> QED BY <2>4, <2>6, <2>8
    <3> QED BY <2>6, <3>1
  <2>10. v[b + d] = WalkFrom(other, v, b + d)
    BY <1>1, <2>9
  <2>11. CASE a = b
    <3>1. a + d \in v[b + d]
      BY <2>7, <2>9, <2>10, <2>11 DEF WalkFrom
    <3>2. \A y \in v[b + d] : ~(y < a + d)
      BY <1>2, <1>3, <2>9, <2>11
    <3> QED BY <2>4, <2>9, <3>1, <3>2
  <2>12. CASE a # b
    <3>1. PICK c : c = b + length[b]
      OBVIOUS
    <3>2. c \in 0 .. L /\ w[b] = {b} \union w[c] /\ a \in w[c] /\ b < c
      BY <1>0, <2>4, <2>6, <2>7, <2>12, <3>1 DEF WalkFrom
    <3>3. Same(c)
      BY <2>4, <3>2
    <3>4. Agree(c)
      BY <2>5, <3>2, <3>3
    <3>5. c + d \in 0 .. M /\ a + d \in v[c + d]
      BY <3>4
    <3>6. b + d + other[b + d] = c + d /\ b + d \in Nat
      BY <2>6, <2>9, <3>1
    <3>7. v[b + d] = {b + d} \union v[c + d]
      BY <1>0, <2>7, <2>9, <2>10, <3>5, <3>6 DEF WalkFrom
    <3>8. ASSUME NEW y \in v[b + d], y < a + d PROVE y - d \in w[b] /\ y - d < a
      <4>1. CASE y = b + d
        BY <1>3, <2>6, <2>8, <2>12, <4>1
      <4>2. CASE y \in v[c + d]
        BY <3>2, <3>4, <3>8, <4>2
      <4> QED BY <3>7, <3>8, <4>1, <4>2
    <3> QED BY <2>4, <2>9, <3>5, <3>7, <3>8
  <2> QED BY <2>11, <2>12
<1>5. L - o \in 0 .. L /\ L - (L - o) = o
  OBVIOUS
<1>8. L - o \notin Bad
  <2> HIDE DEF Bad
  <2> QED BY <1>4
<1>6. a \in w[o] /\ Same(o)
  BY DEF w, WalksAlike
<1>7. Agree(o)
  <2> HIDE DEF Same, Agree
  <2> QED BY <1>5, <1>6, <1>8
<1> QED BY <1>7 DEF w, v, WalkFollows

\* A walk over n entries of one length comes to all of them, and to what follows.
HasStride(length, A, o, n) == \A k \in 0 .. n - 1 : length[o + k * A] = A

WalkPasses(length, A, o, n) ==
  DirWalk(length)[o] = {o + k * A : k \in 0 .. n - 1} \union DirWalk(length)[o + n * A]

LEMMA WalkOver ==
  ASSUME NEW L \in Nat, NEW length \in [0 .. L -> Nat],
         NEW A \in Nat \ {0}, NEW o \in Nat, NEW n \in Nat, o + n * A <= L,
         HasStride(length, A, o, n)
  PROVE  WalkPasses(length, A, o, n)
<1> DEFINE w == DirWalk(length)
           place(k) == o + k * A
           Over(m) == w[place(m)] = {place(k) : k \in m .. n - 1} \union w[place(n)]
           Bad == {m \in 0 .. n : ~Over(n - m)}
<1>0. DOMAIN length = 0 .. L
  OBVIOUS
<1>1. \A at \in 0 .. L : w[at] = WalkFrom(length, w, at)
  BY WalkStep
<1> HIDE DEF w
<1>2. ASSUME NEW k \in 0 .. n
      PROVE  place(k) \in 0 .. L /\ (k # n => place(k + 1) = place(k) + A)
  <2>1. k * A \in Nat /\ (k + 1) * A = k * A + A /\ n * A \in Nat
    OBVIOUS
  <2>2. k * A <= n * A
    BY TimesKeepsOrder
  <2> QED BY <2>1, <2>2
<1>3. \A k \in 0 .. n - 1 : length[place(k)] = A
  BY DEF HasStride
<1> HIDE DEF place
<1>4. ASSUME Bad # {} PROVE FALSE
  <2>1. Bad \in SUBSET Nat
    OBVIOUS
  <2>2. PICK m \in Bad : \A l \in Bad : m <= l
    <3> HIDE DEF Bad
    <3> QED BY <1>4, <2>1, LeastNatural
  <2>3. m \in 0 .. n /\ ~Over(n - m)
    OBVIOUS
  <2>4. m # 0
    <3>1. ASSUME m = 0 PROVE FALSE
      <4>1. {place(k) : k \in n .. n - 1} = {}
        OBVIOUS
      <4>2. n - m = n
        BY <3>1
      <4>3. Over(n)
        BY <4>1
      <4> HIDE DEF Over
      <4> QED BY <2>3, <4>2, <4>3
    <3> QED BY <3>1
  <2>5. PICK j : j = n - m
    OBVIOUS
  <2>6. j \in 0 .. n - 1 /\ j \in 0 .. n /\ j # n /\ m - 1 \in 0 .. n
        /\ n - (m - 1) = j + 1 /\ j + 1 \in 0 .. n
    <3>1. m \in Nat
      BY <2>3
    <3> HIDE DEF Over, Bad
    <3> QED BY <2>3, <2>4, <2>5, <3>1
  <2>7. m - 1 \notin Bad
    <3>1. m \in Nat
      BY <2>3
    <3> HIDE DEF Over, Bad
    <3> QED BY <2>1, <2>2, <3>1
  <2>8. Over(j + 1)
    <3> HIDE DEF Over
    <3> QED BY <2>6, <2>7
  <2>9. place(j) \in 0 .. L /\ place(j + 1) \in 0 .. L /\ place(j + 1) = place(j) + A
        /\ length[place(j)] = A
    <3> HIDE DEF Over, Bad
    <3> QED BY <1>2, <1>3, <2>6
  <2>10. w[place(j)] = {place(j)} \union w[place(j + 1)]
    <3> HIDE DEF Over, Bad
    <3> QED BY <1>0, <1>1, <2>9 DEF WalkFrom
  <2>11. j .. n - 1 = {j} \union (j + 1 .. n - 1)
    <3> HIDE DEF Over, Bad
    <3> QED BY <2>6
  <2>12. {place(k) : k \in j .. n - 1} = {place(j)} \union {place(k) : k \in j + 1 .. n - 1}
    BY <2>11
  <2>13. Over(j)
    BY <2>8, <2>10, <2>12
  <2> HIDE DEF Over
  <2> QED BY <2>3, <2>5, <2>13
<1>5. n - n = 0 /\ n \in 0 .. n /\ n \notin Bad
  <2> HIDE DEF Bad
  <2> QED BY <1>4
<1>6. Over(0)
  <2> HIDE DEF Over
  <2> QED BY <1>5
<1>7. place(0) = o
  BY DEF place
<1> QED BY <1>6, <1>7 DEF w, place, WalkPasses

----------------------------------------------------------------------------
(* The walk along a path *)

\* Where the names of a path are looked for, given the entry of the name before.
DirsAt(image, meta, n, before) ==
  IF n = 1 THEN {RootDirectory(image, meta)}
  ELSE {SubdirOf(image, meta, at) : at \in before}

EntriesIn(image, meta, name, dirs) ==
  UNION {wim_direntry(image, meta, name, dir) : dir \in dirs}

LEMMA PathStep ==
  ASSUME NEW image, NEW meta, NEW path, Len(path) \in Nat, NEW n \in 1 .. Len(path)
  PROVE  LET walk == PathWalk(image, meta, path)
         IN  walk[n] = EntriesIn(image, meta, path[n],
                                 DirsAt(image, meta, n, walk[n - 1]))
<1> DEFINE N == Len(path)
           Step(m, before) == EntriesIn(image, meta, path[m], DirsAt(image, meta, m, before))
           Good(f, k) == /\ f = [m \in 1 .. N |-> f[m]]
                         /\ \A m \in 1 .. N : m <= k => f[m] = Step(m, f[m - 1])
           Bad == {k \in Nat : \A f : ~Good(f, k)}
<1> HIDE DEF N
<1>0. N \in Nat /\ n \in 1 .. N
  BY DEF N
<1>1. Step(1, 0) = Step(1, {}) /\ \A x, y : Step(1, x) = Step(1, y)
  BY DEF DirsAt
<1> HIDE DEF Step
<1>2. ASSUME Bad # {} PROVE FALSE
  <2>1. Bad \in SUBSET Nat
    OBVIOUS
  <2>2. PICK k \in Bad : \A l \in Bad : k <= l
    <3> HIDE DEF Bad
    <3> QED BY <1>2, <2>1, LeastNatural
  <2>3. k \in Nat /\ \A f : ~Good(f, k)
    OBVIOUS
  <2>4. k # 0
    <3>1. ASSUME k = 0 PROVE FALSE
      <4> DEFINE f == [m \in 1 .. N |-> {}]
      <4>1. Good(f, k)
        BY <1>0, <3>1
      <4> QED BY <2>3, <4>1
    <3> QED BY <3>1
  <2>5. k - 1 \in Nat /\ k - 1 \notin Bad
    <3>1. k \in Nat
      BY <2>3
    <3> HIDE DEF Bad
    <3> QED BY <2>2, <2>4, <3>1
  <2>6. PICK f : Good(f, k - 1)
    BY <2>5
  <2>7. f = [m \in 1 .. N |-> f[m]] /\ \A m \in 1 .. N : m <= k - 1 => f[m] = Step(m, f[m - 1])
    BY <2>6
  <2>k. k \in Nat
    BY <2>3
  <2> DEFINE g == [m \in 1 .. N |-> IF m = k THEN Step(m, f[m - 1]) ELSE f[m]]
  <2> HIDE DEF Good, Bad
  <2>8. ASSUME NEW m \in 1 .. N, m <= k PROVE g[m] = Step(m, g[m - 1])
    <3>1. g[m] = Step(m, f[m - 1])
      <4>1. CASE m = k
        BY <4>1
      <4>2. CASE m # k
        <5>1. m <= k - 1
          BY <1>0, <2>8, <2>k, <4>2
        <5> QED BY <2>7, <4>2, <5>1
      <4> QED BY <4>1, <4>2
    <3>2. CASE m = 1
      BY <1>1, <3>1, <3>2
    <3>3. CASE m # 1
      <4>1. m - 1 \in 1 .. N /\ m - 1 # k
        BY <1>0, <2>8, <2>k, <3>3
      <4>2. g[m - 1] = f[m - 1]
        BY <4>1
      <4> QED BY <3>1, <4>2
    <3> QED BY <3>2, <3>3
  <2>9. g = [m \in 1 .. N |-> g[m]]
    OBVIOUS
  <2>10. Good(g, k)
    BY <2>8, <2>9 DEF Good
  <2> QED BY <2>3, <2>10
<1>3. N \notin Bad
  <2> HIDE DEF Bad
  <2> QED BY <1>2
<1>4. PICK f : Good(f, N)
  BY <1>0, <1>3
<1>5. f = [m \in 1 .. N |-> Step(m, f[m - 1])]
  <2>1. f = [m \in 1 .. N |-> f[m]]
    BY <1>4
  <2>2. ASSUME NEW m \in 1 .. N PROVE f[m] = Step(m, f[m - 1])
    <3>1. m <= N
      BY <1>0
    <3>2. \A l \in 1 .. N : l <= N => f[l] = Step(l, f[l - 1])
      BY <1>4, Zenon
    <3> QED BY <3>1, <3>2, Zenon
  <2> HIDE DEF Good, Bad
  <2> QED BY <2>1, <2>2, Zenon
<1> DEFINE w == PathWalk(image, meta, path)
<1>6. w = CHOOSE h : h = [m \in 1 .. N |-> Step(m, h[m - 1])]
  BY DEF PathWalk, Step, EntriesIn, DirsAt, N
<1> HIDE DEF w, Good, Bad
<1>7. w = [m \in 1 .. N |-> Step(m, w[m - 1])]
  BY <1>5, <1>6
<1>8. w[n] = Step(n, w[n - 1])
  BY <1>0, <1>7
<1> QED BY <1>8 DEF w, Step

\* Paths that begin alike lead through the same entries.
LEMMA PathPrefix ==
  ASSUME NEW image, NEW meta, NEW p, Len(p) \in Nat, NEW q, Len(q) \in Nat,
         NEW N \in Nat, N <= Len(p), N <= Len(q), \A k \in 1 .. N : p[k] = q[k],
         NEW n \in 1 .. N
  PROVE  PathWalk(image, meta, p)[n] = PathWalk(image, meta, q)[n]
<1> DEFINE v == PathWalk(image, meta, p)
           w == PathWalk(image, meta, q)
           Bad == {k \in 1 .. N : v[k] # w[k]}
<1>1. ASSUME NEW k \in 1 .. N
      PROVE  /\ v[k] = EntriesIn(image, meta, p[k], DirsAt(image, meta, k, v[k - 1]))
             /\ w[k] = EntriesIn(image, meta, q[k], DirsAt(image, meta, k, w[k - 1]))
  <2>1. k \in 1 .. Len(p) /\ k \in 1 .. Len(q)
    OBVIOUS
  <2> QED BY <2>1, PathStep
<1> HIDE DEF v, w
<1>2. ASSUME Bad # {} PROVE FALSE
  <2>1. Bad \in SUBSET Nat
    OBVIOUS
  <2>2. PICK k \in Bad : \A l \in Bad : k <= l
    <3> HIDE DEF Bad
    <3> QED BY <1>2, <2>1, LeastNatural
  <2>3. k \in 1 .. N /\ v[k] # w[k]
    OBVIOUS
  <2>4. DirsAt(image, meta, k, v[k - 1]) = DirsAt(image, meta, k, w[k - 1])
    <3>1. CASE k = 1
      BY <3>1 DEF DirsAt
    <3>2. CASE k # 1
      <4>1. k - 1 \in 1 .. N /\ k - 1 < k
        BY <2>3, <3>2
      <4>2. k - 1 \notin Bad
        <5> HIDE DEF Bad
        <5> QED BY <2>1, <2>2, <4>1
      <4>3. v[k - 1] = w[k - 1]
        BY <4>1, <4>2
      <4> QED BY <4>3
    <3> QED BY <3>1, <3>2
  <2> QED BY <1>1, <2>3, <2>4
<1>3. n \notin Bad
  <2> HIDE DEF Bad
  <2> QED BY <1>2
<1> QED BY <1>3 DEF v, w

----------------------------------------------------------------------------
(* What the walks over a WIM find *)

\* A resource that the headers of a WIM describe.
IsSound(image, res) == res \in Resources /\ IsStored(image, res)

\* The cells of a window, by their place in the resource.
LEMMA SubSeqCell ==
  ASSUME NEW s, NEW m \in Nat, NEW n \in Nat, NEW j \in 1 .. n
  PROVE  SubSeq(s, m + 1, m + n)[j] = s[m + j]
OBVIOUS

\* wim_align rounds up.
LEMMA AlignUp ==
  ASSUME NEW n \in Nat
  PROVE  wim_align(n) \in Nat /\ wim_align(n) >= n
<1> DEFINE a == n + ALIGN - 1
           k == a \div ALIGN
<1>1. ALIGN \in Nat \ {0} /\ a \in Int /\ a = n + ALIGN - 1
  BY AlignAssumption
<1> HIDE DEF a
<1>2. k \in Int /\ a % ALIGN \in 0 .. ALIGN - 1 /\ a = ALIGN * k + (a % ALIGN)
  BY <1>1, DivMod
<1>3. wim_align(n) = k * ALIGN
  BY DEF wim_align, a
<1> HIDE DEF k
<1>4. k * ALIGN = ALIGN * k
  BY <1>1, <1>2
<1> QED BY <1>1, <1>2, <1>3, <1>4

\* What is read from a sound resource are fields: numbers, and sound resources.
LEMMA FieldRead ==
  ASSUME NEW image, IsWim(image), NEW res, IsSound(image, res),
         NEW offset \in Nat, NEW len \in Nat, wim_readable(image, res, offset, len),
         NEW j \in 1 .. len
  PROVE  LET cell == wim_read(image, res, offset, len)[j]
         IN  NumberIn(cell) \in Nat /\ IsSound(image, ResourceIn(cell))
<1> DEFINE cell == wim_read(image, res, offset, len)[j]
<1>1. /\ res.offset \in Nat /\ res.zlen \in Nat /\ res.len \in Nat
      /\ Len(image) \in Nat /\ offset + len <= res.len
      /\ res.offset + res.zlen <= Len(image)
  BY DEF IsSound, Resources, IsWim, HoldsFields, wim_readable
<1>2. CASE res.compressed
  <2> DEFINE k == res.offset + 1
             cells == image[k].packed
  <2>1. k \in 1 .. Len(image) /\ IsPacked(image[k])
    BY <1>1, <1>2 DEF IsSound, IsStored
  <2>2. HoldsFields(image, cells)
    BY <2>1 DEF IsWim
  <2>3. offset + len <= Len(cells)
    BY <1>1, <1>2 DEF wim_readable, Unpacked
  <2>4. cell = SubSeq(cells, offset + 1, offset + len)[j]
    BY <1>2 DEF wim_read, Unpacked
  <2> HIDE DEF k, cells
  <2>5. cell = cells[offset + j]
    BY <2>4, SubSeqCell
  <2>6. offset + j \in 1 .. Len(cells)
    BY <2>2, <2>3 DEF HoldsFields
  <2> QED BY <2>2, <2>5, <2>6 DEF HoldsFields, IsSound
<1>3. CASE ~res.compressed
  <2> DEFINE m == res.offset + offset
  <2>1. res.zlen = res.len
    BY <1>1, <1>3 DEF IsSound, IsStored
  <2>2. m \in Nat /\ cell = SubSeq(image, m + 1, m + len)[j]
    BY <1>1, <1>3 DEF wim_read, Read
  <2>3. m + j \in 1 .. Len(image)
    BY <1>1, <2>1
  <2> HIDE DEF m
  <2>4. cell = image[m + j]
    BY <2>2, SubSeqCell
  <2> QED BY <2>3, <2>4 DEF IsWim, HoldsFields, IsSound
<1> QED BY <1>2, <1>3 DEF cell

\* The resources that the header names.
LEMMA HeaderSound ==
  ASSUME NEW image, IsWim(image), NEW h \in wim_header(image)
  PROVE  /\ HeaderLen <= Len(image) /\ Len(image) \in Nat
         /\ IsSound(image, h.lookup) /\ IsSound(image, h.boot)
<1>1. /\ Len(image) \in Nat /\ ~(HeaderLen > Len(image))
      /\ h.lookup = ResourceIn(image[1]) /\ h.boot = ResourceIn(image[2])
  BY DEF wim_header, IsWim, HoldsFields
<1>2. HeaderLen <= Len(image) /\ 1 \in 1 .. Len(image) /\ 2 \in 1 .. Len(image)
  BY <1>1 DEF HeaderLen
<1> QED BY <1>1, <1>2 DEF IsWim, HoldsFields, IsSound

\* The metadata that wim_metadata finds.
LEMMA MetadataSound ==
  ASSUME NEW image, IsWim(image), NEW h \in wim_header(image), NEW index,
         NEW b \in wim_metadata(image, h, index)
  PROVE  IsSound(image, b)
<1>1. IsSound(image, h.lookup) /\ IsSound(image, h.boot)
  BY HeaderSound
<1>2. CASE index = 0
  BY <1>1, <1>2 DEF wim_metadata
<1>3. CASE index # 0
  <2>1. PICK n \in ReadableEntries(image, h) :
          b = ResourceIn(LookupEntry(image, h, n)[1])
    BY <1>3 DEF wim_metadata, FirstEntry
  <2>2. n \in 1 .. h.lookup.len \div 2 /\ \A m \in 1 .. n : LookupReadable(image, h, m)
    BY DEF ReadableEntries, LookupEntries, LookupLen
  <2>3. h.lookup.len \in Nat /\ h.lookup.len \div 2 \in Int
    BY <1>1 DEF IsSound, Resources
  <2>4. n \in Nat /\ n \in 1 .. n
    BY <2>2, <2>3
  <2> DEFINE from == (n - 1) * LookupLen
  <2>5. from \in Nat /\ LookupLen \in Nat /\ 1 \in 1 .. LookupLen
    BY <2>2, <2>3 DEF LookupLen
  <2>6. wim_readable(image, h.lookup, from, LookupLen)
    BY <2>2, <2>4 DEF LookupReadable
  <2> HIDE DEF from
  <2>7. IsSound(image, ResourceIn(wim_read(image, h.lookup, from, LookupLen)[1]))
    BY <1>1, <2>5, <2>6, FieldRead
  <2> QED BY <2>1, <2>7 DEF LookupEntry, from
<1> QED BY <1>2, <1>3

\* The lengths that a walk over the directories finds are numbers.
HasLengths(image, meta) ==
  meta.len \in Nat /\ DirentLengths(image, meta) \in [0 .. meta.len -> Nat]

LEMMA WimHasLengths ==
  ASSUME NEW image, IsWim(image), NEW meta, IsSound(image, meta)
  PROVE  HasLengths(image, meta)
<1>1. meta.len \in Nat
  BY DEF IsSound, Resources
<1>2. ASSUME NEW at \in 0 .. meta.len, wim_readable(image, meta, at, LengthLen)
      PROVE  DirentLength(image, meta, at) \in Nat
  <2>1. at \in Nat /\ LengthLen \in Nat /\ 1 \in 1 .. LengthLen
    BY <1>1 DEF LengthLen
  <2> QED BY <1>2, <2>1, FieldRead DEF DirentLength
<1> QED BY <1>1, <1>2 DEF HasLengths, DirentLengths

\* An entry that wim_direntry finds lies, with its name, in the metadata.
LEMMA EntryInside ==
  ASSUME NEW image, NEW meta, HasLengths(image, meta), NEW name, NEW dir,
         NEW at \in wim_direntry(image, meta, name, dir)
  PROVE  /\ at \in 0 .. meta.len /\ wim_readable(image, meta, at, DirentLen + NameLen)
         /\ dir \in 0 .. meta.len /\ at \in DirEntries(image, meta, dir)
<1>1. /\ at \in DirEntries(image, meta, dir)
      /\ wim_readable(image, meta, at, DirentLen + NameLen)
  BY DEF wim_direntry, FirstEntry
<1>2. /\ dir \in 0 .. meta.len /\ at \in DirWalk(DirentLengths(image, meta))[dir]
  BY <1>1 DEF DirEntries
<1>3. WalkSound(DirentLengths(image, meta), dir) /\ DOMAIN DirentLengths(image, meta) = 0 .. meta.len
  BY <1>2, WalkIsSound DEF HasLengths
<1>4. at \in 0 .. meta.len
  BY <1>2, <1>3 DEF WalkSound
<1> QED BY <1>1, <1>2, <1>4

\* The directory entry of a path lies, with its name, in the metadata.
LEMMA PathInside ==
  ASSUME NEW image, NEW meta, HasLengths(image, meta),
         NEW path, Len(path) \in Nat, Len(path) # 0,
         NEW at \in wim_path(image, meta, path)
  PROVE  at \in 0 .. meta.len /\ wim_readable(image, meta, at, DirentLen + NameLen)
<1>1. at \in PathWalk(image, meta, path)[Len(path)] /\ Len(path) \in 1 .. Len(path)
  BY DEF wim_path
<1>2. \E name, dir : at \in wim_direntry(image, meta, name, dir)
  BY <1>1, PathStep DEF EntriesIn
<1> QED BY <1>2, EntryInside

\* The directory for injected files, and its entry, lie in the metadata.
LEMMA InjectDirInside ==
  ASSUME IsWim(wim), NEW b, IsSound(wim, b), NEW dir \in InjectDirs(b)
  PROVE  /\ dir.parent \in Nat /\ dir.offset \in Nat /\ dir.len \in Nat
         /\ dir.parent + DirentLen + NameLen <= b.len
<1>1. PICK at \in wim_path(wim, b, WIM_INJECT_DIR) :
        \E n \in wim_dir_len(wim, b, SubdirOf(wim, b, at)) :
          dir = [parent |-> at, offset |-> SubdirOf(wim, b, at), len |-> n]
  BY DEF InjectDirs
<1>2. PICK n \in wim_dir_len(wim, b, SubdirOf(wim, b, at)) :
        dir = [parent |-> at, offset |-> SubdirOf(wim, b, at), len |-> n]
  BY <1>1
<1>3. at \in 0 .. b.len /\ wim_readable(wim, b, at, DirentLen + NameLen) /\ b.len \in Nat
  <2>1. Len(WIM_INJECT_DIR) \in Nat /\ Len(WIM_INJECT_DIR) # 0
    BY WriterAssumption
  <2>2. HasLengths(wim, b) /\ b.len \in Nat
    BY WimHasLengths DEF HasLengths
  <2> QED BY <2>1, <2>2, PathInside
<1>4. at \in Nat /\ at + 4 <= b.len
  BY <1>3 DEF wim_readable, DirentLen, NameLen
<1>5. wim_readable(wim, b, at, DirentLen)
  <2>1. CASE b.compressed
    <3>1. b.offset + 1 \in 1 .. Len(wim) /\ IsPacked(wim[b.offset + 1])
      BY <1>3, <2>1 DEF IsSound, IsStored, wim_readable, Resources, IsWim, HoldsFields
    <3>2. Len(Unpacked(wim, b)) \in Nat
      BY <3>1 DEF IsWim, HoldsFields, Unpacked
    <3> QED BY <1>3, <1>4, <3>2 DEF wim_readable, DirentLen, NameLen
  <2>2. CASE ~b.compressed
    BY <1>3, <1>4, <2>2 DEF wim_readable, DirentLen, NameLen
  <2> QED BY <2>1, <2>2
<1>6. SubdirOf(wim, b, at) \in Nat
  <2>1. DirentLen \in Nat /\ 2 \in 1 .. DirentLen
    BY DEF DirentLen
  <2> QED BY <1>4, <1>5, <2>1, FieldRead DEF SubdirOf
<1>7. n \in Nat
  <2> DEFINE o == SubdirOf(wim, b, at)
  <2>1. PICK x \in o .. b.len : n = x - o
    BY DEF wim_dir_len
  <2>2. o \in Nat /\ x \in Nat /\ o <= x
    BY <1>3, <1>6
  <2> HIDE DEF o
  <2> QED BY <2>1, <2>2
<1> QED BY <1>2, <1>4, <1>6, <1>7 DEF DirentLen, NameLen

----------------------------------------------------------------------------
(* Counting the files to inject *)

LEMMA CountTo ==
  ASSUME NEW n \in Nat
  PROVE  IsFiniteSet(1 .. n) /\ Cardinality(1 .. n) = n
BY FS_Interval

\* A table of files that fits, whose files to inject have a length.
IsTable(files) ==
  /\ Len(files) \in 0 .. VDISK_MAX_FILES
  /\ \A i \in Injected(files) : Len(files[i].cells) \in Nat

\* The injected files are finitely many.
LEMMA InjectedIsFinite ==
  ASSUME NEW files, IsTable(files)
  PROVE  /\ Injected(files) \subseteq 1 .. VDISK_MAX_FILES
         /\ IsFiniteSet(Injected(files)) /\ Cardinality(Injected(files)) \in Nat
<1>1. VDISK_MAX_FILES \in Nat /\ Injected(files) \subseteq 1 .. VDISK_MAX_FILES
  BY PatchAssumption DEF Injected, IsTable
<1>2. IsFiniteSet(1 .. VDISK_MAX_FILES)
  BY <1>1, FS_Interval
<1>3. IsFiniteSet(Injected(files))
  BY <1>1, <1>2, FS_Subset
<1> QED BY <1>1, <1>3, FS_CardinalityType

\* A file's rank is a number below that of the files, and ranks ascend.
LEMMA RanksAscend ==
  ASSUME NEW files, IsTable(files), NEW i \in Injected(files)
  PROVE  /\ Rank(files, i) \in Nat /\ Rank(files, i) + 1 <= Cardinality(Injected(files))
         /\ \A j \in Injected(files) : i < j => Rank(files, i) + 1 <= Rank(files, j)
<1> DEFINE I == Injected(files)
           before(k) == {j \in I : j < k}
<1>1. I \subseteq 1 .. VDISK_MAX_FILES /\ IsFiniteSet(I) /\ VDISK_MAX_FILES \in Nat
  BY InjectedIsFinite, PatchAssumption
<1>2. Rank(files, i) = Cardinality(before(i)) /\ i \notin before(i) /\ i \in Nat
  BY <1>1 DEF Rank
<1>3. IsFiniteSet(before(i)) /\ Cardinality(before(i)) \in Nat
  BY <1>1, FS_Subset, FS_CardinalityType
<1>4. Cardinality(before(i) \cup {i}) = Cardinality(before(i)) + 1
  BY <1>2, <1>3, FS_AddElement
<1>5. Cardinality(before(i) \cup {i}) <= Cardinality(I)
  <2>1. before(i) \cup {i} \in SUBSET I
    OBVIOUS
  <2> HIDE DEF before
  <2> QED BY <1>1, <2>1, FS_Subset
<1>6. ASSUME NEW j \in I, i < j
      PROVE  Cardinality(before(i) \cup {i}) <= Cardinality(before(j))
  <2>1. before(i) \cup {i} \in SUBSET before(j)
    BY <1>1, <1>6
  <2>2. IsFiniteSet(before(j))
    BY <1>1, FS_Subset
  <2> HIDE DEF before
  <2> QED BY <2>1, <2>2, FS_Subset
<1>7. ASSUME NEW j \in I, i < j PROVE Rank(files, i) + 1 <= Rank(files, j)
  <2>1. Rank(files, j) = Cardinality(before(j))
    BY DEF Rank
  <2> QED BY <1>2, <1>4, <1>6, <1>7, <2>1
<1> QED BY <1>2, <1>3, <1>4, <1>5, <1>7

\* The cells of the files before the k-th.
CellsOf(files, j) == {j} \X (1 .. Len(files[j].cells))
FilesBefore(files, k) == {j \in Injected(files) : j < k}
CellSet(files, k) == UNION {CellsOf(files, j) : j \in FilesBefore(files, k)}

LEMMA CellSetIsFinite ==
  ASSUME NEW files, IsTable(files), NEW k
  PROVE  /\ IsFiniteSet(CellSet(files, k))
         /\ CellsBefore(files, k) = Cardinality(CellSet(files, k))
         /\ CellsBefore(files, k) \in Nat
<1> DEFINE J == FilesBefore(files, k)
           f == [j \in J |-> CellsOf(files, j)]
           F == {CellsOf(files, j) : j \in J}
<1>1. J \in SUBSET Injected(files) /\ IsFiniteSet(J)
  <2>1. J \in SUBSET Injected(files)
    BY DEF FilesBefore
  <2> QED BY <2>1, InjectedIsFinite, FS_Subset
<1>2. f \in Surjection(J, F)
  BY DEF Surjection
<1>3. IsFiniteSet(F)
  <2> HIDE DEF J, f, F
  <2> QED BY <1>1, <1>2, FS_Surjection
<1>4. ASSUME NEW j \in J PROVE IsFiniteSet(CellsOf(files, j))
  <2>1. Len(files[j].cells) \in Nat
    BY <1>1 DEF IsTable
  <2>2. IsFiniteSet({j}) /\ IsFiniteSet(1 .. Len(files[j].cells))
    BY <2>1, FS_Singleton, CountTo
  <2> QED BY <2>2, FS_Product DEF CellsOf
<1>5. IsFiniteSet(UNION F)
  <2>1. \A T \in F : IsFiniteSet(T)
    BY <1>4
  <2> HIDE DEF F
  <2> QED BY <1>3, <2>1, FS_UNION
<1>6. CellSet(files, k) = UNION F
  BY DEF CellSet
<1>7. CellsBefore(files, k) = Cardinality(CellSet(files, k))
  BY DEF CellsBefore, CellSet, CellsOf, FilesBefore
<1> QED BY <1>5, <1>6, <1>7, FS_CardinalityType

\* Each file is put behind the ones before.
LEMMA CellsAddUp ==
  ASSUME NEW files, IsTable(files), NEW i \in Injected(files), NEW k \in Nat, i < k
  PROVE  CellsBefore(files, i) + Len(files[i].cells) <= CellsBefore(files, k)
<1> DEFINE C == CellsOf(files, i)
           A == CellSet(files, i)
           B == CellSet(files, k)
<1>1. /\ IsFiniteSet(A) /\ CellsBefore(files, i) = Cardinality(A)
      /\ IsFiniteSet(B) /\ CellsBefore(files, k) = Cardinality(B)
      /\ Cardinality(A) \in Nat /\ Cardinality(B) \in Nat
  BY CellSetIsFinite
<1>2. Len(files[i].cells) \in Nat
  BY DEF IsTable
<1>3. IsFiniteSet(C) /\ Cardinality(C) = Len(files[i].cells)
  <2>1. IsFiniteSet({i}) /\ Cardinality({i}) = 1
    BY FS_Singleton
  <2>2. /\ IsFiniteSet(1 .. Len(files[i].cells))
        /\ Cardinality(1 .. Len(files[i].cells)) = Len(files[i].cells)
    BY <1>2, CountTo
  <2>3. IsFiniteSet(C) /\ Cardinality(C) = 1 * Len(files[i].cells)
    BY <2>1, <2>2, FS_Product, ZenonT(60) DEF CellsOf
  <2> QED BY <1>2, <2>3
<1>4. i \in Nat /\ \A j \in Injected(files) : j \in Nat
  BY InjectedIsFinite, PatchAssumption
<1>5. A \cap C = {}
  <2>1. ASSUME NEW c \in A, c \in C PROVE FALSE
    <3>1. PICK j \in FilesBefore(files, i) : c \in CellsOf(files, j)
      BY DEF CellSet
    <3>2. j \in Nat /\ j < i
      BY <1>4 DEF FilesBefore
    <3>3. c[1] = j /\ c[1] = i
      BY <2>1, <3>1 DEF CellsOf
    <3> QED BY <1>4, <3>2, <3>3
  <2> QED BY <2>1
<1>6. A \cup C \in SUBSET B
  <2>1. ASSUME NEW c \in A PROVE c \in B
    <3>1. PICK j \in FilesBefore(files, i) : c \in CellsOf(files, j)
      BY DEF CellSet
    <3>2. j \in FilesBefore(files, k)
      BY <1>4 DEF FilesBefore
    <3> QED BY <3>1, <3>2 DEF CellSet
  <2>2. ASSUME NEW c \in C PROVE c \in B
    BY DEF CellSet, FilesBefore
  <2> QED BY <2>1, <2>2
<1> HIDE DEF A, B, C
<1>7. Cardinality(A \cap C) = 0
  BY <1>5, FS_EmptySet
<1>8. Cardinality(A \cup C) = Cardinality(A) + Cardinality(C) - Cardinality(A \cap C)
  BY <1>1, <1>3, FS_Union
<1>9. Cardinality(A \cup C) <= Cardinality(B)
  BY <1>1, <1>6, FS_Subset
<1> QED BY <1>1, <1>2, <1>3, <1>7, <1>8, <1>9

----------------------------------------------------------------------------
(* The table of regions *)

Methods == {"unused", "header", "file", "lookup.copy", "lookup.boot", "lookup.file",
            "boot.copy", "dir.subdir", "dir.copy", "dir.file"}

Regions == [patch : Methods, opaque : Nat, offset : Nat, len : Nat]

LEMMA RegionTyped ==
  ASSUME NEW m \in Methods, NEW o \in Nat, NEW offset \in Nat, NEW len \in Nat
  PROVE  Region(m, o, offset, len) \in Regions
BY DEF Region, Regions

\* The regions of the i-th file, if it is injected.
FileRegion(files, i) ==
  IF i \in Injected(files)
    THEN Region("file", i, Len(wim) + CellsBefore(files, i), Len(files[i].cells))
    ELSE Unused

LookupRegion(files, start, i) ==
  IF i \in Injected(files)
    THEN Region("lookup.file", i, start + (1 + Rank(files, i)) * LookupLen, LookupLen)
    ELSE Unused

DirentRegion(files, start, i) ==
  IF i \in Injected(files)
    THEN Region("dir.file", i, start + Rank(files, i) * wim_align(PatchDirentLen),
                PatchDirentLen)
    ELSE Unused

LEMMA PerFileTable ==
  ASSUME NEW files, IsTable(files), NEW given \in [Injected(files) -> Regions]
  PROVE  /\ PerFile(given) \in Seq(Regions) /\ Len(PerFile(given)) = VDISK_MAX_FILES
         /\ \A i \in Indices : PerFile(given)[i] =
              IF i \in Injected(files) THEN given[i] ELSE Unused
<1>1. VDISK_MAX_FILES \in Nat /\ Unused \in Regions
  BY PatchAssumption, RegionTyped DEF Unused, Methods
<1>2. PerFile(given) \in [1 .. VDISK_MAX_FILES -> Regions]
  BY <1>1 DEF PerFile, Indices
<1>3. PerFile(given) \in Seq(Regions) /\ Len(PerFile(given)) = VDISK_MAX_FILES
  BY <1>1, <1>2
<1>4. \A i \in Indices : PerFile(given)[i] =
        IF i \in Injected(files) THEN given[i] ELSE Unused
  BY DEF PerFile
<1> QED BY <1>3, <1>4

\* A sequence of m elements, and one that joins two.
IsPart(S, s, m) == s \in Seq(S) /\ Len(s) = m

Joins(S, s, m, t, n, r, l) ==
  /\ IsPart(S, r, l)
  /\ \A k \in 1 .. m : r[k] = s[k]
  /\ \A k \in 1 .. n : r[m + k] = t[k]

LEMMA ConcatAt ==
  ASSUME NEW S, NEW s, NEW m, IsPart(S, s, m), NEW t, NEW n, IsPart(S, t, n),
         NEW l, l = m + n
  PROVE  Joins(S, s, m, t, n, s \o t, l)
<1>1. Len(s) \in Nat /\ Len(t) \in Nat
  BY DEF IsPart
<1> QED BY <1>1, ConcatProperties DEF IsPart, Joins

\* The parts of the table, and where in it they are.
Table(S, M, s1, s2, s3, s4, s5, s6, R) ==
  /\ IsPart(S, R, 3 * M + 6)
  /\ R[1] = s1[1]
  /\ \A i \in 1 .. M : R[1 + i] = s2[i]
  /\ R[M + 2] = s3[1] /\ R[M + 3] = s3[2]
  /\ \A i \in 1 .. M : R[M + 3 + i] = s4[i]
  /\ R[2 * M + 4] = s5[1] /\ R[2 * M + 5] = s5[2] /\ R[2 * M + 6] = s5[3]
  /\ \A i \in 1 .. M : R[2 * M + 6 + i] = s6[i]

LEMMA SixParts ==
  ASSUME NEW S, NEW M \in Nat,
         NEW s1, IsPart(S, s1, 1), NEW s2, IsPart(S, s2, M), NEW s3, IsPart(S, s3, 2),
         NEW s4, IsPart(S, s4, M), NEW s5, IsPart(S, s5, 3), NEW s6, IsPart(S, s6, M)
  PROVE  Table(S, M, s1, s2, s3, s4, s5, s6, s1 \o s2 \o s3 \o s4 \o s5 \o s6)
<1> DEFINE t2 == s1 \o s2
           t3 == t2 \o s3
           t4 == t3 \o s4
           t5 == t4 \o s5
           t6 == t5 \o s6
<1>1. /\ 3 + M = (1 + M) + 2 /\ 3 + 2 * M = (3 + M) + M
      /\ 6 + 2 * M = (3 + 2 * M) + 3 /\ 3 * M + 6 = (6 + 2 * M) + M
  OBVIOUS
<1>2. Joins(S, s1, 1, s2, M, t2, 1 + M)
  BY ConcatAt, Zenon
<1>0. s1 \o s2 \o s3 \o s4 \o s5 \o s6 = t6
  OBVIOUS
<1> HIDE DEF t2
<1>3. Joins(S, t2, 1 + M, s3, 2, t3, 3 + M)
  <2>1. IsPart(S, t2, 1 + M)
    BY <1>2 DEF Joins
  <2> QED BY <1>1, <2>1, ConcatAt, Zenon
<1> HIDE DEF t3
<1>4. Joins(S, t3, 3 + M, s4, M, t4, 3 + 2 * M)
  <2>1. IsPart(S, t3, 3 + M)
    BY <1>3 DEF Joins
  <2> QED BY <1>1, <2>1, ConcatAt, Zenon
<1> HIDE DEF t4
<1>5. Joins(S, t4, 3 + 2 * M, s5, 3, t5, 6 + 2 * M)
  <2>1. IsPart(S, t4, 3 + 2 * M)
    BY <1>4 DEF Joins
  <2> QED BY <1>1, <2>1, ConcatAt, Zenon
<1> HIDE DEF t5
<1>6. Joins(S, t5, 6 + 2 * M, s6, M, t6, 3 * M + 6)
  <2>1. IsPart(S, t5, 6 + 2 * M)
    BY <1>5 DEF Joins
  <2> QED BY <1>1, <2>1, ConcatAt, Zenon
<1> HIDE DEF t6
\* What t6 holds it holds by the last part joined to it, or has from t5, and so on.
<1>a. \A k \in 1 .. 6 + 2 * M : t6[k] = t5[k]
  BY <1>6 DEF Joins
<1>b. \A k \in 1 .. 3 + 2 * M : t6[k] = t4[k]
  <2>1. \A k \in 1 .. 3 + 2 * M : k \in 1 .. 6 + 2 * M /\ t5[k] = t4[k]
    BY <1>5 DEF Joins
  <2> QED BY <1>a, <2>1
<1>c. \A k \in 1 .. 3 + M : t6[k] = t3[k]
  <2>1. \A k \in 1 .. 3 + M : k \in 1 .. 3 + 2 * M /\ t4[k] = t3[k]
    BY <1>4 DEF Joins
  <2> QED BY <1>b, <2>1
<1>d. \A k \in 1 .. 1 + M : t6[k] = t2[k]
  <2>1. \A k \in 1 .. 1 + M : k \in 1 .. 3 + M /\ t3[k] = t2[k]
    BY <1>3 DEF Joins
  <2> QED BY <1>c, <2>1
<1>7. t6[1] = s1[1]
  <2>1. t2[1] = s1[1]
    BY <1>2 DEF Joins
  <2> QED BY <1>d, <2>1
<1>8. ASSUME NEW i \in 1 .. M PROVE t6[1 + i] = s2[i]
  <2>1. t2[1 + i] = s2[i]
    BY <1>2 DEF Joins
  <2> QED BY <1>d, <2>1
<1>9. t6[M + 2] = s3[1] /\ t6[M + 3] = s3[2]
  <2>1. t3[1 + M + 1] = s3[1] /\ t3[1 + M + 2] = s3[2]
    BY <1>3 DEF Joins
  <2>2. 1 + M + 1 = M + 2 /\ 1 + M + 2 = M + 3
    OBVIOUS
  <2> QED BY <1>c, <2>1, <2>2
<1>10. ASSUME NEW i \in 1 .. M PROVE t6[M + 3 + i] = s4[i]
  <2>1. t4[3 + M + i] = s4[i]
    BY <1>4 DEF Joins
  <2>2. 3 + M + i = M + 3 + i
    OBVIOUS
  <2> QED BY <1>b, <2>1, <2>2
<1>11. t6[2 * M + 4] = s5[1] /\ t6[2 * M + 5] = s5[2] /\ t6[2 * M + 6] = s5[3]
  <2>1. /\ t5[3 + 2 * M + 1] = s5[1] /\ t5[3 + 2 * M + 2] = s5[2]
        /\ t5[3 + 2 * M + 3] = s5[3]
    BY <1>5 DEF Joins
  <2>2. /\ 3 + 2 * M + 1 = 2 * M + 4 /\ 3 + 2 * M + 2 = 2 * M + 5
        /\ 3 + 2 * M + 3 = 2 * M + 6
    OBVIOUS
  <2> QED BY <1>a, <2>1, <2>2
<1>12. ASSUME NEW i \in 1 .. M PROVE t6[2 * M + 6 + i] = s6[i]
  <2>1. t6[6 + 2 * M + i] = s6[i]
    BY <1>6 DEF Joins
  <2>2. 6 + 2 * M + i = 2 * M + 6 + i
    OBVIOUS
  <2> QED BY <2>1, <2>2
<1>13. IsPart(S, t6, 3 * M + 6)
  BY <1>6 DEF Joins
<1> QED BY <1>0, <1>7, <1>8, <1>9, <1>10, <1>11, <1>12, <1>13 DEF Table

RegionsAt(R, files, lookup, boot, dir, at) ==
  LET M == VDISK_MAX_FILES
  IN  /\ R \in Seq(Regions) /\ Len(R) = 3 * M + 6
      /\ R[1] = Region("header", 0, 0, HeaderLen)
      /\ \A i \in Indices : R[1 + i] = FileRegion(files, i)
      /\ R[M + 2] = Region("lookup.copy", 0, at.lookup, lookup.len)
      /\ R[M + 3] = Region("lookup.boot", 0, at.lookup + lookup.len, LookupLen)
      /\ \A i \in Indices :
           R[M + 3 + i] = LookupRegion(files, at.lookup + lookup.len, i)
      /\ R[2 * M + 4] = Region("boot.copy", 0, at.boot, boot.len)
      /\ R[2 * M + 5] = Region("dir.subdir", 0, at.boot + dir.parent + SubdirAt, 1)
      /\ R[2 * M + 6] = Region("dir.copy", 0, at.copy, dir.len)
      /\ \A i \in Indices : R[2 * M + 6 + i] = DirentRegion(files, at.dir, i)

LEMMA RegionTable ==
  ASSUME NEW files, IsTable(files), Len(wim) \in Nat,
         NEW lookup, lookup.len \in Nat, NEW boot, boot.len \in Nat,
         NEW dir, dir.parent \in Nat, dir.len \in Nat,
         NEW at, at.lookup \in Nat, at.boot \in Nat, at.dir \in Nat, at.copy \in Nat
  PROVE  RegionsAt(InjectedRegions(files, lookup, boot, dir, at),
                   files, lookup, boot, dir, at)
<1> DEFINE M  == VDISK_MAX_FILES
           I  == Injected(files)
           ff == [i \in I |-> Region("file", i, Len(wim) + CellsBefore(files, i),
                                     Len(files[i].cells))]
           lf == [i \in I |-> Region("lookup.file", i,
                                     at.lookup + lookup.len
                                       + (1 + Rank(files, i)) * LookupLen, LookupLen)]
           df == [i \in I |-> Region("dir.file", i,
                                     at.dir + Rank(files, i) * wim_align(PatchDirentLen),
                                     PatchDirentLen)]
           s1 == <<Region("header", 0, 0, HeaderLen)>>
           s2 == PerFile(ff)
           s3 == <<Region("lookup.copy", 0, at.lookup, lookup.len),
                   Region("lookup.boot", 0, at.lookup + lookup.len, LookupLen)>>
           s4 == PerFile(lf)
           s5 == MetadataRegions(boot, dir, at)
           s6 == PerFile(df)
           R  == InjectedRegions(files, lookup, boot, dir, at)
<1>0. M \in Nat /\ I \subseteq 1 .. M
  BY PatchAssumption, InjectedIsFinite
<1>1. ff \in [I -> Regions]
  <2>1. ASSUME NEW i \in I
        PROVE  Region("file", i, Len(wim) + CellsBefore(files, i), Len(files[i].cells))
                 \in Regions
    <3>1. i \in Nat /\ CellsBefore(files, i) \in Nat /\ Len(files[i].cells) \in Nat
      BY <1>0, CellSetIsFinite DEF IsTable
    <3> QED BY <3>1, RegionTyped DEF Methods
  <2> QED BY <2>1
<1>2. lf \in [I -> Regions]
  <2>1. ASSUME NEW i \in I
        PROVE  Region("lookup.file", i,
                      at.lookup + lookup.len + (1 + Rank(files, i)) * LookupLen,
                      LookupLen) \in Regions
    <3>1. i \in Nat /\ Rank(files, i) \in Nat
      BY <1>0, RanksAscend
    <3>2. LookupLen \in Nat /\ (1 + Rank(files, i)) * LookupLen \in Nat
      BY <3>1 DEF LookupLen
    <3>3. at.lookup + lookup.len + (1 + Rank(files, i)) * LookupLen \in Nat
      BY <3>2
    <3> QED BY <3>1, <3>2, <3>3, RegionTyped DEF Methods
  <2> QED BY <2>1
<1>3. df \in [I -> Regions]
  <2>1. ASSUME NEW i \in I
        PROVE  Region("dir.file", i,
                      at.dir + Rank(files, i) * wim_align(PatchDirentLen),
                      PatchDirentLen) \in Regions
    <3>1. i \in Nat /\ Rank(files, i) \in Nat
      BY <1>0, RanksAscend
    <3>2. PatchDirentLen \in Nat
      BY DEF PatchDirentLen, DirentLen, NameLen
    <3>3. wim_align(PatchDirentLen) \in Nat
      BY <3>2, AlignUp
    <3>4. Rank(files, i) * wim_align(PatchDirentLen) \in Nat
      BY <3>1, <3>3
    <3> QED BY <3>1, <3>2, <3>4, RegionTyped DEF Methods
  <2> QED BY <2>1
<1>4. s1 \in Seq(Regions) /\ Len(s1) = 1 /\ s1[1] = Region("header", 0, 0, HeaderLen)
  <2>1. Region("header", 0, 0, HeaderLen) \in Regions
    BY RegionTyped DEF Methods, HeaderLen
  <2> QED BY <2>1
<1>5. /\ s2 \in Seq(Regions) /\ Len(s2) = M
      /\ \A i \in Indices : s2[i] = FileRegion(files, i)
  <2>1. /\ s2 \in Seq(Regions) /\ Len(s2) = M
        /\ \A i \in Indices : s2[i] = IF i \in I THEN ff[i] ELSE Unused
    <3> HIDE DEF ff
    <3> QED BY <1>1, PerFileTable
  <2> QED BY <2>1 DEF FileRegion
<1>6. /\ s3 \in Seq(Regions) /\ Len(s3) = 2
      /\ s3[1] = Region("lookup.copy", 0, at.lookup, lookup.len)
      /\ s3[2] = Region("lookup.boot", 0, at.lookup + lookup.len, LookupLen)
  <2>1. /\ Region("lookup.copy", 0, at.lookup, lookup.len) \in Regions
        /\ Region("lookup.boot", 0, at.lookup + lookup.len, LookupLen) \in Regions
    BY RegionTyped DEF Methods, LookupLen
  <2> QED BY <2>1
<1>7. /\ s4 \in Seq(Regions) /\ Len(s4) = M
      /\ \A i \in Indices : s4[i] = LookupRegion(files, at.lookup + lookup.len, i)
  <2>1. /\ s4 \in Seq(Regions) /\ Len(s4) = M
        /\ \A i \in Indices : s4[i] = IF i \in I THEN lf[i] ELSE Unused
    <3> HIDE DEF lf
    <3> QED BY <1>2, PerFileTable
  <2> QED BY <2>1 DEF LookupRegion
<1>8. /\ s5 \in Seq(Regions) /\ Len(s5) = 3
      /\ s5[1] = Region("boot.copy", 0, at.boot, boot.len)
      /\ s5[2] = Region("dir.subdir", 0, at.boot + dir.parent + SubdirAt, 1)
      /\ s5[3] = Region("dir.copy", 0, at.copy, dir.len)
  <2>1. /\ Region("boot.copy", 0, at.boot, boot.len) \in Regions
        /\ Region("dir.subdir", 0, at.boot + dir.parent + SubdirAt, 1) \in Regions
        /\ Region("dir.copy", 0, at.copy, dir.len) \in Regions
    BY RegionTyped, SMTT(30) DEF Methods, SubdirAt
  <2> QED BY <2>1 DEF MetadataRegions
<1>9. /\ s6 \in Seq(Regions) /\ Len(s6) = M
      /\ \A i \in Indices : s6[i] = DirentRegion(files, at.dir, i)
  <2>1. /\ s6 \in Seq(Regions) /\ Len(s6) = M
        /\ \A i \in Indices : s6[i] = IF i \in I THEN df[i] ELSE Unused
    <3> HIDE DEF df
    <3> QED BY <1>3, PerFileTable
  <2> QED BY <2>1 DEF DirentRegion
<1>10. R = s1 \o s2 \o s3 \o s4 \o s5 \o s6
  BY DEF InjectedRegions
<1> HIDE DEF s1, s2, s3, s4, s5, s6, R, M, ff, lf, df, I
<1>11. Table(Regions, M, s1, s2, s3, s4, s5, s6, R)
  <2>1. /\ IsPart(Regions, s1, 1) /\ IsPart(Regions, s2, M) /\ IsPart(Regions, s3, 2)
        /\ IsPart(Regions, s4, M) /\ IsPart(Regions, s5, 3) /\ IsPart(Regions, s6, M)
    BY <1>4, <1>5, <1>6, <1>7, <1>8, <1>9 DEF IsPart
  <2> QED BY <1>0, <1>10, <2>1, SixParts, Zenon
<1>12. Indices = 1 .. M
  BY DEF Indices, M
<1>13. /\ \A i \in Indices : R[1 + i] = FileRegion(files, i)
       /\ \A i \in Indices : R[M + 3 + i] = LookupRegion(files, at.lookup + lookup.len, i)
       /\ \A i \in Indices : R[2 * M + 6 + i] = DirentRegion(files, at.dir, i)
  BY <1>5, <1>7, <1>9, <1>11, <1>12 DEF Table
<1>14. R \in Seq(Regions) /\ Len(R) = 3 * M + 6
  BY <1>11 DEF Table, IsPart
<1> QED BY <1>4, <1>6, <1>8, <1>11, <1>13, <1>14 DEF R, M, Table, RegionsAt

----------------------------------------------------------------------------
(* The regions are apart *)

\* What RegionsApart says, of any table of regions and length.
Within(q, r) ==
  /\ q.patch = "boot.copy" /\ r.patch = "dir.subdir"
  /\ q.offset < r.offset /\ r.offset + r.len <= q.offset + q.len

AreApart(q, r) ==
  \/ q.offset + q.len <= r.offset \/ r.offset + r.len <= q.offset
  \/ Within(q, r)

UsedOf(R) == {n \in 1 .. Len(R) : R[n].patch # "unused"}

TableApart(R, len) ==
  \A n \in UsedOf(R) :
    /\ R[n].offset + R[n].len <= len
    /\ R[n].patch = "header" \/ R[n].offset >= Len(wim)
    /\ \A m \in UsedOf(R) : m < n => AreApart(R[m], R[n])

\* The patched file has eight sections: the header; behind the original file, the
\* injected files; the old lookup table, the entry of the new image, the entries of
\* the files; the metadata; the entries of the directory, and the copy of the old one.
\* The section of the n-th region:
SectionOf(n) ==
  LET M == VDISK_MAX_FILES
  IN  IF n = 1 THEN 1 ELSE IF n <= M + 1 THEN 2 ELSE IF n = M + 2 THEN 3
      ELSE IF n = M + 3 THEN 4 ELSE IF n <= 2 * M + 3 THEN 5
      ELSE IF n <= 2 * M + 5 THEN 6 ELSE IF n = 2 * M + 6 THEN 8 ELSE 7

\* The regions of each section, by their numbers.
LEMMA SectionBounds ==
  ASSUME NEW n \in 1 .. 3 * VDISK_MAX_FILES + 6
  PROVE  /\ SectionOf(n) \in 1 .. 8
         /\ SectionOf(n) = 1 => n = 1
         /\ SectionOf(n) = 2 => 2 <= n /\ n <= VDISK_MAX_FILES + 1
         /\ SectionOf(n) = 3 => n = VDISK_MAX_FILES + 2
         /\ SectionOf(n) = 4 => n = VDISK_MAX_FILES + 3
         /\ SectionOf(n) = 5 => VDISK_MAX_FILES + 4 <= n /\ n <= 2 * VDISK_MAX_FILES + 3
         /\ SectionOf(n) = 6 => n = 2 * VDISK_MAX_FILES + 4 \/ n = 2 * VDISK_MAX_FILES + 5
         /\ SectionOf(n) = 7 => 2 * VDISK_MAX_FILES + 7 <= n /\ n <= 3 * VDISK_MAX_FILES + 6
         /\ SectionOf(n) = 8 => n = 2 * VDISK_MAX_FILES + 6
<1>1. PICK m \in Nat : m = VDISK_MAX_FILES /\ m # 0
  BY PatchAssumption
<1>2. n \in Nat /\ 1 <= n /\ n <= 3 * m + 6
  BY <1>1
<1>3. SectionOf(n) = IF n = 1 THEN 1 ELSE IF n <= m + 1 THEN 2 ELSE IF n = m + 2 THEN 3
                     ELSE IF n = m + 3 THEN 4 ELSE IF n <= 2 * m + 3 THEN 5
                     ELSE IF n <= 2 * m + 5 THEN 6 ELSE IF n = 2 * m + 6 THEN 8 ELSE 7
  BY <1>1, Zenon DEF SectionOf
<1>4. PICK s : s = SectionOf(n)
  OBVIOUS
<1>5. /\ s \in 1 .. 8
      /\ s = 1 => n = 1
      /\ s = 2 => 2 <= n /\ n <= m + 1
      /\ s = 3 => n = m + 2
      /\ s = 4 => n = m + 3
      /\ s = 5 => m + 4 <= n /\ n <= 2 * m + 3
      /\ s = 6 => n = 2 * m + 4 \/ n = 2 * m + 5
      /\ s = 7 => 2 * m + 7 <= n /\ n <= 3 * m + 6
      /\ s = 8 => n = 2 * m + 6
  BY <1>2, <1>3, <1>4
<1> QED BY <1>1, <1>4, <1>5, Zenon

\* The link to the new directory lies inside the copy of the metadata.
LEMMA SubdirInside ==
  ASSUME NEW a \in Nat, NEW p \in Nat, NEW l \in Nat, p + 4 <= l
  PROVE  a <= a + p + 1 /\ a < a + p + 1 /\ a + p + 1 + 1 <= a + l
  OBVIOUS

\* A region that lies in a section.
LiesIn(r, a, b) == a <= r.offset /\ r.offset + r.len <= b

\* Sections that end where the next begins follow each other.
LEMMA SectionsFollow ==
  ASSUME NEW lo \in [1 .. 9 -> Nat], \A s \in 1 .. 8 : lo[s] <= lo[s + 1],
         NEW s \in 1 .. 8, NEW t \in 1 .. 8, s < t
  PROVE  lo[s + 1] <= lo[t]
<1>1. /\ lo[1] <= lo[2] /\ lo[2] <= lo[3] /\ lo[3] <= lo[4] /\ lo[4] <= lo[5]
      /\ lo[5] <= lo[6] /\ lo[6] <= lo[7] /\ lo[7] <= lo[8] /\ lo[8] <= lo[9]
  OBVIOUS
<1>2. /\ lo[1] \in Nat /\ lo[2] \in Nat /\ lo[3] \in Nat /\ lo[4] \in Nat
      /\ lo[5] \in Nat /\ lo[6] \in Nat /\ lo[7] \in Nat /\ lo[8] \in Nat
  OBVIOUS
<1> QED BY <1>1, <1>2

LEMMA FollowApart ==
  ASSUME NEW lo \in [1 .. 9 -> Nat], \A k \in 1 .. 8 : lo[k] <= lo[k + 1],
         NEW s \in 1 .. 8, NEW t \in 1 .. 8, s < t,
         NEW q, q.offset \in Nat, q.len \in Nat, LiesIn(q, lo[s], lo[s + 1]),
         NEW r, r.offset \in Nat, r.len \in Nat, LiesIn(r, lo[t], lo[t + 1])
  PROVE  q.offset + q.len <= r.offset
<1>1. lo[s + 1] <= lo[t]
  BY SectionsFollow
<1>2. q.offset + q.len <= lo[s + 1] /\ lo[t] <= r.offset
  BY DEF LiesIn
<1>3. s + 1 \in 1 .. 9 /\ lo[s + 1] \in Nat /\ lo[t] \in Nat
  <2>1. s + 1 \in 1 .. 9 /\ t \in 1 .. 9
    OBVIOUS
  <2> QED BY <2>1
<1> QED BY <1>1, <1>2, <1>3

LEMMA LiesBetween ==
  ASSUME NEW lo \in [1 .. 9 -> Nat], \A k \in 1 .. 8 : lo[k] <= lo[k + 1],
         NEW s \in 1 .. 8,
         NEW r, r.offset \in Nat, r.len \in Nat, LiesIn(r, lo[s], lo[s + 1])
  PROVE  r.offset + r.len <= lo[9] /\ (s # 1 => lo[2] <= r.offset)
<1>1. /\ lo[1] <= lo[2] /\ lo[2] <= lo[3] /\ lo[3] <= lo[4] /\ lo[4] <= lo[5]
      /\ lo[5] <= lo[6] /\ lo[6] <= lo[7] /\ lo[7] <= lo[8] /\ lo[8] <= lo[9]
  OBVIOUS
<1>2. /\ lo[1] \in Nat /\ lo[2] \in Nat /\ lo[3] \in Nat /\ lo[4] \in Nat
      /\ lo[5] \in Nat /\ lo[6] \in Nat /\ lo[7] \in Nat /\ lo[8] \in Nat /\ lo[9] \in Nat
  OBVIOUS
<1>3. lo[s + 1] <= lo[9] /\ (s # 1 => lo[2] <= lo[s])
  BY <1>1, <1>2
<1>4. lo[s] <= r.offset /\ r.offset + r.len <= lo[s + 1]
  BY DEF LiesIn
<1>5. lo[s] \in Nat /\ lo[s + 1] \in Nat
  <2>1. s + 1 \in 1 .. 9 /\ s \in 1 .. 9
    OBVIOUS
  <2> QED BY <2>1
<1> QED BY <1>2, <1>3, <1>4, <1>5

\* The layout that wim_construct_patch computes.
IsLayout(files, lookup, boot, dir, at, end) ==
  LET n == Cardinality(Injected(files))
  IN  /\ at.lookup \in Nat /\ at.boot \in Nat /\ at.dir \in Nat /\ at.copy \in Nat
      /\ end \in Nat
      /\ Len(wim) + CellsBefore(files, VDISK_MAX_FILES + 1) <= at.lookup
      /\ at.lookup + lookup.len + (1 + n) * LookupLen <= at.boot
      /\ at.boot + boot.len <= at.dir
      /\ at.copy = at.dir + n * wim_align(PatchDirentLen)
      /\ end = at.copy + dir.len + LengthLen

LEMMA LayoutApart ==
  ASSUME NEW files, IsTable(files), Len(wim) \in Nat, HeaderLen <= Len(wim),
         NEW lookup, lookup.len \in Nat, NEW boot, boot.len \in Nat,
         NEW dir, dir.parent \in Nat, dir.len \in Nat,
         dir.parent + DirentLen + NameLen <= boot.len,
         NEW at, NEW end, IsLayout(files, lookup, boot, dir, at, end),
         NEW R, RegionsAt(R, files, lookup, boot, dir, at)
  PROVE  TableApart(R, end)
<1> DEFINE M == VDISK_MAX_FILES
           I == Injected(files)
           N == Cardinality(I)
           D == wim_align(PatchDirentLen)
           W == Len(wim)
           X == at.lookup + lookup.len
           ND == N * D
           C == CellsBefore(files, M + 1)
           lo == [s \in 1 .. 9 |->
                    IF s = 1 THEN 0 ELSE IF s = 2 THEN W ELSE IF s = 3 THEN at.lookup
                    ELSE IF s = 4 THEN X ELSE IF s = 5 THEN X + 2
                    ELSE IF s = 6 THEN at.boot ELSE IF s = 7 THEN at.dir
                    ELSE IF s = 8 THEN at.copy ELSE end]
<1> HIDE DEF lo
<1>0. /\ M \in Nat \ {0} /\ I \subseteq 1 .. M /\ N \in Nat /\ Indices = 1 .. M
      /\ at.lookup \in Nat /\ at.boot \in Nat /\ at.dir \in Nat /\ at.copy \in Nat
      /\ end \in Nat /\ X \in Nat /\ W \in Nat /\ HeaderLen <= W
  <2>1. M \in Nat \ {0} /\ I \subseteq 1 .. M /\ N \in Nat /\ Indices = 1 .. M
    BY PatchAssumption, InjectedIsFinite DEF Indices
  <2>2. /\ at.lookup \in Nat /\ at.boot \in Nat /\ at.dir \in Nat /\ at.copy \in Nat
        /\ end \in Nat
    BY Zenon DEF IsLayout
  <2>3. X \in Nat
    BY <2>2
  <2> QED BY <2>1, <2>2, <2>3, Zenon
<1>1. D \in Nat /\ D >= 4 /\ PatchDirentLen = 4
  <2>1. PatchDirentLen = 4
    BY DEF PatchDirentLen, DirentLen, NameLen
  <2> QED BY <2>1, AlignUp
<1>2. C \in Nat
  BY CellSetIsFinite
<1>4. /\ Len(R) = 3 * M + 6 /\ R \in Seq(Regions)
      /\ R[1] = Region("header", 0, 0, HeaderLen)
      /\ \A i \in Indices : R[1 + i] = FileRegion(files, i)
      /\ R[M + 2] = Region("lookup.copy", 0, at.lookup, lookup.len)
      /\ R[M + 3] = Region("lookup.boot", 0, X, LookupLen)
      /\ \A i \in Indices : R[M + 3 + i] = LookupRegion(files, X, i)
      /\ R[2 * M + 4] = Region("boot.copy", 0, at.boot, boot.len)
      /\ R[2 * M + 5] = Region("dir.subdir", 0, at.boot + dir.parent + SubdirAt, 1)
      /\ R[2 * M + 6] = Region("dir.copy", 0, at.copy, dir.len)
      /\ \A i \in Indices : R[2 * M + 6 + i] = DirentRegion(files, at.dir, i)
  BY Zenon DEF RegionsAt
<1>20. /\ W + C <= at.lookup /\ X + (1 + N) * 2 <= at.boot /\ at.boot + boot.len <= at.dir
       /\ at.copy = at.dir + ND /\ end = at.copy + dir.len + 1
  BY DEF IsLayout, LookupLen, LengthLen
<1>21. ND \in Nat
  BY <1>0, <1>1
<1> HIDE DEF ND, N, D, C, W
<1>22. at.lookup <= X
  BY <1>0
<1> HIDE DEF X, I, M
<1>23. 0 <= W /\ W <= at.lookup /\ X <= X + 2 /\ X + 2 \in Nat
  BY <1>0, <1>2, <1>20
<1>24. X + 2 <= at.boot
  BY <1>0, <1>20
<1>25. at.boot <= at.dir
  BY <1>0, <1>20, SMTT(30)
<1>26. at.dir <= at.copy /\ at.copy <= end
  <2>1. at.copy = at.dir + ND /\ end = at.copy + dir.len + 1
    BY <1>20
  <2>2. at.dir <= at.copy
    BY <1>0, <1>21, <2>1
  <2>3. at.copy <= end
    BY <1>0, <2>1
  <2> QED BY <2>2, <2>3
<1>27. /\ lo[1] = 0 /\ lo[2] = W /\ lo[3] = at.lookup /\ lo[4] = X /\ lo[5] = X + 2
       /\ lo[6] = at.boot /\ lo[7] = at.dir /\ lo[8] = at.copy /\ lo[9] = end
  BY DEF lo
<1>28. lo \in [1 .. 9 -> Nat]
  BY <1>0, <1>23 DEF lo
<1>29. \A s \in 1 .. 8 : lo[s] <= lo[s + 1]
  <2>1. /\ lo[1] <= lo[2] /\ lo[2] <= lo[3] /\ lo[3] <= lo[4] /\ lo[4] <= lo[5]
        /\ lo[5] <= lo[6] /\ lo[6] <= lo[7] /\ lo[7] <= lo[8] /\ lo[8] <= lo[9]
    BY <1>22, <1>23, <1>24, <1>25, <1>26, <1>27
  <2> QED BY <2>1
\* The regions of the files.
<1>5. ASSUME NEW n \in UsedOf(R), SectionOf(n) = 2
      PROVE  n - 1 \in I /\ R[n] = Region("file", n - 1, Len(wim) + CellsBefore(files, n - 1),
                                          Len(files[n - 1].cells))
  <2>1. n \in Nat /\ n - 1 \in Indices /\ n = 1 + (n - 1) /\ R[n].patch # "unused"
    <3>1. n \in 1 .. 3 * M + 6 /\ R[n].patch # "unused"
      BY <1>4 DEF UsedOf
    <3>2. 2 <= n /\ n <= M + 1
      BY <1>5, <3>1, SectionBounds, Zenon DEF M
    <3>3. n \in Nat /\ n - 1 \in 1 .. M /\ n = 1 + (n - 1)
      BY <1>0, <3>1, <3>2
    <3> QED BY <1>0, <3>1, <3>3, Zenon
  <2>2. R[n] = FileRegion(files, n - 1)
    BY <1>4, <2>1
  <2> QED BY <2>1, <2>2 DEF FileRegion, Unused, Region, I
<1>6. ASSUME NEW n \in UsedOf(R), SectionOf(n) = 5
      PROVE  /\ n - (M + 3) \in I
             /\ R[n] = Region("lookup.file", n - (M + 3),
                              X + (1 + Rank(files, n - (M + 3))) * LookupLen, LookupLen)
  <2> DEFINE i == n - (M + 3)
  <2>1. n \in Nat /\ i \in Indices /\ n = M + 3 + i /\ R[n].patch # "unused"
    <3>1. n \in 1 .. 3 * M + 6 /\ R[n].patch # "unused"
      BY <1>4 DEF UsedOf
    <3>2. M + 4 <= n /\ n <= 2 * M + 3
      BY <1>6, <3>1, SectionBounds, Zenon DEF M
    <3>3. n \in Nat /\ i \in Int /\ 1 <= i /\ i <= M /\ n = M + 3 + i
      BY <1>0, <3>1, <3>2
    <3> QED BY <1>0, <3>1, <3>3
  <2> HIDE DEF i
  <2>2. R[n] = LookupRegion(files, X, i)
    BY <1>4, <2>1
  <2>3. i \in I /\ R[n] = Region("lookup.file", i, X + (1 + Rank(files, i)) * LookupLen,
                                 LookupLen)
    BY <2>1, <2>2 DEF LookupRegion, Unused, Region, I
  <2> QED BY <2>3 DEF i
<1>7. ASSUME NEW n \in UsedOf(R), SectionOf(n) = 7
      PROVE  /\ n - (2 * M + 6) \in I
             /\ R[n] = Region("dir.file", n - (2 * M + 6),
                              at.dir + Rank(files, n - (2 * M + 6)) * D, PatchDirentLen)
  <2> DEFINE i == n - (2 * M + 6)
  <2>1. n \in Nat /\ i \in Indices /\ n = 2 * M + 6 + i /\ R[n].patch # "unused"
    <3>1. n \in 1 .. 3 * M + 6 /\ R[n].patch # "unused"
      BY <1>4 DEF UsedOf
    <3>2. 2 * M + 7 <= n /\ n <= 3 * M + 6
      BY <1>7, <3>1, SectionBounds, Zenon DEF M
    <3> QED BY <1>0, <3>1, <3>2
  <2> HIDE DEF i
  <2>2. R[n] = DirentRegion(files, at.dir, i)
    BY <1>4, <2>1
  <2>3. i \in I /\ R[n] = Region("dir.file", i, at.dir + Rank(files, i) * D,
                                 PatchDirentLen)
    BY <2>1, <2>2 DEF DirentRegion, Unused, Region, I, D
  <2> QED BY <2>3 DEF i
\* Each region lies in its section.
<1>8. ASSUME NEW n \in UsedOf(R)
      PROVE  /\ SectionOf(n) \in 1 .. 8 /\ R[n].offset \in Nat /\ R[n].len \in Nat
             /\ LiesIn(R[n], lo[SectionOf(n)], lo[SectionOf(n) + 1])
  <2>0. /\ n \in 1 .. 3 * M + 6 /\ R[n] \in Regions /\ SectionOf(n) \in 1 .. 8
        /\ R[n].offset \in Nat /\ R[n].len \in Nat
    <3>1. n \in 1 .. 3 * M + 6
      BY <1>4 DEF UsedOf
    <3>2. R[n] \in Regions
      BY <1>4, <3>1
    <3>3. SectionOf(n) \in 1 .. 8
      BY <3>1, SectionBounds, Zenon DEF M
    <3> QED BY <3>1, <3>2, <3>3 DEF Regions
  <2>1. ASSUME SectionOf(n) = 1 PROVE LiesIn(R[n], 0, W)
    <3>1. n = 1
      BY <2>0, <2>1, SectionBounds, Zenon DEF M
    <3>2. R[n].offset = 0 /\ R[n].len = 4
      BY <1>4, <3>1 DEF Region, HeaderLen
    <3> QED BY <1>0, <3>2 DEF LiesIn, HeaderLen
  <2>2. ASSUME SectionOf(n) = 2 PROVE LiesIn(R[n], W, at.lookup)
    <3>1. PICK i : i = n - 1
      OBVIOUS
    <3>2. i \in I /\ R[n] = Region("file", i, W + CellsBefore(files, i), Len(files[i].cells))
      BY <1>5, <2>2, <3>1 DEF W
    <3> DEFINE c == CellsBefore(files, i)
               l == Len(files[i].cells)
    <3>3. R[n].offset = W + c /\ R[n].len = l
      BY <3>2 DEF Region
    <3>4. i \in Nat /\ i < M + 1 /\ M + 1 \in Nat
      BY <1>0, <3>2
    <3>5. c \in Nat /\ l \in Nat
      BY <3>2, CellSetIsFinite DEF IsTable, I
    <3>6. c + l <= C
      BY <3>2, <3>4, CellsAddUp DEF C, I
    <3> HIDE DEF c, l
    <3>7. W + C <= at.lookup
      BY <1>20
    <3> QED BY <1>0, <1>2, <3>3, <3>5, <3>6, <3>7 DEF LiesIn
  <2>3. ASSUME SectionOf(n) = 3 PROVE LiesIn(R[n], at.lookup, X)
    <3>1. n = M + 2
      BY <2>0, <2>3, SectionBounds, Zenon DEF M
    <3>2. R[n].offset = at.lookup /\ R[n].len = lookup.len
      BY <1>4, <3>1 DEF Region
    <3> QED BY <1>0, <3>2 DEF LiesIn, X
  <2>4. ASSUME SectionOf(n) = 4 PROVE LiesIn(R[n], X, X + 2)
    <3>1. n = M + 3
      BY <2>0, <2>4, SectionBounds, Zenon DEF M
    <3>2. R[n].offset = X /\ R[n].len = 2
      BY <1>4, <3>1 DEF Region, LookupLen
    <3> QED BY <1>0, <3>2 DEF LiesIn
  <2>5. ASSUME SectionOf(n) = 5 PROVE LiesIn(R[n], X + 2, at.boot)
    <3>1. PICK i : i = n - (M + 3)
      OBVIOUS
    <3>2. i \in I /\ R[n] = Region("lookup.file", i, X + (1 + Rank(files, i)) * LookupLen,
                                   LookupLen)
      BY <1>6, <2>5, <3>1
    <3> DEFINE k == Rank(files, i)
    <3>3. R[n].offset = X + (1 + k) * 2 /\ R[n].len = 2
      BY <3>2 DEF Region, LookupLen
    <3>4. k \in Nat /\ k + 1 <= N
      BY <3>2, RanksAscend DEF I, N
    <3> HIDE DEF k
    <3>5. X + (1 + N) * 2 <= at.boot
      BY <1>20
    <3>6. X \in Nat /\ N \in Nat /\ at.boot \in Nat
      BY <1>0
    <3>7. X + 2 <= X + (1 + k) * 2 /\ X + (1 + k) * 2 + 2 <= at.boot
      BY <3>4, <3>5, <3>6
    <3> QED BY <3>3, <3>7 DEF LiesIn
  <2>6. ASSUME SectionOf(n) = 6 PROVE LiesIn(R[n], at.boot, at.dir)
    <3>0. at.boot + boot.len <= at.dir
      BY <1>20
    <3>1. n = 2 * M + 4 \/ n = 2 * M + 5
      BY <2>0, <2>6, SectionBounds, Zenon DEF M
    <3>2. CASE n = 2 * M + 4
      <4>1. R[n].offset = at.boot /\ R[n].len = boot.len
        BY <1>4, <3>2 DEF Region
      <4> QED BY <1>0, <3>0, <4>1 DEF LiesIn
    <3>3. CASE n = 2 * M + 5
      <4>1. R[n].offset = at.boot + dir.parent + 1 /\ R[n].len = 1
        BY <1>4, <3>3 DEF Region, SubdirAt
      <4>2. dir.parent + 4 <= boot.len
        BY DEF DirentLen, NameLen
      <4>3. at.boot \in Nat /\ at.dir \in Nat
        BY <1>0
      <4>4. /\ at.boot <= at.boot + dir.parent + 1
            /\ at.boot + dir.parent + 1 + 1 <= at.dir
        <5>1. /\ at.boot <= at.boot + dir.parent + 1
              /\ at.boot + dir.parent + 1 + 1 <= at.boot + boot.len
          BY <4>2, <4>3, SubdirInside, Zenon
        <5> QED BY <3>0, <4>3, <5>1
      <4> QED BY <4>1, <4>4 DEF LiesIn
    <3> QED BY <3>1, <3>2, <3>3
  <2>7. ASSUME SectionOf(n) = 7 PROVE LiesIn(R[n], at.dir, at.copy)
    <3>1. PICK i : i = n - (2 * M + 6)
      OBVIOUS
    <3>2. i \in I /\ R[n] = Region("dir.file", i, at.dir + Rank(files, i) * D,
                                   PatchDirentLen)
      BY <1>7, <2>7, <3>1
    <3> DEFINE k == Rank(files, i)
               kd == k * D
    <3>3. R[n].offset = at.dir + kd /\ R[n].len = 4
      BY <1>1, <3>2 DEF Region
    <3>4. k \in Nat /\ k + 1 <= N
      BY <3>2, RanksAscend DEF I, N
    <3> HIDE DEF k
    <3>5. kd \in Nat /\ kd + D <= ND
      <4>1. D \in Nat \ {0} /\ D * (k + 1) <= D * N
        BY <1>0, <1>1, <3>4, TimesKeepsOrder
      <4>2. D * (k + 1) = kd + D /\ D * N = ND
        BY <1>0, <1>1, <3>4 DEF ND
      <4> QED BY <1>1, <3>4, <4>1, <4>2
    <3> HIDE DEF kd
    <3>6. at.copy = at.dir + ND
      BY <1>20
    <3>7. at.dir \in Nat /\ at.copy \in Nat
      BY <1>0
    <3>8. at.dir <= at.dir + kd /\ at.dir + kd + 4 <= at.copy
      BY <1>1, <1>21, <3>5, <3>6, <3>7
    <3> QED BY <3>3, <3>8 DEF LiesIn
  <2>8. ASSUME SectionOf(n) = 8 PROVE LiesIn(R[n], at.copy, end)
    <3>1. n = 2 * M + 6
      BY <2>0, <2>8, SectionBounds, Zenon DEF M
    <3>2. end = at.copy + dir.len + 1
      BY <1>20
    <3>3. R[n].offset = at.copy /\ R[n].len = dir.len
      BY <1>4, <3>1 DEF Region
    <3> QED BY <1>0, <3>2, <3>3 DEF LiesIn
  <2>9. LiesIn(R[n], lo[SectionOf(n)], lo[SectionOf(n) + 1])
    <3>1. PICK s \in 1 .. 8 : s = SectionOf(n)
      BY <2>0
    <3>2. /\ s = 1 => LiesIn(R[n], lo[1], lo[2])
          /\ s = 2 => LiesIn(R[n], lo[2], lo[3])
          /\ s = 3 => LiesIn(R[n], lo[3], lo[4])
          /\ s = 4 => LiesIn(R[n], lo[4], lo[5])
          /\ s = 5 => LiesIn(R[n], lo[5], lo[6])
          /\ s = 6 => LiesIn(R[n], lo[6], lo[7])
          /\ s = 7 => LiesIn(R[n], lo[7], lo[8])
          /\ s = 8 => LiesIn(R[n], lo[8], lo[9])
      BY <1>27, <2>1, <2>2, <2>3, <2>4, <2>5, <2>6, <2>7, <2>8, <3>1, Zenon
    <3>3. LiesIn(R[n], lo[s], lo[s + 1])
      BY <3>2
    <3> QED BY <3>1, <3>3, Zenon
  <2> QED BY <2>0, <2>9
\* And the regions of one section are apart.
<1>9. ASSUME NEW n \in UsedOf(R), NEW m \in UsedOf(R), m < n,
             SectionOf(m) = SectionOf(n)
      PROVE  AreApart(R[m], R[n])
  <2>0. n \in 1 .. 3 * M + 6 /\ m \in 1 .. 3 * M + 6
    BY <1>4 DEF UsedOf
  <2>1. CASE SectionOf(n) = 2
    <3>1. PICK i, j : i = m - 1 /\ j = n - 1
      OBVIOUS
    <3>2. i \in I /\ R[m] = Region("file", i, W + CellsBefore(files, i), Len(files[i].cells))
      BY <1>5, <1>9, <2>1, <3>1 DEF W
    <3>3. j \in I /\ R[n] = Region("file", j, W + CellsBefore(files, j), Len(files[j].cells))
      BY <1>5, <2>1, <3>1 DEF W
    <3>4. i \in Nat /\ j \in Nat /\ i < j
      BY <1>0, <1>9, <2>0, <3>1
    <3>5. CellsBefore(files, i) + Len(files[i].cells) <= CellsBefore(files, j)
      BY <3>2, <3>4, CellsAddUp DEF I
    <3>6. /\ CellsBefore(files, i) \in Nat /\ Len(files[i].cells) \in Nat
          /\ CellsBefore(files, j) \in Nat /\ W \in Nat
      BY <1>0, <3>2, CellSetIsFinite DEF IsTable, I
    <3>7. /\ R[m].offset = W + CellsBefore(files, i) /\ R[m].len = Len(files[i].cells)
          /\ R[n].offset = W + CellsBefore(files, j)
      BY <3>2, <3>3 DEF Region
    <3>8. R[m].offset + R[m].len <= R[n].offset
      BY <3>5, <3>6, <3>7
    <3> QED BY <3>8 DEF AreApart
  <2>2. CASE SectionOf(n) = 5
    <3>1. PICK i, j : i = m - (M + 3) /\ j = n - (M + 3)
      OBVIOUS
    <3>2. i \in I /\ R[m] = Region("lookup.file", i, X + (1 + Rank(files, i)) * LookupLen,
                                   LookupLen)
      BY <1>6, <1>9, <2>2, <3>1
    <3>3. j \in I /\ R[n] = Region("lookup.file", j, X + (1 + Rank(files, j)) * LookupLen,
                                   LookupLen)
      BY <1>6, <2>2, <3>1
    <3>4. i < j
      BY <1>0, <1>9, <2>0, <3>1
    <3>5. Rank(files, i) + 1 <= Rank(files, j) /\ Rank(files, i) \in Nat /\ Rank(files, j) \in Nat
      BY <3>2, <3>3, <3>4, RanksAscend DEF I
    <3>6. /\ R[m].offset = X + (1 + Rank(files, i)) * 2 /\ R[m].len = 2
          /\ R[n].offset = X + (1 + Rank(files, j)) * 2 /\ X \in Nat
      BY <1>0, <3>2, <3>3 DEF Region, LookupLen
    <3>7. R[m].offset + R[m].len <= R[n].offset
      BY <3>5, <3>6
    <3> QED BY <3>7 DEF AreApart
  <2>3. CASE SectionOf(n) = 7
    <3>1. PICK i, j : i = m - (2 * M + 6) /\ j = n - (2 * M + 6)
      OBVIOUS
    <3>2. i \in I /\ R[m] = Region("dir.file", i, at.dir + Rank(files, i) * D, PatchDirentLen)
      BY <1>7, <1>9, <2>3, <3>1
    <3>3. j \in I /\ R[n] = Region("dir.file", j, at.dir + Rank(files, j) * D, PatchDirentLen)
      BY <1>7, <2>3, <3>1
    <3>4. i < j
      BY <1>0, <1>9, <2>0, <3>1
    <3> DEFINE a == Rank(files, i)
               b == Rank(files, j)
               ad == a * D
               bd == b * D
    <3>5. a + 1 <= b /\ a \in Nat /\ b \in Nat
      BY <3>2, <3>3, <3>4, RanksAscend DEF I
    <3>6. R[m].offset = at.dir + ad /\ R[m].len = 4 /\ R[n].offset = at.dir + bd
      BY <1>1, <3>2, <3>3 DEF Region
    <3> HIDE DEF a, b
    <3>7. ad \in Nat /\ bd \in Nat /\ ad + D <= bd
      <4>1. D \in Nat \ {0} /\ D * (a + 1) <= D * b
        BY <1>1, <3>5, TimesKeepsOrder
      <4>2. D * (a + 1) = ad + D /\ D * b = bd
        BY <1>1, <3>5
      <4> QED BY <1>1, <3>5, <4>1, <4>2
    <3> HIDE DEF ad, bd
    <3>8. at.dir \in Nat
      BY <1>0
    <3>9. R[m].offset + R[m].len <= R[n].offset
      BY <1>1, <3>6, <3>7, <3>8
    <3> QED BY <3>9 DEF AreApart
  <2>4. CASE SectionOf(n) = 6
    <3>1. m = 2 * M + 4 /\ n = 2 * M + 5
      <4>1. /\ m = 2 * M + 4 \/ m = 2 * M + 5
            /\ n = 2 * M + 4 \/ n = 2 * M + 5
        BY <1>9, <2>0, <2>4, SectionBounds, Zenon DEF M
      <4> QED BY <1>0, <1>9, <4>1
    <3>2. /\ R[m].offset = at.boot /\ R[m].len = boot.len /\ R[m].patch = "boot.copy"
      BY <1>4, <3>1 DEF Region
    <3>3. /\ R[n].offset = at.boot + dir.parent + 1 /\ R[n].len = 1
          /\ R[n].patch = "dir.subdir"
      BY <1>4, <3>1 DEF Region, SubdirAt
    <3>4. dir.parent + 4 <= boot.len /\ at.boot \in Nat
      BY <1>0 DEF DirentLen, NameLen
    <3>5. /\ at.boot < at.boot + dir.parent + 1
          /\ at.boot + dir.parent + 1 + 1 <= at.boot + boot.len
      BY <3>4, SubdirInside, Zenon
    <3> QED BY <3>2, <3>3, <3>5 DEF AreApart, Within
  <2>5. ASSUME SectionOf(n) \notin {2, 5, 6, 7} PROVE FALSE
    <3>1. SectionOf(n) \in {1, 3, 4, 8}
      <4>1. SectionOf(n) \in 1 .. 8
        BY <2>0, SectionBounds, Zenon DEF M
      <4> QED BY <2>5, <4>1
    <3>2. m = n
      <4>1. CASE SectionOf(n) = 1
        BY <1>9, <2>0, <4>1, SectionBounds, Zenon DEF M
      <4>2. CASE SectionOf(n) = 3
        BY <1>9, <2>0, <4>2, SectionBounds, Zenon DEF M
      <4>3. CASE SectionOf(n) = 4
        BY <1>9, <2>0, <4>3, SectionBounds, Zenon DEF M
      <4>4. CASE SectionOf(n) = 8
        BY <1>9, <2>0, <4>4, SectionBounds, Zenon DEF M
      <4> QED BY <3>1, <4>1, <4>2, <4>3, <4>4, Zenon
    <3> QED BY <1>0, <1>9, <2>0, <3>2
  <2> QED BY <2>1, <2>2, <2>3, <2>4, <2>5
\* Regions of two sections are apart as the sections are.
<1>10. ASSUME NEW n \in UsedOf(R), NEW m \in UsedOf(R), m < n
       PROVE  AreApart(R[m], R[n])
  <2> DEFINE s == SectionOf(m)
             t == SectionOf(n)
  <2>1. /\ s \in 1 .. 8 /\ R[m].offset \in Nat /\ R[m].len \in Nat
        /\ LiesIn(R[m], lo[s], lo[s + 1])
    BY <1>8
  <2>2. /\ t \in 1 .. 8 /\ R[n].offset \in Nat /\ R[n].len \in Nat
        /\ LiesIn(R[n], lo[t], lo[t + 1])
    BY <1>8
  <2>3. CASE s = t
    BY <1>9, <1>10, <2>3
  <2> HIDE DEF s, t
  <2>5. CASE s < t
    <3>1. R[m].offset + R[m].len <= R[n].offset
      BY <1>28, <1>29, <2>1, <2>2, <2>5, FollowApart
    <3> QED BY <3>1 DEF AreApart
  <2>6. CASE t < s
    <3>1. R[n].offset + R[n].len <= R[m].offset
      BY <1>28, <1>29, <2>1, <2>2, <2>6, FollowApart
    <3> QED BY <3>1 DEF AreApart
  <2> QED BY <2>1, <2>2, <2>3, <2>5, <2>6
<1>11. ASSUME NEW n \in UsedOf(R)
       PROVE  /\ R[n].offset + R[n].len <= end
              /\ R[n].patch = "header" \/ R[n].offset >= Len(wim)
  <2> DEFINE s == SectionOf(n)
  <2>1. /\ s \in 1 .. 8 /\ R[n].offset \in Nat /\ R[n].len \in Nat
        /\ LiesIn(R[n], lo[s], lo[s + 1])
    BY <1>8
  <2>2. ASSUME s = 1 PROVE R[n].patch = "header"
    <3>1. n = 1
      <4>1. n \in 1 .. 3 * M + 6
        BY <1>4 DEF UsedOf
      <4> QED BY <2>2, <4>1, SectionBounds, Zenon DEF M
    <3> QED BY <1>4, <3>1 DEF Region
  <2> HIDE DEF s
  <2>3. R[n].offset + R[n].len <= lo[9] /\ (s # 1 => lo[2] <= R[n].offset)
    BY <1>28, <1>29, <2>1, LiesBetween
  <2>4. R[n].offset + R[n].len <= end
    BY <1>27, <2>3
  <2>5. ASSUME s # 1 PROVE R[n].offset >= Len(wim)
    <3>1. W <= R[n].offset
      BY <1>27, <2>3, <2>5
    <3> QED BY <1>0, <2>1, <3>1 DEF W
  <2> QED BY <2>2, <2>4, <2>5
<1> QED BY <1>10, <1>11 DEF TableApart

----------------------------------------------------------------------------
(* What wim_construct_patch makes *)

\* Only injected files have regions of files.
FileRegions(R, injected) ==
  \A n \in 1 .. Len(R) : R[n].patch = "file" => R[n].opaque \in injected

\* The resources from which the patch copies have a place.
HasSources(p) ==
  p.lookup.offset \in Nat /\ p.boot.offset \in Nat /\ p.dir.offset \in Nat

IsPatch(p, injected) ==
  /\ p # NoPatch /\ p.xlen \in Nat /\ p.regions \in Seq(Regions)
  /\ HasSources(p) /\ TableApart(p.regions, p.xlen) /\ FileRegions(p.regions, injected)

LEMMA TableFileRegions ==
  ASSUME NEW files, NEW lookup, NEW boot, NEW dir, NEW at, NEW R,
         RegionsAt(R, files, lookup, boot, dir, at)
  PROVE  FileRegions(R, Injected(files))
<1> DEFINE M == VDISK_MAX_FILES
<1>0. M \in Nat /\ Indices = 1 .. M /\ Len(R) = 3 * M + 6
  BY PatchAssumption DEF Indices, RegionsAt
<1> SUFFICES ASSUME NEW n \in 1 .. 3 * M + 6, R[n].patch = "file"
             PROVE  R[n].opaque \in Injected(files)
  BY <1>0 DEF FileRegions
<1>1. CASE n = 1
  <2>1. R[1].patch = "header"
    BY DEF RegionsAt, Region
  <2> QED BY <1>1, <2>1
<1>2. ASSUME NEW i \in Indices, n = 1 + i PROVE R[n].opaque \in Injected(files)
  <2>1. R[n] = FileRegion(files, i)
    BY <1>2 DEF RegionsAt
  <2> QED BY <2>1 DEF FileRegion, Unused, Region
<1>3. CASE n = M + 2
  <2>1. R[n].patch = "lookup.copy"
    BY <1>3 DEF RegionsAt, Region
  <2> QED BY <2>1
<1>4. CASE n = M + 3
  <2>1. R[n].patch = "lookup.boot"
    BY <1>4 DEF RegionsAt, Region
  <2> QED BY <2>1
<1>5. ASSUME NEW i \in Indices, n = M + 3 + i PROVE FALSE
  <2>1. R[n] = LookupRegion(files, at.lookup + lookup.len, i)
    BY <1>5 DEF RegionsAt
  <2> QED BY <2>1 DEF LookupRegion, Unused, Region
<1>6. CASE n = 2 * M + 4
  <2>1. R[n].patch = "boot.copy"
    BY <1>6 DEF RegionsAt, Region
  <2> QED BY <2>1
<1>7. CASE n = 2 * M + 5
  <2>1. R[n].patch = "dir.subdir"
    BY <1>7 DEF RegionsAt, Region
  <2> QED BY <2>1
<1>8. CASE n = 2 * M + 6
  <2>1. R[n].patch = "dir.copy"
    BY <1>8 DEF RegionsAt, Region
  <2> QED BY <2>1
<1>9. ASSUME NEW i \in Indices, n = 2 * M + 6 + i PROVE FALSE
  <2>1. R[n] = DirentRegion(files, at.dir, i)
    BY <1>9 DEF RegionsAt
  <2> QED BY <2>1 DEF DirentRegion, Unused, Region
<1> HIDE DEF M
<1>10. \/ n = 1 \/ n - 1 \in 1 .. M \/ n = M + 2 \/ n = M + 3 \/ n - (M + 3) \in 1 .. M
       \/ n = 2 * M + 4 \/ n = 2 * M + 5 \/ n = 2 * M + 6 \/ n - (2 * M + 6) \in 1 .. M
  BY <1>0
<1>11. n = 1 + (n - 1) /\ n = M + 3 + (n - (M + 3)) /\ n = 2 * M + 6 + (n - (2 * M + 6))
  BY <1>0
<1> QED BY <1>0, <1>1, <1>2, <1>3, <1>4, <1>5, <1>6, <1>7, <1>8, <1>9, <1>10, <1>11

\* The patch that only changes the header.
LEMMA HeaderPatch ==
  ASSUME Len(wim) \in Nat, HeaderLen <= Len(wim), NEW injected
  PROVE  /\ HeaderRegions \in Seq(Regions)
         /\ TableApart(HeaderRegions, Len(wim)) /\ FileRegions(HeaderRegions, injected)
         /\ HeaderRegions[1] = Region("header", 0, 0, HeaderLen)
         /\ UsedOf(HeaderRegions) = {1}
<1> DEFINE h == <<Region("header", 0, 0, HeaderLen)>>
           L == 3 * VDISK_MAX_FILES + 5
           u == [n \in 1 .. L |-> Unused]
<1>1. L \in Nat
  BY PatchAssumption
<1> HIDE DEF L
<1>2. Region("header", 0, 0, HeaderLen) \in Regions /\ Unused \in Regions
  BY RegionTyped DEF Methods, HeaderLen, Unused
<1>3. IsPart(Regions, h, 1) /\ h[1] = Region("header", 0, 0, HeaderLen)
  BY <1>2 DEF IsPart
<1>4. IsPart(Regions, u, L) /\ \A k \in 1 .. L : u[k] = Unused
  <2>1. u \in [1 .. L -> Regions]
    BY <1>2
  <2> QED BY <1>1, <2>1 DEF IsPart
<1>5. HeaderRegions = h \o u
  BY DEF HeaderRegions, L
<1> HIDE DEF h, u
<1>6. Joins(Regions, h, 1, u, L, h \o u, 1 + L)
  BY <1>3, <1>4, ConcatAt, Zenon
<1> DEFINE R == HeaderRegions
<1>7. /\ R \in Seq(Regions) /\ Len(R) = 1 + L
      /\ R[1] = Region("header", 0, 0, HeaderLen)
      /\ \A k \in 1 .. L : R[1 + k] = Unused
  BY <1>3, <1>4, <1>5, <1>6 DEF Joins, IsPart
<1> HIDE DEF R
<1>8. ASSUME NEW n \in 1 .. Len(R), n # 1 PROVE R[n] = Unused
  <2>1. n - 1 \in 1 .. L /\ n = 1 + (n - 1)
    BY <1>1, <1>7, <1>8
  <2> QED BY <1>7, <2>1
<1>9. UsedOf(R) = {1}
  <2>1. UsedOf(R) \subseteq {1}
    BY <1>8 DEF UsedOf, Unused, Region
  <2>2. 1 \in 1 .. Len(R) /\ R[1].patch # "unused"
    BY <1>1, <1>7 DEF Region
  <2> QED BY <2>1, <2>2 DEF UsedOf
<1>10. TableApart(R, Len(wim))
  <2>1. R[1].offset = 0 /\ R[1].len = HeaderLen /\ R[1].patch = "header"
    BY <1>7 DEF Region
  <2>2. 0 + HeaderLen <= Len(wim)
    BY DEF HeaderLen
  <2> QED BY <1>9, <2>1, <2>2 DEF TableApart
<1>11. FileRegions(R, injected)
  <2>1. R[1].patch = "header"
    BY <1>7 DEF Region
  <2>2. \A n \in 1 .. Len(R) : R[n].patch # "file"
    BY <1>8, <2>1 DEF Unused, Region
  <2> QED BY <2>2 DEF FileRegions
<1> QED BY <1>7, <1>9, <1>10, <1>11 DEF R

\* The patch that injects files, for a layout of the patched file.
IsInjecting(p, files, s, dir, at) ==
  /\ IsLayout(files, s.header.lookup, s.boot, dir, at, p.xlen)
  /\ RegionsAt(p.regions, files, s.header.lookup, s.boot, dir, at)
  /\ p.lookup = s.header.lookup /\ p.boot = s.boot
  /\ p.dir = [parent |-> dir.parent, offset |-> dir.offset, len |-> dir.len,
              subdir |-> at.dir - at.boot]
  /\ LET lookup_len == s.header.lookup.len + (1 + Cardinality(Injected(files))) * LookupLen
         boot_len   == p.xlen - at.boot
     IN  /\ p.header.lookup = Resource(at.lookup, lookup_len, lookup_len, FALSE, FALSE)
         /\ p.header.boot = Resource(at.boot, boot_len, boot_len, FALSE, TRUE)

LEMMA InjectingLayout ==
  ASSUME NEW files, IsTable(files), IsWim(wim), HeaderLen <= Len(wim),
         NEW index, NEW count, NEW s, s.header \in wim_header(wim),
         IsSound(wim, s.header.lookup), IsSound(wim, s.boot),
         NEW dir \in InjectDirs(s.boot)
  PROVE  LET p == InjectingPatch(files, index, s, count, dir)
         IN  /\ \E at : IsInjecting(p, files, s, dir, at)
             /\ p.header.boot_index = count + 1 /\ p.header.images = count + 1
<1> DEFINE p      == InjectingPatch(files, index, s, count, dir)
           n      == Cardinality(Injected(files))
           lookup == s.header.lookup
           boot   == s.boot
           lookup_len  == lookup.len + (1 + n) * LookupLen
           boot_offset == wim_align(lookup_offset(files) + lookup_len)
           dir_offset  == wim_align(boot_offset + boot.len)
           copy_offset == dir_offset + n * wim_align(PatchDirentLen)
           end == copy_offset + dir.len + LengthLen
           at  == [lookup |-> lookup_offset(files), boot |-> boot_offset,
                   dir |-> dir_offset, copy |-> copy_offset]
           R   == InjectedRegions(files, lookup, boot, dir, at)
<1>1. /\ Len(wim) \in Nat /\ lookup.len \in Nat /\ boot.len \in Nat
      /\ lookup.offset \in Nat /\ boot.offset \in Nat
  BY DEF IsWim, HoldsFields, IsSound, Resources
<1>2. /\ dir.parent \in Nat /\ dir.offset \in Nat /\ dir.len \in Nat
      /\ dir.parent + DirentLen + NameLen <= boot.len
  BY InjectDirInside
<1>3. n \in Nat
  BY InjectedIsFinite
<1>4. /\ p.regions = R /\ p.xlen = end /\ p.lookup = lookup /\ p.boot = boot
      /\ p.dir = [parent |-> dir.parent, offset |-> dir.offset, len |-> dir.len,
                  subdir |-> dir_offset - boot_offset]
  BY DEF InjectingPatch, Patch
<1>5. p.header = [SelectingHeader(s, index) EXCEPT
                    !.images = count + 1, !.boot_index = count + 1,
                    !.lookup = Resource(at.lookup, lookup_len, lookup_len, FALSE, FALSE),
                    !.boot = Resource(at.boot, end - at.boot, end - at.boot, FALSE, TRUE)]
  BY DEF InjectingPatch, Patch
<1> HIDE DEF p
<1>7. IsLayout(files, lookup, boot, dir, at, end)
  <2> DEFINE c == CellsBefore(files, VDISK_MAX_FILES + 1)
             x == Len(wim) + c
             y == lookup_offset(files) + lookup_len
             z == boot_offset + boot.len
             nd == n * wim_align(PatchDirentLen)
  <2>1. c \in Nat
    BY CellSetIsFinite
  <2>2. lookup_offset(files) \in Nat /\ x <= lookup_offset(files)
    <3>1. x \in Nat
      BY <1>1, <2>1
    <3>2. lookup_offset(files) = wim_align(x)
      BY DEF lookup_offset
    <3> HIDE DEF x
    <3> QED BY <3>1, <3>2, AlignUp
  <2>3. lookup_len \in Nat
    BY <1>1, <1>3 DEF LookupLen
  <2>4. y \in Nat /\ boot_offset \in Nat /\ y <= boot_offset
    <3>1. y \in Nat
      BY <2>2, <2>3
    <3> HIDE DEF y
    <3>2. wim_align(y) \in Nat /\ y <= wim_align(y)
      BY <3>1, AlignUp
    <3> QED BY <3>1, <3>2 DEF y
  <2>5. z \in Nat /\ dir_offset \in Nat /\ z <= dir_offset
    <3>1. z \in Nat
      <4> HIDE DEF boot_offset
      <4> QED BY <1>1, <2>4
    <3> HIDE DEF z
    <3>2. wim_align(z) \in Nat /\ z <= wim_align(z)
      BY <3>1, AlignUp
    <3> QED BY <3>1, <3>2 DEF z
  <2>6. nd \in Nat
    <3>1. PatchDirentLen \in Nat
      BY DEF PatchDirentLen, DirentLen, NameLen
    <3>2. wim_align(PatchDirentLen) \in Nat
      BY <3>1, AlignUp
    <3> HIDE DEF n
    <3> QED BY <1>3, <3>2
  <2>7. copy_offset = dir_offset + nd
    OBVIOUS
  <2> HIDE DEF nd, dir_offset
  <2>8. copy_offset \in Nat
    BY <2>5, <2>6, <2>7
  <2>9. end = copy_offset + dir.len + LengthLen /\ end \in Nat
    <3> HIDE DEF copy_offset
    <3> QED BY <1>2, <2>8 DEF LengthLen
  <2> HIDE DEF copy_offset, end, boot_offset
  <2>10. /\ at.lookup = lookup_offset(files) /\ at.boot = boot_offset
         /\ at.dir = dir_offset /\ at.copy = copy_offset
    OBVIOUS
  <2>11. lookup_offset(files) + lookup.len + (1 + n) * LookupLen <= boot_offset
    <3>1. lookup_offset(files) + lookup.len + (1 + n) * LookupLen = y
      <4> HIDE DEF n
      <4> QED BY <1>1, <1>3, <2>2 DEF LookupLen
    <3> HIDE DEF y
    <3> QED BY <2>4, <3>1
  <2>12. boot_offset + boot.len <= dir_offset
    BY <2>5
  <2>13. Len(wim) + CellsBefore(files, VDISK_MAX_FILES + 1) <= lookup_offset(files)
    BY <2>2
  <2>14. copy_offset = dir_offset + n * wim_align(PatchDirentLen)
    BY <2>7 DEF nd
  <2> HIDE DEF n, at
  <2> QED BY <2>2, <2>4, <2>5, <2>8, <2>9, <2>10, <2>11, <2>12, <2>13, <2>14 DEF IsLayout, n
<1>8. /\ at.lookup \in Nat /\ at.boot \in Nat /\ at.dir \in Nat /\ at.copy \in Nat
      /\ end \in Nat
  BY <1>7, Zenon DEF IsLayout
<1>9. dir_offset - boot_offset = at.dir - at.boot
  OBVIOUS
<1> HIDE DEF at, end, lookup, boot
<1>10. RegionsAt(R, files, lookup, boot, dir, at)
  BY <1>1, <1>2, <1>8, RegionTable, Zenon
<1> HIDE DEF R
<1>11. /\ p.header.images = count + 1 /\ p.header.boot_index = count + 1
       /\ p.header.lookup = Resource(at.lookup, lookup_len, lookup_len, FALSE, FALSE)
       /\ p.header.boot = Resource(at.boot, end - at.boot, end - at.boot, FALSE, TRUE)
  <2>1. DOMAIN SelectingHeader(s, index) = {"lookup", "boot", "boot_index", "images"}
    <3>1. DOMAIN s.header = {"lookup", "boot", "boot_index", "images"}
      BY DEF wim_header
    <3> QED BY <3>1 DEF SelectingHeader
  <2> QED BY <1>5, <2>1
<1>12. IsInjecting(p, files, s, dir, at)
  BY <1>4, <1>7, <1>9, <1>10, <1>11, Zenon DEF IsInjecting, lookup, boot
<1> QED BY <1>11, <1>12 DEF p

LEMMA InjectingIsPatch ==
  ASSUME NEW files, IsTable(files), IsWim(wim), HeaderLen <= Len(wim),
         NEW index, NEW count, NEW s, s.header \in wim_header(wim),
         IsSound(wim, s.header.lookup), IsSound(wim, s.boot),
         NEW dir \in InjectDirs(s.boot)
  PROVE  IsPatch(InjectingPatch(files, index, s, count, dir), Injected(files))
<1> DEFINE p == InjectingPatch(files, index, s, count, dir)
<1>1. PICK at : IsInjecting(p, files, s, dir, at)
  BY InjectingLayout
<1>2. /\ Len(wim) \in Nat /\ s.header.lookup.len \in Nat /\ s.boot.len \in Nat
      /\ s.header.lookup.offset \in Nat /\ s.boot.offset \in Nat
  BY DEF IsWim, HoldsFields, IsSound, Resources
<1>3. /\ dir.parent \in Nat /\ dir.offset \in Nat /\ dir.len \in Nat
      /\ dir.parent + DirentLen + NameLen <= s.boot.len
  BY InjectDirInside
<1>4. p # NoPatch
  <2>1. "header" \in DOMAIN p
    BY DEF InjectingPatch, Patch
  <2>2. "header" \notin DOMAIN NoPatch
    BY DEF NoPatch
  <2> HIDE DEF p
  <2> QED BY <2>1, <2>2
<1> HIDE DEF p
<1>5. TableApart(p.regions, p.xlen)
  BY <1>1, <1>2, <1>3, LayoutApart, Zenon DEF IsInjecting
<1>6. FileRegions(p.regions, Injected(files))
  BY <1>1, TableFileRegions, Zenon DEF IsInjecting
<1>7. p.regions \in Seq(Regions) /\ p.xlen \in Nat
  BY <1>1, Zenon DEF IsInjecting, RegionsAt, IsLayout
<1>8. HasSources(p)
  <2>1. p.lookup = s.header.lookup /\ p.boot = s.boot /\ p.dir.offset = dir.offset
    BY <1>1 DEF IsInjecting
  <2> QED BY <1>2, <1>3, <2>1 DEF HasSources
<1>9. IsPatch(p, Injected(files))
  BY <1>4, <1>5, <1>6, <1>7, <1>8, Zenon DEF IsPatch
<1> QED BY <1>9 DEF p

LEMMA PatchMade ==
  ASSUME NEW files, IsTable(files), IsWim(wim), NEW index, NEW inject,
         NEW p \in wim_construct_patch(files, index, inject)
  PROVE  IsPatch(p, Injected(files))
<1>1. PICK s \in Selections(index) :
        p \in IF ~inject \/ Injected(files) = {}
                THEN {Patch(SelectingHeader(s, index), s, NoDir, HeaderRegions, Len(wim))}
                ELSE {InjectingPatch(files, index, s, count, dir) :
                        count \in wim_count(wim, s.header), dir \in InjectDirs(s.boot)}
  BY DEF wim_construct_patch
<1>2. PICK h \in wim_header(wim) : \E b \in wim_metadata(wim, h, index) :
        s = [header |-> h, boot |-> b]
  BY DEF Selections
<1>3. PICK b \in wim_metadata(wim, h, index) : s = [header |-> h, boot |-> b]
  BY <1>2
<1>4. s.header = h /\ s.boot = b
  BY <1>3
<1>5. /\ IsSound(wim, s.header.lookup) /\ IsSound(wim, s.boot)
      /\ HeaderLen <= Len(wim) /\ Len(wim) \in Nat /\ s.header \in wim_header(wim)
  BY <1>4, HeaderSound, MetadataSound
<1>6. CASE ~inject \/ Injected(files) = {}
  <2>1. p = Patch(SelectingHeader(s, index), s, NoDir, HeaderRegions, Len(wim))
    BY <1>1, <1>6
  <2>2. /\ p.regions = HeaderRegions /\ p.xlen = Len(wim) /\ p.dir.offset = 0
        /\ p.lookup = s.header.lookup /\ p.boot = s.boot
    BY <2>1 DEF Patch, NoDir
  <2>3. p # NoPatch
    <3>1. "header" \in DOMAIN p /\ "header" \notin DOMAIN NoPatch
      BY <2>1 DEF Patch, NoPatch
    <3> QED BY <3>1
  <2>4. HasSources(p)
    BY <1>5, <2>2 DEF HasSources, IsSound, Resources
  <2> QED BY <1>5, <2>2, <2>3, <2>4, HeaderPatch DEF IsPatch
<1>7. CASE ~(~inject \/ Injected(files) = {})
  <2>1. PICK count \in wim_count(wim, s.header), dir \in InjectDirs(s.boot) :
          p = InjectingPatch(files, index, s, count, dir)
    BY <1>1, <1>7
  <2> QED BY <1>5, <2>1, InjectingIsPatch
<1> QED BY <1>6, <1>7

----------------------------------------------------------------------------
(* The table of files, and the one patch *)

\* A file that is added is the last.
LEMMA AppendFile ==
  ASSUME NEW S, NEW files \in Seq(S), NEW f
  PROVE  /\ Append(files, f) \in Seq(S \union {f}) /\ Len(files) \in Nat
         /\ Len(Append(files, f)) = Len(files) + 1
         /\ \A i \in 1 .. Len(files) : Append(files, f)[i] = files[i]
         /\ Append(files, f)[Len(files) + 1] = f
<1>1. files \in Seq(S \union {f}) /\ f \in S \union {f} /\ Len(files) \in Nat
  OBVIOUS
<1> QED BY <1>1, AppendProperties

LEMMA TableAppend ==
  ASSUME NEW S, NEW files \in Seq(S), IsTable(files), NEW f,
         Len(files) < VDISK_MAX_FILES, wim_inject_file(f) => Len(f.cells) \in Nat
  PROVE  /\ IsTable(Append(files, f))
         /\ ~wim_inject_file(f) => Injected(Append(files, f)) = Injected(files)
<1> DEFINE new == Append(files, f)
<1>1. /\ Len(files) \in Nat /\ Len(new) = Len(files) + 1
      /\ \A i \in 1 .. Len(files) : new[i] = files[i]
      /\ new[Len(files) + 1] = f
  BY AppendFile
<1>2. VDISK_MAX_FILES \in Nat
  BY PatchAssumption
<1> HIDE DEF new
<1>3. Injected(new) \subseteq Injected(files) \union {Len(files) + 1}
  BY <1>1 DEF Injected
<1>4. Injected(files) \subseteq Injected(new)
  BY <1>1 DEF Injected
<1>5. Len(files) + 1 \in Injected(new) => wim_inject_file(f)
  BY <1>1 DEF Injected
<1>6. ASSUME NEW i \in Injected(new) PROVE Len(new[i].cells) \in Nat
  <2>1. CASE i \in Injected(files)
    <3>1. i \in 1 .. Len(files)
      BY <2>1 DEF Injected
    <3> QED BY <1>1, <2>1, <3>1 DEF IsTable
  <2>2. CASE i = Len(files) + 1
    BY <1>1, <1>5, <2>2
  <2> QED BY <1>3, <2>1, <2>2
<1>7. Len(new) \in 0 .. VDISK_MAX_FILES
  BY <1>1, <1>2
<1>8. ASSUME ~wim_inject_file(f) PROVE Injected(new) = Injected(files)
  BY <1>3, <1>4, <1>5, <1>8
<1> QED BY <1>6, <1>7, <1>8 DEF IsTable, new

\* The files that were loaded come first; those extracted from the WIM have names of
\* their own, and are not injected into it.
FilesInv ==
  /\ \E S : vdisk_files \in Seq(S)
  /\ IsTable(vdisk_files)
  /\ wim_file_idx \in 0 .. Len(vdisk_files)
  /\ pc = "load" => wim_file_idx = 0
  /\ \A i \in Len(vdisk_files) - wim_file_idx + 1 .. Len(vdisk_files) :
       /\ ~wim_inject_file(vdisk_files[i])
       /\ \A j \in 1 .. i - 1 : vdisk_files[j].name # vdisk_files[i].name

\* The patch, once there is one, is of the files that are injected, and the length of
\* the file is its length.
PatchInv ==
  /\ wim \in Wims /\ xlen \in Nat
  /\ cached_patch # NoPatch =>
       IsPatch(cached_patch, Injected(vdisk_files)) /\ xlen = cached_patch.xlen

\* It is made when the method is recorded, if the command line asks for one.
PhaseInv ==
  /\ pc \in {"load", "loaded"} => cached_patch = NoPatch
  /\ ~PatchRequired => cached_patch = NoPatch
  /\ pc \in {"patched", "idle", "patch"} /\ PatchRequired => cached_patch # NoPatch
  /\ pc = "patch" => PatchRequired

OnceInv == FilesInv /\ PatchInv /\ PhaseInv

LEMMA OnceInit == Init => OnceInv
<1> SUFFICES ASSUME Init PROVE OnceInv
  OBVIOUS
<1>1. VDISK_MAX_FILES \in Nat \ {0}
  BY PatchAssumption
<1>2. vdisk_files = <<BootWim(wim)>> /\ wim_file_idx = 0
  BY DEF Init
<1>3. vdisk_files \in Seq({BootWim(wim)}) /\ Len(vdisk_files) = 1
      /\ vdisk_files[1] = BootWim(wim)
  BY <1>2
<1>4. ~wim_inject_file(BootWim(wim))
  BY DEF wim_inject_file, BootWim, IgnoredExtensions
<1>5. Injected(vdisk_files) = {}
  BY <1>3, <1>4 DEF Injected
<1>6. FilesInv
  <2>1. \E S : vdisk_files \in Seq(S)
    BY <1>3
  <2>2. IsTable(vdisk_files)
    BY <1>1, <1>3, <1>5 DEF IsTable
  <2> QED BY <1>2, <1>3, <2>1, <2>2 DEF FilesInv
<1>7. wim \in Wims /\ IsWim(wim) /\ xlen = Len(wim)
  BY PatchAssumption DEF Init
<1>8. PatchInv
  BY <1>7 DEF Init, PatchInv, IsWim, HoldsFields
<1>9. PhaseInv
  BY DEF Init, PhaseInv
<1> QED BY <1>6, <1>8, <1>9 DEF OnceInv

\* A step that leaves the tables and the patch alone.
LEMMA FilesKept ==
  ASSUME FilesInv, vdisk_files' = vdisk_files, wim_file_idx' = wim_file_idx,
         pc' = "load" => pc = "load"
  PROVE  FilesInv'
BY DEF FilesInv, IsTable, Injected

LEMMA PatchKept ==
  ASSUME PatchInv, wim' = wim, xlen' = xlen, cached_patch' = cached_patch,
         Injected(vdisk_files)' = Injected(vdisk_files)
  PROVE  PatchInv'
<1>1. IsPatch(cached_patch, Injected(vdisk_files))' <=>
        IsPatch(cached_patch, Injected(vdisk_files))
  BY DEF IsPatch, TableApart, FileRegions, HasSources, UsedOf, AreApart, Within
<1> QED BY <1>1 DEF PatchInv

\* patch_wim makes the patch if it is required and there is none yet.
LEMMA PatchUpdated ==
  ASSUME FilesInv, PatchInv, NEW p \in UpdatedPatch, SetPatch(p),
         wim' = wim, vdisk_files' = vdisk_files
  PROVE  /\ PatchInv' /\ cached_patch' = p
         /\ PatchRequired => p # NoPatch
         /\ ~PatchRequired \/ cached_patch # NoPatch => p = cached_patch
<1>0. cached_patch' = p /\ xlen' = IF p = NoPatch THEN xlen ELSE p.xlen
  BY DEF SetPatch
<1>1. Injected(vdisk_files)' = Injected(vdisk_files)
  BY DEF Injected
<1>2. CASE ~PatchRequired \/ cached_patch # NoPatch
  <2>1. p = cached_patch
    BY <1>2 DEF UpdatedPatch
  <2>2. xlen' = xlen /\ cached_patch' = cached_patch
    BY <1>0, <2>1 DEF PatchInv
  <2>3. PatchInv'
    BY <1>1, <2>2, PatchKept
  <2> QED BY <1>0, <1>2, <2>1, <2>3
<1>3. CASE ~(~PatchRequired \/ cached_patch # NoPatch)
  <2>1. p \in wim_construct_patch(vdisk_files, cmdline_index, ~cmdline_rawwim)
    BY <1>3 DEF UpdatedPatch
  <2>2. IsWim(wim) /\ IsTable(vdisk_files)
    BY PatchAssumption DEF PatchInv, FilesInv
  <2> DEFINE inject == ~cmdline_rawwim
  <2>3. p \in wim_construct_patch(vdisk_files, cmdline_index, inject)
    BY <2>1
  <2> HIDE DEF inject
  <2>4. IsPatch(p, Injected(vdisk_files))
    BY <2>2, <2>3, PatchMade
  <2>5. p # NoPatch /\ p.xlen \in Nat
    BY <2>4 DEF IsPatch
  <2>6. xlen' = p.xlen
    BY <1>0, <2>5
  <2>7. IsPatch(cached_patch, Injected(vdisk_files))' <=>
          IsPatch(p, Injected(vdisk_files))
    BY <1>0, <1>1 DEF IsPatch, TableApart, FileRegions, HasSources, UsedOf, AreApart, Within
  <2>8. PatchInv'
    BY <1>0, <2>4, <2>5, <2>6, <2>7 DEF PatchInv
  <2> QED BY <1>0, <1>3, <2>5, <2>8
<1> QED BY <1>2, <1>3

\* A file is added to the table.
LEMMA OnceAddFile ==
  ASSUME OnceInv, NEW f \in LoadedFiles, add_file(f)
  PROVE  OnceInv'
<1>1. /\ pc = "load" /\ pc' = pc /\ Len(vdisk_files) < VDISK_MAX_FILES
      /\ vdisk_files' = Append(vdisk_files, f) /\ wim_file_idx' = wim_file_idx
      /\ xlen' = xlen /\ cached_patch' = cached_patch /\ wim' = wim
      /\ cmdline_index' = cmdline_index /\ cmdline_rawwim' = cmdline_rawwim
  BY DEF add_file, Given
<1>2. wim_file_idx = 0 /\ cached_patch = NoPatch /\ Len(f.cells) \in Nat
  BY <1>1, PatchAssumption DEF OnceInv, FilesInv, PhaseInv
<1>3. PICK S : vdisk_files \in Seq(S)
  BY DEF OnceInv, FilesInv
<1>4. IsTable(Append(vdisk_files, f))
  BY <1>1, <1>2, <1>3, TableAppend DEF OnceInv, FilesInv
<1>5. Append(vdisk_files, f) \in Seq(S \union {f})
  BY <1>3, AppendFile
<1>6. FilesInv'
  <2>1. \E T : vdisk_files' \in Seq(T)
    BY <1>1, <1>5
  <2>2. IsTable(vdisk_files')
    BY <1>1, <1>4
  <2>3. IsTable(vdisk_files)' <=> IsTable(vdisk_files')
    BY DEF IsTable, Injected
  <2>4. Len(vdisk_files') \in Nat
    BY <2>2 DEF IsTable
  <2> QED BY <1>1, <1>2, <2>1, <2>2, <2>3, <2>4 DEF FilesInv
<1>7. PatchInv'
  BY <1>1, <1>2 DEF OnceInv, PatchInv
<1>8. PhaseInv'
  BY <1>1, <1>2 DEF OnceInv, PhaseInv, PatchRequired
<1> QED BY <1>6, <1>7, <1>8 DEF OnceInv

LEMMA OnceWimAddFile ==
  ASSUME OnceInv, NEW path \in wim_paths, wim_add_file(path)
  PROVE  OnceInv'
<1>1. /\ pc \in {"loaded", "patched"} /\ pc' = pc /\ Len(vdisk_files) < VDISK_MAX_FILES
      /\ Extracts(path) /\ wim_file_idx' = wim_file_idx + 1
      /\ xlen' = xlen /\ cached_patch' = cached_patch /\ wim' = wim
      /\ cmdline_index' = cmdline_index /\ cmdline_rawwim' = cmdline_rawwim
  BY DEF wim_add_file, Given
<1>2. PICK res \in ResourcesAt(path) :
        vdisk_files' = Append(vdisk_files,
          [name |-> FileAt(path).name, ext |-> FileAt(path).ext,
           cells |-> [k \in 1 .. res.len |-> [from |-> res, at |-> k]]])
  BY DEF wim_add_file
<1> DEFINE f == [name |-> FileAt(path).name, ext |-> FileAt(path).ext,
                 cells |-> [k \in 1 .. res.len |-> [from |-> res, at |-> k]]]
           L == Len(vdisk_files)
<1>3. vdisk_files' = Append(vdisk_files, f) /\ f.name = FileAt(path).name
  BY <1>2
<1>4. ~wim_inject_file(f)
  BY ExtractAssumption DEF wim_inject_file
<1> HIDE DEF f
<1>5. PICK S : vdisk_files \in Seq(S)
  BY DEF OnceInv, FilesInv
<1>6. IsTable(vdisk_files') /\ Injected(vdisk_files') = Injected(vdisk_files)
  BY <1>1, <1>3, <1>4, <1>5, TableAppend DEF OnceInv, FilesInv
<1>7. /\ vdisk_files' \in Seq(S \union {f}) /\ L \in Nat /\ Len(vdisk_files') = L + 1
      /\ \A i \in 1 .. L : vdisk_files'[i] = vdisk_files[i]
      /\ vdisk_files'[L + 1] = f
  BY <1>3, <1>5, AppendFile
<1>8. \A j \in 1 .. L : vdisk_files[j].name # FileAt(path).name
  BY <1>1 DEF Extracts, Names
<1>9. /\ wim_file_idx \in 0 .. L
      /\ \A i \in L - wim_file_idx + 1 .. L :
           /\ ~wim_inject_file(vdisk_files[i])
           /\ \A j \in 1 .. i - 1 : vdisk_files[j].name # vdisk_files[i].name
  BY DEF OnceInv, FilesInv
<1> HIDE DEF L
<1>10. \A i \in (L + 1) - (wim_file_idx + 1) + 1 .. L + 1 :
         /\ ~wim_inject_file(vdisk_files'[i])
         /\ \A j \in 1 .. i - 1 : vdisk_files'[j].name # vdisk_files'[i].name
  <2> SUFFICES ASSUME NEW i \in (L + 1) - (wim_file_idx + 1) + 1 .. L + 1
               PROVE  /\ ~wim_inject_file(vdisk_files'[i])
                      /\ \A j \in 1 .. i - 1 :
                           vdisk_files'[j].name # vdisk_files'[i].name
    OBVIOUS
  <2>1. CASE i = L + 1
    <3>1. \A j \in 1 .. i - 1 : j \in 1 .. L
      BY <1>7, <2>1
    <3> QED BY <1>3, <1>4, <1>7, <1>8, <2>1, <3>1
  <2>2. CASE i # L + 1
    <3>1. i \in L - wim_file_idx + 1 .. L /\ i \in 1 .. L
      BY <1>7, <1>9, <2>2
    <3>2. \A j \in 1 .. i - 1 : j \in 1 .. L
      BY <1>7, <3>1
    <3> QED BY <1>7, <1>9, <3>1, <3>2
  <2> QED BY <2>1, <2>2
<1>11. FilesInv'
  <2>1. \E T : vdisk_files' \in Seq(T)
    BY <1>7
  <2>2. IsTable(vdisk_files)' <=> IsTable(vdisk_files')
    BY DEF IsTable, Injected
  <2>3. wim_file_idx' \in 0 .. Len(vdisk_files')
    BY <1>1, <1>7, <1>9
  <2>4. Len(vdisk_files') - wim_file_idx' + 1 = (L + 1) - (wim_file_idx + 1) + 1
    BY <1>1, <1>7
  <2>5. pc' # "load"
    BY <1>1
  <2>6. \A i \in Len(vdisk_files') - wim_file_idx' + 1 .. Len(vdisk_files') :
          /\ ~wim_inject_file(vdisk_files'[i])
          /\ \A j \in 1 .. i - 1 : vdisk_files'[j].name # vdisk_files'[i].name
    BY <1>7, <1>10, <2>4, Zenon
  <2>7. \A i : wim_inject_file(vdisk_files[i])' <=> wim_inject_file(vdisk_files'[i])
    BY DEF wim_inject_file
  <2> QED BY <1>6, <2>1, <2>2, <2>3, <2>5, <2>6, <2>7, Zenon DEF FilesInv
<1>12. Injected(vdisk_files)' = Injected(vdisk_files)
  BY <1>6 DEF Injected
<1>13. PatchInv'
  BY <1>1, <1>12, PatchKept DEF OnceInv
<1>14. PhaseInv'
  BY <1>1 DEF OnceInv, PhaseInv, PatchRequired
<1> QED BY <1>11, <1>13, <1>14 DEF OnceInv

\* A step that leaves the files and the patch as they are.
LEMMA OnceKept ==
  ASSUME OnceInv, UNCHANGED <<Given, vdisk_files, wim_file_idx, xlen, cached_patch>>,
         pc' = "load" => pc = "load", pc' = "loaded" => pc \in {"load", "loaded"},
         pc' \in {"patched", "idle", "patch"} => pc \in {"patched", "idle", "patch"},
         pc' = "patch" => pc = "patch"
  PROVE  OnceInv'
<1>1. /\ vdisk_files' = vdisk_files /\ wim_file_idx' = wim_file_idx /\ xlen' = xlen
      /\ cached_patch' = cached_patch /\ wim' = wim
      /\ cmdline_index' = cmdline_index /\ cmdline_rawwim' = cmdline_rawwim
  BY DEF Given
<1>2. FilesInv'
  BY <1>1, FilesKept DEF OnceInv
<1>3. Injected(vdisk_files)' = Injected(vdisk_files)
  BY <1>1 DEF Injected
<1>4. PatchInv'
  BY <1>1, <1>3, PatchKept DEF OnceInv
<1>5. PhaseInv'
  BY <1>1 DEF OnceInv, PhaseInv, PatchRequired
<1> QED BY <1>2, <1>4, <1>5 DEF OnceInv

LEMMA OnceNext == OnceInv /\ [Next]_vars => OnceInv'
<1> SUFFICES ASSUME OnceInv, [Next]_vars PROVE OnceInv'
  OBVIOUS
<1>1. ASSUME NEW f \in LoadedFiles, add_file(f) PROVE OnceInv'
  BY <1>1, OnceAddFile
<1>2. ASSUME NEW f \in LoadedFiles, add_file_die(f) PROVE OnceInv'
  BY <1>2, OnceKept DEF add_file_die
<1>3. CASE EndOfFiles
  BY <1>3, OnceKept DEF EndOfFiles
<1>4. CASE vdisk_patch_file
  <2>1. PICK p \in UpdatedPatch : SetPatch(p)
    BY <1>4 DEF vdisk_patch_file
  <2>2. /\ pc = "loaded" /\ pc' = "patched" /\ wim' = wim
        /\ vdisk_files' = vdisk_files /\ wim_file_idx' = wim_file_idx
        /\ cmdline_index' = cmdline_index /\ cmdline_rawwim' = cmdline_rawwim
    BY <1>4 DEF vdisk_patch_file, Given
  <2>3. /\ PatchInv' /\ cached_patch' = p /\ (PatchRequired => p # NoPatch)
        /\ (~PatchRequired \/ cached_patch # NoPatch => p = cached_patch)
    BY <2>1, <2>2, PatchUpdated DEF OnceInv
  <2>4. FilesInv'
    BY <2>2, FilesKept DEF OnceInv
  <2>5. PhaseInv'
    BY <2>2, <2>3 DEF OnceInv, PhaseInv, PatchRequired
  <2> QED BY <2>3, <2>4, <2>5 DEF OnceInv
<1>5. CASE vdisk_patch_file_die
  BY <1>5, OnceKept DEF vdisk_patch_file_die
<1>6. ASSUME NEW path \in wim_paths, wim_add_file(path) PROVE OnceInv'
  BY <1>6, OnceWimAddFile
<1>7. ASSUME NEW path \in wim_paths, wim_add_file_die(path) PROVE OnceInv'
  BY <1>7, OnceKept DEF wim_add_file_die
<1>8. CASE Install
  BY <1>8, OnceKept DEF Install
<1>9. ASSUME NEW w \in Windows, ReadWindow(w) PROVE OnceInv'
  <2>1. PICK p \in UpdatedPatch : SetPatch(p)
    BY <1>9 DEF ReadWindow
  <2>2. /\ pc = "idle" /\ pc' = IF PatchRequired THEN "patch" ELSE "idle"
        /\ wim' = wim /\ vdisk_files' = vdisk_files /\ wim_file_idx' = wim_file_idx
        /\ cmdline_index' = cmdline_index /\ cmdline_rawwim' = cmdline_rawwim
    BY <1>9 DEF ReadWindow, Given
  <2>3. /\ PatchInv' /\ cached_patch' = p /\ (PatchRequired => p # NoPatch)
        /\ (~PatchRequired \/ cached_patch # NoPatch => p = cached_patch)
    BY <2>1, <2>2, PatchUpdated DEF OnceInv
  <2>4. FilesInv'
    BY <2>2, FilesKept DEF OnceInv
  <2>5. PhaseInv'
    BY <2>2, <2>3 DEF OnceInv, PhaseInv, PatchRequired
  <2> QED BY <2>3, <2>4, <2>5 DEF OnceInv
<1>10. CASE RegionSkipped
  BY <1>10, OnceKept DEF RegionSkipped
<1>11. CASE RegionPatched
  BY <1>11, OnceKept DEF RegionPatched
<1>12. CASE RegionFailed
  BY <1>12, OnceKept DEF RegionFailed
<1>13. CASE PatchReturns
  BY <1>13, OnceKept DEF PatchReturns
<1>14. CASE UNCHANGED vars
  BY <1>14, OnceKept DEF vars, Given
<1> QED BY <1>1, <1>2, <1>3, <1>4, <1>5, <1>6, <1>7, <1>8, <1>9, <1>10, <1>11, <1>12,
           <1>13, <1>14 DEF Next

LEMMA OnceAlways == Spec => []OnceInv
BY OnceInit, OnceNext, PTL DEF Spec

----------------------------------------------------------------------------
(* What follows from it *)

\* The boot manager may rely on the length of the WIM that the directory and the FAT
\* show from the first read on: patch_wim sets file->xlen when the patch method is
\* recorded, and never again.
THEOREM PatchedOnce == Spec => LengthIsFinal
<1>1. ASSUME OnceInv, [Next]_vars, pc \in {"idle", "patch"}
      PROVE  xlen' = xlen
  <2>1. PatchRequired => cached_patch # NoPatch
    BY <1>1 DEF OnceInv, PhaseInv
  <2>2. ASSUME NEW w \in Windows, ReadWindow(w) PROVE xlen' = xlen
    <3>1. PICK p \in UpdatedPatch : SetPatch(p)
      BY <2>2 DEF ReadWindow
    <3>2. p = cached_patch
      BY <2>1 DEF UpdatedPatch
    <3> QED BY <1>1, <3>1, <3>2 DEF SetPatch, OnceInv, PatchInv
  <2>3. ASSUME Next, \A w \in Windows : ~ReadWindow(w) PROVE xlen' = xlen
    BY <1>1, <2>3
       DEF Next, add_file, add_file_die, EndOfFiles, vdisk_patch_file,
           vdisk_patch_file_die, wim_add_file, wim_add_file_die, Install,
           RegionSkipped, RegionPatched, RegionFailed, PatchReturns
  <2> QED BY <1>1, <2>2, <2>3 DEF vars
<1>2. OnceInv /\ [Next]_vars => [(pc \in {"idle", "patch"}) => (xlen' = xlen)]_vars
  BY <1>1
<1> QED BY <1>2, OnceAlways, PTL DEF Spec, LengthIsFinal

\* Files from the WIM never take the place of loaded ones, nor come to be injected
\* into the WIM again, whatever is loaded and in whichever order main and efi_extract
\* patch and extract.
THEOREM LoadedFilesAreKept == Spec => []LoadedFilesWin
<1>1. ASSUME OnceInv PROVE LoadedFilesWin
  <2> DEFINE L == Len(vdisk_files)
             loaded == L - wim_file_idx
  <2>1. /\ L \in Nat /\ wim_file_idx \in 0 .. L
        /\ \A i \in loaded + 1 .. L :
             /\ ~wim_inject_file(vdisk_files[i])
             /\ \A j \in 1 .. i - 1 : vdisk_files[j].name # vdisk_files[i].name
    BY <1>1, PatchAssumption DEF OnceInv, FilesInv, IsTable
  <2>2. ASSUME NEW i \in InjectedFiles PROVE i <= loaded
    <3>1. /\ i \in 1 .. L
          /\ \E n \in Used : /\ cached_patch.regions[n].patch = "file"
                             /\ cached_patch.regions[n].opaque = i
      BY DEF InjectedFiles
    <3>2. PICK n \in 1 .. Len(cached_patch.regions) :
            /\ cached_patch.regions[n].patch = "file"
            /\ cached_patch.regions[n].opaque = i
      BY <3>1 DEF Used
    <3>3. cached_patch # NoPatch
      <4>1. ASSUME cached_patch = NoPatch PROVE FALSE
        <5>1. Len(cached_patch.regions) = 0
          BY <4>1 DEF NoPatch
        <5> QED BY <5>1, <3>2
      <4> QED BY <4>1
    <3>4. i \in Injected(vdisk_files)
      BY <1>1, <3>2, <3>3 DEF OnceInv, PatchInv, IsPatch, FileRegions
    <3>5. wim_inject_file(vdisk_files[i])
      BY <3>4 DEF Injected
    <3>6. ~(i \in loaded + 1 .. L)
      BY <2>1, <3>5
    <3> QED BY <2>1, <3>1, <3>6
  <2> QED BY <2>1, <2>2 DEF LoadedFilesWin
<1> QED BY <1>1, OnceAlways, PTL

\* The regions of the patch are apart, and behind the original file, for any number
\* of files of any lengths and for any WIM whose headers can be believed.
THEOREM PatchesAreApart == Spec => []RegionsApart
<1>1. ASSUME OnceInv PROVE RegionsApart
  <2>1. CASE cached_patch = NoPatch
    <3>1. Len(cached_patch.regions) = 0
      BY <2>1 DEF NoPatch
    <3>2. Used = {}
      BY <3>1 DEF Used
    <3> QED BY <3>2 DEF RegionsApart
  <2>2. CASE cached_patch # NoPatch
    <3>1. TableApart(cached_patch.regions, xlen)
      BY <1>1, <2>2 DEF OnceInv, PatchInv, IsPatch
    <3>2. UsedOf(cached_patch.regions) = Used
      BY DEF UsedOf, Used
    <3> QED BY <3>1, <3>2 DEF TableApart, RegionsApart, AreApart, Within
  <2> QED BY <2>1, <2>2
<1> QED BY <1>1, OnceAlways, PTL

----------------------------------------------------------------------------
(* The loop over the regions *)

\* The n-th cell that a method writes does not depend on where the window starts.
LEMMA MethodCell ==
  ASSUME NEW p, HasSources(p), NEW files, NEW r,
         NEW offset \in Nat, NEW len \in Nat, NEW j \in 1 .. len
  PROVE  Method(p, files, r, offset, len)[j] = Method(p, files, r, offset + j - 1, 1)[1]
<1> DEFINE o == offset + j - 1
<1>1. o \in Nat /\ offset + j = o + 1 /\ 1 \in 1 .. 1
  OBVIOUS
<1>2. CASE r.patch \in Copies
  <2> DEFINE res == CopiedFrom(p, r)
             at == CopiedAt(p, r)
             a == at + offset
             b == at + o
  <2>1. res.offset \in Nat /\ at \in Nat
    BY DEF HasSources, CopiedFrom, CopiedAt
  <2>2. /\ Method(p, files, r, offset, len) = wim_read(wim, res, a, len)
        /\ Method(p, files, r, o, 1) = wim_read(wim, res, b, 1)
    BY <1>2 DEF Method
  <2> HIDE DEF at, res
  <2>3. a \in Nat /\ b \in Nat /\ a + j = b + 1
    BY <1>1, <2>1
  <2> HIDE DEF a, b
  <2>4. CASE res.compressed
    <3>1. /\ wim_read(wim, res, a, len) = SubSeq(Unpacked(wim, res), a + 1, a + len)
          /\ wim_read(wim, res, b, 1) = SubSeq(Unpacked(wim, res), b + 1, b + 1)
      BY <2>4 DEF wim_read
    <3>2. /\ wim_read(wim, res, a, len)[j] = Unpacked(wim, res)[a + j]
          /\ wim_read(wim, res, b, 1)[1] = Unpacked(wim, res)[b + 1]
      BY <1>1, <2>3, <3>1, SubSeqCell
    <3> QED BY <2>2, <2>3, <3>2
  <2>5. CASE ~res.compressed
    <3> DEFINE c == res.offset + a
               d == res.offset + b
    <3>1. /\ wim_read(wim, res, a, len) = SubSeq(wim, c + 1, c + len)
          /\ wim_read(wim, res, b, 1) = SubSeq(wim, d + 1, d + 1)
      BY <2>5 DEF wim_read, Read
    <3>2. c \in Nat /\ d \in Nat /\ c + j = d + 1
      BY <2>1, <2>3
    <3> HIDE DEF c, d
    <3>3. /\ SubSeq(wim, c + 1, c + len)[j] = wim[c + j]
          /\ SubSeq(wim, d + 1, d + 1)[1] = wim[d + 1]
      BY <1>1, <3>2, SubSeqCell
    <3>4. /\ wim_read(wim, res, a, len)[j] = wim[c + j]
          /\ wim_read(wim, res, b, 1)[1] = wim[d + 1]
      BY <3>1, <3>3, Zenon
    <3> QED BY <2>2, <3>2, <3>4
  <2> QED BY <2>4, <2>5
<1>3. CASE r.patch \notin Copies
  <2> DEFINE cells == RegionCells(p, files, r)
  <2>1. /\ Method(p, files, r, offset, len) = SubSeq(cells, offset + 1, offset + len)
        /\ Method(p, files, r, o, 1) = SubSeq(cells, o + 1, o + 1)
    BY <1>3 DEF Method
  <2> HIDE DEF cells, o
  <2>2. /\ Method(p, files, r, offset, len)[j] = cells[offset + j]
        /\ Method(p, files, r, o, 1)[1] = cells[o + 1]
    BY <1>1, <2>1, SubSeqCell
  <2> QED BY <1>1, <2>2 DEF o
<1> QED BY <1>2, <1>3

\* The window that vdisk_file read, and the part of it that patch_wim is given.
IsWindow ==
  /\ window.offset \in Nat /\ window.len \in Nat /\ xlen \in Nat
  /\ window.patch_len = IF window.offset < xlen
                          THEN Least(window.len, xlen - window.offset) ELSE 0

LEMMA PatchedPart ==
  ASSUME IsWindow
  PROVE  /\ window.patch_len \in 0 .. window.len
         /\ \A k \in 1 .. window.len :
              k <= window.patch_len <=> window.offset + k - 1 < xlen
BY DEF IsWindow, Least

\* wim_patch_region finds the cells of the window that the region covers.
LEMMA RegionCovers ==
  ASSUME NEW r, r.offset \in Nat, r.len \in Nat, IsWindow, NEW k \in 1 .. window.len
  PROVE  /\ /\ r.patch # "unused" /\ window.offset + k - 1 < xlen
            /\ Covers(r, window.offset + k - 1)
         <=> Affected(r) /\ k \in skip(r) + 1 .. skip(r) + region_len(r)
<1> DEFINE w == window.offset
           l == window.patch_len
           o == r.offset
           n == r.len
<1>1. /\ w \in Nat /\ l \in Nat /\ window.len \in Nat /\ k \in Nat /\ k >= 1
      /\ (k <= l <=> w + k - 1 < xlen)
  BY PatchedPart DEF IsWindow
<1>2. skip(r) = IF o > w THEN o - w ELSE 0
  BY DEF skip
<1>3. relative(r) = w + skip(r) - o
  BY DEF relative
<1>4. region_len(r) = IF l - skip(r) < n - relative(r) THEN l - skip(r)
                                                         ELSE n - relative(r)
  BY DEF region_len, Least
<1>5. Affected(r) <=> r.patch # "unused" /\ skip(r) < l /\ relative(r) < n
  BY DEF Affected
<1>6. Covers(r, w + k - 1) <=> o <= w + k - 1 /\ w + k - 1 < o + n
  BY DEF Covers
<1>7. skip(r) \in Nat /\ relative(r) \in Nat
  BY <1>1, <1>2, <1>3
<1>8. region_len(r) \in Int
  BY <1>1, <1>4, <1>7
<1> DEFINE s == skip(r)
           v == relative(r)
           g == region_len(r)
<1>9. k \in s + 1 .. s + g <=> s + 1 <= k /\ k <= s + g
  BY <1>1, <1>7, <1>8
<1>10. CASE o > w
  <2>1. s = o - w /\ v = 0
    BY <1>1, <1>2, <1>3, <1>10
  <2> HIDE DEF s, v, g
  <2> QED BY <1>1, <1>4, <1>5, <1>6, <1>7, <1>8, <1>9, <1>10, <2>1 DEF s, v, g
<1>11. CASE ~(o > w)
  <2>1. s = 0 /\ v = w - o
    BY <1>1, <1>2, <1>3, <1>11
  <2> HIDE DEF s, v, g
  <2> QED BY <1>1, <1>4, <1>5, <1>6, <1>7, <1>8, <1>9, <1>11, <2>1 DEF s, v, g
<1> QED BY <1>10, <1>11

\* And the method is asked for those cells.
LEMMA RegionPart ==
  ASSUME NEW r, r.offset \in Nat, r.len \in Nat, IsWindow, Affected(r),
         NEW k \in skip(r) + 1 .. skip(r) + region_len(r)
  PROVE  /\ relative(r) \in Nat /\ region_len(r) \in Nat
         /\ k - skip(r) \in 1 .. region_len(r)
         /\ relative(r) + (k - skip(r)) - 1 = (window.offset + k - 1) - r.offset
<1>1. window.offset \in Nat /\ window.patch_len \in Nat
  BY PatchedPart DEF IsWindow
<1>2. skip(r) \in Nat
  BY <1>1 DEF skip
<1>3. relative(r) \in Nat /\ relative(r) = window.offset + skip(r) - r.offset
  BY <1>1 DEF relative, skip
<1>4. region_len(r) \in Nat
  <2>1. skip(r) < window.patch_len /\ relative(r) < r.len
    BY DEF Affected
  <2> QED BY <1>1, <1>2, <1>3, <2>1 DEF region_len, Least
<1>5. k \in Int /\ k >= skip(r) + 1 /\ k <= skip(r) + region_len(r)
  BY <1>2, <1>4
<1> QED BY <1>1, <1>2, <1>3, <1>4, <1>5

\* The cell at pos after the regions before the g-th have been applied.
Covering(g, pos) == {n \in Used : n < g /\ Covers(cached_patch.regions[n], pos)}

CellOf(n, pos) ==
  Method(cached_patch, vdisk_files, cached_patch.regions[n],
         pos - cached_patch.regions[n].offset, 1)[1]

CellUpTo(g, pos) ==
  IF pos >= xlen \/ Covering(g, pos) = {} THEN OriginalCell(pos)
  ELSE CellOf(Max(Covering(g, pos)), pos)

LoopInv ==
  /\ window.offset \in Nat /\ window.len \in Nat
  /\ pc \in {"load", "loaded", "patched"} => window.len = 0
  /\ pc = "patch" =>
       /\ IsWindow /\ region \in Nat \ {0} /\ DOMAIN data = 1 .. window.len
       /\ \A k \in 1 .. window.len : data[k] = CellUpTo(region, window.offset + k - 1)
  /\ WindowsAgree

\* A region that does not cover a cell leaves it as it is.
LEMMA CellPassed ==
  ASSUME NEW pos, NEW g \in Nat,
         ~(g \in Used /\ pos < xlen /\ Covers(cached_patch.regions[g], pos)),
         pos \in Int, xlen \in Nat
  PROVE  CellUpTo(g + 1, pos) = CellUpTo(g, pos)
<1>1. CASE pos >= xlen
  BY <1>1 DEF CellUpTo
<1>2. CASE ~(pos >= xlen)
  <2>1. ~(g \in Used /\ Covers(cached_patch.regions[g], pos))
    BY <1>2
  <2>2. \A n \in Used : n \in Int
    BY DEF Used
  <2>3. Covering(g + 1, pos) = Covering(g, pos)
    BY <2>1, <2>2 DEF Covering
  <2> QED BY <2>3 DEF CellUpTo
<1> QED BY <1>1, <1>2

\* One that covers it decides.
LEMMA CellCovered ==
  ASSUME NEW pos, NEW g \in Nat, g \in Used, Covers(cached_patch.regions[g], pos),
         pos \in Int, xlen \in Nat, pos < xlen
  PROVE  CellUpTo(g + 1, pos) = CellOf(g, pos)
<1> DEFINE S == Covering(g + 1, pos)
<1>1. S \in SUBSET Nat /\ g \in S /\ \A n \in S : n <= g
  BY DEF Covering, Used
<1> HIDE DEF S
<1>2. Max(S) = g /\ S # {}
  BY <1>1, MaxIs
<1>3. ~(pos >= xlen)
  OBVIOUS
<1> QED BY <1>2, <1>3 DEF CellUpTo, S

\* Before the first region it is the cell of the file as it was loaded, and after the
\* last it is that of the patched file.
LEMMA CellFirst ==
  ASSUME NEW pos PROVE CellUpTo(1, pos) = OriginalCell(pos)
<1>1. Covering(1, pos) = {}
  BY DEF Covering, Used
<1> QED BY <1>1 DEF CellUpTo

LEMMA CellLast ==
  ASSUME NEW pos, NEW g \in Nat, g > Len(cached_patch.regions),
         Len(cached_patch.regions) \in Nat
  PROVE  CellUpTo(g, pos) = PatchedCell(pos)
<1>1. Covering(g, pos) = {n \in Used : Covers(cached_patch.regions[n], pos)}
  BY DEF Covering, Used
<1> QED BY <1>1, Zenon DEF CellUpTo, PatchedCell, CellOf

\* None of this changes while the files and the patch do not.
LEMMA CellsKept ==
  ASSUME wim' = wim, vdisk_files' = vdisk_files, xlen' = xlen,
         cached_patch' = cached_patch, NEW g, NEW pos
  PROVE  CellUpTo(g, pos)' = CellUpTo(g, pos) /\ PatchedCell(pos)' = PatchedCell(pos)
BY DEF CellUpTo, PatchedCell, CellOf, Covering, Used, Covers, OriginalCell, Method,
       RegionCells, CopiedFrom, CopiedAt, wim_read, Unpacked, Read

\* What the loop relies on.
LEMMA LoopFacts ==
  ASSUME OnceInv, pc = "patch"
  PROVE  /\ cached_patch # NoPatch /\ HasSources(cached_patch)
         /\ Len(cached_patch.regions) \in Nat /\ xlen \in Nat
         /\ \A n \in 1 .. Len(cached_patch.regions) :
              /\ cached_patch.regions[n].offset \in Nat
              /\ cached_patch.regions[n].len \in Nat
<1>1. cached_patch # NoPatch
  BY DEF OnceInv, PhaseInv
<1>2. HasSources(cached_patch) /\ cached_patch.regions \in Seq(Regions) /\ xlen \in Nat
  BY <1>1 DEF OnceInv, PatchInv, IsPatch
<1> DEFINE R == cached_patch.regions
<1>3. Len(R) \in Nat /\ \A n \in 1 .. Len(R) : R[n] \in Regions
  <2> HIDE DEF R
  <2>1. R \in Seq(Regions)
    BY <1>2 DEF R
  <2> QED BY <2>1
<1> QED BY <1>1, <1>2, <1>3 DEF Regions

\* A step that does not read the WIM.
LEMMA LoopKept ==
  ASSUME LoopInv, window' = window,
         pc' \in {"load", "loaded", "patched", "dead"} \/ (pc' = "idle" /\ pc = "patched"),
         pc' \in {"load", "loaded", "patched"} => pc \in {"load", "loaded", "patched"}
  PROVE  LoopInv'
<1>1. window'.len = 0 \/ pc' = "dead"
  BY DEF LoopInv
<1>2. pc' # "patch"
  OBVIOUS
<1>3. WindowsAgree'
  <2>1. CASE pc' = "dead"
    BY <2>1 DEF WindowsAgree
  <2>2. CASE window'.len = 0
    BY <2>2 DEF WindowsAgree
  <2> QED BY <1>1, <2>1, <2>2
<1> QED BY <1>1, <1>2, <1>3 DEF LoopInv

LEMMA LoopRead ==
  ASSUME OnceInv, OnceInv', LoopInv, NEW w \in Windows, ReadWindow(w)
  PROVE  LoopInv'
<1>1. /\ pc = "idle" /\ region' = 1
      /\ window' = [offset |-> w.offset, len |-> w.len,
                    patch_len |-> IF w.offset < xlen THEN Least(w.len, xlen - w.offset)
                                  ELSE 0]
      /\ data' = [k \in 1 .. w.len |-> OriginalCell(w.offset + k - 1)]
      /\ pc' = IF PatchRequired THEN "patch" ELSE "idle"
      /\ wim' = wim /\ vdisk_files' = vdisk_files
  BY DEF ReadWindow, Given
<1>2. PICK p \in UpdatedPatch : SetPatch(p)
  BY DEF ReadWindow
<1>3. p = cached_patch
  BY <1>1 DEF OnceInv, PhaseInv, UpdatedPatch
<1>4. cached_patch' = cached_patch /\ xlen' = xlen /\ xlen \in Nat
  BY <1>2, <1>3 DEF SetPatch, OnceInv, PatchInv
<1>5. w.offset \in Nat /\ w.len \in Nat
  BY PatchAssumption
<1>6. /\ window'.offset = w.offset /\ window'.len = w.len
      /\ window'.patch_len = IF w.offset < xlen THEN Least(w.len, xlen - w.offset) ELSE 0
  BY <1>1
<1>7. \A k \in 1 .. w.len : data'[k] = OriginalCell(w.offset + k - 1)
  BY <1>1
<1>8. CASE PatchRequired
  <2>1. pc' = "patch"
    BY <1>1, <1>8
  <2>2. IsWindow'
    BY <1>4, <1>5, <1>6 DEF IsWindow, Least
  <2>3. DOMAIN data' = 1 .. w.len
    BY <1>1
  <2>4. ASSUME NEW k \in 1 .. w.len
        PROVE  data'[k] = CellUpTo(region, window.offset + k - 1)'
    <3> DEFINE pos == w.offset + k - 1
    <3>1. CellUpTo(region, window.offset + k - 1)' = CellUpTo(1, pos)'
      BY <1>1, <1>6 DEF CellUpTo, Covering, CellOf, OriginalCell
    <3>2. CellUpTo(1, pos)' = CellUpTo(1, pos)
      <4> HIDE DEF pos
      <4> QED BY <1>1, <1>4, CellsKept
    <3>3. CellUpTo(1, pos) = OriginalCell(pos)
      BY CellFirst
    <3> QED BY <1>7, <3>1, <3>2, <3>3
  <2>5. WindowsAgree'
    BY <2>1 DEF WindowsAgree
  <2>6. region' \in Nat \ {0}
    BY <1>1
  <2>7. DOMAIN data' = 1 .. window'.len
    BY <1>6, <2>3
  <2>8. \A k \in 1 .. window'.len : data'[k] = CellUpTo(region, window.offset + k - 1)'
    BY <1>6, <2>4
  <2>9. window'.offset \in Nat /\ window'.len \in Nat
    BY <1>5, <1>6
  <2> QED BY <2>1, <2>2, <2>5, <2>6, <2>7, <2>8, <2>9 DEF LoopInv
<1>9. CASE ~PatchRequired
  <2>1. pc' = "idle" /\ cached_patch = NoPatch
    BY <1>1, <1>9 DEF OnceInv, PhaseInv
  <2>2. Len(cached_patch.regions) = 0
    BY <2>1 DEF NoPatch
  <2>3. ASSUME NEW k \in 1 .. w.len
        PROVE  data'[k] = PatchedCell(window.offset + k - 1)'
    <3> DEFINE pos == w.offset + k - 1
    <3>1. PatchedCell(window.offset + k - 1)' = PatchedCell(pos)'
      BY <1>6 DEF PatchedCell, OriginalCell
    <3>2. PatchedCell(pos)' = PatchedCell(pos)
      <4> HIDE DEF pos
      <4> QED BY <1>1, <1>4, CellsKept
    <3>3. CellUpTo(1, pos) = PatchedCell(pos) /\ CellUpTo(1, pos) = OriginalCell(pos)
      BY <2>2, CellFirst, CellLast
    <3> QED BY <1>7, <3>1, <3>2, <3>3
  <2>4. WindowsAgree'
    BY <1>6, <2>3 DEF WindowsAgree
  <2> QED BY <1>5, <1>6, <2>1, <2>4 DEF LoopInv
<1> QED BY <1>8, <1>9

\* A step of the loop that brings the cells up to date.
LEMMA LoopStep ==
  ASSUME OnceInv, LoopInv, pc = "patch", pc' = pc, window' = window,
         region' = region + 1, DOMAIN data' = DOMAIN data,
         UNCHANGED <<Given, vdisk_files, wim_file_idx, xlen, cached_patch>>,
         \A k \in 1 .. window.len : data'[k] = CellUpTo(region + 1, window.offset + k - 1)
  PROVE  LoopInv'
<1>1. /\ vdisk_files' = vdisk_files /\ xlen' = xlen /\ cached_patch' = cached_patch
      /\ wim' = wim
  BY DEF Given
<1>2. /\ IsWindow /\ region \in Nat \ {0} /\ DOMAIN data = 1 .. window.len
      /\ window.offset \in Nat /\ window.len \in Nat
  BY DEF LoopInv
<1>3. IsWindow'
  BY <1>1, <1>2 DEF IsWindow, Least
<1>4. ASSUME NEW k \in 1 .. window.len
      PROVE  data'[k] = CellUpTo(region, window.offset + k - 1)'
  <2>1. PICK g, pos : g = region + 1 /\ pos = window.offset + k - 1
    OBVIOUS
  <2>2. CellUpTo(region, window.offset + k - 1)' = CellUpTo(g, pos)'
    BY <2>1 DEF CellUpTo, Covering, CellOf, OriginalCell
  <2>3. CellUpTo(g, pos)' = CellUpTo(g, pos)
    BY <1>1, CellsKept
  <2> QED BY <2>1, <2>2, <2>3
<1>5. WindowsAgree'
  BY DEF WindowsAgree
<1>6. region' \in Nat \ {0}
  BY <1>2
<1> QED BY <1>2, <1>3, <1>4, <1>5, <1>6 DEF LoopInv

LEMMA LoopSkipped ==
  ASSUME OnceInv, LoopInv, RegionSkipped
  PROVE  LoopInv'
<1>1. /\ pc = "patch" /\ pc' = pc /\ window' = window /\ region' = region + 1
      /\ data' = data /\ region <= Len(cached_patch.regions)
      /\ ~Affected(CurrentRegion)
      /\ UNCHANGED <<Given, vdisk_files, wim_file_idx, xlen, cached_patch>>
  BY DEF RegionSkipped
<1>2. /\ IsWindow /\ region \in Nat \ {0} /\ window.offset \in Nat /\ window.len \in Nat
      /\ \A k \in 1 .. window.len : data[k] = CellUpTo(region, window.offset + k - 1)
  BY <1>1 DEF LoopInv
<1>3. PICK r : r = CurrentRegion
  OBVIOUS
<1>4. r = cached_patch.regions[region] /\ r.offset \in Nat /\ r.len \in Nat /\ xlen \in Nat
  BY <1>1, <1>2, <1>3, LoopFacts DEF CurrentRegion
<1>5. ASSUME NEW k \in 1 .. window.len
      PROVE  data'[k] = CellUpTo(region + 1, window.offset + k - 1)
  <2>1. ~(r.patch # "unused" /\ window.offset + k - 1 < xlen
            /\ Covers(r, window.offset + k - 1))
    BY <1>1, <1>2, <1>3, <1>4, RegionCovers
  <2>2. PICK pos : pos = window.offset + k - 1
    OBVIOUS
  <2>3. pos \in Int
    BY <1>2, <2>2
  <2>4. ~(region \in Used /\ pos < xlen /\ Covers(cached_patch.regions[region], pos))
    BY <1>4, <2>1, <2>2 DEF Used
  <2>5. CellUpTo(region + 1, pos) = CellUpTo(region, pos)
    BY <1>2, <1>4, <2>3, <2>4, CellPassed
  <2> QED BY <1>1, <1>2, <2>2, <2>5
<1> QED BY <1>1, <1>5, LoopStep

LEMMA LoopPatched ==
  ASSUME OnceInv, LoopInv, RegionPatched
  PROVE  LoopInv'
<1>1. PICK r : r = CurrentRegion
  OBVIOUS
<1>2. PICK cells :
        cells = Method(cached_patch, vdisk_files, r, relative(r), region_len(r))
  OBVIOUS
<1>3. /\ pc = "patch" /\ pc' = pc /\ window' = window /\ region' = region + 1
      /\ region <= Len(cached_patch.regions) /\ Affected(r)
      /\ data' = [k \in DOMAIN data |->
                    IF k \in skip(r) + 1 .. skip(r) + region_len(r)
                      THEN cells[k - skip(r)] ELSE data[k]]
      /\ UNCHANGED <<Given, vdisk_files, wim_file_idx, xlen, cached_patch>>
  BY <1>1, <1>2 DEF RegionPatched
<1>4. /\ IsWindow /\ region \in Nat \ {0} /\ window.offset \in Nat /\ window.len \in Nat
      /\ DOMAIN data = 1 .. window.len
      /\ \A k \in 1 .. window.len : data[k] = CellUpTo(region, window.offset + k - 1)
  BY <1>3 DEF LoopInv
<1>5. /\ r = cached_patch.regions[region] /\ r.offset \in Nat /\ r.len \in Nat
      /\ xlen \in Nat /\ HasSources(cached_patch)
  BY <1>1, <1>3, <1>4, LoopFacts DEF CurrentRegion
<1>6. ASSUME NEW k \in 1 .. window.len
      PROVE  data'[k] = CellUpTo(region + 1, window.offset + k - 1)
  <2>1. PICK pos : pos = window.offset + k - 1
    OBVIOUS
  <2>2. pos \in Int
    BY <1>4, <2>1
  <2>3. r.patch # "unused" /\ pos < xlen /\ Covers(r, pos)
          <=> k \in skip(r) + 1 .. skip(r) + region_len(r)
    BY <1>3, <1>4, <1>5, <2>1, RegionCovers
  <2>4. CASE k \in skip(r) + 1 .. skip(r) + region_len(r)
    <3>1. region \in Used /\ pos < xlen /\ Covers(cached_patch.regions[region], pos)
      BY <1>3, <1>4, <1>5, <2>3, <2>4 DEF Used
    <3>2. CellUpTo(region + 1, pos) = CellOf(region, pos)
      BY <1>4, <1>5, <2>2, <3>1, CellCovered
    <3>3. PICK j : j = k - skip(r)
      OBVIOUS
    <3>4. /\ relative(r) \in Nat /\ region_len(r) \in Nat /\ j \in 1 .. region_len(r)
          /\ relative(r) + j - 1 = pos - r.offset
      BY <1>3, <1>4, <1>5, <2>1, <2>4, <3>3, RegionPart
    <3>5. cells[j] = Method(cached_patch, vdisk_files, r, relative(r) + j - 1, 1)[1]
      BY <1>2, <1>5, <3>4, MethodCell
    <3>6. cells[j] = CellOf(region, pos)
      BY <1>5, <3>4, <3>5 DEF CellOf
    <3>7. data'[k] = cells[j]
      BY <1>3, <1>4, <2>4, <3>3
    <3> QED BY <2>1, <3>2, <3>6, <3>7
  <2>5. CASE ~(k \in skip(r) + 1 .. skip(r) + region_len(r))
    <3>1. data'[k] = data[k]
      BY <1>3, <1>4, <2>5
    <3>2. ~(region \in Used /\ pos < xlen /\ Covers(cached_patch.regions[region], pos))
      BY <1>5, <2>3, <2>5 DEF Used
    <3>3. CellUpTo(region + 1, pos) = CellUpTo(region, pos)
      BY <1>4, <1>5, <2>2, <3>2, CellPassed
    <3> QED BY <1>4, <2>1, <3>1, <3>3
  <2> QED BY <2>4, <2>5
<1>7. DOMAIN data' = DOMAIN data
  BY <1>3
<1> QED BY <1>3, <1>6, <1>7, LoopStep

LEMMA LoopReturns ==
  ASSUME OnceInv, LoopInv, PatchReturns
  PROVE  LoopInv'
<1>1. /\ pc = "patch" /\ pc' = "idle" /\ window' = window /\ data' = data
      /\ region > Len(cached_patch.regions) /\ wim' = wim /\ xlen' = xlen
      /\ vdisk_files' = vdisk_files /\ cached_patch' = cached_patch
  BY DEF PatchReturns, LoopVars, Given
<1>2. /\ region \in Nat /\ window.offset \in Nat /\ window.len \in Nat
      /\ \A k \in 1 .. window.len : data[k] = CellUpTo(region, window.offset + k - 1)
  BY <1>1 DEF LoopInv
<1>3. Len(cached_patch.regions) \in Nat
  BY <1>1, LoopFacts
<1>4. ASSUME NEW k \in 1 .. window.len
      PROVE  data'[k] = PatchedCell(window.offset + k - 1)'
  <2>1. PICK pos : pos = window.offset + k - 1
    OBVIOUS
  <2>2. data[k] = PatchedCell(pos)
    BY <1>1, <1>2, <1>3, <2>1, CellLast
  <2>3. PatchedCell(pos)' = PatchedCell(pos)
    BY <1>1, CellsKept
  <2>4. PatchedCell(window.offset + k - 1)' = PatchedCell(pos)'
    BY <1>1, <2>1
  <2> QED BY <1>1, <2>2, <2>3, <2>4
<1>5. WindowsAgree'
  BY <1>1, <1>4 DEF WindowsAgree
<1> QED BY <1>1, <1>2, <1>5 DEF LoopInv

LEMMA LoopInit == Init => LoopInv
BY DEF Init, LoopInv, WindowsAgree

LEMMA LoopNext == OnceInv /\ OnceInv' /\ LoopInv /\ [Next]_vars => LoopInv'
<1> SUFFICES ASSUME OnceInv, OnceInv', LoopInv, [Next]_vars PROVE LoopInv'
  OBVIOUS
<1>1. ASSUME NEW f \in LoadedFiles, add_file(f) PROVE LoopInv'
  BY <1>1, LoopKept DEF add_file, LoopVars
<1>2. ASSUME NEW f \in LoadedFiles, add_file_die(f) PROVE LoopInv'
  BY <1>2, LoopKept DEF add_file_die, LoopVars
<1>3. CASE EndOfFiles
  BY <1>3, LoopKept DEF EndOfFiles, LoopVars
<1>4. CASE vdisk_patch_file
  BY <1>4, LoopKept DEF vdisk_patch_file, LoopVars
<1>5. CASE vdisk_patch_file_die
  BY <1>5, LoopKept DEF vdisk_patch_file_die, LoopVars
<1>6. ASSUME NEW path \in wim_paths, wim_add_file(path) PROVE LoopInv'
  BY <1>6, LoopKept DEF wim_add_file, LoopVars
<1>7. ASSUME NEW path \in wim_paths, wim_add_file_die(path) PROVE LoopInv'
  BY <1>7, LoopKept DEF wim_add_file_die, LoopVars
<1>8. CASE Install
  BY <1>8, LoopKept DEF Install, LoopVars
<1>9. ASSUME NEW w \in Windows, ReadWindow(w) PROVE LoopInv'
  BY <1>9, LoopRead
<1>10. CASE RegionSkipped
  BY <1>10, LoopSkipped
<1>11. CASE RegionPatched
  BY <1>11, LoopPatched
<1>12. CASE RegionFailed
  BY <1>12, LoopKept DEF RegionFailed, LoopVars
<1>13. CASE PatchReturns
  BY <1>13, LoopReturns
<1>14. CASE UNCHANGED vars
  <2>1. /\ pc' = pc /\ window' = window /\ data' = data /\ region' = region
        /\ wim' = wim /\ xlen' = xlen /\ vdisk_files' = vdisk_files
        /\ cached_patch' = cached_patch
    BY <1>14 DEF vars
  <2>2. IsWindow' <=> IsWindow
    BY <2>1 DEF IsWindow, Least
  <2>3. ASSUME NEW k
        PROVE  /\ CellUpTo(region, window.offset + k - 1)'
                    = CellUpTo(region, window.offset + k - 1)
               /\ PatchedCell(window.offset + k - 1)' = PatchedCell(window.offset + k - 1)
    <3>1. PICK g, pos : g = region /\ pos = window.offset + k - 1
      OBVIOUS
    <3>2. /\ CellUpTo(g, pos)' = CellUpTo(g, pos)
          /\ PatchedCell(pos)' = PatchedCell(pos)
      BY <2>1, CellsKept
    <3> QED BY <2>1, <3>1, <3>2
  <2>4. WindowsAgree'
    BY <2>1, <2>3 DEF WindowsAgree, LoopInv
  <2> QED BY <2>1, <2>2, <2>3, <2>4 DEF LoopInv
<1> QED BY <1>1, <1>2, <1>3, <1>4, <1>5, <1>6, <1>7, <1>8, <1>9, <1>10, <1>11, <1>12,
           <1>13, <1>14 DEF Next

\* Whichever window of the patched WIM is read, and however the regions lie across
\* its ends, every cell of it is the one the patched file has at that place: reads
\* of windows that overlap agree, although nothing of the patched file is stored.
THEOREM WindowsAlwaysAgree == Spec => []WindowsAgree
<1>1. LoopInv => WindowsAgree
  BY DEF LoopInv
<1> QED BY <1>1, OnceAlways, LoopInit, LoopNext, PTL DEF Spec

----------------------------------------------------------------------------
(* The patch that is kept is the one that would be made now *)

\* What is made depends on the WIM, and on the cells of the files that are injected.
LEMMA ConstructKept ==
  ASSUME wim' = wim, NEW CONSTANT files, NEW CONSTANT index, NEW CONSTANT inject
  PROVE  wim_construct_patch(files, index, inject)' = wim_construct_patch(files, index, inject)
BY DEF wim_construct_patch, InjectingPatch, lookup_offset, InjectedRegions, Selections, InjectDirs

SameInjected(f, g) ==
  Injected(f) = Injected(g) /\ \A i \in Injected(f) : f[i].cells = g[i].cells

LEMMA PatchDepends ==
  ASSUME NEW f, NEW g, SameInjected(f, g), NEW index, NEW s, NEW count, NEW dir
  PROVE  InjectingPatch(f, index, s, count, dir) = InjectingPatch(g, index, s, count, dir)
<1> DEFINE I == Injected(f)
<1>1. Injected(f) = I /\ Injected(g) = I /\ \A i \in I : f[i].cells = g[i].cells
  BY DEF SameInjected
<1> HIDE DEF I
<1>2. \A i : Rank(f, i) = Rank(g, i)
  BY <1>1 DEF Rank
<1>3. \A i : CellsBefore(f, i) = CellsBefore(g, i)
  <2> TAKE i
  <2> DEFINE J == {j \in I : j < i}
             A == {{j} \X (1 .. Len(f[j].cells)) : j \in J}
             B == {{j} \X (1 .. Len(g[j].cells)) : j \in J}
  <2>1. A = B
    BY <1>1
  <2>2. CellsBefore(f, i) = Cardinality(UNION A) /\ CellsBefore(g, i) = Cardinality(UNION B)
    BY <1>1, Zenon DEF CellsBefore
  <2> HIDE DEF A, B
  <2> QED BY <2>1, <2>2
<1>4. ASSUME NEW lookup, NEW boot, NEW at
      PROVE  InjectedRegions(f, lookup, boot, dir, at) = InjectedRegions(g, lookup, boot, dir, at)
  <2>1. /\ [i \in I |-> Region("file", i, Len(wim) + CellsBefore(f, i), Len(f[i].cells))]
             = [i \in I |-> Region("file", i, Len(wim) + CellsBefore(g, i), Len(g[i].cells))]
        /\ [i \in I |-> Region("lookup.file", i,
                               at.lookup + lookup.len + (1 + Rank(f, i)) * LookupLen, LookupLen)]
             = [i \in I |-> Region("lookup.file", i,
                               at.lookup + lookup.len + (1 + Rank(g, i)) * LookupLen, LookupLen)]
        /\ [i \in I |-> Region("dir.file", i,
                               at.dir + Rank(f, i) * wim_align(PatchDirentLen), PatchDirentLen)]
             = [i \in I |-> Region("dir.file", i,
                               at.dir + Rank(g, i) * wim_align(PatchDirentLen), PatchDirentLen)]
    BY <1>1, <1>2, <1>3
  <2> QED BY <1>1, <2>1, Zenon DEF InjectedRegions
<1>5. lookup_offset(f) = lookup_offset(g)
  BY <1>3 DEF lookup_offset
<1> QED BY <1>1, <1>4, <1>5, Zenon DEF InjectingPatch

LEMMA ConstructDepends ==
  ASSUME NEW f, NEW g, SameInjected(f, g), NEW index, NEW inject
  PROVE  wim_construct_patch(f, index, inject) = wim_construct_patch(g, index, inject)
<1>1. Injected(f) = Injected(g)
  BY DEF SameInjected
<1>2. \A s, count, dir : InjectingPatch(f, index, s, count, dir)
                           = InjectingPatch(g, index, s, count, dir)
  BY PatchDepends
<1> QED BY <1>1, <1>2 DEF wim_construct_patch

\* The files to inject are sequences of cells, and the patch is the one that
\* wim_construct_patch would make now: extracted files do not change it.
IsCells(cells) == Len(cells) \in Nat /\ cells = [k \in 1 .. Len(cells) |-> cells[k]]

MadeInv ==
  /\ cmdline_index \in Indexes
  /\ \A i \in Injected(vdisk_files) : IsCells(vdisk_files[i].cells)
  /\ cached_patch # NoPatch =>
       \A files, index, inject :
         files = vdisk_files /\ index = cmdline_index /\ inject = (~cmdline_rawwim) =>
           cached_patch \in wim_construct_patch(files, index, inject)

LEMMA MadeInit == Init => MadeInv
<1> SUFFICES ASSUME Init PROVE MadeInv
  OBVIOUS
<1>1. vdisk_files = <<BootWim(wim)>> /\ cached_patch = NoPatch /\ cmdline_index \in Indexes
  BY DEF Init
<1>2. ~wim_inject_file(BootWim(wim))
  BY DEF wim_inject_file, BootWim, IgnoredExtensions
<1>3. Injected(vdisk_files) = {}
  BY <1>1, <1>2 DEF Injected
<1> QED BY <1>1, <1>3 DEF MadeInv

LEMMA MadeKept ==
  ASSUME MadeInv, UNCHANGED Given, vdisk_files' = vdisk_files, cached_patch' = cached_patch
  PROVE  MadeInv'
<1>1. wim' = wim /\ cmdline_index' = cmdline_index /\ cmdline_rawwim' = cmdline_rawwim
  BY DEF Given
<1>2. ASSUME cached_patch # NoPatch, NEW files, NEW index, NEW inject,
             files = vdisk_files, index = cmdline_index, inject = (~cmdline_rawwim)
      PROVE  cached_patch \in wim_construct_patch(files, index, inject)'
  <2>1. cached_patch \in wim_construct_patch(files, index, inject)
    BY <1>2 DEF MadeInv
  <2>2. wim_construct_patch(files, index, inject)' = wim_construct_patch(files, index, inject)
    BY <1>1, ConstructKept
  <2> QED BY <2>1, <2>2
<1>3. Injected(vdisk_files)' = Injected(vdisk_files)
  BY DEF Injected
<1> QED BY <1>1, <1>2, <1>3 DEF MadeInv

\* The files that are injected stay the same when one that is not is added.
LEMMA AppendSame ==
  ASSUME NEW S, NEW files \in Seq(S), NEW f
  PROVE  LET new == Append(files, f)
         IN  /\ ~wim_inject_file(f) => SameInjected(files, new)
             /\ \A i \in Injected(new) : \/ i \in Injected(files) /\ new[i] = files[i]
                                         \/ new[i] = f /\ wim_inject_file(f)
<1> DEFINE new == Append(files, f)
<1>1. /\ Len(files) \in Nat /\ Len(new) = Len(files) + 1
      /\ \A i \in 1 .. Len(files) : new[i] = files[i]
      /\ new[Len(files) + 1] = f
  BY AppendFile
<1> HIDE DEF new
<1>2. \A i \in 1 .. Len(new) : i \in 1 .. Len(files) \/ i = Len(files) + 1
  BY <1>1
<1>3. \A i \in Injected(files) : i \in Injected(new) /\ new[i] = files[i]
  BY <1>1 DEF Injected
<1>4. \A i \in Injected(new) : \/ i \in Injected(files) /\ new[i] = files[i]
                               \/ new[i] = f /\ wim_inject_file(f)
  BY <1>1, <1>2 DEF Injected
<1>5. ASSUME ~wim_inject_file(f) PROVE SameInjected(files, new)
  BY <1>3, <1>4, <1>5 DEF SameInjected
<1> QED BY <1>4, <1>5 DEF new

LEMMA MadeAppended ==
  ASSUME FilesInv, MadeInv, UNCHANGED Given, NEW f, vdisk_files' = Append(vdisk_files, f),
         cached_patch' = cached_patch,
         wim_inject_file(f) => IsCells(f.cells) /\ cached_patch = NoPatch
  PROVE  MadeInv'
<1>1. wim' = wim /\ cmdline_index' = cmdline_index /\ cmdline_rawwim' = cmdline_rawwim
  BY DEF Given
<1>2. PICK S : vdisk_files \in Seq(S)
  BY DEF FilesInv
<1>3. PICK new : new = Append(vdisk_files, f)
  OBVIOUS
<1>4. /\ ~wim_inject_file(f) => SameInjected(vdisk_files, new)
      /\ \A i \in Injected(new) : \/ i \in Injected(vdisk_files) /\ new[i] = vdisk_files[i]
                                  \/ new[i] = f /\ wim_inject_file(f)
  BY <1>2, <1>3, AppendSame
<1>5. vdisk_files' = new
  BY <1>3
<1>6. Injected(vdisk_files)' = Injected(new)
  BY <1>5 DEF Injected
<1>7. \A i \in Injected(new) : IsCells(new[i].cells)
  BY <1>4 DEF MadeInv
<1>8. ASSUME cached_patch # NoPatch, NEW n, NEW index, NEW inject,
             n = new, index = cmdline_index, inject = (~cmdline_rawwim)
      PROVE  cached_patch \in wim_construct_patch(n, index, inject)'
  <2>1. SameInjected(vdisk_files, n)
    BY <1>4, <1>8
  <2>2. PICK files : files = vdisk_files
    OBVIOUS
  <2>3. wim_construct_patch(files, index, inject) = wim_construct_patch(n, index, inject)
    BY <2>1, <2>2, ConstructDepends
  <2>4. cached_patch \in wim_construct_patch(files, index, inject)
    BY <1>8, <2>2 DEF MadeInv
  <2>5. wim_construct_patch(n, index, inject)' = wim_construct_patch(n, index, inject)
    BY <1>1, ConstructKept
  <2> QED BY <2>3, <2>4, <2>5
<1> QED BY <1>1, <1>5, <1>6, <1>7, <1>8 DEF MadeInv

LEMMA MadeUpdated ==
  ASSUME MadeInv, UNCHANGED Given, vdisk_files' = vdisk_files, NEW p \in UpdatedPatch,
         SetPatch(p)
  PROVE  MadeInv'
<1>1. cached_patch' = p
  BY DEF SetPatch
<1>2. CASE p = cached_patch
  BY <1>1, <1>2, MadeKept
<1>3. CASE p # cached_patch
  <2>1. p \in wim_construct_patch(vdisk_files, cmdline_index, ~cmdline_rawwim)
    BY <1>3 DEF UpdatedPatch
  <2>2. wim' = wim /\ cmdline_index' = cmdline_index /\ cmdline_rawwim' = cmdline_rawwim
    BY DEF Given
  <2>3. ASSUME NEW files, NEW index, NEW inject,
               files = vdisk_files, index = cmdline_index, inject = (~cmdline_rawwim)
        PROVE  p \in wim_construct_patch(files, index, inject)'
    <3>1. p \in wim_construct_patch(files, index, inject)
      BY <2>1, <2>3
    <3>2. wim_construct_patch(files, index, inject)' = wim_construct_patch(files, index, inject)
      BY <2>2, ConstructKept
    <3> QED BY <3>1, <3>2
  <2>4. Injected(vdisk_files)' = Injected(vdisk_files)
    BY DEF Injected
  <2> QED BY <1>1, <2>2, <2>3, <2>4 DEF MadeInv
<1> QED BY <1>2, <1>3

LEMMA MadeNext == OnceInv /\ MadeInv /\ [Next]_vars => MadeInv'
<1> SUFFICES ASSUME OnceInv, MadeInv, [Next]_vars PROVE MadeInv'
  OBVIOUS
<1>1. ASSUME NEW f \in LoadedFiles, add_file(f) PROVE MadeInv'
  <2>1. /\ pc = "load" /\ vdisk_files' = Append(vdisk_files, f) /\ UNCHANGED Given
        /\ cached_patch' = cached_patch
    BY <1>1 DEF add_file
  <2>2. IsCells(f.cells)
    BY PatchAssumption DEF IsCells
  <2>3. cached_patch = NoPatch /\ FilesInv
    BY <2>1 DEF OnceInv, PhaseInv
  <2> QED BY <2>1, <2>2, <2>3, MadeAppended
<1>2. ASSUME NEW path \in wim_paths, wim_add_file(path) PROVE MadeInv'
  <2>1. PICK res \in ResourcesAt(path) :
          vdisk_files' = Append(vdisk_files,
            [name |-> FileAt(path).name, ext |-> FileAt(path).ext,
             cells |-> [k \in 1 .. res.len |-> [from |-> res, at |-> k]]])
    BY <1>2 DEF wim_add_file
  <2>2. PICK f : f = [name |-> FileAt(path).name, ext |-> FileAt(path).ext,
                      cells |-> [k \in 1 .. res.len |-> [from |-> res, at |-> k]]]
    OBVIOUS
  <2>3. f.name = FileAt(path).name /\ f.ext = FileAt(path).ext
    BY <2>2
  <2>4. ~wim_inject_file(f)
    BY <2>3, ExtractAssumption DEF wim_inject_file
  <2>5. vdisk_files' = Append(vdisk_files, f) /\ UNCHANGED Given /\ cached_patch' = cached_patch
    BY <1>2, <2>1, <2>2 DEF wim_add_file
  <2>6. FilesInv
    BY DEF OnceInv
  <2> QED BY <2>4, <2>5, <2>6, MadeAppended
<1>3. CASE vdisk_patch_file
  <2>1. PICK p \in UpdatedPatch : SetPatch(p)
    BY <1>3 DEF vdisk_patch_file
  <2> QED BY <1>3, <2>1, MadeUpdated DEF vdisk_patch_file
<1>4. ASSUME NEW w \in Windows, ReadWindow(w) PROVE MadeInv'
  <2>1. PICK p \in UpdatedPatch : SetPatch(p)
    BY <1>4 DEF ReadWindow
  <2> QED BY <1>4, <2>1, MadeUpdated DEF ReadWindow
<1>5. ASSUME NEW f \in LoadedFiles, add_file_die(f) PROVE MadeInv'
  BY <1>5, MadeKept DEF add_file_die
<1>6. CASE EndOfFiles
  BY <1>6, MadeKept DEF EndOfFiles
<1>7. CASE vdisk_patch_file_die
  BY <1>7, MadeKept DEF vdisk_patch_file_die
<1>8. ASSUME NEW path \in wim_paths, wim_add_file_die(path) PROVE MadeInv'
  BY <1>8, MadeKept DEF wim_add_file_die
<1>9. CASE Install
  BY <1>9, MadeKept DEF Install
<1>10. CASE RegionSkipped
  BY <1>10, MadeKept DEF RegionSkipped
<1>11. CASE RegionPatched
  BY <1>11, MadeKept DEF RegionPatched
<1>12. CASE RegionFailed
  BY <1>12, MadeKept DEF RegionFailed
<1>13. CASE PatchReturns
  BY <1>13, MadeKept DEF PatchReturns
<1>14. CASE UNCHANGED vars
  BY <1>14, MadeKept DEF vars, Given
<1> QED BY <1>1, <1>2, <1>3, <1>4, <1>5, <1>6, <1>7, <1>8, <1>9, <1>10, <1>11, <1>12,
           <1>13, <1>14 DEF Next

LEMMA MadeAlways == Spec => []MadeInv
BY OnceAlways, MadeInit, MadeNext, PTL DEF Spec

----------------------------------------------------------------------------
(* A window that was read was read in full *)

\* The n-th region could be applied to the window.
Applied(n) ==
  LET r == cached_patch.regions[n]
  IN  Affected(r) => ~MethodFails(cached_patch, r, relative(r), region_len(r))

AppliedInv ==
  /\ IsWindow
  /\ pc \in {"load", "loaded", "patched"} => window.patch_len = 0
  /\ pc \in {"patch", "idle"} =>
       \A n \in 1 .. Len(cached_patch.regions) : pc = "idle" \/ n < region => Applied(n)

LEMMA AppliedKept ==
  ASSUME wim' = wim, cached_patch' = cached_patch, window' = window, NEW CONSTANT n
  PROVE  Applied(n)' <=> Applied(n)
BY DEF Applied, Affected, MethodFails, relative, region_len, skip, Least, CopiedFrom, CopiedAt,
       wim_readable, Unpacked

\* Nothing is applied to an empty window.
LEMMA AppliedToNothing ==
  ASSUME OnceInv, window.offset \in Nat, window.patch_len = 0,
         NEW n \in 1 .. Len(cached_patch.regions)
  PROVE  Applied(n)
<1>1. cached_patch # NoPatch
  <2>1. cached_patch = NoPatch => Len(cached_patch.regions) = 0
    BY DEF NoPatch
  <2> QED BY <2>1
<1>2. cached_patch.regions \in Seq(Regions)
  BY <1>1 DEF OnceInv, PatchInv, IsPatch
<1> DEFINE r == cached_patch.regions[n]
<1>3. r.offset \in Nat
  <2>1. r \in Regions
    BY <1>2
  <2> QED BY <2>1 DEF Regions
<1>4. ~(skip(r) < window.patch_len)
  <2> HIDE DEF r
  <2> QED BY <1>3 DEF skip
<1> QED BY <1>4 DEF Applied, Affected

LEMMA AppliedInit == Init => AppliedInv
<1> SUFFICES ASSUME Init PROVE AppliedInv
  OBVIOUS
<1>1. wim \in Wims /\ xlen = Len(wim) /\ pc = "load"
      /\ window.offset = 0 /\ window.len = 0 /\ window.patch_len = 0
  BY DEF Init
<1>2. xlen \in Nat
  BY <1>1, PatchAssumption DEF IsWim, HoldsFields
<1> QED BY <1>1, <1>2 DEF AppliedInv, IsWindow, Least

\* An empty window stays one while the length may still change.
LEMMA EmptyKept ==
  ASSUME IsWindow, window' = window, xlen' = xlen \/ window.len = 0, xlen' \in Nat
  PROVE  IsWindow'
BY DEF IsWindow, Least

LEMMA AppliedNext == OnceInv /\ OnceInv' /\ LoopInv /\ AppliedInv /\ [Next]_vars => AppliedInv'
<1> SUFFICES ASSUME OnceInv, OnceInv', LoopInv, AppliedInv, [Next]_vars PROVE AppliedInv'
  OBVIOUS
<1>w. ASSUME window' = window, xlen' = xlen \/ window.len = 0 PROVE IsWindow'
  <2>1. xlen' \in Nat
    BY DEF OnceInv, PatchInv
  <2> QED BY <1>w, <2>1, EmptyKept DEF AppliedInv
<1>1. ASSUME NEW f \in LoadedFiles, add_file(f) PROVE AppliedInv'
  BY <1>1, <1>w DEF add_file, LoopVars, AppliedInv
<1>2. ASSUME NEW f \in LoadedFiles, add_file_die(f) PROVE AppliedInv'
  BY <1>2, <1>w DEF add_file_die, LoopVars, AppliedInv
<1>3. CASE EndOfFiles
  BY <1>3, <1>w DEF EndOfFiles, LoopVars, AppliedInv
<1>4. CASE vdisk_patch_file
  <2>1. window.len = 0
    BY <1>4 DEF vdisk_patch_file, LoopInv
  <2> QED BY <1>4, <1>w, <2>1 DEF vdisk_patch_file, LoopVars, AppliedInv
<1>5. CASE vdisk_patch_file_die
  BY <1>5, <1>w DEF vdisk_patch_file_die, LoopVars, AppliedInv
<1>6. ASSUME NEW path \in wim_paths, wim_add_file(path) PROVE AppliedInv'
  BY <1>6, <1>w DEF wim_add_file, LoopVars, AppliedInv
<1>7. ASSUME NEW path \in wim_paths, wim_add_file_die(path) PROVE AppliedInv'
  BY <1>7, <1>w DEF wim_add_file_die, LoopVars, AppliedInv
<1>8. CASE RegionFailed
  BY <1>8, <1>w DEF RegionFailed, LoopVars, AppliedInv
<1>9. CASE Install
  <2>1. /\ pc = "patched" /\ pc' = "idle" /\ window' = window /\ wim' = wim
        /\ cached_patch' = cached_patch /\ xlen' = xlen
    BY <1>9 DEF Install, LoopVars, Given
  <2>2. ASSUME NEW n \in 1 .. Len(cached_patch.regions) PROVE Applied(n)'
    <3>1. window.patch_len = 0 /\ window.offset \in Nat
      BY <2>1 DEF AppliedInv, LoopInv
    <3> QED BY <2>1, <3>1, AppliedToNothing, AppliedKept
  <2> QED BY <1>w, <2>1, <2>2 DEF AppliedInv
<1>10. ASSUME NEW w \in Windows, ReadWindow(w) PROVE AppliedInv'
  <2>1. /\ pc = "idle" /\ region' = 1 /\ pc' = IF PatchRequired THEN "patch" ELSE "idle"
    BY <1>10 DEF ReadWindow
  <2>2. PICK p \in UpdatedPatch : SetPatch(p)
    BY <1>10 DEF ReadWindow
  <2>3. p = cached_patch /\ cached_patch' = cached_patch
    BY <2>1, <2>2 DEF OnceInv, PhaseInv, UpdatedPatch, SetPatch
  <2>6. IsWindow'
    <3>1. xlen' = xlen /\ xlen \in Nat
      BY <2>2, <2>3 DEF SetPatch, OnceInv, PatchInv
    <3>2. window' = [offset |-> w.offset, len |-> w.len,
                     patch_len |-> IF w.offset < xlen THEN Least(w.len, xlen - w.offset) ELSE 0]
      BY <1>10 DEF ReadWindow
    <3>3. w.offset \in Nat /\ w.len \in Nat
      BY PatchAssumption
    <3> QED BY <3>1, <3>2, <3>3 DEF IsWindow
  <2>4. CASE PatchRequired
    BY <2>1, <2>4, <2>6 DEF AppliedInv
  <2>5. CASE ~PatchRequired
    <3>1. cached_patch' = NoPatch
      BY <2>3, <2>5 DEF OnceInv, PhaseInv
    <3>2. Len(cached_patch.regions)' = 0
      BY <3>1 DEF NoPatch
    <3> QED BY <2>1, <2>5, <2>6, <3>2 DEF AppliedInv
  <2> QED BY <2>4, <2>5
<1>11. ASSUME pc = "patch", pc' = "patch", region \in Nat, region <= Len(cached_patch.regions),
              region' = region + 1, window' = window, wim' = wim, cached_patch' = cached_patch,
              xlen' = xlen, Applied(region)
       PROVE  AppliedInv'
  <2>1. ASSUME NEW n \in 1 .. Len(cached_patch.regions), n < region + 1 PROVE Applied(n)'
    <3>1. n < region \/ n = region
      BY <1>11, <2>1
    <3>2. Applied(n)
      BY <1>11, <3>1 DEF AppliedInv
    <3> QED BY <1>11, <3>2, AppliedKept
  <2> QED BY <1>11, <1>w, <2>1 DEF AppliedInv
<1>12. pc = "patch" => region \in Nat
  BY DEF LoopInv
<1>13. CASE RegionSkipped
  <2>1. Applied(region)
    BY <1>13 DEF RegionSkipped, CurrentRegion, Applied
  <2> QED BY <1>11, <1>12, <1>13, <2>1 DEF RegionSkipped, Given
<1>14. CASE RegionPatched
  <2>1. Applied(region)
    BY <1>14 DEF RegionPatched, CurrentRegion, Applied
  <2> QED BY <1>11, <1>12, <1>14, <2>1 DEF RegionPatched, Given
<1>15. CASE PatchReturns
  <2>1. /\ pc = "patch" /\ pc' = "idle" /\ region > Len(cached_patch.regions)
        /\ window' = window /\ wim' = wim /\ cached_patch' = cached_patch /\ xlen' = xlen
    BY <1>15 DEF PatchReturns, LoopVars, Given
  <2>2. ASSUME NEW n \in 1 .. Len(cached_patch.regions) PROVE Applied(n)'
    <3>1. Len(cached_patch.regions) \in Nat
      BY <2>1, LoopFacts
    <3>2. n < region
      BY <1>12, <2>1, <3>1
    <3>3. Applied(n)
      BY <2>1, <3>2 DEF AppliedInv
    <3> QED BY <2>1, <3>3, AppliedKept
  <2> QED BY <1>w, <2>1, <2>2 DEF AppliedInv
<1>16. CASE UNCHANGED vars
  <2>1. /\ pc' = pc /\ region' = region /\ window' = window /\ wim' = wim
        /\ cached_patch' = cached_patch /\ xlen' = xlen
    BY <1>16 DEF vars
  <2>2. ASSUME NEW n PROVE Applied(n)' <=> Applied(n)
    BY <2>1, AppliedKept
  <2> QED BY <1>w, <2>1, <2>2 DEF AppliedInv
<1> QED BY <1>1, <1>2, <1>3, <1>4, <1>5, <1>6, <1>7, <1>8, <1>9, <1>10, <1>13, <1>14,
           <1>15, <1>16 DEF Next

LEMMA LoopAlways == Spec => []LoopInv
BY OnceAlways, LoopInit, LoopNext, PTL DEF Spec

LEMMA AppliedAlways == Spec => []AppliedInv
BY OnceAlways, LoopAlways, AppliedInit, AppliedNext, PTL DEF Spec

----------------------------------------------------------------------------
(* The patched file, read in one window *)

\* The cells of the patched file.
IsImage(image) ==
  /\ Len(image) = xlen
  /\ \A pos \in 0 .. xlen - 1 : image[pos + 1] = PatchedCell(pos)

\* What it copies could be read.
CopiesRead ==
  \A n \in UsedOf(cached_patch.regions) :
    LET r == cached_patch.regions[n]
    IN  r.patch \in Copies /\ r.len > 0 =>
          wim_readable(wim, CopiedFrom(cached_patch, r), CopiedAt(cached_patch, r), r.len)

LEMMA UsedTyped ==
  ASSUME NEW R \in Seq(Regions), NEW n \in UsedOf(R)
  PROVE  /\ Len(R) \in Nat /\ n \in 1 .. Len(R) /\ n \in Nat /\ R[n].patch # "unused"
         /\ R[n].offset \in Nat /\ R[n].len \in Nat /\ R[n].opaque \in Nat
<1>1. n \in 1 .. Len(R) /\ R[n].patch # "unused" /\ Len(R) \in Nat
  BY DEF UsedOf
<1>2. R[n] \in Regions
  BY <1>1
<1> QED BY <1>1, <1>2 DEF Regions

LEMMA WholeRead ==
  ASSUME OnceInv, LoopInv, AppliedInv, ReadWhole
  PROVE  IsImage(SubSeq(data, 1, xlen)) /\ CopiesRead
<1>1. /\ pc = "idle" /\ window.offset = 0 /\ window.len >= xlen /\ cached_patch # NoPatch
      /\ xlen \in Nat /\ window.len \in Nat /\ IsWindow
  BY DEF ReadWhole, AppliedInv, IsWindow
<1>2. window.patch_len = xlen
  BY <1>1 DEF IsWindow, Least
<1> DEFINE image == SubSeq(data, 1, xlen)
           R == cached_patch.regions
<1>3. Len(image) = xlen /\ \A k \in 1 .. xlen : image[k] = data[k]
  BY <1>1
<1>4. \A pos \in 0 .. xlen - 1 : data[pos + 1] = PatchedCell(pos)
  <2> TAKE pos \in 0 .. xlen - 1
  <2>1. pos + 1 \in 1 .. window.len /\ window.offset + (pos + 1) - 1 = pos
    BY <1>1
  <2> QED BY <1>1, <2>1 DEF LoopInv, WindowsAgree
<1>5. IsImage(image)
  <2> HIDE DEF image
  <2>1. \A pos \in 0 .. xlen - 1 : pos + 1 \in 1 .. xlen
    BY <1>1
  <2> QED BY <1>3, <1>4, <2>1 DEF IsImage
<1>6. R \in Seq(Regions) /\ TableApart(R, xlen) /\ HasSources(cached_patch)
  BY <1>1 DEF OnceInv, PatchInv, IsPatch
<1>7. ASSUME NEW n \in UsedOf(R), NEW r, r = R[n], r.patch \in Copies, r.len > 0
      PROVE  wim_readable(wim, CopiedFrom(cached_patch, r), CopiedAt(cached_patch, r), r.len)
  <2>1. n \in 1 .. Len(R) /\ r.offset \in Nat /\ r.len \in Nat /\ r.patch # "unused"
    BY <1>6, <1>7, UsedTyped, Zenon
  <2>2. r.offset + r.len <= xlen
    BY <1>6, <1>7 DEF TableApart
  <2>3. skip(r) = r.offset
    BY <1>1, <2>1 DEF skip
  <2>4. relative(r) = 0
    BY <1>1, <2>1, <2>3 DEF relative
  <2>5. region_len(r) = r.len
    BY <1>1, <1>2, <2>1, <2>2, <2>3, <2>4 DEF region_len, Least
  <2>6. Affected(r)
    BY <1>1, <1>2, <1>7, <2>1, <2>2, <2>3, <2>4 DEF Affected
  <2>7. Applied(n)
    BY <1>1, <2>1 DEF AppliedInv
  <2>8. ~MethodFails(cached_patch, r, 0, r.len)
    BY <1>7, <2>4, <2>5, <2>6, <2>7 DEF Applied
  <2>9. CopiedAt(cached_patch, r) + 0 = CopiedAt(cached_patch, r)
    BY <1>6 DEF CopiedAt, HasSources
  <2> QED BY <1>7, <2>8, <2>9 DEF MethodFails
<1>8. CopiesRead
  <2> HIDE DEF R
  <2> QED BY <1>7 DEF CopiesRead, R
<1> QED BY <1>5, <1>8

\* The cell of a resource at a place in it.
Cell(image, res, x) ==
  IF res.compressed THEN Unpacked(image, res)[x + 1] ELSE image[res.offset + x + 1]

LEMMA ReadCell ==
  ASSUME NEW image, NEW res, res.offset \in Nat, NEW x \in Nat, NEW n \in Nat,
         NEW j \in 1 .. n
  PROVE  wim_read(image, res, x, n)[j] = Cell(image, res, x + j - 1)
<1>1. CASE res.compressed
  <2> DEFINE cells == Unpacked(image, res)
  <2>1. wim_read(image, res, x, n) = SubSeq(cells, x + 1, x + n)
    BY <1>1 DEF wim_read
  <2>2. Cell(image, res, x + j - 1) = cells[x + j - 1 + 1] /\ x + j - 1 + 1 = x + j
    BY <1>1 DEF Cell
  <2> HIDE DEF cells
  <2> QED BY <2>1, <2>2, SubSeqCell
<1>2. CASE ~res.compressed
  <2> DEFINE o == res.offset + x
  <2>0. wim_read(image, res, x, n) = SubSeq(image, o + 1, o + n)
    BY <1>2 DEF wim_read, Read
  <2>1. o \in Nat /\ wim_read(image, res, x, n) = SubSeq(image, o + 1, o + n)
    BY <2>0
  <2>2. Cell(image, res, x + j - 1) = image[o + j]
    BY <1>2 DEF Cell
  <2> HIDE DEF o
  <2> QED BY <2>1, <2>2, SubSeqCell
<1> QED BY <1>1, <1>2

\* The cells that the methods make.
LEMMA CopyCell ==
  ASSUME NEW p, HasSources(p), NEW files, NEW r, r.patch \in Copies, NEW k \in Nat
  PROVE  Method(p, files, r, k, 1)[1] = Cell(wim, CopiedFrom(p, r), CopiedAt(p, r) + k)
<1> DEFINE x == CopiedAt(p, r) + k
<1>1. CopiedFrom(p, r).offset \in Nat /\ x \in Nat
  BY DEF HasSources, CopiedFrom, CopiedAt
<1>2. Method(p, files, r, k, 1) = wim_read(wim, CopiedFrom(p, r), x, 1)
  BY DEF Method
<1> HIDE DEF x
<1>3. x + 1 - 1 = x /\ 1 \in 1 .. 1
  BY <1>1
<1>4. wim_read(wim, CopiedFrom(p, r), x, 1)[1] = Cell(wim, CopiedFrom(p, r), x + 1 - 1)
  BY <1>1, <1>3, ReadCell
<1> QED BY <1>2, <1>3, <1>4 DEF x

LEMMA MadeCell ==
  ASSUME NEW p, NEW files, NEW r, r.patch \notin Copies, NEW k \in Nat
  PROVE  Method(p, files, r, k, 1)[1] = RegionCells(p, files, r)[k + 1]
<1>1. Method(p, files, r, k, 1) = SubSeq(RegionCells(p, files, r), k + 1, k + 1)
  BY DEF Method
<1> QED BY <1>1, SubSeqCell

\* The cells of a region in the patched file: those its method makes, as no region is
\* applied after it to the same cells but dir.subdir.
LEMMA RegionImage ==
  ASSUME NEW image, IsImage(image), xlen \in Nat,
         NEW R, R = cached_patch.regions, R \in Seq(Regions), TableApart(R, xlen),
         NEW n \in UsedOf(R), NEW k \in 0 .. R[n].len - 1,
         R[n].patch = "boot.copy" =>
           \A m \in UsedOf(R) :
             R[m].patch = "dir.subdir" => ~Covers(R[m], R[n].offset + k)
  PROVE  image[R[n].offset + k + 1] = Method(cached_patch, vdisk_files, R[n], k, 1)[1]
<1> DEFINE pos == R[n].offset + k
           S == {m \in Used : Covers(R[m], pos)}
<1>1. \A m \in UsedOf(R) : m \in 1 .. Len(R) /\ R[m].offset \in Nat /\ R[m].len \in Nat
  BY UsedTyped
<1>2. Used = UsedOf(R) /\ Len(R) \in Nat
  BY DEF Used, UsedOf
<1>3. R[n].offset + R[n].len <= xlen
  BY DEF TableApart
<1>4. pos \in 0 .. xlen - 1 /\ pos - R[n].offset = k
  BY <1>1, <1>3
<1>5. n \in S
  BY <1>1, <1>2 DEF Covers
<1>6. ASSUME NEW m \in S PROVE m <= n
  <2>1. m \in UsedOf(R) /\ Covers(R[m], pos) /\ Covers(R[n], pos)
    BY <1>2, <1>5
  <2>2. m \in Nat /\ n \in Nat
    BY <1>1, <2>1
  <2>3. ASSUME n < m PROVE FALSE
    <3>1. AreApart(R[n], R[m])
      BY <2>1, <2>3 DEF TableApart
    <3>2. /\ R[n].offset \in Nat /\ R[n].len \in Nat /\ R[m].offset \in Nat
          /\ R[m].len \in Nat /\ pos \in Nat
      BY <1>1, <1>4, <2>1
    <3>3. /\ R[n].offset <= pos /\ pos < R[n].offset + R[n].len
          /\ R[m].offset <= pos /\ pos < R[m].offset + R[m].len
      BY <2>1, Zenon DEF Covers
    <3> HIDE DEF pos
    <3>4. Within(R[n], R[m])
      <4>1. ~(R[n].offset + R[n].len <= R[m].offset) /\ ~(R[m].offset + R[m].len <= R[n].offset)
        <5>1. ASSUME NEW a \in Nat, NEW la \in Nat, NEW b \in Nat, NEW lb \in Nat, NEW x \in Nat,
                     a <= x, x < a + la, b <= x, x < b + lb
              PROVE  ~(a + la <= b) /\ ~(b + lb <= a)
          BY <5>1
        <5> QED BY <3>2, <3>3, <5>1, Zenon
      <4> QED BY <3>1, <4>1, Zenon DEF AreApart
    <3> QED BY <2>1, <3>4 DEF Within, pos
  <2> QED BY <2>2, <2>3
<1> HIDE DEF pos
<1>7. Max(S) = n /\ S # {}
  <2>1. S \in SUBSET Nat
    BY <1>1, <1>2
  <2> HIDE DEF S
  <2> QED BY <1>5, <1>6, <2>1, MaxIs
<1>8. PatchedCell(pos) = Method(cached_patch, vdisk_files, R[n], pos - R[n].offset, 1)[1]
  <2>1. ~(pos >= xlen)
    BY <1>4
  <2>2. S = {m \in Used : Covers(cached_patch.regions[m], pos)}
    OBVIOUS
  <2> HIDE DEF S
  <2> QED BY <1>7, <2>1, <2>2 DEF PatchedCell
<1>9. image[pos + 1] = PatchedCell(pos)
  BY <1>4 DEF IsImage
<1> QED BY <1>4, <1>8, <1>9 DEF pos

----------------------------------------------------------------------------
(* The parts of the patched file *)

\* Every region that is used is one of these.
LEMMA RegionKinds ==
  ASSUME NEW files, NEW lookup, NEW boot, NEW dir, NEW at, NEW R,
         RegionsAt(R, files, lookup, boot, dir, at), NEW n \in UsedOf(R)
  PROVE  \/ R[n] = Region("header", 0, 0, HeaderLen)
         \/ \E i \in Injected(files) : R[n] = FileRegion(files, i)
         \/ R[n] = Region("lookup.copy", 0, at.lookup, lookup.len)
         \/ R[n] = Region("lookup.boot", 0, at.lookup + lookup.len, LookupLen)
         \/ \E i \in Injected(files) : R[n] = LookupRegion(files, at.lookup + lookup.len, i)
         \/ R[n] = Region("boot.copy", 0, at.boot, boot.len)
         \/ R[n] = Region("dir.subdir", 0, at.boot + dir.parent + SubdirAt, 1)
         \/ R[n] = Region("dir.copy", 0, at.copy, dir.len)
         \/ \E i \in Injected(files) : R[n] = DirentRegion(files, at.dir, i)
<1> DEFINE M == VDISK_MAX_FILES
<1>0. M \in Nat /\ Indices = 1 .. M /\ Len(R) = 3 * M + 6
  BY PatchAssumption DEF Indices, RegionsAt
<1>1. n \in 1 .. 3 * M + 6 /\ R[n].patch # "unused" /\ Unused.patch = "unused"
  BY <1>0 DEF UsedOf, Unused, Region
<1>2. ASSUME NEW i \in Indices, n = 1 + i PROVE i \in Injected(files) /\ R[n] = FileRegion(files, i)
  <2>1. R[n] = FileRegion(files, i)
    BY <1>2 DEF RegionsAt
  <2> QED BY <1>1, <2>1 DEF FileRegion
<1>3. ASSUME NEW i \in Indices, n = M + 3 + i
      PROVE  i \in Injected(files) /\ R[n] = LookupRegion(files, at.lookup + lookup.len, i)
  <2>1. R[n] = LookupRegion(files, at.lookup + lookup.len, i)
    BY <1>3 DEF RegionsAt
  <2> QED BY <1>1, <2>1 DEF LookupRegion
<1>4. ASSUME NEW i \in Indices, n = 2 * M + 6 + i
      PROVE  i \in Injected(files) /\ R[n] = DirentRegion(files, at.dir, i)
  <2>1. R[n] = DirentRegion(files, at.dir, i)
    BY <1>4 DEF RegionsAt
  <2> QED BY <1>1, <2>1 DEF DirentRegion
<1>5. /\ n = 1 => R[n] = Region("header", 0, 0, HeaderLen)
      /\ n = M + 2 => R[n] = Region("lookup.copy", 0, at.lookup, lookup.len)
      /\ n = M + 3 => R[n] = Region("lookup.boot", 0, at.lookup + lookup.len, LookupLen)
      /\ n = 2 * M + 4 => R[n] = Region("boot.copy", 0, at.boot, boot.len)
      /\ n = 2 * M + 5 => R[n] = Region("dir.subdir", 0, at.boot + dir.parent + SubdirAt, 1)
      /\ n = 2 * M + 6 => R[n] = Region("dir.copy", 0, at.copy, dir.len)
  BY DEF RegionsAt
<1> HIDE DEF M
<1>6. \/ n = 1 \/ n - 1 \in 1 .. M \/ n = M + 2 \/ n = M + 3 \/ n - (M + 3) \in 1 .. M
      \/ n = 2 * M + 4 \/ n = 2 * M + 5 \/ n = 2 * M + 6 \/ n - (2 * M + 6) \in 1 .. M
  BY <1>0, <1>1
<1>7. n = 1 + (n - 1) /\ n = M + 3 + (n - (M + 3)) /\ n = 2 * M + 6 + (n - (2 * M + 6))
  BY <1>0, <1>1
<1> QED BY <1>0, <1>2, <1>3, <1>4, <1>5, <1>6, <1>7

\* And each of these is used.
LEMMA RegionPlaces ==
  ASSUME NEW files, Injected(files) \subseteq 1 .. VDISK_MAX_FILES,
         NEW lookup, NEW boot, NEW dir, NEW at, NEW R,
         RegionsAt(R, files, lookup, boot, dir, at)
  PROVE  LET M == VDISK_MAX_FILES
         IN  /\ {1, M + 2, M + 3, 2 * M + 4, 2 * M + 5, 2 * M + 6} \subseteq UsedOf(R)
             /\ \A i \in Injected(files) :
                  /\ {1 + i, M + 3 + i, 2 * M + 6 + i} \subseteq UsedOf(R)
                  /\ R[1 + i] = FileRegion(files, i)
                  /\ R[M + 3 + i] = LookupRegion(files, at.lookup + lookup.len, i)
                  /\ R[2 * M + 6 + i] = DirentRegion(files, at.dir, i)
<1> DEFINE M == VDISK_MAX_FILES
<1>0. M \in Nat /\ Indices = 1 .. M /\ Len(R) = 3 * M + 6
  BY PatchAssumption DEF Indices, RegionsAt
<1>1. /\ R[1].patch # "unused" /\ R[M + 2].patch # "unused" /\ R[M + 3].patch # "unused"
      /\ R[2 * M + 4].patch # "unused" /\ R[2 * M + 5].patch # "unused"
      /\ R[2 * M + 6].patch # "unused"
  BY DEF RegionsAt, Region
<1>2. /\ 1 \in 1 .. Len(R) /\ M + 2 \in 1 .. Len(R) /\ M + 3 \in 1 .. Len(R)
      /\ 2 * M + 4 \in 1 .. Len(R) /\ 2 * M + 5 \in 1 .. Len(R) /\ 2 * M + 6 \in 1 .. Len(R)
  BY <1>0
<1>3. {1, M + 2, M + 3, 2 * M + 4, 2 * M + 5, 2 * M + 6} \subseteq UsedOf(R)
  BY <1>1, <1>2 DEF UsedOf
<1>4. ASSUME NEW i \in Injected(files)
      PROVE  /\ {1 + i, M + 3 + i, 2 * M + 6 + i} \subseteq UsedOf(R)
             /\ R[1 + i] = FileRegion(files, i)
             /\ R[M + 3 + i] = LookupRegion(files, at.lookup + lookup.len, i)
             /\ R[2 * M + 6 + i] = DirentRegion(files, at.dir, i)
  <2>1. i \in Indices
    BY <1>0
  <2>2. /\ R[1 + i] = FileRegion(files, i)
        /\ R[M + 3 + i] = LookupRegion(files, at.lookup + lookup.len, i)
        /\ R[2 * M + 6 + i] = DirentRegion(files, at.dir, i)
    BY <2>1 DEF RegionsAt
  <2>3. /\ R[1 + i].patch # "unused" /\ R[M + 3 + i].patch # "unused"
        /\ R[2 * M + 6 + i].patch # "unused"
    BY <2>2 DEF FileRegion, LookupRegion, DirentRegion, Region
  <2>4. 1 + i \in 1 .. Len(R) /\ M + 3 + i \in 1 .. Len(R) /\ 2 * M + 6 + i \in 1 .. Len(R)
    BY <1>0, <2>1
  <2>5. {1 + i, M + 3 + i, 2 * M + 6 + i} \subseteq UsedOf(R)
    BY <2>3, <2>4 DEF UsedOf
  <2> QED BY <2>2, <2>5
<1> QED BY <1>3, <1>4

\* The patched file that was read, the patch it was made with, and what it was made for.
Injects(image, p, files, s, dir, at) ==
  /\ IsImage(image) /\ CopiesRead
  /\ p = cached_patch /\ files = vdisk_files /\ IsTable(files) /\ xlen = p.xlen
  /\ IsPatch(p, Injected(files)) /\ IsInjecting(p, files, s, dir, at)
  /\ IsWim(wim) /\ HeaderLen <= Len(wim)
  /\ IsSound(wim, s.header.lookup) /\ IsSound(wim, s.boot) /\ dir \in InjectDirs(s.boot)

\* The numbers of the layout.
LEMMA LayoutNumbers ==
  ASSUME NEW image, NEW p, NEW files, NEW s, NEW dir, NEW at,
         Injects(image, p, files, s, dir, at)
  PROVE  /\ Len(wim) \in Nat /\ xlen \in Nat /\ Len(image) = xlen
         /\ at.lookup \in Nat /\ at.boot \in Nat /\ at.dir \in Nat /\ at.copy \in Nat
         /\ s.header.lookup.len \in Nat /\ s.header.lookup.offset \in Nat
         /\ s.boot.len \in Nat /\ s.boot.offset \in Nat
         /\ dir.parent \in Nat /\ dir.offset \in Nat /\ dir.len \in Nat
         /\ dir.parent + 4 <= s.boot.len
         /\ p.regions \in Seq(Regions) /\ TableApart(p.regions, xlen) /\ HasSources(p)
         /\ Injected(files) \subseteq 1 .. VDISK_MAX_FILES
         /\ Cardinality(Injected(files)) \in Nat
<1>1. /\ s.header.lookup.len \in Nat /\ s.header.lookup.offset \in Nat
      /\ s.boot.len \in Nat /\ s.boot.offset \in Nat
  BY DEF Injects, IsSound, Resources
<1>2. /\ dir.parent \in Nat /\ dir.offset \in Nat /\ dir.len \in Nat
      /\ dir.parent + 4 <= s.boot.len
  <2>1. /\ dir.parent \in Nat /\ dir.offset \in Nat /\ dir.len \in Nat
        /\ dir.parent + DirentLen + NameLen <= s.boot.len
    BY InjectDirInside, Zenon DEF Injects
  <2> QED BY <1>1, <2>1 DEF DirentLen, NameLen
<1>3. /\ at.lookup \in Nat /\ at.boot \in Nat /\ at.dir \in Nat /\ at.copy \in Nat
  BY Zenon DEF Injects, IsInjecting, IsLayout
<1>4. p.regions \in Seq(Regions) /\ TableApart(p.regions, xlen) /\ HasSources(p) /\ xlen \in Nat
  BY Zenon DEF Injects, IsPatch
<1>5. Len(wim) \in Nat
  BY Zenon DEF Injects, IsWim, HoldsFields
<1>6. Injected(files) \subseteq 1 .. VDISK_MAX_FILES /\ Cardinality(Injected(files)) \in Nat
  BY InjectedIsFinite, Zenon DEF Injects
<1>7. Len(image) = xlen
  BY Zenon DEF Injects, IsImage
<1> QED BY <1>1, <1>2, <1>3, <1>4, <1>5, <1>6, <1>7

\* The parts of the patched file follow each other.
LEMMA LayoutOrder ==
  ASSUME NEW image, NEW p, NEW files, NEW s, NEW dir, NEW at,
         Injects(image, p, files, s, dir, at)
  PROVE  LET n == Cardinality(Injected(files))
             A == wim_align(PatchDirentLen)
         IN  /\ Len(wim) + CellsBefore(files, VDISK_MAX_FILES + 1) <= at.lookup
             /\ at.lookup + s.header.lookup.len + (1 + n) * 2 <= at.boot
             /\ at.boot + s.boot.len <= at.dir /\ at.copy = at.dir + n * A
             /\ xlen = at.copy + dir.len + 1
             /\ A \in Nat /\ A >= 4 /\ n * A \in Nat
             /\ HeaderLen <= Len(wim) /\ Len(wim) <= at.lookup /\ at.lookup <= at.boot
             /\ at.boot <= at.dir /\ at.dir <= at.copy /\ at.copy < xlen
<1> DEFINE n == Cardinality(Injected(files))
           A == wim_align(PatchDirentLen)
           C == CellsBefore(files, VDISK_MAX_FILES + 1)
           l == s.header.lookup.len
           b == s.boot.len
           nA == n * A
<1>1. /\ Len(wim) \in Nat /\ xlen \in Nat
      /\ at.lookup \in Nat /\ at.boot \in Nat /\ at.dir \in Nat /\ at.copy \in Nat
      /\ l \in Nat /\ b \in Nat /\ dir.len \in Nat /\ n \in Nat
  BY LayoutNumbers
<1>2. /\ Len(wim) + C <= at.lookup /\ at.lookup + l + (1 + n) * 2 <= at.boot
      /\ at.boot + b <= at.dir /\ at.copy = at.dir + nA /\ xlen = at.copy + dir.len + 1
      /\ HeaderLen <= Len(wim)
  BY DEF Injects, IsInjecting, IsLayout, LookupLen, LengthLen
<1>3. C \in Nat
  BY CellSetIsFinite DEF Injects
<1>4. A \in Nat /\ A >= 4
  <2>1. PatchDirentLen = 4
    BY DEF PatchDirentLen, DirentLen, NameLen
  <2> QED BY <2>1, AlignUp
<1>5. nA \in Nat
  BY <1>1, <1>4
<1> HIDE DEF n, A, C, l, b, nA
<1>6. Len(wim) <= at.lookup
  BY <1>1, <1>2, <1>3
<1>7. at.lookup <= at.boot
  <2>1. (1 + n) * 2 \in Nat
    BY <1>1
  <2> QED BY <1>1, <1>2, <2>1
<1>8. at.boot <= at.dir
  BY <1>1, <1>2
<1>9. at.dir <= at.copy
  BY <1>1, <1>2, <1>5
<1>10. at.copy < xlen
  BY <1>1, <1>2
<1> QED BY <1>2, <1>4, <1>5, <1>6, <1>7, <1>8, <1>9, <1>10 DEF n, A, C, l, b, nA

\* The cells of a region but boot.copy.
LEMMA PartOf ==
  ASSUME NEW image, NEW p, NEW files, NEW s, NEW dir, NEW at,
         Injects(image, p, files, s, dir, at),
         NEW n \in UsedOf(p.regions), NEW r, r = p.regions[n], r.patch # "boot.copy",
         NEW k \in 0 .. r.len - 1
  PROVE  image[r.offset + k + 1] =
           IF r.patch \in Copies THEN Cell(wim, CopiedFrom(p, r), CopiedAt(p, r) + k)
           ELSE RegionCells(p, files, r)[k + 1]
<1>1. /\ xlen \in Nat /\ p.regions \in Seq(Regions) /\ TableApart(p.regions, xlen)
      /\ HasSources(p)
  BY LayoutNumbers
<1>2. IsImage(image) /\ p = cached_patch /\ files = vdisk_files
  BY DEF Injects
<1>3. k \in Nat
  OBVIOUS
<1>4. image[r.offset + k + 1] = Method(p, files, r, k, 1)[1]
  BY <1>1, <1>2, RegionImage
<1> QED BY <1>1, <1>3, <1>4, CopyCell, MadeCell

HasParts(image, p, files) ==
  \A n \in UsedOf(p.regions) : \A r : r = p.regions[n] =>
    /\ r.patch \in {"lookup.copy", "dir.copy"} =>
         \A k \in 0 .. r.len - 1 :
           image[r.offset + k + 1] = Cell(wim, CopiedFrom(p, r), CopiedAt(p, r) + k)
    /\ r.patch \notin Copies =>
         \A k \in 0 .. r.len - 1 :
           image[r.offset + k + 1] = RegionCells(p, files, r)[k + 1]

LEMMA MadeEntry ==
  ASSUME NEW image, NEW p, NEW files, HasParts(image, p, files),
         NEW n \in UsedOf(p.regions), p.regions[n].patch \notin Copies,
         p.regions[n].offset \in Nat, p.regions[n].len = 2
  PROVE  /\ image[p.regions[n].offset + 1] = RegionCells(p, files, p.regions[n])[1]
         /\ image[p.regions[n].offset + 2] = RegionCells(p, files, p.regions[n])[2]
<1>1. PICK r : r = p.regions[n]
  OBVIOUS
<1>2. \A j \in 0 .. r.len - 1 : image[r.offset + j + 1] = RegionCells(p, files, r)[j + 1]
  BY <1>1 DEF HasParts
<1>3. PICK o \in Nat : o = r.offset
  BY <1>1
<1>4. 0 \in 0 .. r.len - 1 /\ 1 \in 0 .. r.len - 1
  BY <1>1
<1>5. /\ image[o + 0 + 1] = RegionCells(p, files, r)[0 + 1]
      /\ image[o + 1 + 1] = RegionCells(p, files, r)[1 + 1]
  BY <1>2, <1>3, <1>4, Zenon
<1>6. o + 0 + 1 = o + 1 /\ o + 1 + 1 = o + 2
  OBVIOUS
<1>7. 0 + 1 = 1 /\ 1 + 1 = 2
  OBVIOUS
<1>8. /\ image[o + 1] = RegionCells(p, files, r)[1]
      /\ image[o + 2] = RegionCells(p, files, r)[2]
  BY <1>5, <1>6, <1>7, Zenon
<1> QED BY <1>1, <1>3, <1>8, Zenon

LEMMA PartsOf ==
  ASSUME NEW image, NEW p, NEW files, NEW s, NEW dir, NEW at,
         Injects(image, p, files, s, dir, at)
  PROVE  HasParts(image, p, files)
<1> USE DEF HasParts
<1> TAKE n \in UsedOf(p.regions)
<1> TAKE r
<1> HAVE r = p.regions[n]
<1>1. r.patch \in {"lookup.copy", "dir.copy"} => r.patch \in Copies /\ r.patch # "boot.copy"
  BY DEF Copies
<1>2. r.patch \notin Copies => r.patch # "boot.copy"
  BY DEF Copies
<1>3. ASSUME NEW k \in 0 .. r.len - 1, r.patch # "boot.copy"
      PROVE  image[r.offset + k + 1] =
               IF r.patch \in Copies THEN Cell(wim, CopiedFrom(p, r), CopiedAt(p, r) + k)
               ELSE RegionCells(p, files, r)[k + 1]
  BY <1>3, PartOf
<1> QED BY <1>1, <1>2, <1>3

\* Where the regions are.
LEMMA InjectsPlaces ==
  ASSUME NEW image, NEW p, NEW files, NEW s, NEW dir, NEW at,
         Injects(image, p, files, s, dir, at)
  PROVE  LET M == VDISK_MAX_FILES
             R == p.regions
             lookup == s.header.lookup
         IN  /\ {1, M + 2, M + 3, 2 * M + 4, 2 * M + 5, 2 * M + 6} \subseteq UsedOf(R)
             /\ R[1] = Region("header", 0, 0, HeaderLen)
             /\ R[M + 2] = Region("lookup.copy", 0, at.lookup, lookup.len)
             /\ R[M + 3] = Region("lookup.boot", 0, at.lookup + lookup.len, LookupLen)
             /\ R[2 * M + 4] = Region("boot.copy", 0, at.boot, s.boot.len)
             /\ R[2 * M + 5] = Region("dir.subdir", 0, at.boot + dir.parent + SubdirAt, 1)
             /\ R[2 * M + 6] = Region("dir.copy", 0, at.copy, dir.len)
             /\ \A i \in Injected(files) :
                  /\ {1 + i, M + 3 + i, 2 * M + 6 + i} \subseteq UsedOf(R)
                  /\ R[1 + i] = FileRegion(files, i)
                  /\ R[M + 3 + i] = LookupRegion(files, at.lookup + lookup.len, i)
                  /\ R[2 * M + 6 + i] = DirentRegion(files, at.dir, i)
<1>1. RegionsAt(p.regions, files, s.header.lookup, s.boot, dir, at)
  BY Zenon DEF Injects, IsInjecting
<1>2. Injected(files) \subseteq 1 .. VDISK_MAX_FILES
  BY LayoutNumbers
<1>3. LET M == VDISK_MAX_FILES
          R == p.regions
      IN  /\ {1, M + 2, M + 3, 2 * M + 4, 2 * M + 5, 2 * M + 6} \subseteq UsedOf(R)
          /\ \A i \in Injected(files) :
               /\ {1 + i, M + 3 + i, 2 * M + 6 + i} \subseteq UsedOf(R)
               /\ R[1 + i] = FileRegion(files, i)
               /\ R[M + 3 + i] = LookupRegion(files, at.lookup + s.header.lookup.len, i)
               /\ R[2 * M + 6 + i] = DirentRegion(files, at.dir, i)
  BY <1>1, <1>2, RegionPlaces
<1> QED BY <1>1, <1>3, Zenon DEF RegionsAt

\* The header.
LEMMA HeaderPart ==
  ASSUME NEW image, NEW p, NEW files, NEW s, NEW dir, NEW at,
         Injects(image, p, files, s, dir, at)
  PROVE  \A j \in 1 .. HeaderLen : image[j] = HeaderCells(p.header)[j]
<1> TAKE j \in 1 .. HeaderLen
<1>1. 1 \in UsedOf(p.regions)
  BY InjectsPlaces
<1>2. PICK r : r = p.regions[1]
  OBVIOUS
<1>3. r = Region("header", 0, 0, HeaderLen)
  BY <1>2, InjectsPlaces
<1>4. r.patch = "header" /\ r.offset = 0 /\ r.len = HeaderLen
  BY <1>3 DEF Region
<1>5. j - 1 \in 0 .. r.len - 1 /\ r.offset + (j - 1) + 1 = j /\ j - 1 + 1 = j
  BY <1>4 DEF HeaderLen
<1>6. r.patch \notin Copies /\ r.patch # "boot.copy"
  BY <1>4 DEF Copies
<1>7. image[r.offset + (j - 1) + 1] = RegionCells(p, files, r)[j - 1 + 1]
  BY <1>1, <1>2, <1>5, <1>6, PartsOf DEF HasParts
<1>8. RegionCells(p, files, r) = HeaderCells(p.header)
  BY <1>4 DEF RegionCells
<1> QED BY <1>5, <1>7, <1>8

\* The files.
LEMMA FilePart ==
  ASSUME NEW image, NEW p, NEW files, NEW s, NEW dir, NEW at,
         Injects(image, p, files, s, dir, at), NEW i \in Injected(files)
  PROVE  LET o == FileRegion(files, i).offset
         IN  /\ o \in Nat /\ Len(wim) <= o /\ o + Len(files[i].cells) <= xlen
             /\ Len(files[i].cells) \in Nat /\ p.regions[1 + i].offset = o
             /\ \A k \in 1 .. Len(files[i].cells) : image[o + k] = files[i].cells[k]
<1>1. PICK n : n = 1 + i
  OBVIOUS
<1>2. n \in UsedOf(p.regions) /\ p.regions[n] = FileRegion(files, i)
  BY <1>1, InjectsPlaces
<1>3. PICK r : r = p.regions[n]
  OBVIOUS
<1>4. r.patch = "file" /\ r.opaque = i /\ r.len = Len(files[i].cells)
  BY <1>2, <1>3 DEF FileRegion, Region
<1>5. r.offset \in Nat /\ r.len \in Nat
  BY <1>2, <1>3, LayoutNumbers, UsedTyped
<1>6. r.offset + r.len <= xlen /\ r.offset >= Len(wim)
  BY <1>2, <1>3, <1>4, LayoutNumbers DEF TableApart
<1>7. r.patch \notin Copies /\ r.patch # "boot.copy"
  BY <1>4 DEF Copies
<1>8. RegionCells(p, files, r) = files[i].cells
  BY <1>4 DEF RegionCells
<1>9. ASSUME NEW k \in 1 .. r.len PROVE image[r.offset + k] = files[i].cells[k]
  <2>1. k - 1 \in 0 .. r.len - 1 /\ r.offset + (k - 1) + 1 = r.offset + k /\ k - 1 + 1 = k
    BY <1>5
  <2>2. image[r.offset + (k - 1) + 1] = RegionCells(p, files, r)[k - 1 + 1]
    BY <1>2, <1>3, <1>7, <2>1, PartsOf DEF HasParts
  <2> QED BY <1>8, <2>1, <2>2
<1>10. Len(wim) <= r.offset
  BY <1>5, <1>6, LayoutNumbers
<1> QED BY <1>1, <1>2, <1>3, <1>4, <1>5, <1>6, <1>9, <1>10

\* The lookup table: the entries it had, that of the new metadata, those of the files.
LookupCopied(image, p, files, lookup, start) ==
  LET x == start + lookup.len
  IN  /\ \A k \in 0 .. lookup.len - 1 : image[start + k + 1] = Cell(wim, lookup, k)
      /\ image[x + 1] = [resource |-> p.header.boot] /\ image[x + 2] = [hash |-> NoHash]
      /\ \A i \in Injected(files) : \A o, l :
           o = x + (1 + Rank(files, i)) * 2 /\ l = Len(files[i].cells) =>
             /\ image[o + 1] = [resource |-> Resource(FileRegion(files, i).offset, l, l,
                                                      FALSE, FALSE)]
             /\ image[o + 2] = [hash |-> wim_hash(files[i].cells)]

LEMMA LookupPart ==
  ASSUME NEW image, NEW p, NEW files, NEW s, NEW dir, NEW at,
         Injects(image, p, files, s, dir, at)
  PROVE  LookupCopied(image, p, files, s.header.lookup, at.lookup)
<1> DEFINE lookup == s.header.lookup
           x == at.lookup + lookup.len
           M == VDISK_MAX_FILES
           R == p.regions
<1>0. HasParts(image, p, files)
  BY PartsOf
<1>1. /\ at.lookup \in Nat /\ lookup.len \in Nat /\ p.lookup = lookup
  BY LayoutNumbers DEF Injects, IsInjecting
<1>2. ASSUME NEW k \in 0 .. lookup.len - 1
      PROVE  image[at.lookup + k + 1] = Cell(wim, lookup, k)
  <2>1. PICK n : n = M + 2
    OBVIOUS
  <2>2. PICK r : r = R[n]
    OBVIOUS
  <2>3. n \in UsedOf(R) /\ r = Region("lookup.copy", 0, at.lookup, lookup.len)
    BY <2>1, <2>2, InjectsPlaces
  <2>4. r.patch = "lookup.copy" /\ r.offset = at.lookup /\ r.len = lookup.len
    BY <2>3 DEF Region
  <2>5. r.patch \in Copies /\ r.patch # "boot.copy"
    BY <2>4 DEF Copies
  <2>6. CopiedFrom(p, r) = lookup /\ CopiedAt(p, r) = 0
    BY <1>1, <2>4 DEF CopiedFrom, CopiedAt
  <2>7. \A j \in 0 .. r.len - 1 :
          image[r.offset + j + 1] = Cell(wim, CopiedFrom(p, r), CopiedAt(p, r) + j)
    <3>1. n \in UsedOf(p.regions) /\ r = p.regions[n]
      BY <2>2, <2>3
    <3>2. r.patch \in {"lookup.copy", "dir.copy"}
      BY <2>4
    <3> QED BY <1>0, <3>1, <3>2 DEF HasParts
  <2> QED BY <2>4, <2>6, <2>7
<1>3. image[x + 1] = [resource |-> p.header.boot] /\ image[x + 2] = [hash |-> NoHash]
  <2>1. PICK n : n = M + 3
    OBVIOUS
  <2>2. PICK r : r = R[n]
    OBVIOUS
  <2>3. n \in UsedOf(R) /\ r = Region("lookup.boot", 0, x, LookupLen)
    BY <2>1, <2>2, InjectsPlaces
  <2>4. r.patch = "lookup.boot" /\ r.offset = x /\ r.len = 2
    BY <2>3 DEF Region, LookupLen
  <2>5. r.patch \notin Copies /\ r.patch # "boot.copy"
    BY <2>4 DEF Copies
  <2>6. RegionCells(p, files, r) = LookupCells(p.header.boot, NoHash)
    BY <2>4 DEF RegionCells
  <2>8. x \in Nat
    BY <1>1
  <2>9. n \in UsedOf(p.regions) /\ r = p.regions[n]
    BY <2>2, <2>3
  <2>10. /\ image[x + 1] = RegionCells(p, files, r)[1]
        /\ image[x + 2] = RegionCells(p, files, r)[2]
    <3> HIDE DEF R, x, M
    <3>1. /\ n \in UsedOf(p.regions)
          /\ p.regions[n].patch \notin Copies
          /\ p.regions[n].offset = x
          /\ p.regions[n].len = 2
      BY <2>4, <2>5, <2>9, Zenon
    <3>2. p.regions[n].offset \in Nat
      BY <2>8, <3>1, Zenon
    <3>3. /\ image[p.regions[n].offset + 1] = RegionCells(p, files, p.regions[n])[1]
          /\ image[p.regions[n].offset + 2] = RegionCells(p, files, p.regions[n])[2]
      BY <1>0, <3>1, <3>2, MadeEntry
    <3> QED BY <2>9, <3>1, <3>3, Zenon
  <2> QED BY <2>6, <2>10 DEF LookupCells
<1>4. ASSUME NEW i \in Injected(files), NEW o, o = x + (1 + Rank(files, i)) * 2,
             NEW l, l = Len(files[i].cells)
      PROVE  /\ image[o + 1] = [resource |-> Resource(FileRegion(files, i).offset, l, l,
                                                      FALSE, FALSE)]
             /\ image[o + 2] = [hash |-> wim_hash(files[i].cells)]
  <2>1. PICK n : n = M + 3 + i
    OBVIOUS
  <2>2. PICK r : r = R[n]
    OBVIOUS
  <2>3. n \in UsedOf(R) /\ r = LookupRegion(files, x, i) /\ R[1 + i] = FileRegion(files, i)
    BY <2>1, <2>2, InjectsPlaces
  <2>4. r.patch = "lookup.file" /\ r.offset = o /\ r.len = 2 /\ r.opaque = i
    BY <1>4, <2>3 DEF LookupRegion, Region, LookupLen
  <2>5. r.patch \notin Copies /\ r.patch # "boot.copy"
    BY <2>4 DEF Copies
  <2>6. RegionCells(p, files, r)
          = LookupCells(Resource(FileRegion(files, i).offset, l, l, FALSE, FALSE),
                        wim_hash(files[i].cells))
    BY <1>4, <2>3, <2>4 DEF RegionCells
  <2>8. o \in Nat
    <3>1. r.offset \in Nat
      BY <2>2, <2>3, LayoutNumbers, UsedTyped
    <3> QED BY <2>4, <3>1
  <2>9. n \in UsedOf(p.regions) /\ r = p.regions[n]
    BY <2>2, <2>3
  <2>10. /\ image[o + 1] = RegionCells(p, files, r)[1]
        /\ image[o + 2] = RegionCells(p, files, r)[2]
    <3> HIDE DEF R, x, M
    <3>1. /\ n \in UsedOf(p.regions)
          /\ p.regions[n].patch \notin Copies
          /\ p.regions[n].offset = o
          /\ p.regions[n].len = 2
      BY <2>4, <2>5, <2>9, Zenon
    <3>2. p.regions[n].offset \in Nat
      BY <2>8, <3>1, Zenon
    <3>3. /\ image[p.regions[n].offset + 1] = RegionCells(p, files, p.regions[n])[1]
          /\ image[p.regions[n].offset + 2] = RegionCells(p, files, p.regions[n])[2]
      BY <1>0, <3>1, <3>2, MadeEntry
    <3> QED BY <2>9, <3>1, <3>3, Zenon
  <2> QED BY <2>6, <2>10 DEF LookupCells
<1> QED BY <1>2, <1>3, <1>4 DEF LookupCopied

\* What is read of a window that can be read can be read too.
LEMMA ReadableWithin ==
  ASSUME NEW image, IsWim(image), NEW res, IsSound(image, res),
         NEW a \in Nat, NEW b \in Nat, wim_readable(image, res, a, b),
         NEW x \in Nat, NEW n \in Nat, x + n <= a + b
  PROVE  wim_readable(image, res, x, n)
<1>1. /\ res.offset \in Nat /\ res.zlen \in Nat /\ res.len \in Nat /\ Len(image) \in Nat
  BY DEF IsSound, Resources, IsWim, HoldsFields
<1>2. a + b <= res.len /\ res.offset + res.zlen <= Len(image)
  BY DEF wim_readable
<1>3. CASE res.compressed
  <2>1. res.offset + 1 \in 1 .. Len(image) /\ IsPacked(image[res.offset + 1])
    BY <1>1, <1>2, <1>3 DEF IsSound, IsStored
  <2>2. Len(Unpacked(image, res)) \in Nat
    BY <2>1 DEF IsWim, HoldsFields, Unpacked
  <2>3. a + b <= Len(Unpacked(image, res))
    BY <1>3 DEF wim_readable
  <2>4. x + n <= res.len /\ x + n <= Len(Unpacked(image, res))
    BY <1>1, <1>2, <2>2, <2>3
  <2> QED BY <1>2, <2>4 DEF wim_readable
<1>4. CASE ~res.compressed
  <2>1. x + n <= res.len
    BY <1>1, <1>2
  <2> QED BY <1>2, <1>4, <2>1 DEF wim_readable
<1> QED BY <1>3, <1>4

LEMMA CellNumber ==
  ASSUME NEW image, IsWim(image), NEW res, IsSound(image, res), NEW x \in Nat,
         wim_readable(image, res, x, 1)
  PROVE  NumberIn(Cell(image, res, x)) \in Nat
<1>1. res.offset \in Nat /\ 1 \in 1 .. 1 /\ x + 1 - 1 = x /\ 1 \in Nat
  BY DEF IsSound, Resources
<1>2. wim_read(image, res, x, 1)[1] = Cell(image, res, x + 1 - 1)
  BY <1>1, ReadCell
<1>3. NumberIn(wim_read(image, res, x, 1)[1]) \in Nat
  BY <1>1, FieldRead
<1> QED BY <1>1, <1>2, <1>3

\* What was copied was read whole.
LEMMA OldMetadata ==
  ASSUME NEW image, NEW p, NEW files, NEW s, NEW dir, NEW at,
         Injects(image, p, files, s, dir, at)
  PROVE  /\ \A x, n \in Nat : x + n <= s.boot.len => wim_readable(wim, s.boot, x, n)
         /\ \A x, n \in Nat : n > 0 /\ x + n <= s.header.lookup.len =>
              wim_readable(wim, s.header.lookup, x, n)
         /\ dir.len > 0 => wim_readable(wim, s.boot, dir.offset, dir.len)
<1>1. /\ s.boot.len \in Nat /\ dir.parent \in Nat /\ dir.parent + 4 <= s.boot.len
      /\ s.header.lookup.len \in Nat
  BY LayoutNumbers
<1>2. /\ IsWim(wim) /\ IsSound(wim, s.boot) /\ IsSound(wim, s.header.lookup)
      /\ p = cached_patch /\ CopiesRead
  BY DEF Injects
<1>3. p.lookup = s.header.lookup /\ p.boot = s.boot /\ p.dir.offset = dir.offset
  BY DEF Injects, IsInjecting
<1> DEFINE M == VDISK_MAX_FILES
<1>a. PICK m : m = 2 * M + 4
  OBVIOUS
<1>4. PICK r : r = p.regions[m]
  OBVIOUS
<1>6. m \in UsedOf(p.regions) /\ r = Region("boot.copy", 0, at.boot, s.boot.len)
  BY <1>a, <1>4, InjectsPlaces
<1>5. r.patch = "boot.copy" /\ r.len = s.boot.len
  BY <1>6 DEF Region
<1>7. wim_readable(wim, s.boot, 0, s.boot.len)
  <2>1. r.patch \in Copies /\ r.len > 0
    BY <1>1, <1>5 DEF Copies
  <2>2. CopiedFrom(p, r) = s.boot /\ CopiedAt(p, r) = 0
    BY <1>3, <1>5 DEF CopiedFrom, CopiedAt
  <2> QED BY <1>2, <1>4, <1>5, <1>6, <2>1, <2>2 DEF CopiesRead
<1>8. ASSUME NEW x \in Nat, NEW n \in Nat, x + n <= s.boot.len
      PROVE  wim_readable(wim, s.boot, x, n)
  <2>1. x + n <= 0 + s.boot.len /\ 0 \in Nat
    BY <1>1, <1>8
  <2> QED BY <1>1, <1>2, <1>7, <2>1, ReadableWithin
<1>b. PICK l : l = M + 2
  OBVIOUS
<1>9. PICK q : q = p.regions[l]
  OBVIOUS
<1>11. l \in UsedOf(p.regions) /\ q = Region("lookup.copy", 0, at.lookup, s.header.lookup.len)
  BY <1>b, <1>9, InjectsPlaces
<1>10. q.patch = "lookup.copy" /\ q.len = s.header.lookup.len
  BY <1>11 DEF Region
<1>12. ASSUME s.header.lookup.len > 0
       PROVE  wim_readable(wim, s.header.lookup, 0, s.header.lookup.len)
  <2>1. q.patch \in Copies /\ q.len > 0
    BY <1>10, <1>12 DEF Copies
  <2>2. CopiedFrom(p, q) = s.header.lookup /\ CopiedAt(p, q) = 0
    BY <1>3, <1>10 DEF CopiedFrom, CopiedAt
  <2> QED BY <1>2, <1>9, <1>10, <1>11, <2>1, <2>2 DEF CopiesRead
<1>13. ASSUME NEW x \in Nat, NEW n \in Nat, n > 0, x + n <= s.header.lookup.len
       PROVE  wim_readable(wim, s.header.lookup, x, n)
  <2>1. s.header.lookup.len > 0 /\ x + n <= 0 + s.header.lookup.len /\ 0 \in Nat
    BY <1>1, <1>13
  <2> QED BY <1>1, <1>2, <1>12, <2>1, ReadableWithin
<1>c. PICK c : c = 2 * M + 6
  OBVIOUS
<1>14. PICK d : d = p.regions[c]
  OBVIOUS
<1>16. c \in UsedOf(p.regions) /\ d = Region("dir.copy", 0, at.copy, dir.len)
  BY <1>c, <1>14, InjectsPlaces
<1>15. d.patch = "dir.copy" /\ d.len = dir.len
  BY <1>16 DEF Region
<1>17. ASSUME dir.len > 0 PROVE wim_readable(wim, s.boot, dir.offset, dir.len)
  <2>1. d.patch \in Copies /\ d.len > 0
    BY <1>15, <1>17 DEF Copies
  <2>2. CopiedFrom(p, d) = s.boot /\ CopiedAt(p, d) = dir.offset
    BY <1>3, <1>15 DEF CopiedFrom, CopiedAt
  <2> QED BY <1>2, <1>14, <1>15, <1>16, <2>1, <2>2 DEF CopiesRead
<1> QED BY <1>8, <1>13, <1>17

\* The metadata.
LEMMA BootPart ==
  ASSUME NEW image, NEW p, NEW files, NEW s, NEW dir, NEW at,
         Injects(image, p, files, s, dir, at)
  PROVE  /\ \A k \in 0 .. s.boot.len - 1 :
              k # dir.parent + 1 => image[at.boot + k + 1] = Cell(wim, s.boot, k)
         /\ image[at.boot + (dir.parent + 1) + 1] = Number(at.dir - at.boot)
<1> DEFINE M == VDISK_MAX_FILES
           R == p.regions
<1>0. HasParts(image, p, files)
  BY PartsOf
<1>1. /\ xlen \in Nat /\ R \in Seq(Regions) /\ TableApart(R, xlen) /\ HasSources(p)
      /\ at.boot \in Nat /\ dir.parent \in Nat /\ s.boot.len \in Nat
  BY LayoutNumbers
<1>2. /\ IsImage(image) /\ p = cached_patch /\ files = vdisk_files
      /\ p.boot = s.boot /\ p.dir.subdir = at.dir - at.boot
      /\ RegionsAt(R, files, s.header.lookup, s.boot, dir, at)
  BY DEF Injects, IsInjecting
<1>3. PICK n : n = 2 * M + 4
  OBVIOUS
<1>4. PICK r : r = R[n]
  OBVIOUS
<1>5. n \in UsedOf(R) /\ r = Region("boot.copy", 0, at.boot, s.boot.len)
  BY <1>3, <1>4, InjectsPlaces
<1>6. r.patch = "boot.copy" /\ r.offset = at.boot /\ r.len = s.boot.len
  BY <1>5 DEF Region
<1>7. r.patch \in Copies /\ CopiedFrom(p, r) = s.boot /\ CopiedAt(p, r) = 0
  BY <1>2, <1>6 DEF Copies, CopiedFrom, CopiedAt
<1>8. ASSUME NEW m \in UsedOf(R), R[m].patch = "dir.subdir"
      PROVE  R[m].offset = at.boot + dir.parent + 1 /\ R[m].len = 1
  <2>1. R[m] = Region("dir.subdir", 0, at.boot + dir.parent + SubdirAt, 1)
    <3>1. PICK q : q = R[m]
      OBVIOUS
    <3>2. \/ q = Region("header", 0, 0, HeaderLen)
          \/ \E i \in Injected(files) : q = FileRegion(files, i)
          \/ q = Region("lookup.copy", 0, at.lookup, s.header.lookup.len)
          \/ q = Region("lookup.boot", 0, at.lookup + s.header.lookup.len, LookupLen)
          \/ \E i \in Injected(files) : q = LookupRegion(files, at.lookup + s.header.lookup.len, i)
          \/ q = Region("boot.copy", 0, at.boot, s.boot.len)
          \/ q = Region("dir.subdir", 0, at.boot + dir.parent + SubdirAt, 1)
          \/ q = Region("dir.copy", 0, at.copy, dir.len)
          \/ \E i \in Injected(files) : q = DirentRegion(files, at.dir, i)
      BY <1>2, <1>8, <3>1, RegionKinds
    <3>3. \A i \in Injected(files) :
            /\ FileRegion(files, i).patch = "file"
            /\ LookupRegion(files, at.lookup + s.header.lookup.len, i).patch = "lookup.file"
            /\ DirentRegion(files, at.dir, i).patch = "dir.file"
      BY DEF FileRegion, LookupRegion, DirentRegion, Region
    <3>4. q.patch = "dir.subdir"
      BY <1>8, <3>1
    <3> HIDE DEF R
    <3>5. \A a, b : /\ Region("header", a, b, HeaderLen).patch = "header"
                   /\ Region("lookup.boot", a, b, LookupLen).patch = "lookup.boot"
      BY DEF Region
    <3>6. /\ Region("lookup.copy", 0, at.lookup, s.header.lookup.len).patch = "lookup.copy"
          /\ Region("boot.copy", 0, at.boot, s.boot.len).patch = "boot.copy"
          /\ Region("dir.copy", 0, at.copy, dir.len).patch = "dir.copy"
      BY DEF Region
    <3> QED BY <3>1, <3>2, <3>3, <3>4, <3>5, <3>6
  <2> QED BY <2>1 DEF Region, SubdirAt
<1>9. ASSUME NEW k \in 0 .. s.boot.len - 1, k # dir.parent + 1
      PROVE  image[at.boot + k + 1] = Cell(wim, s.boot, k)
  <2>1. \A m \in UsedOf(R) : R[m].patch = "dir.subdir" => ~Covers(R[m], R[n].offset + k)
    <3> TAKE m \in UsedOf(R)
    <3> HAVE R[m].patch = "dir.subdir"
    <3>1. R[m].offset = at.boot + dir.parent + 1 /\ R[m].len = 1
      BY <1>8
    <3>2. R[n].offset = at.boot /\ k \in Nat
      BY <1>4, <1>6
    <3> QED BY <1>1, <1>9, <3>1, <3>2 DEF Covers
  <2>2. k \in 0 .. R[n].len - 1 /\ k \in Nat
    BY <1>4, <1>6
  <2>3. image[R[n].offset + k + 1] = Method(cached_patch, vdisk_files, R[n], k, 1)[1]
    <3>1. R = cached_patch.regions
      BY <1>2
    <3> HIDE DEF R
    <3> QED BY <1>1, <1>2, <1>5, <2>1, <2>2, <3>1, RegionImage
  <2>4. image[at.boot + k + 1] = Method(p, files, r, k, 1)[1]
    BY <1>2, <1>4, <1>6, <2>3
  <2>5. Method(p, files, r, k, 1)[1] = Cell(wim, CopiedFrom(p, r), CopiedAt(p, r) + k)
    BY <1>1, <1>7, <2>2, CopyCell
  <2> QED BY <1>7, <2>2, <2>4, <2>5
<1>10. image[at.boot + (dir.parent + 1) + 1] = Number(at.dir - at.boot)
  <2>1. PICK m : m = 2 * M + 5
    OBVIOUS
  <2>2. PICK q : q = R[m]
    OBVIOUS
  <2>3. m \in UsedOf(R) /\ q = Region("dir.subdir", 0, at.boot + dir.parent + SubdirAt, 1)
    BY <2>1, <2>2, InjectsPlaces
  <2>4. q.patch = "dir.subdir" /\ q.offset = at.boot + dir.parent + 1 /\ q.len = 1
    BY <2>3 DEF Region, SubdirAt
  <2>5. q.patch \notin Copies /\ 0 \in 0 .. q.len - 1
    BY <2>4 DEF Copies
  <2>6. image[q.offset + 0 + 1] = RegionCells(p, files, q)[0 + 1]
    BY <1>0, <2>2, <2>3, <2>5 DEF HasParts
  <2>7. RegionCells(p, files, q)[1] = Number(at.dir - at.boot)
    BY <1>2, <2>4 DEF RegionCells
  <2>8. q.offset + 0 + 1 = at.boot + (dir.parent + 1) + 1
    BY <1>1, <2>4
  <2> QED BY <2>6, <2>7, <2>8
<1> QED BY <1>9, <1>10

\* The directory for injected files.
LEMMA DirPart ==
  ASSUME NEW image, NEW p, NEW files, NEW s, NEW dir, NEW at,
         Injects(image, p, files, s, dir, at)
  PROVE  /\ \A k \in 0 .. dir.len - 1 :
              image[at.copy + k + 1] = Cell(wim, s.boot, dir.offset + k)
         /\ \A i \in Injected(files) :
              LET A == wim_align(PatchDirentLen)
                  e == DirentCells(A, 0, wim_hash(files[i].cells), files[i].name)
              IN  \A j \in 0 .. 3 : image[at.dir + Rank(files, i) * A + j + 1] = e[j + 1]
<1> DEFINE M == VDISK_MAX_FILES
           R == p.regions
           A == wim_align(PatchDirentLen)
<1>0. HasParts(image, p, files)
  BY PartsOf
<1>1. at.copy \in Nat /\ dir.len \in Nat /\ dir.offset \in Nat
  BY LayoutNumbers
<1>2. p.boot = s.boot /\ p.dir.offset = dir.offset
  BY DEF Injects, IsInjecting
<1>3. ASSUME NEW k \in 0 .. dir.len - 1
      PROVE  image[at.copy + k + 1] = Cell(wim, s.boot, dir.offset + k)
  <2>1. PICK n : n = 2 * M + 6
    OBVIOUS
  <2>2. PICK r : r = R[n]
    OBVIOUS
  <2>3. n \in UsedOf(R) /\ r = Region("dir.copy", 0, at.copy, dir.len)
    BY <2>1, <2>2, InjectsPlaces
  <2>4. r.patch = "dir.copy" /\ r.offset = at.copy /\ r.len = dir.len
    BY <2>3 DEF Region
  <2>5. r.patch \in {"lookup.copy", "dir.copy"}
    BY <2>4
  <2>6. CopiedFrom(p, r) = s.boot /\ CopiedAt(p, r) = dir.offset
    BY <1>2, <2>4 DEF CopiedFrom, CopiedAt
  <2>7. \A j \in 0 .. r.len - 1 :
          image[r.offset + j + 1] = Cell(wim, CopiedFrom(p, r), CopiedAt(p, r) + j)
    BY <1>0, <2>2, <2>3, <2>5 DEF HasParts
  <2> QED BY <2>4, <2>6, <2>7
<1>4. ASSUME NEW i \in Injected(files), NEW e,
             e = DirentCells(A, 0, wim_hash(files[i].cells), files[i].name),
             NEW j \in 0 .. 3
      PROVE  image[at.dir + Rank(files, i) * A + j + 1] = e[j + 1]
  <2>1. PICK n : n = 2 * M + 6 + i
    OBVIOUS
  <2>2. PICK r : r = R[n]
    OBVIOUS
  <2>3. n \in UsedOf(R) /\ r = DirentRegion(files, at.dir, i)
    BY <2>1, <2>2, InjectsPlaces
  <2>4. r.patch = "dir.file" /\ r.offset = at.dir + Rank(files, i) * A /\ r.len = 4 /\ r.opaque = i
    BY <2>3 DEF DirentRegion, Region, PatchDirentLen, DirentLen, NameLen
  <2>5. r.patch \notin Copies /\ j \in 0 .. r.len - 1
    BY <2>4 DEF Copies
  <2>6. RegionCells(p, files, r) = e
    BY <1>4, <2>4 DEF RegionCells
  <2>7. \A k \in 0 .. r.len - 1 : image[r.offset + k + 1] = RegionCells(p, files, r)[k + 1]
    BY <1>0, <2>2, <2>3, <2>5 DEF HasParts
  <2> QED BY <2>4, <2>5, <2>6, <2>7
<1> QED BY <1>3, <1>4

\* The file is kept behind its header.
Keeps(image) ==
  /\ Len(image) \in Nat /\ Len(wim) \in Nat /\ Len(wim) <= Len(image)
  /\ \A x \in HeaderLen .. Len(wim) - 1 : image[x + 1] = wim[x + 1]

LEMMA UncoveredCell ==
  ASSUME NEW image, IsImage(image), NEW pos \in Nat, pos < xlen, xlen \in Nat,
         NEW R, R = cached_patch.regions, \A n \in UsedOf(R) : ~Covers(R[n], pos)
  PROVE  image[pos + 1] = OriginalCell(pos)
<1>1. Used = UsedOf(R)
  BY DEF Used, UsedOf
<1>2. {n \in Used : Covers(cached_patch.regions[n], pos)} = {}
  BY <1>1
<1>3. PatchedCell(pos) = OriginalCell(pos)
  BY <1>2 DEF PatchedCell
<1> QED BY <1>3 DEF IsImage

LEMMA KeptPart ==
  ASSUME NEW image, NEW p, NEW files, NEW s, NEW dir, NEW at,
         Injects(image, p, files, s, dir, at)
  PROVE  Keeps(image)
<1> DEFINE R == p.regions
<1>1. /\ Len(wim) \in Nat /\ xlen \in Nat /\ Len(image) = xlen
      /\ R \in Seq(Regions) /\ TableApart(R, xlen)
  BY LayoutNumbers
<1>2. Len(wim) <= xlen
  <2>1. Len(wim) <= at.lookup /\ at.lookup <= at.boot /\ at.boot <= at.dir /\ at.dir <= at.copy
        /\ at.copy < xlen
    BY LayoutOrder
  <2>2. at.lookup \in Nat /\ at.boot \in Nat /\ at.dir \in Nat /\ at.copy \in Nat
    BY LayoutNumbers
  <2> QED BY <1>1, <2>1, <2>2
<1>3. /\ IsImage(image) /\ p = cached_patch
      /\ RegionsAt(R, files, s.header.lookup, s.boot, dir, at)
  BY DEF Injects, IsInjecting
<1>4. ASSUME NEW n \in UsedOf(R), R[n].patch = "header"
      PROVE  R[n].offset = 0 /\ R[n].len = HeaderLen
  <2>1. PICK q : q = R[n]
    OBVIOUS
  <2>2. \/ q = Region("header", 0, 0, HeaderLen)
        \/ \E i \in Injected(files) : q = FileRegion(files, i)
        \/ q = Region("lookup.copy", 0, at.lookup, s.header.lookup.len)
        \/ q = Region("lookup.boot", 0, at.lookup + s.header.lookup.len, LookupLen)
        \/ \E i \in Injected(files) : q = LookupRegion(files, at.lookup + s.header.lookup.len, i)
        \/ q = Region("boot.copy", 0, at.boot, s.boot.len)
        \/ q = Region("dir.subdir", 0, at.boot + dir.parent + SubdirAt, 1)
        \/ q = Region("dir.copy", 0, at.copy, dir.len)
        \/ \E i \in Injected(files) : q = DirentRegion(files, at.dir, i)
    BY <1>3, <1>4, <2>1, RegionKinds
  <2>3. \A i \in Injected(files) :
          /\ FileRegion(files, i).patch = "file"
          /\ LookupRegion(files, at.lookup + s.header.lookup.len, i).patch = "lookup.file"
          /\ DirentRegion(files, at.dir, i).patch = "dir.file"
    BY DEF FileRegion, LookupRegion, DirentRegion, Region
  <2>4. /\ Region("lookup.copy", 0, at.lookup, s.header.lookup.len).patch = "lookup.copy"
        /\ Region("lookup.boot", 0, at.lookup + s.header.lookup.len, LookupLen).patch = "lookup.boot"
        /\ Region("boot.copy", 0, at.boot, s.boot.len).patch = "boot.copy"
        /\ Region("dir.subdir", 0, at.boot + dir.parent + SubdirAt, 1).patch = "dir.subdir"
        /\ Region("dir.copy", 0, at.copy, dir.len).patch = "dir.copy"
    BY DEF Region
  <2>5. q.patch = "header"
    BY <1>4, <2>1
  <2> HIDE DEF R
  <2>6. q = Region("header", 0, 0, HeaderLen)
    BY <2>2, <2>3, <2>4, <2>5
  <2> QED BY <2>1, <2>6 DEF Region
<1>5. ASSUME NEW x \in HeaderLen .. Len(wim) - 1 PROVE image[x + 1] = wim[x + 1]
  <2>1. x \in Nat /\ x < xlen /\ HeaderLen <= x /\ x < Len(wim) /\ HeaderLen = 4
    BY <1>1, <1>2 DEF HeaderLen
  <2>2. ASSUME NEW n \in UsedOf(R), Covers(R[n], x) PROVE FALSE
    <3>1. R[n].patch = "header" \/ R[n].offset >= Len(wim)
      BY <1>1 DEF TableApart
    <3>2. R[n].offset \in Nat /\ R[n].len \in Nat
      BY <1>1, UsedTyped
    <3>3. R[n].offset <= x /\ x < R[n].offset + R[n].len
      BY <2>2, Zenon DEF Covers
    <3>4. R[n].patch # "header"
      BY <1>4, <2>1, <3>3
    <3> QED BY <1>1, <2>1, <3>1, <3>2, <3>3, <3>4
  <2>3. image[x + 1] = OriginalCell(x)
    BY <1>1, <1>3, <2>1, <2>2, UncoveredCell
  <2> QED BY <2>1, <2>3 DEF OriginalCell
<1> QED BY <1>1, <1>2, <1>5 DEF Keeps

\* The new metadata holds numbers where entries have their lengths.
LEMMA NumbersPart ==
  ASSUME NEW image, NEW p, NEW files, NEW s, NEW dir, NEW at,
         Injects(image, p, files, s, dir, at),
         NEW pos \in Nat, at.boot <= pos, pos < xlen
  PROVE  NumberIn(image[pos + 1]) \in Nat
<1> DEFINE R == p.regions
           l == s.header.lookup.len
           b == s.boot.len
           N == Cardinality(Injected(files))
           A == wim_align(PatchDirentLen)
<1>0. R \in Seq(Regions)
  BY LayoutNumbers
<1>1. /\ Len(wim) \in Nat /\ xlen \in Nat
      /\ at.lookup \in Nat /\ at.boot \in Nat /\ at.dir \in Nat /\ at.copy \in Nat
      /\ l \in Nat /\ b \in Nat /\ dir.parent \in Nat /\ dir.offset \in Nat /\ dir.len \in Nat
      /\ N \in Nat
  BY LayoutNumbers
<1>2. /\ Len(wim) + CellsBefore(files, VDISK_MAX_FILES + 1) <= at.lookup
      /\ at.lookup + l + (1 + N) * 2 <= at.boot
      /\ at.boot + b <= at.dir /\ at.boot <= at.dir /\ A \in Nat
      /\ HeaderLen <= Len(wim) /\ Len(wim) <= at.lookup
  BY LayoutOrder
<1>3. /\ IsImage(image) /\ p = cached_patch /\ IsTable(files)
      /\ IsWim(wim) /\ IsSound(wim, s.boot)
      /\ RegionsAt(R, files, s.header.lookup, s.boot, dir, at)
  BY DEF Injects, IsInjecting
<1>a. /\ \A x, n \in Nat : x + n <= b => wim_readable(wim, s.boot, x, n)
      /\ dir.len > 0 => wim_readable(wim, s.boot, dir.offset, dir.len)
  BY OldMetadata
<1>b. at.lookup + l + 2 <= at.boot
  <2>1. (1 + N) * 2 >= 2 /\ (1 + N) * 2 \in Nat
    BY <1>1
  <2> HIDE DEF N, l, b, A
  <2>2. PICK m : m = (1 + N) * 2
    OBVIOUS
  <2> QED BY <1>1, <1>2, <2>1, <2>2
<1> HIDE DEF N, A, l, b
<1>4. CASE \A n \in UsedOf(R) : ~Covers(R[n], pos)
  <2>1. image[pos + 1] = OriginalCell(pos)
    BY <1>1, <1>3, <1>4, UncoveredCell
  <2>2. ~(pos < Len(wim))
    BY <1>1, <1>2, <1>b
  <2> QED BY <2>1, <2>2 DEF OriginalCell, Zero, Number, NumberIn
<1>5. ASSUME NEW k \in 0 .. b - 1 PROVE NumberIn(image[at.boot + k + 1]) \in Nat
  <2>1. CASE k = dir.parent + 1
    <3>1. image[at.boot + k + 1] = Number(at.dir - at.boot)
      BY <2>1, BootPart DEF b
    <3>2. at.dir - at.boot \in Nat
      BY <1>1, <1>2
    <3> QED BY <3>1, <3>2 DEF Number, NumberIn
  <2>2. CASE k # dir.parent + 1
    <3>1. image[at.boot + k + 1] = Cell(wim, s.boot, k)
      BY <2>2, BootPart DEF b
    <3>2. k \in Nat /\ k + 1 <= b /\ 1 \in Nat
      BY <1>1
    <3>3. wim_readable(wim, s.boot, k, 1)
      BY <1>a, <3>2 DEF b
    <3> QED BY <1>3, <3>1, <3>2, <3>3, CellNumber
  <2> QED BY <2>1, <2>2
<1>6. ASSUME NEW k \in 0 .. dir.len - 1 PROVE NumberIn(image[at.copy + k + 1]) \in Nat
  <2>1. image[at.copy + k + 1] = Cell(wim, s.boot, dir.offset + k)
    BY DirPart
  <2>2. /\ dir.offset + k \in Nat /\ dir.offset + k + 1 <= dir.offset + dir.len /\ 1 \in Nat
        /\ dir.len > 0
    <3>1. ASSUME NEW o \in Nat, NEW n \in Nat, NEW j \in 0 .. n - 1
          PROVE  o + j \in Nat /\ o + j + 1 <= o + n /\ 1 \in Nat /\ n > 0
      OBVIOUS
    <3> QED BY <1>1, <3>1
  <2>3. wim_readable(wim, s.boot, dir.offset + k, 1)
    BY <1>1, <1>3, <1>a, <2>2, ReadableWithin
  <2> QED BY <1>3, <2>1, <2>2, <2>3, CellNumber
<1>7. ASSUME NEW i \in Injected(files), NEW j \in 0 .. 3, NEW o, o = at.dir + Rank(files, i) * A
      PROVE  NumberIn(image[o + j + 1]) \in Nat
  <2>1. image[o + j + 1] = DirentCells(A, 0, wim_hash(files[i].cells), files[i].name)[j + 1]
    BY <1>7, DirPart DEF A
  <2> QED BY <1>2, <2>1 DEF DirentCells, Number, NumberIn
<1>8. ASSUME NEW n \in UsedOf(R), Covers(R[n], pos) PROVE NumberIn(image[pos + 1]) \in Nat
  <2>1. PICK q : q = R[n]
    OBVIOUS
  <2>2. q.offset \in Nat /\ q.len \in Nat
    BY <1>0, <2>1, UsedTyped
  <2>3. q.offset <= pos /\ pos < q.offset + q.len
    BY <1>8, <2>1, Zenon DEF Covers
  <2>4. CASE q = Region("header", 0, 0, HeaderLen)
    <3>1. q.offset = 0 /\ q.len = HeaderLen
      BY <2>4 DEF Region
    <3>2. q.offset + q.len <= at.boot
      BY <1>1, <1>2, <1>b, <3>1 DEF HeaderLen
    <3> QED BY <1>1, <2>2, <2>3, <3>2
  <2>5. ASSUME NEW i \in Injected(files), q = FileRegion(files, i) PROVE FALSE
    <3>1. q.offset = Len(wim) + CellsBefore(files, i) /\ q.len = Len(files[i].cells)
      BY <2>5 DEF FileRegion, Region
    <3>2. i \in Nat /\ i < VDISK_MAX_FILES + 1 /\ VDISK_MAX_FILES + 1 \in Nat
      BY LayoutNumbers, PatchAssumption
    <3>3. CellsBefore(files, i) + Len(files[i].cells) <= CellsBefore(files, VDISK_MAX_FILES + 1)
      BY <1>3, <3>2, CellsAddUp
    <3>4. /\ CellsBefore(files, i) \in Nat /\ CellsBefore(files, VDISK_MAX_FILES + 1) \in Nat
          /\ Len(files[i].cells) \in Nat
      BY <1>3, CellSetIsFinite DEF IsTable
    <3>5. PICK w \in Nat, c \in Nat, m \in Nat, all \in Nat, top \in Nat :
            /\ w = Len(wim) /\ c = CellsBefore(files, i) /\ m = Len(files[i].cells)
            /\ all = CellsBefore(files, VDISK_MAX_FILES + 1) /\ top = at.lookup
      BY <1>1, <3>4, Zenon
    <3>6. q.offset + q.len <= at.lookup
      <4>1. c + m <= all /\ w + all <= top
        BY <1>2, <3>3, <3>5, Zenon
      <4>2. w + c + m <= top
        BY <4>1
      <4> QED BY <3>1, <3>5, <4>2, Zenon
    <3>7. at.lookup <= at.boot
      BY <1>1, <1>b
    <3> QED BY <1>1, <2>2, <2>3, <3>6, <3>7
  <2>6. CASE q = Region("lookup.copy", 0, at.lookup, l)
    BY <1>1, <1>b, <2>3, <2>6 DEF Region
  <2>7. CASE q = Region("lookup.boot", 0, at.lookup + l, LookupLen)
    BY <1>1, <1>b, <2>3, <2>7 DEF Region, LookupLen
  <2>8. ASSUME NEW i \in Injected(files), q = LookupRegion(files, at.lookup + l, i)
        PROVE  NumberIn(image[pos + 1]) \in Nat
    <3> DEFINE o == at.lookup + l + (1 + Rank(files, i)) * 2
    <3>1. q.offset = o /\ q.len = 2
      BY <2>8 DEF LookupRegion, Region, LookupLen
    <3>a. LookupCopied(image, p, files, s.header.lookup, at.lookup)
      BY LookupPart
    <3>b. /\ image[o + 1] = [resource |-> Resource(FileRegion(files, i).offset,
                                   Len(files[i].cells), Len(files[i].cells), FALSE, FALSE)]
          /\ image[o + 2] = [hash |-> wim_hash(files[i].cells)]
      BY <3>a DEF LookupCopied, l
    <3>2. /\ "number" \notin DOMAIN image[o + 1]
          /\ "number" \notin DOMAIN image[o + 2]
      BY <3>b
    <3> HIDE DEF o
    <3>3. pos + 1 = o + 1 \/ pos + 1 = o + 2
      BY <2>2, <2>3, <3>1
    <3> QED BY <3>2, <3>3 DEF NumberIn
  <2>9. CASE q = Region("boot.copy", 0, at.boot, b)
    <3>1. q.offset = at.boot /\ q.len = b
      BY <2>9 DEF Region
    <3>2. pos - at.boot \in 0 .. b - 1 /\ at.boot + (pos - at.boot) + 1 = pos + 1
      BY <1>1, <2>3, <3>1
    <3>3. NumberIn(image[at.boot + (pos - at.boot) + 1]) \in Nat
      BY <1>5, <3>2
    <3> QED BY <3>2, <3>3
  <2>10. CASE q = Region("dir.subdir", 0, at.boot + dir.parent + SubdirAt, 1)
    <3>1. q.offset = at.boot + dir.parent + 1 /\ q.len = 1
      BY <2>10 DEF Region, SubdirAt
    <3>2. dir.parent + 1 \in 0 .. b - 1 /\ at.boot + (dir.parent + 1) + 1 = pos + 1
      <4>1. dir.parent + 4 <= b
        BY LayoutNumbers DEF b
      <4>2. pos = at.boot + dir.parent + 1
        BY <1>1, <2>3, <3>1
      <4>3. ASSUME NEW u \in Nat, NEW v \in Nat, NEW w \in Nat, u + 4 <= v
            PROVE  u + 1 \in 0 .. v - 1 /\ w + (u + 1) + 1 = (w + u + 1) + 1
        BY <4>3
      <4> QED BY <1>1, <4>1, <4>2, <4>3
    <3>3. NumberIn(image[at.boot + (dir.parent + 1) + 1]) \in Nat
      BY <1>5, <3>2
    <3> QED BY <3>2, <3>3
  <2>11. CASE q = Region("dir.copy", 0, at.copy, dir.len)
    <3>1. q.offset = at.copy /\ q.len = dir.len
      BY <2>11 DEF Region
    <3>2. pos - at.copy \in 0 .. dir.len - 1 /\ at.copy + (pos - at.copy) + 1 = pos + 1
      BY <1>1, <2>3, <3>1
    <3>3. NumberIn(image[at.copy + (pos - at.copy) + 1]) \in Nat
      BY <1>6, <3>2
    <3> QED BY <3>2, <3>3
  <2>12. ASSUME NEW i \in Injected(files), q = DirentRegion(files, at.dir, i)
         PROVE  NumberIn(image[pos + 1]) \in Nat
    <3>1. PICK o : o = at.dir + Rank(files, i) * A
      OBVIOUS
    <3>2. q.offset = o /\ q.len = 4
      BY <2>12, <3>1 DEF DirentRegion, Region, PatchDirentLen, DirentLen, NameLen, A
    <3>3. pos - o \in 0 .. 3 /\ o + (pos - o) + 1 = pos + 1
      BY <2>2, <2>3, <3>2
    <3>4. NumberIn(image[o + (pos - o) + 1]) \in Nat
      BY <1>7, <3>1, <3>3
    <3> QED BY <3>3, <3>4
  <2>13. \/ q = Region("header", 0, 0, HeaderLen)
         \/ \E i \in Injected(files) : q = FileRegion(files, i)
         \/ q = Region("lookup.copy", 0, at.lookup, l)
         \/ q = Region("lookup.boot", 0, at.lookup + l, LookupLen)
         \/ \E i \in Injected(files) : q = LookupRegion(files, at.lookup + l, i)
         \/ q = Region("boot.copy", 0, at.boot, b)
         \/ q = Region("dir.subdir", 0, at.boot + dir.parent + SubdirAt, 1)
         \/ q = Region("dir.copy", 0, at.copy, dir.len)
         \/ \E i \in Injected(files) : q = DirentRegion(files, at.dir, i)
    BY <1>3, <1>8, <2>1, RegionKinds DEF l, b
  <2> QED BY <2>4, <2>5, <2>6, <2>7, <2>8, <2>9, <2>10, <2>11, <2>12, <2>13, Zenon
<1> QED BY <1>4, <1>8, Zenon

----------------------------------------------------------------------------
(* The new metadata *)

\* The length of the entry at a place in the metadata is in the cell there.
LEMMA LengthCell ==
  ASSUME NEW image, NEW meta, meta.len \in Nat, meta.offset \in Nat,
         NEW x \in Nat, x <= meta.len
  PROVE  DirentLengths(image, meta)[x] =
           IF wim_readable(image, meta, x, 1) THEN NumberIn(Cell(image, meta, x)) ELSE 0
<1>1. x \in 0 .. meta.len /\ 1 \in Nat /\ 1 \in 1 .. 1 /\ x + 1 - 1 = x
  OBVIOUS
<1>2. wim_read(image, meta, x, 1)[1] = Cell(image, meta, x + 1 - 1)
  BY <1>1, ReadCell
<1>3. DirentLengths(image, meta)[x] =
        IF wim_readable(image, meta, x, 1) THEN NumberIn(wim_read(image, meta, x, 1)[1]) ELSE 0
  BY <1>1 DEF DirentLengths, DirentLength, LengthLen
<1> QED BY <1>1, <1>2, <1>3

\* The metadata m of the patched file: that of the image with the directory for injected
\* files at o, in which what was in it follows at c.
IsNewMetadata(image, m, old, dir, o, c) ==
  /\ ~m.compressed /\ m.offset \in Nat /\ m.len \in Nat /\ m.zlen = m.len
  /\ Len(image) \in Nat /\ m.offset + m.len <= Len(image)
  /\ old.len \in Nat /\ old.offset \in Nat
  /\ dir.parent \in Nat /\ dir.offset \in Nat /\ dir.len \in Nat
  /\ dir.parent + 4 <= old.len
  /\ o \in Nat /\ c \in Nat /\ old.len <= o /\ o <= c /\ m.len = c + dir.len + 1
  /\ HasLengths(wim, old) /\ HasLengths(image, m)
  /\ \A x, n \in Nat : x + n <= old.len => wim_readable(wim, old, x, n)
  /\ \A x \in 0 .. old.len - 1 :
       x # dir.parent + 1 => Cell(image, m, x) = Cell(wim, old, x)
  /\ Cell(image, m, dir.parent + 1) = Number(o)
  /\ \A k \in 0 .. dir.len - 1 : Cell(image, m, c + k) = Cell(wim, old, dir.offset + k)

\* The entries for the injected files.
HasEntries(image, m, files, o, c) ==
  LET A == wim_align(PatchDirentLen)
  IN  /\ A \in Nat /\ A >= 4 /\ o \in Nat /\ c = o + Cardinality(Injected(files)) * A
      /\ \A i \in Injected(files) : \A x : x = o + Rank(files, i) * A =>
           /\ Cell(image, m, x) = Number(A)
           /\ Cell(image, m, x + 2) = [hash |-> wim_hash(files[i].cells)]
           /\ Cell(image, m, x + 3) = [name |-> files[i].name]

LEMMA NewMetadata ==
  ASSUME NEW image, NEW p, NEW files, NEW s, NEW dir, NEW at,
         Injects(image, p, files, s, dir, at)
  PROVE  /\ IsNewMetadata(image, p.header.boot, s.boot, dir, at.dir - at.boot, at.copy - at.boot)
         /\ HasEntries(image, p.header.boot, files, at.dir - at.boot, at.copy - at.boot)
<1> DEFINE m == p.header.boot
           old == s.boot
           N == Cardinality(Injected(files))
           A == wim_align(PatchDirentLen)
           B == at.boot
           nA == N * A
<1>1. m = Resource(at.boot, xlen - at.boot, xlen - at.boot, FALSE, TRUE)
  BY DEF Injects, IsInjecting
<1>2. ~m.compressed /\ m.offset = B /\ m.len = xlen - B /\ m.zlen = m.len
  BY <1>1 DEF Resource
<1>3. /\ xlen \in Nat /\ Len(image) = xlen
      /\ B \in Nat /\ at.dir \in Nat /\ at.copy \in Nat
      /\ old.len \in Nat /\ old.offset \in Nat
      /\ dir.parent \in Nat /\ dir.offset \in Nat /\ dir.len \in Nat
      /\ dir.parent + 4 <= old.len /\ N \in Nat
  BY LayoutNumbers
<1>4. /\ B + old.len <= at.dir /\ at.copy = at.dir + nA
      /\ xlen = at.copy + dir.len + 1
      /\ A \in Nat /\ A >= 4 /\ nA \in Nat /\ B <= at.dir /\ at.dir <= at.copy
  BY LayoutOrder
<1>5. IsWim(wim) /\ IsSound(wim, old)
  BY DEF Injects
<1> HIDE DEF m, old, N, B, A, nA
<1>6. /\ m.len \in Nat /\ m.offset \in Nat /\ m.offset + m.len <= Len(image)
      /\ at.dir - B \in Nat /\ at.copy - B \in Nat
      /\ old.len <= at.dir - B /\ at.dir - B <= at.copy - B
      /\ m.len = (at.copy - B) + dir.len + 1 /\ at.copy - B = (at.dir - B) + nA
  <2>1. PICK b \in Nat, ol \in Nat, d \in Nat, n \in Nat, c \in Nat, l \in Nat, e \in Nat :
          /\ b = B /\ ol = old.len /\ d = at.dir /\ n = nA /\ c = at.copy /\ l = dir.len
          /\ e = xlen
    BY <1>3, <1>4
  <2>2. b + ol <= d /\ c = d + n /\ e = c + l + 1 /\ b <= d /\ d <= c
    BY <1>4, <2>1, Zenon
  <2>3. /\ e - b \in Nat /\ b + (e - b) <= e /\ d - b \in Nat /\ c - b \in Nat
        /\ ol <= d - b /\ d - b <= c - b /\ e - b = (c - b) + l + 1 /\ c - b = (d - b) + n
    BY <2>2
  <2>4. m.len = e - b /\ m.offset = b /\ Len(image) = e
    BY <1>2, <1>3, <2>1, Zenon
  <2> QED BY <2>1, <2>3, <2>4, Zenon
<1>7. HasLengths(wim, old)
  BY <1>5, WimHasLengths
<1>8. \A x : Cell(image, m, x) = image[B + x + 1]
  BY <1>2 DEF Cell
<1>9. HasLengths(image, m)
  <2>1. ASSUME NEW x \in 0 .. m.len, wim_readable(image, m, x, LengthLen)
        PROVE  DirentLength(image, m, x) \in Nat
    <3>1. x \in Nat /\ x + 1 <= m.len /\ 1 \in Nat /\ 1 \in 1 .. 1 /\ x + 1 - 1 = x
      BY <1>6, <2>1 DEF wim_readable, LengthLen
    <3>2. wim_read(image, m, x, 1)[1] = Cell(image, m, x + 1 - 1)
      BY <1>6, <3>1, ReadCell
    <3>3. B + x \in Nat /\ at.boot <= B + x /\ B + x < xlen
      <4>1. ASSUME NEW b \in Nat, NEW e \in Nat, NEW ml, ml = e - b, NEW y \in Nat, y + 1 <= ml
            PROVE  b + y \in Nat /\ b <= b + y /\ b + y < e
        BY <4>1
      <4> QED BY <1>2, <1>3, <3>1, <4>1 DEF B
    <3>4. NumberIn(image[(B + x) + 1]) \in Nat
      BY <3>3, NumbersPart
    <3> QED BY <1>8, <3>1, <3>2, <3>4 DEF DirentLength, LengthLen
  <2>2. DirentLengths(image, m) \in [0 .. m.len -> Nat]
    BY <2>1 DEF DirentLengths
  <2> QED BY <1>6, <2>2 DEF HasLengths
<1>10. \A x, n \in Nat : x + n <= old.len => wim_readable(wim, old, x, n)
  BY OldMetadata DEF old
<1>11. \A x \in 0 .. old.len - 1 :
         x # dir.parent + 1 => Cell(image, m, x) = Cell(wim, old, x)
  BY <1>8, BootPart DEF old, B
<1>12. Cell(image, m, dir.parent + 1) = Number(at.dir - B)
  <2>1. image[at.boot + (dir.parent + 1) + 1] = Number(at.dir - at.boot)
    BY BootPart
  <2> QED BY <1>8, <2>1 DEF B
<1>13. ASSUME NEW k \in 0 .. dir.len - 1
       PROVE  Cell(image, m, (at.copy - B) + k) = Cell(wim, old, dir.offset + k)
  <2>1. image[at.copy + k + 1] = Cell(wim, old, dir.offset + k)
    BY DirPart DEF old
  <2>2. B + ((at.copy - B) + k) + 1 = at.copy + k + 1
    BY <1>3
  <2> QED BY <1>8, <2>1, <2>2
<1>14. ASSUME NEW i \in Injected(files), NEW x, x = (at.dir - B) + Rank(files, i) * A
       PROVE  /\ Cell(image, m, x) = Number(A)
              /\ Cell(image, m, x + 2) = [hash |-> wim_hash(files[i].cells)]
              /\ Cell(image, m, x + 3) = [name |-> files[i].name]
  <2> DEFINE e == DirentCells(A, 0, wim_hash(files[i].cells), files[i].name)
             y == at.dir + Rank(files, i) * A
  <2>1. \A j \in 0 .. 3 : image[y + j + 1] = e[j + 1]
    BY DirPart DEF A
  <2>2. e[0 + 1] = Number(A) /\ e[2 + 1] = [hash |-> wim_hash(files[i].cells)]
        /\ e[3 + 1] = [name |-> files[i].name]
    BY DEF DirentCells
  <2>3. PICK r : r = Rank(files, i) * A
    OBVIOUS
  <2>4. r \in Nat
    <3>1. Rank(files, i) \in Nat
      BY RanksAscend DEF Injects
    <3> QED BY <1>4, <2>3, <3>1
  <2>5. x = (at.dir - B) + r /\ y = at.dir + r
    BY <1>14, <2>3
  <2> HIDE DEF y
  <2>6. B + x + 1 = y + 0 + 1 /\ B + (x + 2) + 1 = y + 2 + 1 /\ B + (x + 3) + 1 = y + 3 + 1
    <3>1. PICK b \in Nat, d \in Nat : b = B /\ d = at.dir
      BY <1>3
    <3>2. x = (d - b) + r /\ y = d + r
      BY <2>5, <3>1, Zenon
    <3>3. b + x + 1 = y + 0 + 1 /\ b + (x + 2) + 1 = y + 2 + 1 /\ b + (x + 3) + 1 = y + 3 + 1
      BY <2>4, <3>2
    <3> QED BY <3>1, <3>3, Zenon
  <2>7. 0 \in 0 .. 3 /\ 2 \in 0 .. 3 /\ 3 \in 0 .. 3
    OBVIOUS
  <2> QED BY <1>8, <2>1, <2>2, <2>6, <2>7
<1>15. IsNewMetadata(image, m, old, dir, at.dir - B, at.copy - B)
  BY <1>2, <1>3, <1>6, <1>7, <1>9, <1>10, <1>11, <1>12, <1>13 DEF IsNewMetadata
<1>16. HasEntries(image, m, files, at.dir - B, at.copy - B)
  BY <1>4, <1>6, <1>14 DEF HasEntries, A, N, nA
<1> QED BY <1>15, <1>16 DEF m, old, B

----------------------------------------------------------------------------
(* The directories in the new metadata *)

\* What a search in a directory looks at: the entries it comes to that have the name.
Named(image, meta, name, offset) ==
  {at \in DirEntries(image, meta, offset) :
     /\ wim_readable(image, meta, at, 4)
     /\ NameIn(wim_read(image, meta, at + 3, 1)[1]) = name}

LEMMA DirentryIs ==
  ASSUME NEW image, NEW meta, NEW name, NEW offset
  PROVE  wim_direntry(image, meta, name, offset) = FirstEntry(Named(image, meta, name, offset))
BY DEF wim_direntry, Named, DirentLen, NameLen

\* An entry of the metadata old of the WIM is also that of the new one, d cells behind.
SameAt(image, m, old, z, d) ==
  /\ z + d <= m.len /\ wim_readable(image, m, z + d, 4) /\ wim_readable(wim, old, z, 4)
  /\ DirentLengths(image, m)[z + d] = DirentLengths(wim, old)[z]
  /\ NameIn(wim_read(image, m, z + d + 3, 1)[1]) = NameIn(wim_read(wim, old, z + 3, 1)[1])

\* A search finds the same entry if all that it comes to up to there are the same.
LEMMA NameFound ==
  ASSUME NEW image, NEW m, HasLengths(image, m), NEW old, HasLengths(wim, old),
         NEW D, NEW name, NEW x \in wim_direntry(wim, old, name, D), NEW d \in Nat,
         \A z \in DirEntries(wim, old, D) : z <= x => SameAt(image, m, old, z, d)
  PROVE  wim_direntry(image, m, name, D + d) = {x + d}
<1> DEFINE L1 == DirentLengths(wim, old)
           L2 == DirentLengths(image, m)
           S1 == Named(wim, old, name, D)
           S2 == Named(image, m, name, D + d)
<1>1. /\ m.len \in Nat /\ L2 \in [0 .. m.len -> Nat]
      /\ old.len \in Nat /\ L1 \in [0 .. old.len -> Nat]
  BY DEF HasLengths
<1>2. x \in S1 /\ \A y \in S1 : x <= y
  BY DirentryIs DEF FirstEntry
<1>3. D \in 0 .. old.len /\ x \in DirEntries(wim, old, D)
  BY EntryInside
<1> HIDE DEF L1, L2
<1>4. DirEntries(wim, old, D) = DirWalk(L1)[D]
  BY <1>3 DEF DirEntries, L1
<1>5. \A z \in DirWalk(L1)[D] : z <= x => z + d <= m.len /\ L2[z + d] = L1[z]
  BY <1>4 DEF SameAt, L1, L2
<1>6. /\ D + d \in 0 .. m.len /\ x + d \in DirWalk(L2)[D + d]
      /\ \A y \in DirWalk(L2)[D + d] :
           y < x + d => y - d \in DirWalk(L1)[D] /\ y - d < x
  <2>1. PICK L \in Nat, M \in Nat : L = old.len /\ M = m.len
    BY <1>1
  <2>2. L1 \in [0 .. L -> Nat] /\ L2 \in [0 .. M -> Nat] /\ D \in 0 .. L
    BY <1>1, <1>3, <2>1
  <2>3. x \in DirWalk(L1)[D]
    BY <1>3, <1>4
  <2>4. WalksAlike(L1, L2, M, d, D, x)
    BY <1>5, <2>1 DEF WalksAlike
  <2>5. WalkFollows(L1, L2, M, d, D, x)
    BY <2>2, <2>3, <2>4, WalksAgree
  <2> QED BY <2>1, <2>5 DEF WalkFollows
<1>7. DirEntries(image, m, D + d) = DirWalk(L2)[D + d]
  BY <1>6 DEF DirEntries, L2
<1>8. WalkSound(L2, D + d) /\ WalkSound(L1, D)
  BY <1>1, <1>3, <1>6, WalkIsSound
<1>9. /\ \A y \in DirWalk(L2)[D + d] : y \in Nat
      /\ \A y \in DirWalk(L1)[D] : y \in Nat
  BY <1>8 DEF WalkSound
<1>10. x \in Nat /\ D \in Nat
  BY <1>3, <1>4, <1>9
<1>11. x + d \in S2
  <2>1. SameAt(image, m, old, x, d)
    BY <1>3, <1>10
  <2>2. NameIn(wim_read(wim, old, x + 3, 1)[1]) = name
    BY <1>2 DEF Named
  <2> QED BY <1>6, <1>7, <2>1, <2>2 DEF SameAt, Named
<1>12. ASSUME NEW y \in S2, y < x + d PROVE FALSE
  <2>1. y \in DirWalk(L2)[D + d] /\ NameIn(wim_read(image, m, y + 3, 1)[1]) = name
    BY <1>7, <1>12 DEF Named
  <2>2. PICK z : z = y - d
    OBVIOUS
  <2>3. z \in DirWalk(L1)[D] /\ z < x
    BY <1>6, <1>12, <2>1, <2>2
  <2>4. y \in Nat /\ z \in Nat
    BY <1>9, <2>1, <2>3
  <2>5. z + d = y /\ z + d + 3 = y + 3 /\ z <= x
    BY <1>10, <2>2, <2>3, <2>4
  <2>6. SameAt(image, m, old, z, d)
    BY <1>4, <2>3, <2>5
  <2>7. NameIn(wim_read(wim, old, z + 3, 1)[1]) = name
    BY <2>1, <2>5, <2>6 DEF SameAt
  <2>8. z \in S1
    BY <1>4, <2>3, <2>6, <2>7 DEF SameAt, Named
  <2>9. x <= z
    BY <1>2, <2>8
  <2> QED BY <1>10, <2>3, <2>4, <2>9
<1>13. \A y \in S2 : x + d <= y
  <2> TAKE y \in S2
  <2>1. y \in Nat
    BY <1>7, <1>9 DEF Named
  <2> HIDE DEF S2
  <2> QED BY <1>10, <1>12, <2>1
<1>14. FirstEntry(S2) = {x + d}
  <2>1. x + d \in FirstEntry(S2)
    BY <1>11, <1>13 DEF FirstEntry
  <2>2. ASSUME NEW y \in FirstEntry(S2) PROVE y = x + d
    <3>1. y \in S2 /\ y <= x + d /\ x + d <= y
      BY <1>11, <1>13 DEF FirstEntry
    <3>2. y \in Nat
      BY <1>7, <1>9, <3>1 DEF Named
    <3> QED BY <1>10, <3>1, <3>2
  <2> QED BY <2>1, <2>2
<1> QED BY <1>14, DirentryIs

\* A search that finds an entry finds one entry.
LEMMA FoundOnce ==
  ASSUME NEW image, NEW m, HasLengths(image, m), NEW D, NEW name,
         NEW x \in wim_direntry(image, m, name, D)
  PROVE  wim_direntry(image, m, name, D) = {x}
<1>1. ASSUME NEW y \in wim_direntry(image, m, name, D) PROVE y = x
  <2>1. x <= y /\ y <= x
    BY DirentryIs DEF FirstEntry
  <2>2. x \in Nat /\ y \in Nat
    <3>1. x \in 0 .. m.len /\ y \in 0 .. m.len
      BY EntryInside
    <3> QED BY <3>1
  <2> QED BY <2>1, <2>2
<1> QED BY <1>1

\* The injected files have all ranks.
LEMMA RanksOnto ==
  ASSUME NEW files, IsTable(files), NEW k \in 0 .. Cardinality(Injected(files)) - 1
  PROVE  \E j \in Injected(files) : Rank(files, j) = k
<1> DEFINE I == Injected(files)
           N == Cardinality(I)
           T == (0 .. N - 1) \ {k}
           f == [j \in I |-> Rank(files, j)]
<1>1. IsFiniteSet(I) /\ N \in Nat /\ I \subseteq 1 .. VDISK_MAX_FILES
  BY InjectedIsFinite
<1>2. IsFiniteSet(T) /\ Cardinality(T) = N - 1
  <2>1. IsFiniteSet(0 .. N - 1) /\ Cardinality(0 .. N - 1) = N
    <3> HIDE DEF N
    <3>1. 0 \in Int /\ N - 1 \in Int /\ (0 > N - 1 => N = 0) /\ N - 1 - 0 + 1 = N
      BY <1>1
    <3> QED BY <3>1, FS_Interval
  <2>2. k \in 0 .. N - 1
    OBVIOUS
  <2> HIDE DEF N
  <2> QED BY <2>1, <2>2, FS_RemoveElement
<1>3. ASSUME \A j \in I : Rank(files, j) # k PROVE FALSE
  <2>1. f \in [I -> T]
    <3>1. ASSUME NEW j \in I PROVE Rank(files, j) \in T
      <4>1. Rank(files, j) \in Nat /\ Rank(files, j) + 1 <= N
        BY RanksAscend
      <4> HIDE DEF N
      <4> QED BY <1>1, <1>3, <4>1
    <3> QED BY <3>1
  <2>2. Cardinality(T) < Cardinality(I)
    <3> HIDE DEF T
    <3>1. N - 1 < N
      <4> HIDE DEF N
      <4> QED BY <1>1
    <3> QED BY <1>2, <3>1
  <2>3. PICK x \in I, y \in I : x # y /\ f[x] = f[y]
    <3> HIDE DEF f, T, I
    <3> QED BY <1>1, <1>2, <2>1, <2>2, FS_PigeonHole
  <2>4. Rank(files, x) = Rank(files, y)
    BY <2>3
  <2>5. /\ x < y => Rank(files, x) + 1 <= Rank(files, y)
        /\ y < x => Rank(files, y) + 1 <= Rank(files, x)
        /\ Rank(files, x) \in Nat /\ Rank(files, y) \in Nat
    BY RanksAscend
  <2>6. x \in Nat /\ y \in Nat
    BY <1>1
  <2>7. x < y \/ y < x
    BY <2>3, <2>6
  <2> QED BY <2>4, <2>5, <2>7
<1> QED BY <1>3

\* What can be read of the new metadata.
LEMMA NewReadable ==
  ASSUME NEW image, NEW m, NEW old, NEW dir, NEW o, NEW c,
         IsNewMetadata(image, m, old, dir, o, c), NEW x \in Nat, NEW n \in Nat
  PROVE  wim_readable(image, m, x, n) <=> x + n <= m.len
BY DEF IsNewMetadata, wim_readable

\* Two entries are the same if the cells of their lengths and names are.
LEMMA SameEntry ==
  ASSUME NEW image, NEW m, NEW old, NEW dir, NEW o, NEW c,
         IsNewMetadata(image, m, old, dir, o, c),
         NEW z \in Nat, NEW d \in Nat, z + 4 <= old.len, z + d + 4 <= m.len,
         Cell(image, m, z + d) = Cell(wim, old, z),
         Cell(image, m, z + d + 3) = Cell(wim, old, z + 3)
  PROVE  SameAt(image, m, old, z, d)
<1>1. /\ m.len \in Nat /\ m.offset \in Nat /\ old.len \in Nat /\ old.offset \in Nat
      /\ \A x, n \in Nat : x + n <= old.len => wim_readable(wim, old, x, n)
  BY DEF IsNewMetadata
<1>a. z + d \in Nat
  OBVIOUS
<1>2. PICK y \in Nat, l \in Nat, k \in Nat : y = z + d /\ l = m.len /\ k = old.len
  BY <1>1, <1>a, Zenon
<1>3. y + 4 <= l /\ z + 4 <= k
  BY <1>2, Zenon
<1>4. y + 3 \in Nat /\ z + 3 \in Nat /\ y + 1 <= l /\ z + 1 <= k /\ y <= l /\ z <= k
  BY <1>3
<1>5. /\ wim_readable(image, m, y, 4) /\ wim_readable(image, m, y, 1)
      /\ wim_readable(wim, old, z, 4) /\ wim_readable(wim, old, z, 1)
  <2>1. 4 \in Nat /\ 1 \in Nat
    OBVIOUS
  <2> QED BY <1>1, <1>2, <1>3, <1>4, <2>1, NewReadable
<1>6. DirentLengths(image, m)[y] = NumberIn(Cell(image, m, y))
  BY <1>1, <1>2, <1>4, <1>5, LengthCell
<1>7. DirentLengths(wim, old)[z] = NumberIn(Cell(wim, old, z))
  BY <1>1, <1>2, <1>4, <1>5, LengthCell
<1>8. /\ wim_read(image, m, y + 3, 1)[1] = Cell(image, m, y + 3)
      /\ wim_read(wim, old, z + 3, 1)[1] = Cell(wim, old, z + 3)
  <2>1. 1 \in 1 .. 1 /\ 1 \in Nat /\ y + 3 + 1 - 1 = y + 3 /\ z + 3 + 1 - 1 = z + 3
    BY <1>4
  <2>2. /\ wim_read(image, m, y + 3, 1)[1] = Cell(image, m, y + 3 + 1 - 1)
        /\ wim_read(wim, old, z + 3, 1)[1] = Cell(wim, old, z + 3 + 1 - 1)
    BY <1>1, <1>4, <2>1, ReadCell
  <2> QED BY <2>1, <2>2
<1>9. Cell(image, m, y) = Cell(wim, old, z) /\ Cell(image, m, y + 3) = Cell(wim, old, z + 3)
  BY <1>2, Zenon
<1>10. y <= m.len
  BY <1>2, <1>4, Zenon
<1>11. NameIn(wim_read(image, m, y + 3, 1)[1]) = NameIn(wim_read(wim, old, z + 3, 1)[1])
  BY <1>8, <1>9
<1>12. DirentLengths(image, m)[y] = DirentLengths(wim, old)[z]
  BY <1>6, <1>7, <1>9
<1> QED BY <1>2, <1>5, <1>10, <1>11, <1>12, Zenon DEF SameAt

\* The entries of a directory are as long as what is read of them, and none shares cells
\* with the entry of the directory for injected files but that entry.
IsApart(old, D, parent) ==
  \A z \in DirEntries(wim, old, D) :
    /\ DirentLengths(wim, old)[z] >= 4
    /\ z = parent \/ z + 4 <= parent \/ parent + 4 <= z

\* The entries up to one that is found.
LEMMA EntriesBefore ==
  ASSUME NEW old, HasLengths(wim, old), NEW D, NEW parent, IsApart(old, D, parent),
         NEW name, NEW x \in wim_direntry(wim, old, name, D),
         NEW z \in DirEntries(wim, old, D), z <= x
  PROVE  /\ z \in Nat /\ x \in Nat /\ D \in Nat /\ D <= z
         /\ z + 4 <= old.len /\ x + 4 <= old.len /\ DirentLengths(wim, old)[z] \in Nat
<1> DEFINE L == DirentLengths(wim, old)
<1>1. old.len \in Nat /\ L \in [0 .. old.len -> Nat]
  BY DEF HasLengths
<1>2. D \in 0 .. old.len /\ x \in DirEntries(wim, old, D) /\ wim_readable(wim, old, x, 4)
  BY EntryInside DEF DirentLen, NameLen
<1> HIDE DEF L
<1>3. DirEntries(wim, old, D) = DirWalk(L)[D]
  BY <1>2 DEF DirEntries, L
<1>4. WalkSound(L, D)
  BY <1>1, <1>2, WalkIsSound
<1>5. /\ \A y \in DirWalk(L)[D] : y \in Nat /\ D <= y /\ y \in DOMAIN L
      /\ \A y, u \in DirWalk(L)[D] : u < y => u + L[u] <= y
  BY <1>4 DEF WalkSound
<1>6. x \in Nat /\ z \in Nat /\ D <= z /\ z \in 0 .. old.len
  BY <1>1, <1>2, <1>3, <1>5
<1>7. x + 4 <= old.len
  BY <1>2 DEF wim_readable
<1>8. L[z] \in Nat /\ L[z] >= 4
  BY <1>1, <1>6 DEF IsApart, L
<1>9. z + 4 <= old.len
  <2>1. CASE z = x
    BY <1>7, <2>1
  <2>2. CASE z < x
    <3>1. z + L[z] <= x
      BY <1>2, <1>3, <1>5, <2>2
    <3> QED BY <1>1, <1>6, <1>7, <1>8, <3>1
  <2> QED BY <1>6, <2>1, <2>2
<1> QED BY <1>2, <1>6, <1>7, <1>8, <1>9 DEF L

\* A directory other than that for injected files is the same in the new metadata.
LEMMA DirectorySame ==
  ASSUME NEW image, NEW m, NEW old, NEW dir, NEW o, NEW c,
         IsNewMetadata(image, m, old, dir, o, c),
         NEW D, IsApart(old, D, dir.parent),
         NEW name, NEW x \in wim_direntry(wim, old, name, D)
  PROVE  wim_direntry(image, m, name, D) = {x}
<1>1. /\ HasLengths(wim, old) /\ HasLengths(image, m) /\ old.len \in Nat /\ m.len \in Nat
      /\ dir.parent \in Nat /\ dir.len \in Nat /\ o \in Nat /\ c \in Nat
      /\ old.len <= o /\ o <= c /\ m.len = c + dir.len + 1
      /\ \A k \in 0 .. old.len - 1 :
           k # dir.parent + 1 => Cell(image, m, k) = Cell(wim, old, k)
  BY DEF IsNewMetadata
<1>2. ASSUME NEW z \in DirEntries(wim, old, D), z <= x PROVE SameAt(image, m, old, z, 0)
  <2>1. z \in Nat /\ z + 4 <= old.len
    BY <1>1, <1>2, EntriesBefore
  <2>2. z = dir.parent \/ z + 4 <= dir.parent \/ dir.parent + 4 <= z
    BY DEF IsApart
  <2>3. PICK p \in Nat, l \in Nat, k \in Nat : p = dir.parent /\ l = old.len /\ k = m.len
    BY <1>1
  <2>4. z + 4 <= l /\ l <= k
    <3>1. PICK n \in Nat : n = dir.len
      BY <1>1
    <3>2. l <= o /\ o <= c /\ k = c + n + 1
      BY <1>1, <2>3, <3>1, Zenon
    <3>3. l <= k
      BY <1>1, <3>2
    <3> QED BY <2>1, <2>3, <3>3, Zenon
  <2>5. z = p \/ z + 4 <= p \/ p + 4 <= z
    BY <2>2, <2>3, Zenon
  <2>6. /\ z \in 0 .. l - 1 /\ z + 3 \in 0 .. l - 1 /\ z # p + 1 /\ z + 3 # p + 1
        /\ z + 0 = z /\ z + 0 + 3 = z + 3 /\ z + 0 + 4 <= k /\ 0 \in Nat
    BY <2>1, <2>4, <2>5
  <2>7. Cell(image, m, z + 0) = Cell(wim, old, z) /\ Cell(image, m, z + 0 + 3) = Cell(wim, old, z + 3)
    BY <1>1, <2>3, <2>6
  <2>8. z + 0 + 4 <= m.len
    BY <2>3, <2>6, Zenon
  <2> QED BY <2>1, <2>6, <2>7, <2>8, SameEntry
<1>3. D + 0 = D /\ x + 0 = x /\ 0 \in Nat
  <2>1. x \in DirEntries(wim, old, D) /\ x \in 0 .. old.len /\ D \in 0 .. old.len
    BY <1>1, EntryInside
  <2> QED BY <1>1, <2>1
<1>4. wim_direntry(image, m, name, D + 0) = {x + 0}
  BY <1>1, <1>2, <1>3, NameFound
<1> QED BY <1>3, <1>4

\* Where the entry of an injected file is, and what it holds.
LEMMA NewEntry ==
  ASSUME NEW image, NEW m, NEW old, NEW dir, NEW o, NEW c, NEW files, IsTable(files),
         IsNewMetadata(image, m, old, dir, o, c), HasEntries(image, m, files, o, c),
         NEW i \in Injected(files), NEW y, y = o + Rank(files, i) * wim_align(PatchDirentLen)
  PROVE  /\ y \in Nat /\ o <= y /\ y + 4 <= c /\ c <= m.len
         /\ DirentLengths(image, m)[y] = wim_align(PatchDirentLen)
         /\ wim_readable(image, m, y, 4)
         /\ NameIn(wim_read(image, m, y + 3, 1)[1]) = files[i].name
         /\ HashOf(image, m, y) = wim_hash(files[i].cells)
<1> DEFINE A == wim_align(PatchDirentLen)
           N == Cardinality(Injected(files))
           k == Rank(files, i)
<1>1. A \in Nat /\ A >= 4 /\ o \in Nat /\ c = o + N * A
  BY DEF HasEntries
<1>2. N \in Nat /\ k \in Nat /\ k + 1 <= N
  BY InjectedIsFinite, RanksAscend
<1>3. m.len \in Nat /\ m.offset \in Nat /\ dir.len \in Nat /\ c \in Nat /\ m.len = c + dir.len + 1
  BY DEF IsNewMetadata
<1>4. /\ Cell(image, m, y) = Number(A)
      /\ Cell(image, m, y + 2) = [hash |-> wim_hash(files[i].cells)]
      /\ Cell(image, m, y + 3) = [name |-> files[i].name]
  BY DEF HasEntries
<1> HIDE DEF A, N, k
<1>5. y \in Nat /\ o <= y /\ y + 4 <= c
  <2>1. (k + 1) * A <= N * A /\ (k + 1) * A = k * A + A /\ k * A \in Nat /\ N * A \in Nat
    <3>1. k + 1 \in Nat /\ k * A \in Nat /\ N * A \in Nat /\ (k + 1) * A = k * A + A
      BY <1>1, <1>2
    <3> QED BY <1>1, <1>2, <3>1, TimesKeepsOrder
  <2>2. y = o + k * A
    BY DEF k, A
  <2>3. PICK kA \in Nat, nA \in Nat : kA = k * A /\ nA = N * A
    BY <2>1
  <2>4. kA + A <= nA /\ y = o + kA /\ c = o + nA
    BY <1>1, <2>1, <2>2, <2>3, Zenon
  <2> QED BY <1>1, <2>4
<1>6. c <= m.len /\ y + 4 <= m.len /\ y + 1 <= m.len /\ y <= m.len
  <2>1. PICK l \in Nat, n \in Nat : l = m.len /\ n = dir.len
    BY <1>3
  <2>2. l = c + n + 1
    BY <1>3, <2>1
  <2>3. c <= l /\ y + 4 <= l /\ y + 1 <= l /\ y <= l
    BY <1>3, <1>5, <2>2
  <2> QED BY <2>1, <2>3, Zenon
<1>7. wim_readable(image, m, y, 4) /\ wim_readable(image, m, y, 1)
  <2>1. 4 \in Nat /\ 1 \in Nat
    OBVIOUS
  <2> QED BY <1>5, <1>6, <2>1, NewReadable
<1>8. DirentLengths(image, m)[y] = A
  BY <1>3, <1>4, <1>5, <1>6, <1>7, LengthCell DEF Number, NumberIn
<1>9. NameIn(wim_read(image, m, y + 3, 1)[1]) = files[i].name
  <2>1. y + 3 \in Nat /\ 1 \in Nat /\ 1 \in 1 .. 1 /\ y + 3 + 1 - 1 = y + 3
    BY <1>5
  <2>2. wim_read(image, m, y + 3, 1)[1] = Cell(image, m, y + 3 + 1 - 1)
    BY <1>3, <2>1, ReadCell
  <2>3. PICK cell : cell = Cell(image, m, y + 3)
    OBVIOUS
  <2>4. "name" \in DOMAIN cell /\ cell.name = files[i].name
    BY <1>4, <2>3
  <2>5. NameIn(cell) = files[i].name
    BY <2>4, Zenon DEF NameIn
  <2>6. wim_read(image, m, y + 3, 1)[1] = cell
    BY <2>1, <2>2, <2>3
  <2> QED BY <2>5, <2>6, Zenon
<1>10. HashOf(image, m, y) = wim_hash(files[i].cells)
  <2>1. 3 \in Nat /\ 3 \in 1 .. 3 /\ y + 3 - 1 = y + 2
    BY <1>5
  <2>2. wim_read(image, m, y, 3)[3] = Cell(image, m, y + 3 - 1)
    BY <1>3, <1>5, <2>1, ReadCell
  <2> QED BY <1>4, <2>1, <2>2 DEF HashOf, HashIn, DirentLen
<1> QED BY <1>5, <1>6, <1>7, <1>8, <1>9, <1>10 DEF A

\* The entries of the new directory: those of the files, then those that were copied.
LEMMA NewDirectory ==
  ASSUME NEW image, NEW m, NEW old, NEW dir, NEW o, NEW c, NEW files, IsTable(files),
         IsNewMetadata(image, m, old, dir, o, c), HasEntries(image, m, files, o, c)
  PROVE  /\ DirEntries(image, m, o) =
              {o + Rank(files, i) * wim_align(PatchDirentLen) : i \in Injected(files)}
                \union DirEntries(image, m, c)
         /\ \A y \in DirEntries(image, m, c) : y \in Nat /\ c <= y
<1> DEFINE A == wim_align(PatchDirentLen)
           N == Cardinality(Injected(files))
           L == DirentLengths(image, m)
<1>1. A \in Nat /\ A \in Nat \ {0} /\ A >= 4 /\ o \in Nat /\ c = o + N * A
  BY DEF HasEntries
<1>2. N \in Nat
  BY InjectedIsFinite
<1>3. /\ m.len \in Nat /\ dir.len \in Nat /\ c \in Nat /\ m.len = c + dir.len + 1 /\ o <= c
      /\ L \in [0 .. m.len -> Nat]
  BY DEF IsNewMetadata, HasLengths
<1>4. ASSUME NEW k \in 0 .. N - 1 PROVE L[o + k * A] = A
  <2>1. PICK j \in Injected(files) : Rank(files, j) = k
    BY RanksOnto
  <2>2. o + k * A = o + Rank(files, j) * A
    BY <2>1
  <2> QED BY <2>2, NewEntry
<1>5. {o + k * A : k \in 0 .. N - 1} = {o + Rank(files, i) * A : i \in Injected(files)}
  <2>1. ASSUME NEW k \in 0 .. N - 1 PROVE \E i \in Injected(files) : o + k * A = o + Rank(files, i) * A
    <3>1. PICK j \in Injected(files) : Rank(files, j) = k
      BY RanksOnto
    <3> QED BY <3>1
  <2>2. ASSUME NEW i \in Injected(files) PROVE Rank(files, i) \in 0 .. N - 1
    <3>1. Rank(files, i) \in Nat /\ Rank(files, i) + 1 <= N
      BY RanksAscend
    <3> HIDE DEF N
    <3> QED BY <1>2, <3>1
  <2> HIDE DEF N, A
  <2> QED BY <2>1, <2>2
<1> HIDE DEF A, N, L
<1>6. c <= m.len /\ o <= m.len
  <2>1. PICK l \in Nat, n \in Nat : l = m.len /\ n = dir.len
    BY <1>3
  <2>2. l = c + n + 1
    BY <1>3, <2>1
  <2>3. c <= l /\ o <= l
    BY <1>1, <1>3, <2>2
  <2> QED BY <2>1, <2>3, Zenon
<1>7. DirWalk(L)[o] = {o + k * A : k \in 0 .. N - 1} \union DirWalk(L)[c]
  <2>1. PICK l \in Nat : l = m.len
    BY <1>3
  <2>2. L \in [0 .. l -> Nat] /\ o + N * A <= l
    BY <1>1, <1>3, <1>6, <2>1
  <2>3. HasStride(L, A, o, N)
    BY <1>4 DEF HasStride
  <2>4. WalkPasses(L, A, o, N)
    BY <1>1, <1>2, <2>2, <2>3, WalkOver
  <2> QED BY <1>1, <2>4 DEF WalkPasses
<1>8. DirEntries(image, m, o) = DirWalk(L)[o] /\ DirEntries(image, m, c) = DirWalk(L)[c]
  BY <1>1, <1>3, <1>6 DEF DirEntries, L
<1>9. WalkSound(L, c)
  <2>1. PICK l \in Nat : l = m.len
    BY <1>3
  <2>2. L \in [0 .. l -> Nat] /\ c \in 0 .. l
    BY <1>3, <1>6, <2>1
  <2> QED BY <2>2, WalkIsSound
<1>10. \A y \in DirEntries(image, m, c) : y \in Nat /\ c <= y
  BY <1>8, <1>9 DEF WalkSound
<1> QED BY <1>5, <1>7, <1>8, <1>10 DEF A

\* The entries of a directory lie within its length.
LEMMA DirectoryEnds ==
  ASSUME NEW old, HasLengths(wim, old), NEW D, NEW len \in wim_dir_len(wim, old, D),
         NEW z \in DirEntries(wim, old, D)
  PROVE  /\ D \in Nat /\ z \in Nat /\ D <= z /\ len \in Nat
         /\ DirentLengths(wim, old)[z] \in Nat
         /\ z + DirentLengths(wim, old)[z] <= D + len
<1> DEFINE L == DirentLengths(wim, old)
<1>1. old.len \in Nat /\ L \in [0 .. old.len -> Nat]
  BY DEF HasLengths
<1>2. D \in 0 .. old.len
  BY DEF DirEntries
<1>3. \A x \in 0 .. old.len :
         L[x] = IF wim_readable(wim, old, x, LengthLen) THEN DirentLength(wim, old, x) ELSE 0
  BY <1>1 DEF DirentLengths
<1>4. DirEntries(wim, old, D) = DirWalk(L)[D]
  BY <1>2 DEF DirEntries, L
<1>5. PICK t \in D .. old.len :
        /\ len = t - D
        /\ \/ t = D
           \/ \E a \in DirEntries(wim, old, D) : t = a + DirentLength(wim, old, a)
        /\ wim_readable(wim, old, t, LengthLen) /\ DirentLength(wim, old, t) = 0
  BY DEF wim_dir_len
<1> HIDE DEF L
<1>6. WalkSound(L, D)
  BY <1>1, <1>2, WalkIsSound
<1>7. /\ \A x \in DirWalk(L)[D] : x \in Nat /\ D <= x /\ x \in 0 .. old.len /\ L[x] # 0
      /\ \A x, y \in DirWalk(L)[D] : y < x => y + L[y] \in DirWalk(L)[D] /\ y + L[y] <= x
  BY <1>1, <1>6 DEF WalkSound
<1>8. t \in 0 .. old.len /\ L[t] = 0
  <2>1. t \in 0 .. old.len
    BY <1>1, <1>2
  <2> QED BY <1>3, <1>5, <2>1
<1>9. D \in Nat /\ z \in Nat /\ D <= z /\ z \in 0 .. old.len /\ L[z] \in Nat /\ z \in DirWalk(L)[D]
  BY <1>1, <1>2, <1>4, <1>7
<1>10. len \in Nat /\ D + len = t
  BY <1>1, <1>2, <1>5
<1>11. z + L[z] <= t
  <2>1. CASE t = D
    <3>1. DirWalk(L)[D] = {}
      <4>1. L[D] = 0
        BY <1>8, <2>1
      <4>2. DirWalk(L)[D] = WalkFrom(L, DirWalk(L), D)
        <5>1. PICK l \in Nat : l = old.len
          BY <1>1
        <5>2. L \in [0 .. l -> Nat] /\ D \in 0 .. l
          BY <1>1, <1>2, <5>1
        <5> QED BY <5>2, WalkStep
      <4> QED BY <4>1, <4>2 DEF WalkFrom
    <3> QED BY <1>9, <3>1
  <2>2. CASE \E a \in DirEntries(wim, old, D) : t = a + DirentLength(wim, old, a)
    <3>1. PICK a \in DirWalk(L)[D] : t = a + DirentLength(wim, old, a)
      BY <1>4, <2>2
    <3>2. a \in Nat /\ a \in 0 .. old.len /\ L[a] # 0 /\ L[a] \in Nat
      BY <1>1, <1>7
    <3>3. t = a + L[a]
      BY <1>3, <3>1, <3>2
    <3>4. ~(a < z)
      BY <1>7, <1>8, <1>9, <3>3
    <3>5. CASE z = a
      BY <1>9, <3>3, <3>5
    <3>6. CASE z < a
      <4>1. z + L[z] <= a
        BY <1>7, <1>9, <3>6
      <4> QED BY <1>9, <3>2, <3>3, <4>1
    <3> QED BY <1>9, <3>2, <3>4, <3>5, <3>6
  <2> QED BY <1>5, <2>1, <2>2
<1> QED BY <1>9, <1>10, <1>11 DEF L

\* What was in the directory for injected files lies d cells further on.
IsCopiedEntry(image, m, old, x, d) ==
  /\ x + d + 4 <= m.len /\ x + 4 <= old.len
  /\ \A k \in 0 .. 3 : Cell(image, m, x + d + k) = Cell(wim, old, x + k)

LEMMA EntryCopied ==
  ASSUME NEW image, NEW m, NEW old, NEW dir, NEW o, NEW c,
         IsNewMetadata(image, m, old, dir, o, c),
         IsApart(old, dir.offset, dir.parent),
         dir.len \in wim_dir_len(wim, old, dir.offset),
         NEW x \in DirEntries(wim, old, dir.offset), x + 4 <= old.len,
         NEW d \in Nat, d = c - dir.offset
  PROVE  IsCopiedEntry(image, m, old, x, d)
<1>1. /\ HasLengths(wim, old) /\ old.len \in Nat /\ m.len \in Nat
      /\ dir.len \in Nat /\ dir.offset \in Nat /\ c \in Nat /\ m.len = c + dir.len + 1
      /\ \A k \in 0 .. dir.len - 1 : Cell(image, m, c + k) = Cell(wim, old, dir.offset + k)
  BY DEF IsNewMetadata
<1>2. /\ x \in Nat /\ dir.offset <= x /\ DirentLengths(wim, old)[x] \in Nat
      /\ x + DirentLengths(wim, old)[x] <= dir.offset + dir.len
  BY <1>1, DirectoryEnds
<1>3. DirentLengths(wim, old)[x] >= 4
  BY DEF IsApart
<1>4. PICK D \in Nat, n \in Nat, l \in Nat, a \in Nat :
        D = dir.offset /\ n = dir.len /\ l = m.len /\ a = DirentLengths(wim, old)[x]
  BY <1>1, <1>2
<1>5. D <= x /\ x + a <= D + n /\ a >= 4 /\ l = c + n + 1 /\ d = c - D
  BY <1>1, <1>2, <1>3, <1>4, Zenon
<1>6. x + 4 <= D + n /\ x + d + 4 <= l
  BY <1>1, <1>2, <1>5
<1>7. ASSUME NEW k \in 0 .. 3 PROVE Cell(image, m, x + d + k) = Cell(wim, old, x + k)
  <2>1. PICK j : j = x + k - D
    OBVIOUS
  <2>2. j \in 0 .. n - 1 /\ c + j = x + d + k /\ D + j = x + k
    BY <1>1, <1>2, <1>5, <1>6, <2>1
  <2>3. Cell(image, m, c + j) = Cell(wim, old, D + j)
    BY <1>1, <1>4, <2>2, Zenon
  <2> QED BY <2>2, <2>3
<1>8. x + d + 4 <= m.len
  BY <1>4, <1>6, Zenon
<1> QED BY <1>7, <1>8 DEF IsCopiedEntry

\* No injected file has the name.
IsFresh(files, name) == \A i \in Injected(files) : files[i].name # name

LEMMA DirectoryCopied ==
  ASSUME NEW image, NEW m, NEW old, NEW dir, NEW o, NEW c, NEW files, IsTable(files),
         IsNewMetadata(image, m, old, dir, o, c), HasEntries(image, m, files, o, c),
         IsApart(old, dir.offset, dir.parent),
         dir.len \in wim_dir_len(wim, old, dir.offset),
         NEW name, IsFresh(files, name),
         NEW x \in wim_direntry(wim, old, name, dir.offset),
         NEW d, d = c - dir.offset
  PROVE  /\ d \in Nat /\ x \in Nat /\ c <= x + d
         /\ wim_direntry(image, m, name, o) = {x + d}
         /\ IsCopiedEntry(image, m, old, x, d)
<1>1. /\ HasLengths(wim, old) /\ HasLengths(image, m) /\ old.len \in Nat /\ m.len \in Nat
      /\ dir.offset \in Nat /\ o \in Nat /\ c \in Nat /\ old.len <= o /\ o <= c
  BY DEF IsNewMetadata
<1>2. /\ dir.offset \in 0 .. old.len /\ x \in DirEntries(wim, old, dir.offset)
  BY <1>1, EntryInside
<1>3. d \in Nat /\ dir.offset + d = c
  BY <1>1, <1>2
<1>4. /\ x \in Nat /\ dir.offset <= x /\ x + 4 <= old.len
  <2>1. x <= x
    BY <1>1, <1>2, DirectoryEnds
  <2> QED BY <1>1, <1>2, <2>1, EntriesBefore
<1>5. ASSUME NEW z \in DirEntries(wim, old, dir.offset), z <= x
      PROVE  SameAt(image, m, old, z, d)
  <2>1. z \in Nat /\ z + 4 <= old.len
    BY <1>1, <1>5, EntriesBefore
  <2>2. IsCopiedEntry(image, m, old, z, d)
    BY <1>3, <1>5, <2>1, EntryCopied
  <2>3. 0 \in 0 .. 3 /\ 3 \in 0 .. 3 /\ z + d + 0 = z + d /\ z + 0 = z
    BY <1>3, <2>1
  <2>4. /\ z + d + 4 <= m.len /\ Cell(image, m, z + d) = Cell(wim, old, z)
        /\ Cell(image, m, z + d + 3) = Cell(wim, old, z + 3)
    BY <2>2, <2>3 DEF IsCopiedEntry
  <2> QED BY <1>3, <2>1, <2>4, SameEntry
<1>6. wim_direntry(image, m, name, c) = {x + d}
  <2>1. wim_direntry(image, m, name, dir.offset + d) = {x + d}
    BY <1>1, <1>3, <1>5, NameFound
  <2> QED BY <1>3, <2>1
<1>7. Named(image, m, name, o) = Named(image, m, name, c)
  <2>1. ASSUME NEW i \in Injected(files)
        PROVE  o + Rank(files, i) * wim_align(PatchDirentLen) \notin Named(image, m, name, o)
    <3>1. PICK y : y = o + Rank(files, i) * wim_align(PatchDirentLen)
      OBVIOUS
    <3>2. NameIn(wim_read(image, m, y + 3, 1)[1]) = files[i].name
      BY <3>1, NewEntry
    <3>3. files[i].name # name
      BY DEF IsFresh
    <3> QED BY <3>1, <3>2, <3>3, Zenon DEF Named
  <2>2. DirEntries(image, m, o) =
          {o + Rank(files, i) * wim_align(PatchDirentLen) : i \in Injected(files)}
            \union DirEntries(image, m, c)
    BY NewDirectory
  <2> QED BY <2>1, <2>2 DEF Named
<1>8. wim_direntry(image, m, name, o) = {x + d}
  BY <1>6, <1>7, DirentryIs
<1>9. IsCopiedEntry(image, m, old, x, d)
  BY <1>2, <1>3, <1>4, EntryCopied
<1>10. c <= x + d
  BY <1>1, <1>3, <1>4
<1> QED BY <1>3, <1>4, <1>8, <1>9, <1>10

\* The entry of an injected file is found, if it is the first with its name.
LEMMA InjectedEntryFound ==
  ASSUME NEW image, NEW m, NEW old, NEW dir, NEW o, NEW c, NEW files, IsTable(files),
         IsNewMetadata(image, m, old, dir, o, c), HasEntries(image, m, files, o, c),
         NEW i \in Injected(files),
         \A j \in Injected(files) : files[j].name = files[i].name => i <= j
  PROVE  wim_direntry(image, m, files[i].name, o)
           = {o + Rank(files, i) * wim_align(PatchDirentLen)}
<1> DEFINE A == wim_align(PatchDirentLen)
           S == Named(image, m, files[i].name, o)
<1>1. PICK x : x = o + Rank(files, i) * A
  OBVIOUS
<1>2. /\ x \in Nat /\ x + 4 <= c /\ wim_readable(image, m, x, 4)
      /\ NameIn(wim_read(image, m, x + 3, 1)[1]) = files[i].name
  BY <1>1, NewEntry
<1>3. /\ DirEntries(image, m, o) = {o + Rank(files, j) * A : j \in Injected(files)}
                                     \union DirEntries(image, m, c)
      /\ \A y \in DirEntries(image, m, c) : y \in Nat /\ c <= y
  BY NewDirectory
<1>4. c \in Nat /\ o \in Nat /\ A \in Nat
  BY DEF IsNewMetadata, HasEntries
<1>5. x \in S
  BY <1>1, <1>2, <1>3 DEF Named
<1>6. ASSUME NEW y \in S PROVE y \in Nat /\ x <= y
  <2>1. CASE y \in DirEntries(image, m, c)
    BY <1>2, <1>3, <1>4, <2>1
  <2>2. CASE y \notin DirEntries(image, m, c)
    <3>1. PICK j \in Injected(files) : y = o + Rank(files, j) * A
      BY <1>3, <2>2 DEF Named
    <3>2. y \in Nat /\ NameIn(wim_read(image, m, y + 3, 1)[1]) = files[j].name
      BY <3>1, NewEntry
    <3>3. files[j].name = files[i].name
      BY <3>2 DEF Named
    <3>4. i <= j
      BY <3>3
    <3>5. i \in Nat /\ j \in Nat
      BY InjectedIsFinite
    <3>6. Rank(files, i) \in Nat /\ Rank(files, j) \in Nat /\ Rank(files, i) <= Rank(files, j)
      <4>1. CASE i = j
        BY <4>1, RanksAscend
      <4>2. CASE i # j
        <5>1. i < j
          BY <3>4, <3>5, <4>2
        <5> QED BY <5>1, RanksAscend
      <4> QED BY <4>1, <4>2
    <3>7. Rank(files, i) * A <= Rank(files, j) * A
      BY <1>4, <3>6, TimesKeepsOrder
    <3>8. PICK u \in Nat, v \in Nat : u = Rank(files, i) * A /\ v = Rank(files, j) * A
      <4> HIDE DEF A
      <4>1. Rank(files, i) * A \in Nat /\ Rank(files, j) * A \in Nat
        BY <1>4, <3>6
      <4> QED BY <4>1
    <3>9. u <= v /\ x = o + u /\ y = o + v
      BY <1>1, <3>1, <3>7, <3>8, Zenon
    <3> QED BY <1>4, <3>2, <3>9
  <2> QED BY <2>1, <2>2
<1> HIDE DEF S
<1>7. FirstEntry(S) = {x}
  <2>1. x \in FirstEntry(S)
    BY <1>5, <1>6 DEF FirstEntry
  <2>2. ASSUME NEW y \in FirstEntry(S) PROVE y = x
    <3>1. y \in S /\ y <= x
      BY <1>5, <2>2 DEF FirstEntry
    <3> QED BY <1>2, <1>6, <3>1
  <2> QED BY <2>1, <2>2
<1> QED BY <1>1, <1>7, DirentryIs DEF S

----------------------------------------------------------------------------
(* The paths in the new metadata *)

\* The metadata of the patched file, made from a tree of directories.
IsPatchedTree(image, m, old, dir, o, c, files) ==
  /\ IsTable(files) /\ IsNewMetadata(image, m, old, dir, o, c)
  /\ HasEntries(image, m, files, o, c)
  /\ IsTree(wim, old) /\ dir.parent \in wim_path(wim, old, WIM_INJECT_DIR)
  /\ dir.offset = SubdirOf(wim, old, dir.parent)
  /\ dir.len \in wim_dir_len(wim, old, dir.offset)

\* A directory that a path leads through.
IsOnPath(old, D) ==
  \/ D = RootDirectory(wim, old)
  \/ \E path \in Parents : \E x \in wim_path(wim, old, path) : D = SubdirOf(wim, old, x)

LEMMA TreeApart ==
  ASSUME NEW image, NEW m, NEW old, NEW dir, NEW o, NEW c, NEW files,
         IsPatchedTree(image, m, old, dir, o, c, files),
         NEW D, IsOnPath(old, D)
  PROVE  IsApart(old, D, dir.parent)
<1>1. HasLengths(wim, old) /\ old.len \in Nat
  BY DEF IsPatchedTree, IsNewMetadata
<1>2. IsTree(wim, old) /\ dir.parent \in wim_path(wim, old, WIM_INJECT_DIR)
  BY DEF IsPatchedTree
<1>3. ASSUME NEW z \in DirEntries(wim, old, D)
      PROVE  /\ DirentLength(wim, old, z) >= 4
             /\ z = dir.parent \/ z + 4 <= dir.parent \/ dir.parent + 4 <= z
  <2>1. D \in {RootDirectory(wim, old)} \union
               UNION {{SubdirOf(wim, old, at) : at \in wim_path(wim, old, path)} :
                        path \in Parents}
    BY DEF IsOnPath
  <2>2. /\ DirentLength(wim, old, z) >= PatchDirentLen
        /\ \/ z = dir.parent
           \/ z + PatchDirentLen <= dir.parent \/ dir.parent + PatchDirentLen <= z
    BY <1>2, <2>1 DEF IsTree
  <2> QED BY <2>2 DEF PatchDirentLen, DirentLen, NameLen
<1>4. ASSUME NEW z \in DirEntries(wim, old, D)
      PROVE  DirentLengths(wim, old)[z] = DirentLength(wim, old, z)
  <2>1. D \in 0 .. old.len /\ z \in DirWalk(DirentLengths(wim, old))[D]
    BY DEF DirEntries
  <2>2. WalkSound(DirentLengths(wim, old), D)
    BY <1>1, <2>1, WalkIsSound DEF HasLengths
  <2>3. z \in DOMAIN DirentLengths(wim, old) /\ DirentLengths(wim, old)[z] # 0
    BY <2>1, <2>2 DEF WalkSound
  <2> QED BY <2>3 DEF DirentLengths
<1> QED BY <1>3, <1>4 DEF IsApart

\* The fields of an entry, by its cells.
LEMMA EntryFields ==
  ASSUME NEW image, NEW meta, meta.offset \in Nat, NEW x \in Nat
  PROVE  /\ SubdirOf(image, meta, x) = NumberIn(Cell(image, meta, x + 1))
         /\ HashOf(image, meta, x) = HashIn(Cell(image, meta, x + 2))
<1>1. 3 \in Nat /\ 2 \in 1 .. 3 /\ 3 \in 1 .. 3 /\ x + 2 - 1 = x + 1 /\ x + 3 - 1 = x + 2
  OBVIOUS
<1>2. /\ wim_read(image, meta, x, 3)[2] = Cell(image, meta, x + 2 - 1)
      /\ wim_read(image, meta, x, 3)[3] = Cell(image, meta, x + 3 - 1)
  BY <1>1, ReadCell
<1> QED BY <1>1, <1>2 DEF SubdirOf, HashOf, DirentLen

\* The fields of an entry that has kept its place.
LEMMA FieldsKept ==
  ASSUME NEW image, NEW m, NEW old, NEW dir, NEW o, NEW c,
         IsNewMetadata(image, m, old, dir, o, c), NEW x \in Nat, x + 4 <= old.len,
         x = dir.parent \/ x + 4 <= dir.parent \/ dir.parent + 4 <= x
  PROVE  /\ HashOf(image, m, x) = HashOf(wim, old, x)
         /\ SubdirOf(image, m, x) = IF x = dir.parent THEN o ELSE SubdirOf(wim, old, x)
<1>1. /\ m.offset \in Nat /\ old.offset \in Nat /\ old.len \in Nat /\ dir.parent \in Nat
      /\ o \in Nat /\ Cell(image, m, dir.parent + 1) = Number(o)
      /\ \A k \in 0 .. old.len - 1 :
           k # dir.parent + 1 => Cell(image, m, k) = Cell(wim, old, k)
  BY DEF IsNewMetadata
<1>2. PICK p \in Nat, l \in Nat : p = dir.parent /\ l = old.len
  BY <1>1
<1>3. x + 4 <= l /\ (x = p \/ x + 4 <= p \/ p + 4 <= x)
  BY <1>2, Zenon
<1>4. x + 2 \in 0 .. l - 1 /\ x + 2 # p + 1 /\ x + 1 \in 0 .. l - 1 /\ (x # p => x + 1 # p + 1)
  BY <1>3
<1>5. Cell(image, m, x + 2) = Cell(wim, old, x + 2)
  BY <1>1, <1>2, <1>4
<1>6. x # p => Cell(image, m, x + 1) = Cell(wim, old, x + 1)
  BY <1>1, <1>2, <1>4
<1>7. x = p => NumberIn(Cell(image, m, x + 1)) = o
  BY <1>1, <1>2 DEF Number, NumberIn
<1>8. /\ SubdirOf(image, m, x) = NumberIn(Cell(image, m, x + 1))
      /\ HashOf(image, m, x) = HashIn(Cell(image, m, x + 2))
      /\ SubdirOf(wim, old, x) = NumberIn(Cell(wim, old, x + 1))
      /\ HashOf(wim, old, x) = HashIn(Cell(wim, old, x + 2))
  BY <1>1, EntryFields
<1> QED BY <1>2, <1>5, <1>6, <1>7, <1>8, Zenon

\* The fields of an entry that was copied.
LEMMA FieldsCopied ==
  ASSUME NEW image, NEW m, NEW old, NEW dir, NEW o, NEW c,
         IsNewMetadata(image, m, old, dir, o, c), NEW x \in Nat, NEW d \in Nat,
         IsCopiedEntry(image, m, old, x, d)
  PROVE  /\ HashOf(image, m, x + d) = HashOf(wim, old, x)
         /\ SubdirOf(image, m, x + d) = SubdirOf(wim, old, x)
<1>1. m.offset \in Nat /\ old.offset \in Nat
  BY DEF IsNewMetadata
<1>2. 1 \in 0 .. 3 /\ 2 \in 0 .. 3 /\ x + d \in Nat
  OBVIOUS
<1>3. /\ Cell(image, m, x + d + 1) = Cell(wim, old, x + 1)
      /\ Cell(image, m, x + d + 2) = Cell(wim, old, x + 2)
  BY <1>2 DEF IsCopiedEntry
<1> QED BY <1>1, <1>2, <1>3, EntryFields

\* The root directory has kept its place.
LEMMA RootKept ==
  ASSUME NEW image, NEW m, NEW old, NEW dir, NEW o, NEW c,
         IsNewMetadata(image, m, old, dir, o, c)
  PROVE  RootDirectory(image, m) = RootDirectory(wim, old)
<1>1. /\ m.offset \in Nat /\ old.offset \in Nat /\ old.len \in Nat /\ dir.parent \in Nat
      /\ dir.parent + 4 <= old.len
      /\ \A k \in 0 .. old.len - 1 :
           k # dir.parent + 1 => Cell(image, m, k) = Cell(wim, old, k)
  BY DEF IsNewMetadata
<1>2. 0 \in 0 .. old.len - 1 /\ 0 # dir.parent + 1 /\ 0 \in Nat /\ 1 \in Nat /\ 1 \in 1 .. 1
      /\ 0 + 1 - 1 = 0
  BY <1>1
<1>3. Cell(image, m, 0) = Cell(wim, old, 0)
  BY <1>1, <1>2
<1>4. /\ wim_read(image, m, 0, 1)[1] = Cell(image, m, 0 + 1 - 1)
      /\ wim_read(wim, old, 0, 1)[1] = Cell(wim, old, 0 + 1 - 1)
  BY <1>1, <1>2, ReadCell
<1> QED BY <1>2, <1>3, <1>4 DEF RootDirectory, SecurityLen

\* The paths that are looked for, and what leads to them.
Paths == ImagePaths \union {WIM_INJECT_DIR}

LEMMA PathTyped ==
  ASSUME NEW path \in Paths
  PROVE  path \in Seq(STRING) /\ Len(path) \in Nat /\ Len(path) >= 1
<1>1. path \in Seq(STRING) /\ path # <<>>
  BY WriterAssumption DEF Paths
<1> QED BY <1>1

LEMMA PrefixTyped ==
  ASSUME NEW path \in Paths, NEW n \in 1 .. Len(path)
  PROVE  /\ Len(SubSeq(path, 1, n)) = n
         /\ \A k \in 1 .. n : SubSeq(path, 1, n)[k] = path[k]
BY PathTyped

LEMMA PathLeadsThrough ==
  ASSUME NEW image, NEW meta, wim_readable(image, meta, 0, SecurityLen),
         NEW path \in Paths, NEW n \in 1 .. Len(path), n # Len(path)
  PROVE  /\ SubSeq(path, 1, n) \in Parents
         /\ wim_path(image, meta, SubSeq(path, 1, n)) = PathWalk(image, meta, path)[n]
<1>1. Len(path) \in Nat /\ n \in 1 .. Len(path) - 1 /\ n \in Nat /\ n \in 1 .. n /\ n <= Len(path)
  BY PathTyped
<1>2. SubSeq(path, 1, n) \in Parents
  BY <1>1 DEF Parents, Paths
<1>3. PICK q : q = SubSeq(path, 1, n)
  OBVIOUS
<1>4. Len(q) = n /\ \A k \in 1 .. n : q[k] = path[k]
  BY <1>3, PrefixTyped
<1>5. PathWalk(image, meta, q)[n] = PathWalk(image, meta, path)[n]
  BY <1>1, <1>4, PathPrefix
<1>6. wim_path(image, meta, q) = PathWalk(image, meta, path)[n]
  BY <1>4, <1>5 DEF wim_path
<1> QED BY <1>2, <1>3, <1>6

\* One step along a path: what is found in a directory of the WIM is found in that of the
\* patched file.
IsBeside(dir, old, x) ==
  /\ x \in Nat /\ x + 4 <= old.len
  /\ x = dir.parent \/ x + 4 <= dir.parent \/ dir.parent + 4 <= x

IsMoved(image, m, old, dir, c, x, y) ==
  \E d \in Nat : d = c - dir.offset /\ y = x + d /\ IsCopiedEntry(image, m, old, x, d)

LEMMA SearchKept ==
  ASSUME NEW image, NEW m, NEW old, NEW dir, NEW o, NEW c, NEW files,
         IsPatchedTree(image, m, old, dir, o, c, files),
         NEW D, IsOnPath(old, D), NEW name, NEW x \in wim_direntry(wim, old, name, D)
  PROVE  /\ wim_direntry(wim, old, name, D) = {x} /\ IsBeside(dir, old, x)
         /\ wim_direntry(image, m, name, D) = {x}
         /\ D = dir.offset /\ IsFresh(files, name) =>
              \E y : /\ wim_direntry(image, m, name, o) = {y}
                     /\ IsMoved(image, m, old, dir, c, x, y)
<1>1. /\ IsTable(files) /\ IsNewMetadata(image, m, old, dir, o, c)
      /\ HasEntries(image, m, files, o, c) /\ dir.len \in wim_dir_len(wim, old, dir.offset)
  BY DEF IsPatchedTree
<1>2. HasLengths(wim, old) /\ old.len \in Nat
  BY <1>1 DEF IsNewMetadata
<1>3. IsApart(old, D, dir.parent)
  BY TreeApart
<1>4. x \in DirEntries(wim, old, D) /\ D \in 0 .. old.len /\ x \in 0 .. old.len
  BY <1>2, EntryInside
<1>5. x \in Nat /\ x <= x
  BY <1>2, <1>4
<1>6. x + 4 <= old.len
  BY <1>2, <1>3, <1>4, <1>5, EntriesBefore
<1>7. IsBeside(dir, old, x)
  BY <1>3, <1>4, <1>5, <1>6 DEF IsApart, IsBeside
<1>8. wim_direntry(wim, old, name, D) = {x}
  BY <1>2, FoundOnce
<1>9. wim_direntry(image, m, name, D) = {x}
  BY <1>1, <1>3, DirectorySame
<1>10. ASSUME D = dir.offset, IsFresh(files, name)
       PROVE  \E y : /\ wim_direntry(image, m, name, o) = {y}
                     /\ IsMoved(image, m, old, dir, c, x, y)
  <2>1. PICK d : d = c - dir.offset
    OBVIOUS
  <2>2. IsApart(old, dir.offset, dir.parent) /\ x \in wim_direntry(wim, old, name, dir.offset)
    BY <1>3, <1>10
  <2>3. /\ d \in Nat /\ wim_direntry(image, m, name, o) = {x + d}
        /\ IsCopiedEntry(image, m, old, x, d)
    BY <1>1, <1>10, <2>1, <2>2, DirectoryCopied
  <2> QED BY <2>1, <2>3 DEF IsMoved
<1> QED BY <1>7, <1>8, <1>9, <1>10

\* No injected file, of several with one name none, takes the path.
IsFree(path, files) ==
  \A i \in Injected(files), n \in 1 .. Len(path) :
    SubSeq(path, 1, n) # Append(WIM_INJECT_DIR, files[i].name)

\* The n-th entry of a path is the same, or it was copied and is behind WIM_INJECT_DIR.
IsKept(image, m, old, dir, c, path, n) ==
  PathWalk(wim, old, path)[n] # {} =>
    \E x, y : /\ PathWalk(wim, old, path)[n] = {x} /\ PathWalk(image, m, path)[n] = {y}
              /\ x \in Nat
              /\ \/ y = x /\ IsBeside(dir, old, x)
                 \/ /\ IsMoved(image, m, old, dir, c, x, y)
                    /\ n - 1 \in 1 .. Len(path) /\ SubSeq(path, 1, n - 1) = WIM_INJECT_DIR

LEMMA PathBegins ==
  ASSUME NEW image, NEW m, NEW old, NEW dir, NEW o, NEW c, NEW files,
         IsPatchedTree(image, m, old, dir, o, c, files), NEW path \in Paths
  PROVE  IsKept(image, m, old, dir, c, path, 1)
<1>1. Len(path) \in Nat /\ 1 \in 1 .. Len(path)
  BY PathTyped
<1>2. RootDirectory(image, m) = RootDirectory(wim, old)
  BY RootKept DEF IsPatchedTree
<1> DEFINE D == RootDirectory(wim, old)
<1>3. /\ PathWalk(wim, old, path)[1] = wim_direntry(wim, old, path[1], D)
      /\ PathWalk(image, m, path)[1] = wim_direntry(image, m, path[1], D)
  <2>1. /\ PathWalk(wim, old, path)[1]
             = EntriesIn(wim, old, path[1], DirsAt(wim, old, 1, PathWalk(wim, old, path)[0]))
        /\ PathWalk(image, m, path)[1]
             = EntriesIn(image, m, path[1], DirsAt(image, m, 1, PathWalk(image, m, path)[0]))
    <3>1. 1 - 1 = 0
      OBVIOUS
    <3> QED BY <1>1, <3>1, PathStep
  <2> HIDE DEF D
  <2>2. \A before : DirsAt(wim, old, 1, before) = {D} /\ DirsAt(image, m, 1, before) = {D}
    BY <1>2 DEF DirsAt, D
  <2> QED BY <2>1, <2>2 DEF EntriesIn
<1>4. IsOnPath(old, D)
  BY DEF IsOnPath
<1> HIDE DEF D
<1>5. ASSUME NEW x \in wim_direntry(wim, old, path[1], D)
      PROVE  /\ wim_direntry(wim, old, path[1], D) = {x} /\ IsBeside(dir, old, x)
             /\ wim_direntry(image, m, path[1], D) = {x}
  BY <1>4, SearchKept
<1>6. ASSUME NEW x \in PathWalk(wim, old, path)[1]
      PROVE  /\ PathWalk(wim, old, path)[1] = {x} /\ PathWalk(image, m, path)[1] = {x}
             /\ x \in Nat /\ IsBeside(dir, old, x)
  BY <1>3, <1>5 DEF IsBeside
<1> QED BY <1>6 DEF IsKept

LEMMA PathGoesOn ==
  ASSUME NEW image, NEW m, NEW old, NEW dir, NEW o, NEW c, NEW files,
         IsPatchedTree(image, m, old, dir, o, c, files),
         NEW path \in Paths, IsFree(path, files),
         NEW n \in 1 .. Len(path), n # Len(path), IsKept(image, m, old, dir, c, path, n)
  PROVE  IsKept(image, m, old, dir, c, path, n + 1)
<1> DEFINE w == PathWalk(wim, old, path)
           v == PathWalk(image, m, path)
<1>1. /\ n \in Nat /\ n + 1 \in 1 .. Len(path) /\ n + 1 # 1 /\ n + 1 - 1 = n
  BY PathTyped
<1>2. /\ w[n + 1] = EntriesIn(wim, old, path[n + 1], DirsAt(wim, old, n + 1, w[n]))
      /\ v[n + 1] = EntriesIn(image, m, path[n + 1], DirsAt(image, m, n + 1, v[n]))
  BY <1>1, PathStep
<1>3. wim_readable(wim, old, 0, SecurityLen) /\ IsNewMetadata(image, m, old, dir, o, c)
  <2>1. /\ old.len \in Nat /\ dir.parent \in Nat /\ dir.parent + 4 <= old.len
        /\ \A x, k \in Nat : x + k <= old.len => wim_readable(wim, old, x, k)
        /\ IsNewMetadata(image, m, old, dir, o, c)
    BY DEF IsPatchedTree, IsNewMetadata
  <2>2. 0 + 1 <= old.len /\ 0 \in Nat /\ 1 \in Nat
    BY <2>1
  <2> QED BY <2>1, <2>2 DEF SecurityLen
<1>4. /\ SubSeq(path, 1, n) \in Parents
      /\ wim_path(wim, old, SubSeq(path, 1, n)) = w[n]
  BY <1>3, PathLeadsThrough
<1> HIDE DEF w, v
<1>5. ASSUME w[n + 1] # {}
      PROVE  \E x, y : /\ w[n + 1] = {x} /\ v[n + 1] = {y} /\ x \in Nat
                       /\ \/ y = x /\ IsBeside(dir, old, x)
                          \/ /\ IsMoved(image, m, old, dir, c, x, y)
                             /\ n \in 1 .. Len(path) /\ SubSeq(path, 1, n) = WIM_INJECT_DIR
  <2>1. w[n] # {}
    BY <1>1, <1>2, <1>5 DEF EntriesIn, DirsAt
  <2>2. PICK x, y : /\ w[n] = {x} /\ v[n] = {y} /\ x \in Nat
                    /\ (y = x /\ IsBeside(dir, old, x)) \/ IsMoved(image, m, old, dir, c, x, y)
    BY <2>1 DEF IsKept, w, v
  <2>3. PICK D : D = SubdirOf(wim, old, x)
    OBVIOUS
  <2>4. IsOnPath(old, D)
    BY <1>4, <2>2, <2>3 DEF IsOnPath
  <2>5. w[n + 1] = wim_direntry(wim, old, path[n + 1], D)
    BY <1>1, <1>2, <2>2, <2>3 DEF EntriesIn, DirsAt
  <2>6. PICK z : z \in wim_direntry(wim, old, path[n + 1], D)
    BY <1>5, <2>5
  <2>7. /\ wim_direntry(wim, old, path[n + 1], D) = {z} /\ IsBeside(dir, old, z)
        /\ wim_direntry(image, m, path[n + 1], D) = {z}
        /\ D = dir.offset /\ IsFresh(files, path[n + 1]) =>
             \E u : /\ wim_direntry(image, m, path[n + 1], o) = {u}
                    /\ IsMoved(image, m, old, dir, c, z, u)
    BY <2>4, <2>6, SearchKept
  <2>8. v[n + 1] = wim_direntry(image, m, path[n + 1], SubdirOf(image, m, y))
    BY <1>1, <1>2, <2>2 DEF EntriesIn, DirsAt
  <2>9. z \in Nat
    BY <2>7 DEF IsBeside
  <2>10. CASE SubdirOf(image, m, y) = D
    <3>1. w[n + 1] = {z} /\ v[n + 1] = {z}
      BY <2>5, <2>7, <2>8, <2>10
    <3> QED BY <2>7, <2>9, <3>1
  <2>11. CASE SubdirOf(image, m, y) # D
    <3>1. ~IsMoved(image, m, old, dir, c, x, y)
      <4>1. ASSUME NEW d \in Nat, y = x + d, IsCopiedEntry(image, m, old, x, d)
            PROVE  SubdirOf(image, m, y) = D
        BY <1>3, <2>2, <2>3, <4>1, FieldsCopied
      <4> QED BY <2>11, <4>1 DEF IsMoved
    <3>2. y = x /\ IsBeside(dir, old, x)
      BY <2>2, <3>1
    <3>3. SubdirOf(image, m, x) = IF x = dir.parent THEN o ELSE SubdirOf(wim, old, x)
      BY <1>3, <2>2, <3>2, FieldsKept DEF IsBeside
    <3>4. x = dir.parent /\ SubdirOf(image, m, y) = o
      BY <2>3, <2>11, <3>2, <3>3
    <3>5. D = dir.offset
      BY <2>3, <3>4 DEF IsPatchedTree
    <3>6. SubSeq(path, 1, n) = WIM_INJECT_DIR
      <4>1. dir.parent \in wim_path(wim, old, WIM_INJECT_DIR) /\ IsTree(wim, old)
        BY DEF IsPatchedTree
      <4>2. dir.parent \in wim_path(wim, old, SubSeq(path, 1, n))
        BY <1>4, <2>2, <3>4
      <4>3. wim_path(wim, old, SubSeq(path, 1, n))
              \intersect wim_path(wim, old, WIM_INJECT_DIR) # {}
        BY <4>1, <4>2
      <4> QED BY <1>4, <4>1, <4>3 DEF IsTree
    <3>7. SubSeq(path, 1, n + 1) = Append(WIM_INJECT_DIR, path[n + 1])
      <4>1. path \in Seq(STRING) /\ Len(path) \in Nat
        BY PathTyped
      <4>2. SubSeq(path, 1, n + 1) = Append(SubSeq(path, 1, n), path[n + 1])
        BY <1>1, <4>1
      <4> QED BY <3>6, <4>2
    <3>8. IsFresh(files, path[n + 1])
      BY <1>1, <3>7 DEF IsFree, IsFresh
    <3>9. PICK u : /\ wim_direntry(image, m, path[n + 1], o) = {u}
                   /\ IsMoved(image, m, old, dir, c, z, u)
      BY <2>7, <3>5, <3>8
    <3>10. w[n + 1] = {z} /\ v[n + 1] = {u}
      BY <2>5, <2>7, <2>8, <3>4, <3>9
    <3> QED BY <2>9, <3>6, <3>9, <3>10
  <2> QED BY <2>10, <2>11
<1>6. PICK k : k = n + 1
  OBVIOUS
<1>7. k - 1 = n
  BY <1>1, <1>6
<1>8. IsKept(image, m, old, dir, c, path, k)
  BY <1>5, <1>6, <1>7, Zenon DEF IsKept, w, v
<1> QED BY <1>6, <1>8

LEMMA PathIsKept ==
  ASSUME NEW image, NEW m, NEW old, NEW dir, NEW o, NEW c, NEW files,
         IsPatchedTree(image, m, old, dir, o, c, files),
         NEW path \in Paths, IsFree(path, files), NEW n \in 1 .. Len(path)
  PROVE  IsKept(image, m, old, dir, c, path, n)
<1> DEFINE Bad == {k \in 1 .. Len(path) : ~IsKept(image, m, old, dir, c, path, k)}
<1>1. Len(path) \in Nat
  BY PathTyped
<1>2. ASSUME Bad # {} PROVE FALSE
  <2>1. Bad \in SUBSET Nat
    OBVIOUS
  <2>2. PICK k \in Bad : \A l \in Bad : k <= l
    <3> HIDE DEF Bad
    <3> QED BY <1>2, <2>1, LeastNatural
  <2>3. k \in 1 .. Len(path) /\ ~IsKept(image, m, old, dir, c, path, k)
    OBVIOUS
  <2>4. k # 1
    BY <2>3, PathBegins
  <2>5. PICK j : j = k - 1
    OBVIOUS
  <2>6. j \in 1 .. Len(path) /\ j # Len(path) /\ j + 1 = k /\ j < k
    BY <1>1, <2>3, <2>4, <2>5
  <2>7. j \notin Bad
    <3> HIDE DEF Bad
    <3> QED BY <2>1, <2>2, <2>6
  <2>8. IsKept(image, m, old, dir, c, path, j)
    BY <2>6, <2>7
  <2>9. IsKept(image, m, old, dir, c, path, j + 1)
    BY <2>6, <2>8, PathGoesOn
  <2> QED BY <2>3, <2>6, <2>9
<1>3. n \notin Bad
  <2> HIDE DEF Bad
  <2> QED BY <1>2
<1> QED BY <1>3

\* The metadata can be read.
LEMMA SecurityReadable ==
  ASSUME NEW image, NEW m, NEW old, NEW dir, NEW o, NEW c, NEW files,
         IsPatchedTree(image, m, old, dir, o, c, files)
  PROVE  wim_readable(image, m, 0, SecurityLen) /\ wim_readable(wim, old, 0, SecurityLen)
<1>1. /\ IsNewMetadata(image, m, old, dir, o, c)
      /\ old.len \in Nat /\ dir.parent \in Nat /\ dir.parent + 4 <= old.len
      /\ \A x, k \in Nat : x + k <= old.len => wim_readable(wim, old, x, k)
      /\ m.len \in Nat /\ c \in Nat /\ dir.len \in Nat /\ m.len = c + dir.len + 1
  BY DEF IsPatchedTree, IsNewMetadata
<1>2. 0 + 1 <= old.len /\ 0 + 1 <= m.len /\ 0 \in Nat /\ 1 \in Nat
  BY <1>1
<1> QED BY <1>1, <1>2, NewReadable DEF SecurityLen

\* The path of the directory for injected files leads to the entry that was changed.
LEMMA InjectDirKept ==
  ASSUME NEW image, NEW m, NEW old, NEW dir, NEW o, NEW c, NEW files,
         IsPatchedTree(image, m, old, dir, o, c, files)
  PROVE  PathWalk(image, m, WIM_INJECT_DIR)[Len(WIM_INJECT_DIR)] = {dir.parent}
<1> DEFINE path == WIM_INJECT_DIR
           N == Len(path)
<1>1. path \in Paths /\ N \in Nat /\ N \in 1 .. N
  <2>1. path \in Paths
    BY DEF Paths
  <2> QED BY <2>1, PathTyped
<1>2. IsFree(path, files)
  <2>1. ASSUME NEW n \in 1 .. N, NEW name, SubSeq(path, 1, n) = Append(path, name) PROVE FALSE
    <3>1. Len(SubSeq(path, 1, n)) = n /\ n <= N /\ n \in Nat
      BY <1>1, PrefixTyped
    <3>2. path \in Seq(STRING)
      BY <1>1, PathTyped
    <3>3. Len(Append(path, name)) = N + 1
      BY <3>2
    <3> HIDE DEF path, N
    <3> QED BY <1>1, <2>1, <3>1, <3>3
  <2> QED BY <2>1 DEF IsFree
<1>3. IsKept(image, m, old, dir, c, path, N)
  BY <1>1, <1>2, PathIsKept
<1>4. dir.parent \in PathWalk(wim, old, path)[N]
  BY DEF IsPatchedTree, wim_path
<1> HIDE DEF path, N
<1>5. PICK x, y : /\ PathWalk(wim, old, path)[N] = {x} /\ PathWalk(image, m, path)[N] = {y}
                  /\ \/ y = x
                     \/ N - 1 \in 1 .. Len(path) /\ SubSeq(path, 1, N - 1) = path
  BY <1>3, <1>4 DEF IsKept, path
<1>6. ~(N - 1 \in 1 .. Len(path) /\ SubSeq(path, 1, N - 1) = path)
  <2> SUFFICES ASSUME N - 1 \in 1 .. Len(path), SubSeq(path, 1, N - 1) = path PROVE FALSE
    OBVIOUS
  <2>1. Len(SubSeq(path, 1, N - 1)) = N - 1
    BY <1>1, PrefixTyped
  <2> QED BY <1>1, <2>1 DEF N
<1>7. x = dir.parent /\ y = x
  BY <1>4, <1>5, <1>6
<1> QED BY <1>5, <1>7 DEF path, N

\* A path that no injected file takes leads to an entry with the hash it had.
LEMMA HashKept ==
  ASSUME NEW image, NEW m, NEW old, NEW dir, NEW o, NEW c, NEW files,
         IsPatchedTree(image, m, old, dir, o, c, files),
         NEW path \in Paths, IsFree(path, files), wim_path(wim, old, path) # {}
  PROVE  \E x, y : /\ wim_path(wim, old, path) = {x} /\ wim_path(image, m, path) = {y}
                   /\ HashOf(image, m, y) = HashOf(wim, old, x)
<1> DEFINE N == Len(path)
<1>1. N \in 1 .. N
  BY PathTyped
<1>2. /\ wim_path(wim, old, path) = PathWalk(wim, old, path)[N]
      /\ wim_path(image, m, path) = PathWalk(image, m, path)[N]
  BY SecurityReadable DEF wim_path
<1>3. IsKept(image, m, old, dir, c, path, N)
  BY <1>1, PathIsKept
<1> HIDE DEF N
<1>4. PICK x, y : /\ PathWalk(wim, old, path)[N] = {x} /\ PathWalk(image, m, path)[N] = {y}
                  /\ x \in Nat
                  /\ (y = x /\ IsBeside(dir, old, x)) \/ IsMoved(image, m, old, dir, c, x, y)
  BY <1>2, <1>3 DEF IsKept
<1>5. IsNewMetadata(image, m, old, dir, o, c)
  BY DEF IsPatchedTree
<1>6. HashOf(image, m, y) = HashOf(wim, old, x)
  <2>1. CASE y = x /\ IsBeside(dir, old, x)
    BY <1>5, <2>1, FieldsKept DEF IsBeside
  <2>2. CASE IsMoved(image, m, old, dir, c, x, y)
    BY <1>4, <1>5, <2>2, FieldsCopied DEF IsMoved
  <2> QED BY <1>4, <2>1, <2>2
<1> QED BY <1>2, <1>4, <1>6

\* The path of an injected file, the first with its name, leads to its entry.
LEMMA InjectedPath ==
  ASSUME NEW image, NEW m, NEW old, NEW dir, NEW o, NEW c, NEW files,
         IsPatchedTree(image, m, old, dir, o, c, files), NEW i \in Injected(files),
         \A j \in Injected(files) : files[j].name = files[i].name => i <= j
  PROVE  \E y : /\ wim_path(image, m, Append(WIM_INJECT_DIR, files[i].name)) = {y}
                /\ HashOf(image, m, y) = wim_hash(files[i].cells)
<1> DEFINE path == WIM_INJECT_DIR
           N == Len(path)
           q == Append(path, files[i].name)
<1>1. path \in Seq(STRING) /\ N \in Nat /\ N \in 1 .. N
  <2>1. path \in Paths
    BY DEF Paths
  <2> QED BY <2>1, PathTyped
<1>2. /\ Len(q) = N + 1 /\ q[N + 1] = files[i].name
      /\ \A k \in 1 .. N : q[k] = path[k]
  BY <1>1
<1>3. /\ IsNewMetadata(image, m, old, dir, o, c) /\ IsTable(files)
      /\ HasEntries(image, m, files, o, c)
  BY DEF IsPatchedTree
<1>4. PathWalk(image, m, path)[N] = {dir.parent}
  BY InjectDirKept
<1> HIDE DEF path, N, q
<1>5. PathWalk(image, m, q)[N] = {dir.parent}
  <2>1. N <= Len(path) /\ N <= Len(q) /\ Len(q) \in Nat /\ Len(path) \in Nat
    BY <1>1, <1>2 DEF N
  <2>2. PathWalk(image, m, path)[N] = PathWalk(image, m, q)[N]
    BY <1>1, <1>2, <2>1, PathPrefix, SMTT(30)
  <2> QED BY <1>4, <2>2
<1>6. PathWalk(image, m, q)[N + 1]
        = EntriesIn(image, m, files[i].name, DirsAt(image, m, N + 1, {dir.parent}))
  <2>1. PICK k : k = N + 1
    OBVIOUS
  <2>2. k \in 1 .. Len(q) /\ Len(q) \in Nat /\ k - 1 = N
    BY <1>1, <1>2, <2>1
  <2>3. PathWalk(image, m, q)[k]
          = EntriesIn(image, m, q[k], DirsAt(image, m, k, PathWalk(image, m, q)[k - 1]))
    BY <2>2, PathStep
  <2> QED BY <1>2, <1>5, <2>1, <2>2, <2>3
<1>7. SubdirOf(image, m, dir.parent) = o
  <2>1. dir.parent \in Nat /\ dir.parent + 4 <= old.len
    BY <1>3 DEF IsNewMetadata
  <2> QED BY <1>3, <2>1, FieldsKept
<1>8. DirsAt(image, m, N + 1, {dir.parent}) = {o}
  <2>1. N + 1 # 1
    BY <1>1
  <2> QED BY <1>7, <2>1 DEF DirsAt
<1>9. PICK y : y = o + Rank(files, i) * wim_align(PatchDirentLen)
  OBVIOUS
<1>10. PathWalk(image, m, q)[N + 1] = {y}
  <2>1. wim_direntry(image, m, files[i].name, o) = {y}
    BY <1>3, <1>9, InjectedEntryFound
  <2> QED BY <1>6, <1>8, <2>1 DEF EntriesIn
<1>11. wim_path(image, m, q) = {y}
  BY <1>2, <1>10, SecurityReadable DEF wim_path
<1>12. HashOf(image, m, y) = wim_hash(files[i].cells)
  BY <1>3, <1>9, NewEntry
<1> QED BY <1>11, <1>12 DEF q, path

----------------------------------------------------------------------------
(* The new lookup table *)

\* An entry of the table, by the cells it consists of.
LEMMA EntryCells ==
  ASSUME NEW image, NEW h, h.lookup.offset \in Nat, NEW n \in Nat \ {0}
  PROVE  /\ LookupEntry(image, h, n)[1] = Cell(image, h.lookup, (n - 1) * 2)
         /\ LookupEntry(image, h, n)[2] = Cell(image, h.lookup, (n - 1) * 2 + 1)
<1>1. PICK x : x = (n - 1) * 2
  OBVIOUS
<1>2. x \in Nat /\ 2 \in Nat /\ 1 \in 1 .. 2 /\ 2 \in 1 .. 2 /\ x + 1 - 1 = x /\ x + 2 - 1 = x + 1
  BY <1>1
<1>3. LookupEntry(image, h, n) = wim_read(image, h.lookup, x, 2)
  BY <1>1 DEF LookupEntry, LookupLen
<1>4. /\ wim_read(image, h.lookup, x, 2)[1] = Cell(image, h.lookup, x + 1 - 1)
      /\ wim_read(image, h.lookup, x, 2)[2] = Cell(image, h.lookup, x + 2 - 1)
  BY <1>2, ReadCell
<1> QED BY <1>1, <1>2, <1>3, <1>4

\* The first K entries of the lookup table are those of the WIM; the next is that of the
\* new metadata, and those of the files follow by rank.
IsNewLookup(image, h, header, files, K) ==
  LET N == Cardinality(Injected(files))
  IN  /\ K \in Nat /\ N \in Nat /\ header.lookup.len \div LookupLen = K
      /\ h.lookup.len \div LookupLen = K + 1 + N
      /\ \A n \in 1 .. K : LookupReadable(wim, header, n)
      /\ \A n \in 1 .. K + 1 + N : LookupReadable(image, h, n)
      /\ \A n \in 1 .. K : /\ LookupEntry(image, h, n)[1] = LookupEntry(wim, header, n)[1]
                           /\ LookupEntry(image, h, n)[2] = LookupEntry(wim, header, n)[2]
      /\ ResourceIn(LookupEntry(image, h, K + 1)[1]) = h.boot /\ h.boot.metadata
      /\ HashIn(LookupEntry(image, h, K + 1)[2]) = NoHash
      /\ \A n \in K + 2 .. K + 1 + N : \E i \in Injected(files) : n = K + 2 + Rank(files, i)
      /\ \A i \in Injected(files) : \A n, l :
           n = K + 2 + Rank(files, i) /\ l = Len(files[i].cells) =>
             /\ n \in K + 2 .. K + 1 + N
             /\ ResourceIn(LookupEntry(image, h, n)[1])
                  = Resource(FileRegion(files, i).offset, l, l, FALSE, FALSE)
             /\ HashIn(LookupEntry(image, h, n)[2]) = wim_hash(files[i].cells)

LEMMA NewLookup ==
  ASSUME NEW image, NEW p, NEW files, NEW s, NEW dir, NEW at,
         Injects(image, p, files, s, dir, at), s.header.lookup.len % 2 = 0,
         NEW h, h.lookup = p.header.lookup, h.boot = p.header.boot
  PROVE  \E K : IsNewLookup(image, h, s.header, files, K)
<1> DEFINE lookup == s.header.lookup
           N == Cardinality(Injected(files))
<1>1. /\ lookup.len \in Nat /\ lookup.offset \in Nat /\ N \in Nat /\ at.lookup \in Nat
      /\ xlen \in Nat /\ Len(image) = xlen /\ at.boot \in Nat
  BY LayoutNumbers
<1>2. at.lookup + lookup.len + (1 + N) * 2 <= at.boot /\ at.boot <= xlen
  <2>1. /\ at.boot <= at.dir /\ at.dir <= at.copy /\ at.copy < xlen
        /\ at.lookup + lookup.len + (1 + N) * 2 <= at.boot
    BY LayoutOrder
  <2>2. at.dir \in Nat /\ at.copy \in Nat
    BY LayoutNumbers
  <2> QED BY <1>1, <2>1, <2>2
<1>3. IsTable(files)
  BY DEF Injects
<1>4. h.lookup = Resource(at.lookup, lookup.len + (1 + N) * 2, lookup.len + (1 + N) * 2, FALSE, FALSE)
  BY DEF Injects, IsInjecting, LookupLen
<1>5. /\ h.lookup.offset = at.lookup /\ ~h.lookup.compressed
      /\ h.lookup.len = lookup.len + (1 + N) * 2 /\ h.lookup.zlen = h.lookup.len
  BY <1>4 DEF Resource
<1>6. LookupCopied(image, p, files, lookup, at.lookup)
  BY LookupPart
<1>7. /\ \A x, n \in Nat : n > 0 /\ x + n <= lookup.len => wim_readable(wim, lookup, x, n)
  BY OldMetadata
<1>8. h.boot.metadata
  BY DEF Injects, IsInjecting, Resource
<1>9. lookup.len % 2 = 0
  OBVIOUS
<1> HIDE DEF lookup, N
<1>10. PICK b \in Nat, len \in Nat, nn \in Nat, K \in Int :
           /\ b = at.lookup /\ len = lookup.len /\ nn = N
           /\ K = len \div 2
  BY <1>1
<1>11. K \in Nat /\ len = 2 * K /\ len \div 2 = K
  <2>1. len % 2 = 0
    BY <1>9, <1>10
  <2> QED BY <1>10, <2>1
<1>12. h.lookup.len = len + (1 + nn) * 2 /\ h.lookup.zlen = len + (1 + nn) * 2
       /\ h.lookup.offset = b
  BY <1>5, <1>10, Zenon
<1>13. lookup.len \div 2 = K /\ h.lookup.len \div 2 = K + 1 + nn
  <2>1. (len + (1 + nn) * 2) \div 2 = K + 1 + nn
    BY <1>11
  <2> QED BY <1>10, <1>11, <1>12, <2>1
<1>14. ASSUME NEW n \in 1 .. K
       PROVE  /\ LookupReadable(wim, s.header, n)
              /\ LookupEntry(image, h, n)[1] = LookupEntry(wim, s.header, n)[1]
              /\ LookupEntry(image, h, n)[2] = LookupEntry(wim, s.header, n)[2]
  <2>1. PICK x : x = (n - 1) * 2
    OBVIOUS
  <2>2. x \in Nat /\ x + 2 <= len /\ n \in Nat \ {0}
    BY <1>11, <2>1
  <2>3. LookupReadable(wim, s.header, n)
    <3>1. wim_readable(wim, lookup, x, 2)
      BY <1>7, <1>10, <2>2
    <3> QED BY <2>1, <3>1 DEF LookupReadable, LookupLen, lookup
  <2>4. /\ LookupEntry(image, h, n)[1] = Cell(image, h.lookup, x)
        /\ LookupEntry(image, h, n)[2] = Cell(image, h.lookup, x + 1)
    BY <1>12, <2>1, <2>2, EntryCells
  <2>5. /\ LookupEntry(wim, s.header, n)[1] = Cell(wim, lookup, x)
        /\ LookupEntry(wim, s.header, n)[2] = Cell(wim, lookup, x + 1)
    BY <1>1, <2>1, <2>2, EntryCells DEF lookup
  <2>6. ASSUME NEW k \in 0 .. len - 1 PROVE Cell(image, h.lookup, k) = Cell(wim, lookup, k)
    <3>1. image[at.lookup + k + 1] = Cell(wim, lookup, k)
      BY <1>6, <1>10 DEF LookupCopied
    <3> QED BY <1>5, <3>1 DEF Cell
  <2>7. x \in 0 .. len - 1 /\ x + 1 \in 0 .. len - 1
    BY <2>2
  <2> QED BY <2>3, <2>4, <2>5, <2>6, <2>7
<1>15. ASSUME NEW n \in 1 .. K + 1 + nn PROVE LookupReadable(image, h, n)
  <2>1. PICK x : x = (n - 1) * 2
    OBVIOUS
  <2>2. PICK e \in Nat, f \in Nat : e = Len(image) /\ f = at.boot
    BY <1>1
  <2>3. b + len + (1 + nn) * 2 <= f /\ f <= e
    BY <1>1, <1>2, <1>10, <2>2, Zenon
  <2>4. x + 2 <= len + (1 + nn) * 2 /\ b + (len + (1 + nn) * 2) <= e
    BY <1>11, <2>1, <2>3
  <2>5. x + 2 <= h.lookup.len /\ h.lookup.offset + h.lookup.zlen <= Len(image)
    BY <1>12, <2>2, <2>4, Zenon
  <2> QED BY <1>5, <2>1, <2>5 DEF LookupReadable, LookupLen, wim_readable
<1>16. ASSUME NEW n \in Nat \ {0}, NEW x, x = (n - 1) * 2
       PROVE  /\ LookupEntry(image, h, n)[1] = image[b + x + 1]
              /\ LookupEntry(image, h, n)[2] = image[b + x + 2]
  <2>1. x \in Nat /\ b + (x + 1) + 1 = b + x + 2
    BY <1>16
  <2>2. /\ LookupEntry(image, h, n)[1] = Cell(image, h.lookup, x)
        /\ LookupEntry(image, h, n)[2] = Cell(image, h.lookup, x + 1)
    BY <1>12, <1>16, EntryCells
  <2>3. Cell(image, h.lookup, x) = image[b + x + 1] /\ Cell(image, h.lookup, x + 1) = image[b + (x + 1) + 1]
    BY <1>5, <1>12 DEF Cell
  <2> QED BY <2>1, <2>2, <2>3
<1>17. /\ ResourceIn(LookupEntry(image, h, K + 1)[1]) = h.boot
       /\ HashIn(LookupEntry(image, h, K + 1)[2]) = NoHash
  <2>1. PICK x : x = len
    OBVIOUS
  <2>2. PICK n \in Nat \ {0} : n = K + 1
    BY <1>11
  <2>a. x = (n - 1) * 2
    BY <1>11, <2>1, <2>2
  <2>b. /\ LookupEntry(image, h, n)[1] = image[b + x + 1]
        /\ LookupEntry(image, h, n)[2] = image[b + x + 2]
    BY <1>16, <2>a
  <2>3. /\ LookupEntry(image, h, K + 1)[1] = image[b + x + 1]
        /\ LookupEntry(image, h, K + 1)[2] = image[b + x + 2]
    BY <2>2, <2>b, Zenon
  <2>4. /\ image[b + x + 1] = [resource |-> p.header.boot]
        /\ image[b + x + 2] = [hash |-> NoHash]
    BY <1>6, <1>10, <2>1 DEF LookupCopied
  <2> QED BY <2>3, <2>4 DEF ResourceIn, HashIn
<1>18. ASSUME NEW i \in Injected(files), NEW n, n = K + 2 + Rank(files, i),
              NEW l, l = Len(files[i].cells)
       PROVE  /\ n \in K + 2 .. K + 1 + nn
              /\ ResourceIn(LookupEntry(image, h, n)[1])
                   = Resource(FileRegion(files, i).offset, l, l, FALSE, FALSE)
              /\ HashIn(LookupEntry(image, h, n)[2]) = wim_hash(files[i].cells)
  <2>1. Rank(files, i) \in Nat /\ Rank(files, i) + 1 <= N
    BY <1>3, RanksAscend DEF N
  <2>2. PICK r \in Nat : r = Rank(files, i)
    BY <2>1
  <2>3. r + 1 <= nn /\ n = K + 2 + r
    BY <1>10, <1>18, <2>1, <2>2
  <2>4. n \in K + 2 .. K + 1 + nn /\ n \in Nat \ {0}
    BY <1>11, <2>3
  <2>5. PICK x : x = (n - 1) * 2
    OBVIOUS
  <2>6. PICK y : y = b + len + (1 + r) * 2
    OBVIOUS
  <2>7. b + x = y
    BY <1>11, <2>3, <2>5, <2>6
  <2>8. LookupEntry(image, h, n)[1] = image[y + 1] /\ LookupEntry(image, h, n)[2] = image[y + 2]
    BY <1>16, <2>4, <2>5, <2>7
  <2>9. y = at.lookup + lookup.len + (1 + Rank(files, i)) * 2
    BY <1>10, <2>2, <2>6
  <2>10. /\ image[y + 1] = [resource |-> Resource(FileRegion(files, i).offset, l, l, FALSE, FALSE)]
         /\ image[y + 2] = [hash |-> wim_hash(files[i].cells)]
    BY <1>6, <1>18, <2>9 DEF LookupCopied
  <2> QED BY <2>4, <2>8, <2>10 DEF ResourceIn, HashIn
<1>19. ASSUME NEW n \in K + 2 .. K + 1 + nn
       PROVE  \E i \in Injected(files) : n = K + 2 + Rank(files, i)
  <2>1. PICK k : k = n - K - 2
    OBVIOUS
  <2>2. k \in 0 .. nn - 1 /\ n = K + 2 + k
    BY <1>11, <2>1
  <2>3. k \in 0 .. Cardinality(Injected(files)) - 1
    BY <1>10, <2>2 DEF N
  <2>4. PICK i \in Injected(files) : Rank(files, i) = k
    BY <1>3, <2>3, RanksOnto
  <2> QED BY <2>2, <2>4
<1>20. IsNewLookup(image, h, s.header, files, K)
  BY <1>8, <1>10, <1>11, <1>13, <1>14, <1>15, <1>17, <1>18, <1>19, Zenon
  DEF IsNewLookup, N, lookup, LookupLen
<1> QED BY <1>20

\* The entries that a search comes to.
LEMMA NewEntries ==
  ASSUME NEW image, NEW h, NEW header, NEW files, NEW K,
         IsNewLookup(image, h, header, files, K)
  PROVE  /\ K \in Nat /\ Cardinality(Injected(files)) \in Nat
         /\ ReadableEntries(wim, header) = 1 .. K /\ LookupEntries(header) = 1 .. K
         /\ ReadableEntries(image, h) = 1 .. K + 1 + Cardinality(Injected(files))
         /\ LookupEntries(h) = 1 .. K + 1 + Cardinality(Injected(files))
<1>1. PICK N : N = Cardinality(Injected(files))
  OBVIOUS
<1>2. /\ K \in Nat /\ N \in Nat /\ LookupEntries(header) = 1 .. K
      /\ LookupEntries(h) = 1 .. K + 1 + N
  BY <1>1 DEF IsNewLookup, LookupEntries
<1>3. /\ \A n \in 1 .. K : LookupReadable(wim, header, n)
      /\ \A n \in 1 .. K + 1 + N : LookupReadable(image, h, n)
  BY <1>1 DEF IsNewLookup
<1>4. ReadableEntries(wim, header) = 1 .. K
  <2>1. \A n \in 1 .. K : \A m \in 1 .. n : m \in 1 .. K
    BY <1>2
  <2>2. \A n \in 1 .. K : \A m \in 1 .. n : LookupReadable(wim, header, m)
    BY <1>3, <2>1
  <2> QED BY <1>2, <2>2 DEF ReadableEntries
<1>5. ReadableEntries(image, h) = 1 .. K + 1 + N
  <2>1. \A n \in 1 .. K + 1 + N : \A m \in 1 .. n : m \in 1 .. K + 1 + N
    BY <1>2
  <2>2. \A n \in 1 .. K + 1 + N : \A m \in 1 .. n : LookupReadable(image, h, m)
    BY <1>3, <2>1
  <2> QED BY <1>2, <2>2 DEF ReadableEntries
<1> QED BY <1>1, <1>2, <1>4, <1>5

\* If some of the first K entries are found, so is the first of them.
UpTo(found, K) == {n \in found : n <= K}

LEMMA FirstKept ==
  ASSUME NEW K \in Nat, NEW found, found \subseteq Nat \ {0}, UpTo(found, K) # {}
  PROVE  FirstEntry(found) = FirstEntry(UpTo(found, K))
<1>0. PICK first : first = UpTo(found, K)
  OBVIOUS
<1>a. first = {n \in found : n <= K} /\ first # {}
  BY <1>0 DEF UpTo
<1>1. PICK j \in first : TRUE
  BY <1>a
<1>2. ASSUME NEW n \in FirstEntry(first) PROVE n \in FirstEntry(found)
  <2>1. n \in first /\ n \in found /\ n \in Nat /\ n <= K /\ \A m \in first : n <= m
    BY <1>a DEF FirstEntry
  <2>2. ASSUME NEW m \in found PROVE n <= m
    <3>1. CASE m <= K
      BY <1>a, <2>1, <3>1
    <3>2. CASE ~(m <= K)
      <4>1. m \in Nat
        OBVIOUS
      <4> QED BY <2>1, <3>2, <4>1
    <3> QED BY <3>1, <3>2
  <2> QED BY <2>1, <2>2 DEF FirstEntry
<1>3. ASSUME NEW n \in FirstEntry(found) PROVE n \in FirstEntry(first)
  <2>1. n \in found /\ n \in Nat /\ \A m \in found : n <= m
    BY DEF FirstEntry
  <2>2. n <= j /\ j \in Nat /\ j <= K
    BY <1>a, <1>1, <2>1
  <2>3. n <= K
    BY <2>1, <2>2
  <2>4. n \in first
    BY <1>a, <2>1, <2>3
  <2> QED BY <1>a, <2>1, <2>4 DEF FirstEntry
<1>4. FirstEntry(found) = FirstEntry(first)
  BY <1>2, <1>3
<1> QED BY <1>0, <1>4

\* The metadata among the entries.
LEMMA MetadataKept ==
  ASSUME NEW image, NEW h, NEW header, NEW files, NEW K,
         IsNewLookup(image, h, header, files, K),
         NEW count, count = MetadataUpTo(wim, header, K)
  PROVE  /\ count \in Nat
         /\ \A n \in 1 .. K : /\ IsMetadata(image, h, n) = IsMetadata(wim, header, n)
                              /\ MetadataUpTo(image, h, n) = MetadataUpTo(wim, header, n)
                              /\ MetadataUpTo(image, h, n) \in Nat
                              /\ MetadataUpTo(image, h, n) <= count
         /\ IsMetadata(image, h, K + 1) /\ MetadataUpTo(image, h, K + 1) = count + 1
         /\ \A n \in K + 2 .. K + 1 + Cardinality(Injected(files)) : ~IsMetadata(image, h, n)
         /\ MetadataUpTo(image, h, K + 1 + Cardinality(Injected(files))) = count + 1
<1>1. PICK N : N = Cardinality(Injected(files))
  OBVIOUS
<1>2. K \in Nat /\ N \in Nat
  BY <1>1, NewEntries
<1> DEFINE Old(n) == {m \in 1 .. n : IsMetadata(wim, header, m)}
           New(n) == {m \in 1 .. n : IsMetadata(image, h, m)}
<1>3. \A n \in 1 .. K : IsMetadata(image, h, n) = IsMetadata(wim, header, n)
  BY DEF IsNewLookup, IsMetadata
<1>4. IsMetadata(image, h, K + 1)
  BY DEF IsNewLookup, IsMetadata
<1>5. ASSUME NEW n \in K + 2 .. K + 1 + N PROVE ~IsMetadata(image, h, n)
  <2>1. PICK i \in Injected(files) : n = K + 2 + Rank(files, i)
    BY <1>1 DEF IsNewLookup
  <2>2. PICK l : l = Len(files[i].cells)
    OBVIOUS
  <2>3. ResourceIn(LookupEntry(image, h, n)[1])
          = Resource(FileRegion(files, i).offset, l, l, FALSE, FALSE)
    BY <2>1, <2>2 DEF IsNewLookup
  <2> QED BY <2>3 DEF IsMetadata, Resource
<1>6. \A n \in 1 .. K : New(n) = Old(n)
  <2>1. \A n \in 1 .. K : \A m \in 1 .. n : m \in 1 .. K
    BY <1>2
  <2> QED BY <1>3, <2>1
<1>7. New(K) = Old(K)
  BY <1>3
<1>8. New(K + 1) = New(K) \union {K + 1} /\ K + 1 \notin New(K)
  <2>1. 1 .. K + 1 = (1 .. K) \union {K + 1} /\ K + 1 \notin 1 .. K
    BY <1>2
  <2> QED BY <1>4, <2>1
<1>9. New(K + 1 + N) = New(K + 1)
  <2>1. 1 .. K + 1 + N = (1 .. K + 1) \union (K + 2 .. K + 1 + N)
    BY <1>2
  <2> QED BY <1>5, <2>1
<1>10. ASSUME NEW n \in Nat PROVE IsFiniteSet(Old(n)) /\ Cardinality(Old(n)) \in Nat
  <2>1. IsFiniteSet(1 .. n)
    BY CountTo
  <2>2. Old(n) \in SUBSET (1 .. n)
    OBVIOUS
  <2> HIDE DEF Old
  <2>3. IsFiniteSet(Old(n))
    BY <2>1, <2>2, FS_Subset
  <2> QED BY <2>3, FS_CardinalityType
<1>11. ASSUME NEW n \in 1 .. K PROVE Cardinality(Old(n)) <= Cardinality(Old(K))
  <2>1. Old(n) \in SUBSET Old(K)
    BY <1>2
  <2>2. IsFiniteSet(Old(K))
    BY <1>2, <1>10
  <2> HIDE DEF Old
  <2> QED BY <2>1, <2>2, FS_Subset
<1>12. \A n : MetadataUpTo(image, h, n) = Cardinality(New(n))
              /\ MetadataUpTo(wim, header, n) = Cardinality(Old(n))
  BY DEF MetadataUpTo
<1> HIDE DEF Old, New
<1>13. Cardinality(New(K + 1)) = count + 1 /\ count \in Nat
  <2>1. IsFiniteSet(Old(K)) /\ Cardinality(Old(K)) \in Nat /\ count = Cardinality(Old(K))
    BY <1>2, <1>10, <1>12
  <2>2. Cardinality(Old(K) \cup {K + 1}) = Cardinality(Old(K)) + 1
    BY <1>7, <1>8, <2>1, FS_AddElement
  <2> QED BY <1>7, <1>8, <2>1, <2>2
<1>14. ASSUME NEW n \in 1 .. K
       PROVE  /\ MetadataUpTo(image, h, n) = MetadataUpTo(wim, header, n)
              /\ MetadataUpTo(image, h, n) \in Nat /\ MetadataUpTo(image, h, n) <= count
  <2>1. n \in Nat
    BY <1>2
  <2> QED BY <1>6, <1>10, <1>11, <1>12, <2>1
<1> QED BY <1>1, <1>3, <1>4, <1>5, <1>9, <1>12, <1>13, <1>14

\* The images are counted, and the new one is the last.
LEMMA ImagesCounted ==
  ASSUME NEW image, NEW h, NEW header, NEW files, NEW K,
         IsNewLookup(image, h, header, files, K), NEW count \in wim_count(wim, header)
  PROVE  /\ wim_count(image, h) = {count + 1}
         /\ wim_metadata(image, h, count + 1) = {h.boot}
         /\ \A index : index # 0 /\ wim_metadata(wim, header, index) # {} =>
              wim_metadata(image, h, index) = wim_metadata(wim, header, index)
<1>1. PICK N : N = Cardinality(Injected(files))
  OBVIOUS
<1>2. /\ K \in Nat /\ N \in Nat
      /\ ReadableEntries(wim, header) = 1 .. K
      /\ ReadableEntries(image, h) = 1 .. K + 1 + N
      /\ LookupEntries(h) = 1 .. K + 1 + N
  BY <1>1, NewEntries
<1>3. count = MetadataUpTo(wim, header, K)
  BY DEF wim_count, IsNewLookup
<1>4. /\ count \in Nat
      /\ \A n \in 1 .. K : /\ IsMetadata(image, h, n) = IsMetadata(wim, header, n)
                           /\ MetadataUpTo(image, h, n) = MetadataUpTo(wim, header, n)
                           /\ MetadataUpTo(image, h, n) \in Nat
                           /\ MetadataUpTo(image, h, n) <= count
      /\ IsMetadata(image, h, K + 1) /\ MetadataUpTo(image, h, K + 1) = count + 1
      /\ \A n \in K + 2 .. K + 1 + N : ~IsMetadata(image, h, n)
      /\ MetadataUpTo(image, h, K + 1 + N) = count + 1
  BY <1>1, <1>3, MetadataKept
<1>5. wim_count(image, h) = {count + 1}
  <2>1. /\ h.lookup.len \div LookupLen = K + 1 + N
        /\ \A n \in LookupEntries(h) : LookupReadable(image, h, n)
    BY <1>1, <1>2 DEF IsNewLookup
  <2> QED BY <1>4, <2>1 DEF wim_count
<1> DEFINE New(index) == {n \in ReadableEntries(image, h) :
                            /\ IsMetadata(image, h, n)
                            /\ MetadataUpTo(image, h, n) = index}
           Old(index) == {n \in ReadableEntries(wim, header) :
                            /\ IsMetadata(wim, header, n)
                            /\ MetadataUpTo(wim, header, n) = index}
<1>6. \A index : index # 0 =>
        /\ wim_metadata(image, h, index)
             = {ResourceIn(LookupEntry(image, h, n)[1]) : n \in FirstEntry(New(index))}
        /\ wim_metadata(wim, header, index)
             = {ResourceIn(LookupEntry(wim, header, n)[1]) : n \in FirstEntry(Old(index))}
  BY DEF wim_metadata
<1>7. \A index : New(index) \subseteq Nat \ {0}
  BY <1>2
<1>8. \A index : Old(index) = UpTo(New(index), K)
  <2>1. 1 .. K = {n \in 1 .. K + 1 + N : n <= K}
    BY <1>2
  <2> QED BY <1>2, <1>4, <2>1 DEF UpTo
<1>9. New(count + 1) = {K + 1}
  <2>1. ASSUME NEW n \in New(count + 1) PROVE n = K + 1
    <3>1. n \in 1 .. K + 1 + N /\ IsMetadata(image, h, n) /\ MetadataUpTo(image, h, n) = count + 1
      BY <1>2
    <3>2. n \notin K + 2 .. K + 1 + N
      BY <1>4, <3>1
    <3>3. n \notin 1 .. K
      <4> SUFFICES ASSUME n \in 1 .. K PROVE FALSE
        OBVIOUS
      <4>1. MetadataUpTo(image, h, n) <= count
        BY <1>4
      <4> QED BY <1>4, <3>1, <4>1
    <3> QED BY <1>2, <3>1, <3>2, <3>3
  <2>2. K + 1 \in New(count + 1)
    <3>1. K + 1 \in 1 .. K + 1 + N
      BY <1>2
    <3> QED BY <1>2, <1>4, <3>1
  <2> QED BY <2>1, <2>2
<1> HIDE DEF New, Old
<1>10. wim_metadata(image, h, count + 1) = {h.boot}
  <2>1. FirstEntry({K + 1}) = {K + 1}
    BY <1>2 DEF FirstEntry
  <2>2. count + 1 # 0
    BY <1>4
  <2>3. wim_metadata(image, h, count + 1) = {ResourceIn(LookupEntry(image, h, n)[1]) : n \in {K + 1}}
    BY <1>6, <1>9, <2>1, <2>2
  <2>4. ResourceIn(LookupEntry(image, h, K + 1)[1]) = h.boot
    BY DEF IsNewLookup
  <2> QED BY <2>3, <2>4
<1>11. ASSUME NEW index, index # 0, wim_metadata(wim, header, index) # {}
       PROVE  wim_metadata(image, h, index) = wim_metadata(wim, header, index)
  <2>1. Old(index) # {}
    BY <1>6, <1>11 DEF FirstEntry
  <2>2. FirstEntry(New(index)) = FirstEntry(Old(index))
    BY <1>2, <1>7, <1>8, <2>1, FirstKept
  <2>3. ASSUME NEW n \in FirstEntry(Old(index))
        PROVE  LookupEntry(image, h, n)[1] = LookupEntry(wim, header, n)[1]
    <3>1. n \in 1 .. K
      BY <1>2 DEF FirstEntry, Old
    <3> QED BY <3>1 DEF IsNewLookup
  <2>4. PICK F : F = FirstEntry(Old(index))
    OBVIOUS
  <2>5. /\ wim_metadata(image, h, index) = {ResourceIn(LookupEntry(image, h, n)[1]) : n \in F}
        /\ wim_metadata(wim, header, index) = {ResourceIn(LookupEntry(wim, header, n)[1]) : n \in F}
    BY <1>6, <1>11, <2>2, <2>4, Zenon
  <2>6. \A n \in F : LookupEntry(image, h, n)[1] = LookupEntry(wim, header, n)[1]
    BY <2>3, <2>4
  <2> QED BY <2>5, <2>6
<1> QED BY <1>5, <1>10, <1>11

----------------------------------------------------------------------------
(* What is read of the patched file behind its header *)

CellsAlike(s, t, m, n) == \A j \in 1 .. n : s[m + j] = t[m + j]

LEMMA SubSeqIs ==
  ASSUME NEW r, NEW m \in Nat, NEW n \in Nat
  PROVE  SubSeq(r, m + 1, m + n) = [j \in 1 .. n |-> r[m + j]]
<1>1. PICK a \in Nat, b \in Nat : a = m + 1 /\ b = m + n
  OBVIOUS
<1>2. 1 + b - a = n /\ \A j \in 1 .. n : j + a - 1 = m + j
  BY <1>1
<1>3. SubSeq(r, a, b) = [j \in 1 .. 1 + b - a |-> r[j + a - 1]]
  OBVIOUS
<1>4. [j \in 1 .. 1 + b - a |-> r[j + a - 1]] = [j \in 1 .. n |-> r[m + j]]
  BY <1>2
<1> QED BY <1>1, <1>3, <1>4

LEMMA SubSeqSame ==
  ASSUME NEW s, NEW t, NEW m \in Nat, NEW n \in Nat, CellsAlike(s, t, m, n)
  PROVE  SubSeq(s, m + 1, m + n) = SubSeq(t, m + 1, m + n)
<1>1. [j \in 1 .. n |-> s[m + j]] = [j \in 1 .. n |-> t[m + j]]
  BY DEF CellsAlike
<1>2. \A r : SubSeq(r, m + 1, m + n) = [j \in 1 .. n |-> r[m + j]]
  BY SubSeqIs
<1> QED BY <1>1, <1>2

\* What could be read of the WIM behind its header reads the same.
LEMMA ReadKept ==
  ASSUME NEW image, Keeps(image), IsWim(wim), NEW res, IsSound(wim, res), BehindHeader(res),
         NEW x \in Nat, NEW n \in Nat, wim_readable(wim, res, x, n)
  PROVE  /\ wim_readable(image, res, x, n)
         /\ wim_read(image, res, x, n) = wim_read(wim, res, x, n)
<1>1. /\ res.offset \in Nat /\ res.zlen \in Nat /\ res.len \in Nat
      /\ Len(wim) \in Nat /\ Len(image) \in Nat /\ Len(wim) <= Len(image)
      /\ \A k \in HeaderLen .. Len(wim) - 1 : image[k + 1] = wim[k + 1]
  BY DEF IsSound, Resources, Keeps
<1>2. /\ x + n <= res.len /\ res.offset + res.zlen <= Len(wim)
      /\ res.compressed => x + n <= Len(Unpacked(wim, res))
  BY DEF wim_readable
<1>3. PICK a \in Nat, z \in Nat, l \in Nat, w \in Nat, e \in Nat :
        a = res.offset /\ z = res.zlen /\ l = res.len /\ w = Len(wim) /\ e = Len(image)
  BY <1>1
<1>4. x + n <= l /\ a + z <= w /\ w <= e
  BY <1>1, <1>2, <1>3, Zenon
<1>5. a + z <= e
  BY <1>4
<1>6. x + n <= res.len /\ res.offset + res.zlen <= Len(image)
  BY <1>2, <1>3, <1>5, Zenon
<1>7. \A k \in 4 .. w - 1 : image[k + 1] = wim[k + 1]
  BY <1>1, <1>3 DEF HeaderLen
<1>8. CASE res.compressed
  <2>1. a >= 4 /\ a < w
    BY <1>2, <1>3, <1>8 DEF BehindHeader, HeaderLen, IsSound, IsStored
  <2>2. image[a + 1] = wim[a + 1]
    BY <1>7, <2>1
  <2>3. Unpacked(image, res) = Unpacked(wim, res)
    BY <1>3, <2>2 DEF Unpacked
  <2> QED BY <1>2, <1>6, <1>8, <2>3 DEF wim_readable, wim_read
<1>9. CASE ~res.compressed
  <2>1. z = l
    BY <1>2, <1>3, <1>9 DEF IsSound, IsStored
  <2>2. a >= 4 \/ l = 0
    BY <1>3, <1>9 DEF BehindHeader, HeaderLen
  <2>3. PICK m \in Nat : m = a + x
    OBVIOUS
  <2>4. ASSUME NEW j \in 1 .. n PROVE image[m + j] = wim[m + j]
    <3>1. PICK k : k = m + j - 1
      OBVIOUS
    <3>2. k \in 4 .. w - 1 /\ k + 1 = m + j
      BY <1>4, <2>1, <2>2, <2>3, <3>1
    <3>3. image[k + 1] = wim[k + 1]
      BY <1>7, <3>2
    <3> QED BY <3>2, <3>3
  <2>5. SubSeq(image, m + 1, m + n) = SubSeq(wim, m + 1, m + n)
    <3>1. CellsAlike(image, wim, m, n)
      BY <2>4 DEF CellsAlike
    <3> QED BY <3>1, SubSeqSame
  <2>6. \A f : wim_read(f, res, x, n) = SubSeq(f, m + 1, m + n)
    BY <1>3, <1>9, <2>3 DEF wim_read, Read
  <2> QED BY <1>6, <1>9, <2>5, <2>6 DEF wim_readable
<1> QED BY <1>8, <1>9

\* And nothing else can be read, if the patched file is as long.
LEMMA ReadableKept ==
  ASSUME NEW image, Keeps(image), Len(image) = Len(wim), IsWim(wim),
         NEW res, IsSound(wim, res), BehindHeader(res),
         NEW x \in Nat, NEW n \in Nat, wim_readable(image, res, x, n)
  PROVE  wim_readable(wim, res, x, n)
<1>1. /\ x + n <= res.len /\ res.offset + res.zlen <= Len(wim)
      /\ res.compressed => x + n <= Len(Unpacked(image, res))
  BY DEF wim_readable
<1>2. CASE res.compressed
  <2>1. PICK a \in Nat, w \in Nat : a = res.offset /\ w = Len(wim)
    BY DEF IsSound, Resources, Keeps
  <2>2. a >= 4 /\ a < w
    BY <1>1, <1>2, <2>1 DEF BehindHeader, HeaderLen, IsSound, IsStored
  <2>3. \A k \in 4 .. w - 1 : image[k + 1] = wim[k + 1]
    BY <2>1 DEF Keeps, HeaderLen
  <2>4. image[a + 1] = wim[a + 1]
    BY <2>2, <2>3
  <2>5. Unpacked(image, res) = Unpacked(wim, res)
    BY <2>1, <2>4 DEF Unpacked
  <2> QED BY <1>1, <1>2, <2>5 DEF wim_readable
<1>3. CASE ~res.compressed
  BY <1>1, <1>3 DEF wim_readable
<1> QED BY <1>2, <1>3

----------------------------------------------------------------------------
(* The contents by hash *)

\* The contents of the file with a hash.
Found(image, header, hash) ==
  {n \in ReadableEntries(image, header) : HashIn(LookupEntry(image, header, n)[2]) = hash}

ContentsOf(image, header, hash) ==
  {wim_read(image, res, 0, res.len) :
     res \in {x \in {ResourceIn(LookupEntry(image, header, n)[1]) :
                       n \in FirstEntry(Found(image, header, hash))} :
                wim_readable(image, x, 0, x.len)}}

LEMMA ContentsByHash ==
  ASSUME NEW image, NEW header, NEW meta, NEW path, NEW y, wim_path(image, meta, path) = {y}
  PROVE  ContentsAt(image, header, meta, path) = ContentsOf(image, header, HashOf(image, meta, y))
<1>1. wim_file(image, header, meta, path)
        = {ResourceIn(LookupEntry(image, header, n)[1]) :
             n \in FirstEntry(Found(image, header, HashOf(image, meta, y)))}
  BY DEF wim_file, Found
<1> QED BY <1>1, Zenon DEF ContentsAt, ContentsOf

\* If the file can be read.
LEMMA OneContents ==
  ASSUME NEW image, NEW header, NEW hash, NEW n,
         FirstEntry(Found(image, header, hash)) = {n}, NEW res,
         res = ResourceIn(LookupEntry(image, header, n)[1])
  PROVE  ContentsOf(image, header, hash)
           = IF wim_readable(image, res, 0, res.len) THEN {wim_read(image, res, 0, res.len)} ELSE {}
<1>1. {ResourceIn(LookupEntry(image, header, k)[1]) :
         k \in FirstEntry(Found(image, header, hash))} = {res}
  OBVIOUS
<1>2. ContentsOf(image, header, hash)
        = {wim_read(image, r, 0, r.len) : r \in {x \in {res} : wim_readable(image, x, 0, x.len)}}
  BY <1>1, Zenon DEF ContentsOf
<1> QED BY <1>2

\* The first of some entries is one.
LEMMA FirstIs ==
  ASSUME NEW found, found \subseteq Nat, found # {}
  PROVE  \E n \in found : FirstEntry(found) = {n}
<1>1. PICK n \in found : \A m \in found : n <= m
  BY LeastNatural
<1>2. ASSUME NEW k \in FirstEntry(found) PROVE k = n
  <2>1. k \in found /\ k <= n /\ n <= k /\ k \in Nat /\ n \in Nat
    BY <1>1 DEF FirstEntry
  <2> QED BY <2>1
<1>3. n \in FirstEntry(found)
  BY <1>1 DEF FirstEntry
<1> QED BY <1>2, <1>3

\* The patched file, with its header, its lookup table, and what it was made of.
IsPatchedWim(image, p, files, s, dir, at, h, K) ==
  /\ Injects(image, p, files, s, dir, at) /\ Keeps(image) /\ IsWim(wim)
  /\ \A i \in Injected(files) : IsCells(files[i].cells)
  /\ h.lookup = p.header.lookup /\ h.boot = p.header.boot
  /\ IsSound(wim, s.header.lookup) /\ IsNewLookup(image, h, s.header, files, K)
  /\ \A n \in 1 .. K : IsFiled(wim, s.header, n)

\* A resource that the WIM's lookup table names.
LEMMA OldResource ==
  ASSUME NEW image, NEW p, NEW files, NEW s, NEW dir, NEW at, NEW h, NEW K,
         IsPatchedWim(image, p, files, s, dir, at, h, K),
         NEW n \in 1 .. K, NEW res, res = ResourceIn(LookupEntry(wim, s.header, n)[1])
  PROVE  /\ IsSound(wim, res) /\ res.len \in Nat /\ BehindHeader(res)
         /\ ResourceIn(LookupEntry(image, h, n)[1]) = res
         /\ HashIn(LookupEntry(image, h, n)[2]) = HashIn(LookupEntry(wim, s.header, n)[2])
         /\ wim_readable(wim, res, 0, res.len) =>
              /\ wim_readable(image, res, 0, res.len)
              /\ wim_read(image, res, 0, res.len) = wim_read(wim, res, 0, res.len)
<1>1. /\ Keeps(image) /\ IsWim(wim) /\ IsSound(wim, s.header.lookup)
      /\ IsNewLookup(image, h, s.header, files, K) /\ IsFiled(wim, s.header, n)
  BY DEF IsPatchedWim
<1>2. K \in Nat /\ n \in Nat /\ LookupReadable(wim, s.header, n)
  BY <1>1 DEF IsNewLookup
<1>3. /\ LookupEntry(image, h, n)[1] = LookupEntry(wim, s.header, n)[1]
      /\ LookupEntry(image, h, n)[2] = LookupEntry(wim, s.header, n)[2]
  BY <1>1 DEF IsNewLookup
<1>4. IsSound(wim, res)
  <2>1. PICK x : x = (n - 1) * 2
    OBVIOUS
  <2>2. x \in Nat /\ 2 \in Nat /\ 1 \in 1 .. 2
    BY <1>2, <2>1
  <2>3. wim_readable(wim, s.header.lookup, x, 2)
    BY <1>2, <2>1 DEF LookupReadable, LookupLen
  <2>4. IsSound(wim, ResourceIn(wim_read(wim, s.header.lookup, x, 2)[1]))
    BY <1>1, <2>2, <2>3, FieldRead
  <2> QED BY <2>1, <2>4 DEF LookupEntry, LookupLen
<1>5. res.len \in Nat /\ 0 \in Nat
  BY <1>4 DEF IsSound, Resources
<1>6. BehindHeader(res)
  BY <1>1 DEF IsFiled
<1>7. ASSUME wim_readable(wim, res, 0, res.len)
      PROVE  /\ wim_readable(image, res, 0, res.len)
             /\ wim_read(image, res, 0, res.len) = wim_read(wim, res, 0, res.len)
  BY <1>1, <1>4, <1>5, <1>6, <1>7, ReadKept
<1> QED BY <1>3, <1>4, <1>5, <1>6, <1>7

\* What the WIM holds under a hash.
LEMMA ContentsKept ==
  ASSUME NEW image, NEW p, NEW files, NEW s, NEW dir, NEW at, NEW h, NEW K,
         IsPatchedWim(image, p, files, s, dir, at, h, K),
         NEW hash, ContentsOf(wim, s.header, hash) # {}
  PROVE  ContentsOf(image, h, hash) = ContentsOf(wim, s.header, hash)
<1>1. IsNewLookup(image, h, s.header, files, K)
  BY DEF IsPatchedWim
<1>2. PICK N : N = Cardinality(Injected(files))
  OBVIOUS
<1>3. /\ K \in Nat /\ N \in Nat /\ ReadableEntries(wim, s.header) = 1 .. K
      /\ ReadableEntries(image, h) = 1 .. K + 1 + N
  BY <1>1, <1>2, NewEntries
<1> DEFINE Old == Found(wim, s.header, hash)
           New == Found(image, h, hash)
<1>4. Old # {}
  BY DEF ContentsOf, FirstEntry
<1>5. Old = UpTo(New, K) /\ New \subseteq Nat \ {0} /\ Old \subseteq Nat
  <2>1. 1 .. K = {n \in 1 .. K + 1 + N : n <= K}
    BY <1>3
  <2>2. \A n \in 1 .. K : HashIn(LookupEntry(image, h, n)[2])
                            = HashIn(LookupEntry(wim, s.header, n)[2])
    BY OldResource
  <2> QED BY <1>3, <2>1, <2>2 DEF Found, UpTo
<1>6. Old \subseteq 1 .. K
  BY <1>3 DEF Found
<1> HIDE DEF Old, New
<1>7. FirstEntry(New) = FirstEntry(Old)
  BY <1>3, <1>4, <1>5, FirstKept
<1>8. PICK n \in Old : FirstEntry(Old) = {n}
  BY <1>4, <1>5, FirstIs
<1>9. PICK res : res = ResourceIn(LookupEntry(wim, s.header, n)[1])
  OBVIOUS
<1>10. n \in 1 .. K
  BY <1>6
<1>11. /\ ResourceIn(LookupEntry(image, h, n)[1]) = res
       /\ wim_readable(wim, res, 0, res.len) =>
            /\ wim_readable(image, res, 0, res.len)
            /\ wim_read(image, res, 0, res.len) = wim_read(wim, res, 0, res.len)
  BY <1>9, <1>10, OldResource
<1>12. ContentsOf(wim, s.header, hash)
         = IF wim_readable(wim, res, 0, res.len) THEN {wim_read(wim, res, 0, res.len)} ELSE {}
  BY <1>8, <1>9, OneContents DEF Old
<1>13. ContentsOf(image, h, hash)
         = IF wim_readable(image, res, 0, res.len) THEN {wim_read(image, res, 0, res.len)} ELSE {}
  BY <1>7, <1>8, <1>11, OneContents DEF New
<1> QED BY <1>11, <1>12, <1>13

\* What the patched file holds under the hash of an injected file.
LEMMA ContentsInjected ==
  ASSUME NEW image, NEW p, NEW files, NEW s, NEW dir, NEW at, NEW h, NEW K,
         IsPatchedWim(image, p, files, s, dir, at, h, K), NEW i \in Injected(files)
  PROVE  ContentsOf(image, h, wim_hash(files[i].cells)) = {files[i].cells}
<1> DEFINE hash == wim_hash(files[i].cells)
           New == Found(image, h, hash)
<1>1. /\ IsNewLookup(image, h, s.header, files, K) /\ Injects(image, p, files, s, dir, at)
      /\ \A j \in Injected(files) : IsCells(files[j].cells)
  BY DEF IsPatchedWim
<1>2. PICK N : N = Cardinality(Injected(files))
  OBVIOUS
<1>3. /\ K \in Nat /\ N \in Nat /\ ReadableEntries(image, h) = 1 .. K + 1 + N
  BY <1>1, <1>2, NewEntries
<1>4. New \subseteq Nat /\ New \subseteq 1 .. K + 1 + N
  BY <1>3 DEF Found
<1>5. New # {}
  <2>1. PICK n, l : n = K + 2 + Rank(files, i) /\ l = Len(files[i].cells)
    OBVIOUS
  <2>2. n \in K + 2 .. K + 1 + N /\ HashIn(LookupEntry(image, h, n)[2]) = hash
    BY <1>1, <1>2, <2>1 DEF IsNewLookup
  <2>3. n \in 1 .. K + 1 + N
    BY <1>3, <2>2
  <2> HIDE DEF hash
  <2> QED BY <1>3, <2>2, <2>3 DEF Found
<1>6. hash # NoHash /\ \A cells : wim_hash(cells) = hash => cells = files[i].cells
  BY DEF wim_hash, NoHash
<1> HIDE DEF hash
<1>7. \A n \in New : HashIn(LookupEntry(image, h, n)[2]) = hash
  BY DEF Found
<1> HIDE DEF New
<1>8. PICK n \in New : FirstEntry(New) = {n}
  BY <1>4, <1>5, FirstIs
<1>9. PICK res : res = ResourceIn(LookupEntry(image, h, n)[1])
  OBVIOUS
<1>10. ContentsOf(image, h, hash)
         = IF wim_readable(image, res, 0, res.len) THEN {wim_read(image, res, 0, res.len)} ELSE {}
  BY <1>8, <1>9, OneContents DEF New
<1>11. wim_readable(image, res, 0, res.len) /\ wim_read(image, res, 0, res.len) = files[i].cells
  <2>1. CASE n \in 1 .. K
    <3>1. PICK old : old = ResourceIn(LookupEntry(wim, s.header, n)[1])
      OBVIOUS
    <3>2. /\ res = old /\ HashIn(LookupEntry(wim, s.header, n)[2]) = hash
          /\ wim_readable(wim, res, 0, res.len) =>
               /\ wim_readable(image, res, 0, res.len)
               /\ wim_read(image, res, 0, res.len) = wim_read(wim, res, 0, res.len)
      BY <1>7, <1>9, <2>1, <3>1, OldResource
    <3>3. IsFiled(wim, s.header, n)
      BY <2>1 DEF IsPatchedWim
    <3>4. /\ wim_readable(wim, res, 0, res.len)
          /\ hash = wim_hash(wim_read(wim, res, 0, res.len))
      BY <1>6, <3>1, <3>2, <3>3 DEF IsFiled
    <3> QED BY <1>6, <3>2, <3>4
  <2>2. CASE n = K + 1
    <3>1. HashIn(LookupEntry(image, h, n)[2]) = NoHash
      BY <1>1, <2>2 DEF IsNewLookup
    <3> QED BY <1>6, <1>7, <3>1
  <2>3. CASE n \in K + 2 .. K + 1 + N
    <3>1. PICK j \in Injected(files) : n = K + 2 + Rank(files, j)
      BY <1>1, <1>2, <2>3 DEF IsNewLookup
    <3>2. PICK l : l = Len(files[j].cells)
      OBVIOUS
    <3>3. PICK a : a = FileRegion(files, j).offset
      OBVIOUS
    <3>4. /\ res = Resource(a, l, l, FALSE, FALSE)
          /\ HashIn(LookupEntry(image, h, n)[2]) = wim_hash(files[j].cells)
      BY <1>1, <1>9, <3>1, <3>2, <3>3 DEF IsNewLookup
    <3>5. files[j].cells = files[i].cells
      BY <1>6, <1>7, <3>4
    <3>6. /\ a \in Nat /\ a + l <= xlen /\ l \in Nat /\ xlen \in Nat /\ Len(image) = xlen
          /\ \A k \in 1 .. l : image[a + k] = files[j].cells[k]
      BY <1>1, <3>2, <3>3, FilePart, LayoutNumbers
    <3>7. /\ res.offset = a /\ res.zlen = l /\ res.len = l /\ ~res.compressed
      BY <3>4 DEF Resource
    <3>8. wim_readable(image, res, 0, res.len)
      BY <3>6, <3>7 DEF wim_readable
    <3>9. wim_read(image, res, 0, res.len) = SubSeq(image, a + 1, a + l)
      BY <3>6, <3>7 DEF wim_read, Read
    <3>10. files[j].cells = [k \in 1 .. l |-> files[j].cells[k]]
      BY <1>1, <3>2 DEF IsCells
    <3>11. SubSeq(image, a + 1, a + l) = [k \in 1 .. l |-> image[a + k]]
      BY <3>6, SubSeqIs
    <3>12. [k \in 1 .. l |-> image[a + k]] = [k \in 1 .. l |-> files[j].cells[k]]
      BY <3>6
    <3> QED BY <3>5, <3>8, <3>9, <3>10, <3>11, <3>12
  <2> QED BY <1>3, <1>4, <2>1, <2>2, <2>3
<1> QED BY <1>10, <1>11 DEF hash

----------------------------------------------------------------------------
(* What was read is what was patched *)

\* The header and the metadata of the selected image.
IsSelected(s) ==
  /\ s \in Selections(cmdline_index) /\ s.header \in wim_header(wim)
  /\ s.boot \in wim_metadata(wim, s.header, cmdline_index)
  /\ wim \in Wims /\ cmdline_index \in Indexes /\ IsWim(wim) /\ HeaderLen <= Len(wim)
  /\ IsSound(wim, s.header.lookup) /\ IsSound(wim, s.boot)

IsHeaderPatch(p, s) ==
  /\ p = Patch(SelectingHeader(s, cmdline_index), s, NoDir, HeaderRegions, Len(wim))
  /\ p = cached_patch /\ xlen = Len(wim)

InjectsInto(image, p, files, s, dir, at, count) ==
  /\ Injects(image, p, files, s, dir, at) /\ count \in wim_count(wim, s.header)
  /\ p.header.boot_index = count + 1 /\ p.header.images = count + 1

LEMMA SelectedSound ==
  ASSUME OnceInv, MadeInv, NEW s \in Selections(cmdline_index)
  PROVE  IsSelected(s)
<1>1. wim \in Wims /\ IsWim(wim) /\ cmdline_index \in Indexes
  BY PatchAssumption DEF OnceInv, PatchInv, MadeInv
<1>2. PICK h \in wim_header(wim) : \E b \in wim_metadata(wim, h, cmdline_index) :
        s = [header |-> h, boot |-> b]
  BY DEF Selections
<1>3. PICK b \in wim_metadata(wim, h, cmdline_index) : s = [header |-> h, boot |-> b]
  BY <1>2
<1>4. s.header = h /\ s.boot = b
  BY <1>3
<1>5. IsSound(wim, h.lookup) /\ HeaderLen <= Len(wim)
  BY <1>1, HeaderSound
<1>6. IsSound(wim, b)
  BY <1>1, MetadataSound
<1> QED BY <1>1, <1>4, <1>5, <1>6 DEF IsSelected

LEMMA PatchCases ==
  ASSUME OnceInv, MadeInv, LoopInv, AppliedInv, ReadWhole,
         NEW image, image = SubSeq(data, 1, xlen)
  PROVE  /\ IsImage(image)
         /\ \E s : /\ IsSelected(s)
                   /\ \/ IsHeaderPatch(cached_patch, s)
                      \/ \E dir, at, count :
                           InjectsInto(image, cached_patch, vdisk_files, s, dir, at, count)
<1>1. IsImage(image) /\ CopiesRead
  BY WholeRead
<1>2. /\ cached_patch # NoPatch /\ xlen = cached_patch.xlen
      /\ IsTable(vdisk_files) /\ IsPatch(cached_patch, Injected(vdisk_files))
  BY DEF ReadWhole, OnceInv, PatchInv, FilesInv
<1>3. cached_patch \in wim_construct_patch(vdisk_files, cmdline_index, ~cmdline_rawwim)
  BY <1>2 DEF MadeInv
<1> DEFINE p == cached_patch
           files == vdisk_files
           index == cmdline_index
           inject == ~cmdline_rawwim
<1>4. PICK s \in Selections(index) :
        p \in IF ~inject \/ Injected(files) = {}
                THEN {Patch(SelectingHeader(s, index), s, NoDir, HeaderRegions, Len(wim))}
                ELSE {InjectingPatch(files, index, s, count, dir) :
                        count \in wim_count(wim, s.header), dir \in InjectDirs(s.boot)}
  BY <1>3 DEF wim_construct_patch
<1>5. IsSelected(s)
  BY SelectedSound
<1>6. CASE ~inject \/ Injected(files) = {}
  <2>1. p = Patch(SelectingHeader(s, index), s, NoDir, HeaderRegions, Len(wim))
    BY <1>4, <1>6
  <2>2. p.xlen = Len(wim)
    BY <2>1 DEF Patch
  <2>3. IsHeaderPatch(p, s)
    BY <1>2, <2>1, <2>2 DEF IsHeaderPatch
  <2> QED BY <1>1, <1>5, <2>3
<1>7. CASE ~(~inject \/ Injected(files) = {})
  <2>1. PICK count \in wim_count(wim, s.header), dir \in InjectDirs(s.boot) :
          p = InjectingPatch(files, index, s, count, dir)
    BY <1>4, <1>7
  <2>2. /\ IsWim(wim) /\ HeaderLen <= Len(wim) /\ s.header \in wim_header(wim)
        /\ IsSound(wim, s.header.lookup) /\ IsSound(wim, s.boot) /\ IsTable(files)
    BY <1>2, <1>5 DEF IsSelected
  <2>3. PICK q : q = InjectingPatch(files, index, s, count, dir)
    OBVIOUS
  <2>4. /\ \E at : IsInjecting(q, files, s, dir, at)
        /\ q.header.boot_index = count + 1 /\ q.header.images = count + 1
    BY <2>2, <2>3, InjectingLayout
  <2>5. PICK at : IsInjecting(p, files, s, dir, at)
    BY <2>1, <2>3, <2>4
  <2>6. Injects(image, p, files, s, dir, at)
    BY <1>1, <1>2, <2>2, <2>5, Zenon DEF Injects
  <2>7. InjectsInto(image, p, files, s, dir, at, count)
    BY <2>1, <2>3, <2>4, <2>6 DEF InjectsInto
  <2> QED BY <1>1, <1>5, <2>7
<1> QED BY <1>6, <1>7

\* The header that is read.
LEMMA HeaderRead ==
  ASSUME NEW image, Len(image) \in Nat, HeaderLen <= Len(image), NEW header,
         \A j \in 1 .. HeaderLen : image[j] = HeaderCells(header)[j]
  PROVE  \E h \in wim_header(image) :
           /\ h.lookup = header.lookup /\ h.boot = header.boot
           /\ h.boot_index = header.boot_index /\ h.images = header.images
<1>1. /\ image[1] = [resource |-> header.lookup] /\ image[2] = [resource |-> header.boot]
      /\ image[3] = [number |-> header.boot_index] /\ image[4] = [number |-> header.images]
  BY DEF HeaderLen, HeaderCells, Number
<1>2. /\ ResourceIn(image[1]) = header.lookup /\ ResourceIn(image[2]) = header.boot
      /\ NumberIn(image[3]) = header.boot_index /\ NumberIn(image[4]) = header.images
  BY <1>1 DEF ResourceIn, NumberIn
<1>3. wim_header(image) = {[lookup |-> header.lookup, boot |-> header.boot,
                           boot_index |-> header.boot_index, images |-> header.images]}
  <2>1. ~(HeaderLen > Len(image))
    BY DEF HeaderLen
  <2> QED BY <1>2, <2>1 DEF wim_header
<1> QED BY <1>3

\* The patched file is a WIM with a patched tree and a new lookup table.
LEMMA PatchedTree ==
  ASSUME NEW s, IsSelected(s), NEW image, NEW p, NEW files, NEW dir, NEW at, NEW count,
         InjectsInto(image, p, files, s, dir, at, count)
  PROVE  IsPatchedTree(image, p.header.boot, s.boot, dir, at.dir - at.boot, at.copy - at.boot, files)
<1>1. Injects(image, p, files, s, dir, at)
  BY DEF InjectsInto
<1>2. /\ IsNewMetadata(image, p.header.boot, s.boot, dir, at.dir - at.boot, at.copy - at.boot)
      /\ HasEntries(image, p.header.boot, files, at.dir - at.boot, at.copy - at.boot)
  BY <1>1, NewMetadata
<1>3. IsTable(files) /\ dir \in InjectDirs(s.boot)
  BY <1>1 DEF Injects
<1>4. PICK x \in wim_path(wim, s.boot, WIM_INJECT_DIR) :
        \E n \in wim_dir_len(wim, s.boot, SubdirOf(wim, s.boot, x)) :
          dir = [parent |-> x, offset |-> SubdirOf(wim, s.boot, x), len |-> n]
  BY <1>3 DEF InjectDirs
<1>5. /\ dir.parent \in wim_path(wim, s.boot, WIM_INJECT_DIR)
      /\ dir.offset = SubdirOf(wim, s.boot, dir.parent)
      /\ dir.len \in wim_dir_len(wim, s.boot, dir.offset)
  BY <1>4
<1>6. IsTree(wim, s.boot)
  <2>1. wim_readable(wim, s.boot, 0, SecurityLen)
    BY <1>4 DEF wim_path
  <2> QED BY <2>1, WriterAssumption DEF IsSelected
<1> QED BY <1>2, <1>3, <1>5, <1>6, Zenon DEF IsPatchedTree

LEMMA PatchedWim ==
  ASSUME MadeInv, NEW s, IsSelected(s), NEW image, NEW p, NEW files, NEW dir, NEW at, NEW count,
         InjectsInto(image, p, files, s, dir, at, count)
  PROVE  \E h \in wim_header(image) : \E K :
           /\ IsPatchedWim(image, p, files, s, dir, at, h, K)
           /\ h.boot_index = count + 1 /\ h.images = count + 1
<1>1. Injects(image, p, files, s, dir, at) /\ p.header.boot_index = count + 1
      /\ p.header.images = count + 1
  BY DEF InjectsInto
<1>2. \A j \in 1 .. HeaderLen : image[j] = HeaderCells(p.header)[j]
  BY <1>1, HeaderPart
<1>3. Keeps(image)
  BY <1>1, KeptPart
<1>4. Len(image) \in Nat /\ HeaderLen <= Len(image)
  BY <1>3 DEF Keeps, IsSelected, HeaderLen
<1>5. PICK h \in wim_header(image) :
           /\ h.lookup = p.header.lookup /\ h.boot = p.header.boot
           /\ h.boot_index = p.header.boot_index /\ h.images = p.header.images
  BY <1>4, <1>2, HeaderRead
<1>6. s.header.lookup.len % 2 = 0
  BY WriterAssumption DEF IsSelected, LookupLen
<1>7. PICK K : IsNewLookup(image, h, s.header, files, K)
  BY <1>1, <1>5, <1>6, NewLookup
<1>8. \A n \in 1 .. K : IsFiled(wim, s.header, n)
  <2>1. ReadableEntries(wim, s.header) = 1 .. K
    BY <1>7, NewEntries
  <2> QED BY <2>1, WriterAssumption DEF IsSelected
<1>9. files = vdisk_files /\ \A i \in Injected(files) : IsCells(files[i].cells)
  BY <1>1 DEF MadeInv, Injects
<1>10. IsPatchedWim(image, p, files, s, dir, at, h, K)
  BY <1>1, <1>3, <1>5, <1>7, <1>8, <1>9, Zenon DEF IsPatchedWim, IsSelected
<1> QED BY <1>1, <1>5, <1>10, Zenon

----------------------------------------------------------------------------
(* Every injected file is found *)

\* The files that were injected are those that the patch is for, of several with one name
\* the first.
LEMMA InjectedAre ==
  ASSUME NEW image, NEW p, NEW files, NEW s, NEW dir, NEW at,
         Injects(image, p, files, s, dir, at)
  PROVE  InjectedFiles = {i \in Injected(files) : \A j \in Injected(files) :
                            files[j].name = files[i].name => i <= j}
<1> DEFINE R == p.regions
           S == {i \in 1 .. Len(files) :
                   \E n \in UsedOf(R) : R[n].patch = "file" /\ R[n].opaque = i}
<1>1. p = cached_patch /\ files = vdisk_files /\ FileRegions(R, Injected(files))
  BY DEF Injects, IsPatch
<1>2. Used = UsedOf(R)
  BY <1>1 DEF Used, UsedOf
<1>3. InjectedFiles = {i \in S : \A j \in S : files[j].name = files[i].name => i <= j}
  BY <1>1, <1>2, Zenon DEF InjectedFiles
<1>4. ASSUME NEW i \in S PROVE i \in Injected(files)
  <2>1. PICK n \in UsedOf(R) : R[n].patch = "file" /\ R[n].opaque = i
    OBVIOUS
  <2>2. n \in 1 .. Len(R)
    BY DEF UsedOf
  <2> HIDE DEF R
  <2> QED BY <1>1, <2>1, <2>2 DEF FileRegions
<1>5. ASSUME NEW i \in Injected(files) PROVE i \in S
  <2>1. 1 + i \in UsedOf(R) /\ R[1 + i] = FileRegion(files, i)
    BY InjectsPlaces
  <2>2. FileRegion(files, i).patch = "file" /\ FileRegion(files, i).opaque = i
    BY DEF FileRegion, Region
  <2>3. i \in 1 .. Len(files)
    BY DEF Injected
  <2> HIDE DEF R
  <2> QED BY <2>1, <2>2, <2>3
<1>6. S = Injected(files)
  BY <1>4, <1>5
<1> HIDE DEF S
<1> QED BY <1>3, <1>6, Zenon

\* Without injection there are none.
LEMMA InjectedNone ==
  ASSUME cached_patch.regions = HeaderRegions, Len(wim) \in Nat, HeaderLen <= Len(wim)
  PROVE  InjectedFiles = {}
<1>1. FileRegions(HeaderRegions, {})
  BY HeaderPatch
<1>2. \A n \in Used : cached_patch.regions[n].patch # "file"
  BY <1>1 DEF Used, FileRegions
<1> QED BY <1>2 DEF InjectedFiles

\* A path that none of them takes is taken by no other file with their name either.
LEMMA FreePath ==
  ASSUME NEW image, NEW p, NEW files, NEW s, NEW dir, NEW at,
         Injects(image, p, files, s, dir, at),
         NEW path, \A i \in InjectedFiles : ~TakenBy(i, path)
  PROVE  IsFree(path, files)
<1> SUFFICES ASSUME NEW i \in Injected(files), NEW n \in 1 .. Len(path),
                    SubSeq(path, 1, n) = Append(WIM_INJECT_DIR, files[i].name)
             PROVE  FALSE
  BY DEF IsFree
<1> DEFINE S == {j \in Injected(files) : files[j].name = files[i].name}
<1>1. files = vdisk_files /\ Injected(files) \subseteq Nat /\ IsTable(files)
  BY InjectedIsFinite, PatchAssumption DEF Injects
<1>2. PICK k \in S : \A j \in S : k <= j
  <2>1. S \subseteq Nat /\ i \in S
    BY <1>1
  <2> HIDE DEF S
  <2> QED BY <2>1, LeastNatural
<1>3. k \in InjectedFiles
  BY <1>2, InjectedAre
<1>4. TakenBy(k, path)
  BY <1>1, <1>2 DEF TakenBy
<1> QED BY <1>3, <1>4

\* Every injected file is found.
LEMMA InjectsFound ==
  ASSUME OnceInv, MadeInv, LoopInv, AppliedInv
  PROVE  InjectedFilesFound
<1> DEFINE image == SubSeq(data, 1, xlen)
<1> SUFFICES ASSUME ReadWhole, InjectedFiles # {}
             PROVE  \E h \in wim_header(image) :
                      /\ wim_count(image, h) = {h.images}
                      /\ wim_metadata(image, h, h.boot_index) = {h.boot}
                      /\ \A i \in InjectedFiles :
                           ContentsAt(image, h, h.boot,
                                      Append(WIM_INJECT_DIR, vdisk_files[i].name))
                             = {vdisk_files[i].cells}
  BY DEF InjectedFilesFound
<1>1. PICK im : im = image
  OBVIOUS
<1> HIDE DEF image
<1>2. PICK s : /\ IsSelected(s)
               /\ \/ IsHeaderPatch(cached_patch, s)
                  \/ \E dir, at, count :
                       InjectsInto(im, cached_patch, vdisk_files, s, dir, at, count)
  BY <1>1, PatchCases DEF image
<1>3. ~IsHeaderPatch(cached_patch, s)
  <2>1. Len(wim) \in Nat /\ HeaderLen <= Len(wim)
    BY <1>2 DEF IsSelected, IsWim, HoldsFields
  <2> QED BY <2>1, InjectedNone DEF IsHeaderPatch, Patch
<1> DEFINE p == cached_patch
           files == vdisk_files
<1>4. PICK dir, at, count : InjectsInto(im, p, files, s, dir, at, count)
  BY <1>2, <1>3
<1>5. PICK h \in wim_header(im) : \E K :
           /\ IsPatchedWim(im, p, files, s, dir, at, h, K)
           /\ h.boot_index = count + 1 /\ h.images = count + 1
  BY <1>2, <1>4, PatchedWim
<1>6. PICK K : /\ IsPatchedWim(im, p, files, s, dir, at, h, K)
               /\ h.boot_index = count + 1 /\ h.images = count + 1
  BY <1>5
<1>7. wim_count(im, h) = {count + 1} /\ wim_metadata(im, h, count + 1) = {h.boot}
  <2>1. IsNewLookup(im, h, s.header, files, K) /\ count \in wim_count(wim, s.header)
    BY <1>4, <1>6 DEF InjectsInto, IsPatchedWim
  <2> QED BY <2>1, ImagesCounted
<1>8. ASSUME NEW i \in InjectedFiles
      PROVE  ContentsAt(im, h, h.boot, Append(WIM_INJECT_DIR, files[i].name)) = {files[i].cells}
  <2>1. Injects(im, p, files, s, dir, at) /\ h.boot = p.header.boot
    BY <1>4, <1>6 DEF InjectsInto, IsPatchedWim
  <2>2. /\ i \in Injected(files)
        /\ \A j \in Injected(files) : files[j].name = files[i].name => i <= j
    BY <2>1, InjectedAre
  <2>3. IsPatchedTree(im, h.boot, s.boot, dir, at.dir - at.boot, at.copy - at.boot, files)
    BY <1>2, <1>4, <2>1, PatchedTree
  <2>4. PICK y : /\ wim_path(im, h.boot, Append(WIM_INJECT_DIR, files[i].name)) = {y}
                 /\ HashOf(im, h.boot, y) = wim_hash(files[i].cells)
    BY <2>2, <2>3, InjectedPath
  <2>5. ContentsAt(im, h, h.boot, Append(WIM_INJECT_DIR, files[i].name))
          = ContentsOf(im, h, wim_hash(files[i].cells))
    BY <2>4, ContentsByHash
  <2>6. ContentsOf(im, h, wim_hash(files[i].cells)) = {files[i].cells}
    BY <1>6, <2>2, ContentsInjected
  <2> QED BY <2>5, <2>6
<1> QED BY <1>1, <1>5, <1>6, <1>7, <1>8

\* What the boot manager reads of the patched file, by the header and the lookup table that
\* wim_construct_patch makes, contains every injected file, whole, at its path in
\* WIM_INJECT_DIR.
THEOREM InjectedFilesAreFound == Spec => []InjectedFilesFound
BY InjectsFound, OnceAlways, MadeAlways, LoopAlways, AppliedAlways, PTL

----------------------------------------------------------------------------
(* Nothing is lost *)

\* A header of the patched file that keeps what the WIM held.
KeepsFiles(image, h, s) ==
  /\ \A path \in ImagePaths :
       /\ \A i \in InjectedFiles : ~TakenBy(i, path)
       /\ ContentsAt(wim, s.header, s.boot, path) # {}
       => ContentsAt(image, h, h.boot, path) = ContentsAt(wim, s.header, s.boot, path)
  /\ \A index \in Indexes \ {0} :
       wim_metadata(wim, s.header, index) # {} =>
         wim_metadata(image, h, index) = wim_metadata(wim, s.header, index)

\* Without an entry for a path there are no contents at it.
LEMMA ContentsNeedPath ==
  ASSUME NEW image, NEW header, NEW meta, NEW path, ContentsAt(image, header, meta, path) # {}
  PROVE  wim_path(image, meta, path) # {}
<1>1. PICK res : res \in wim_file(image, header, meta, path)
  BY DEF ContentsAt
<1> QED BY <1>1 DEF wim_file

LEMMA InjectsKeeps ==
  ASSUME MadeInv, NEW s, IsSelected(s), NEW image, NEW p, NEW files, NEW dir, NEW at, NEW count,
         InjectsInto(image, p, files, s, dir, at, count)
  PROVE  \E h \in wim_header(image) : KeepsFiles(image, h, s)
<1>1. PICK h \in wim_header(image) : \E K :
           /\ IsPatchedWim(image, p, files, s, dir, at, h, K)
           /\ h.boot_index = count + 1 /\ h.images = count + 1
  BY PatchedWim
<1>2. PICK K : IsPatchedWim(image, p, files, s, dir, at, h, K)
  BY <1>1
<1>3. /\ Injects(image, p, files, s, dir, at) /\ h.boot = p.header.boot
      /\ IsNewLookup(image, h, s.header, files, K) /\ count \in wim_count(wim, s.header)
  BY <1>2 DEF InjectsInto, IsPatchedWim
<1>4. ASSUME NEW path \in ImagePaths, \A i \in InjectedFiles : ~TakenBy(i, path),
             ContentsAt(wim, s.header, s.boot, path) # {}
      PROVE  ContentsAt(image, h, h.boot, path) = ContentsAt(wim, s.header, s.boot, path)
  <2>1. IsPatchedTree(image, h.boot, s.boot, dir, at.dir - at.boot, at.copy - at.boot, files)
    BY <1>3, PatchedTree
  <2>2. IsFree(path, files) /\ path \in Paths /\ wim_path(wim, s.boot, path) # {}
    BY <1>3, <1>4, FreePath, ContentsNeedPath DEF Paths
  <2>3. PICK x, y : /\ wim_path(wim, s.boot, path) = {x} /\ wim_path(image, h.boot, path) = {y}
                    /\ HashOf(image, h.boot, y) = HashOf(wim, s.boot, x)
    BY <2>1, <2>2, HashKept
  <2>4. PICK hash : hash = HashOf(wim, s.boot, x)
    OBVIOUS
  <2>5. /\ ContentsAt(wim, s.header, s.boot, path) = ContentsOf(wim, s.header, hash)
        /\ ContentsAt(image, h, h.boot, path) = ContentsOf(image, h, hash)
    BY <2>3, <2>4, ContentsByHash
  <2>6. ContentsOf(image, h, hash) = ContentsOf(wim, s.header, hash)
    BY <1>2, <1>4, <2>5, ContentsKept
  <2> QED BY <2>5, <2>6
<1>5. ASSUME NEW index \in Indexes \ {0}, wim_metadata(wim, s.header, index) # {}
      PROVE  wim_metadata(image, h, index) = wim_metadata(wim, s.header, index)
  BY <1>3, <1>5, ImagesCounted
<1> QED BY <1>1, <1>4, <1>5 DEF KeepsFiles

----------------------------------------------------------------------------
(* Only the header is changed *)

OnlyHeader(image) == Keeps(image) /\ Len(image) = Len(wim) /\ IsWim(wim)

LEMMA HeaderOnly ==
  ASSUME NEW s, IsSelected(s), NEW image, IsImage(image), IsHeaderPatch(cached_patch, s)
  PROVE  /\ OnlyHeader(image)
         /\ \E h \in wim_header(image) : h.lookup = s.header.lookup /\ h.boot = s.boot
<1> DEFINE R == HeaderRegions
           H == cached_patch.header
<1>1. /\ IsWim(wim) /\ Len(wim) \in Nat /\ HeaderLen <= Len(wim) /\ xlen = Len(wim)
      /\ Len(image) = Len(wim) /\ HeaderLen = 4
  BY DEF IsSelected, IsWim, HoldsFields, IsHeaderPatch, IsImage, HeaderLen
<1>2. R = cached_patch.regions /\ H = SelectingHeader(s, cmdline_index)
  BY DEF IsHeaderPatch, Patch
<1>3. /\ R \in Seq(Regions) /\ TableApart(R, xlen) /\ UsedOf(R) = {1}
      /\ R[1] = Region("header", 0, 0, HeaderLen)
  BY <1>1, HeaderPatch
<1>4. R[1].offset = 0 /\ R[1].len = 4 /\ R[1].patch = "header"
  BY <1>1, <1>3 DEF Region
<1> HIDE DEF R
<1>5. ASSUME NEW j \in 1 .. 4 PROVE image[j] = HeaderCells(H)[j]
  <2>1. PICK k \in 0 .. 3 : k + 1 = j
    <3>1. j - 1 \in 0 .. 3 /\ j - 1 + 1 = j
      OBVIOUS
    <3> QED BY <3>1
  <2>2. k \in 0 .. R[1].len - 1 /\ 1 \in UsedOf(R) /\ R[1].patch # "boot.copy" /\ k \in Nat
    BY <1>3, <1>4, <2>1
  <2>3. image[R[1].offset + k + 1] = Method(cached_patch, vdisk_files, R[1], k, 1)[1]
    BY <1>1, <1>2, <1>3, <2>2, RegionImage
  <2>4. Method(cached_patch, vdisk_files, R[1], k, 1)[1]
          = RegionCells(cached_patch, vdisk_files, R[1])[k + 1]
    BY <1>4, <2>2, MadeCell DEF Copies
  <2>5. RegionCells(cached_patch, vdisk_files, R[1]) = HeaderCells(H)
    BY <1>4 DEF RegionCells
  <2>6. R[1].offset + k + 1 = j
    BY <1>4, <2>1
  <2> QED BY <2>1, <2>3, <2>4, <2>5, <2>6
<1>6. ASSUME NEW x \in HeaderLen .. Len(wim) - 1 PROVE image[x + 1] = wim[x + 1]
  <2>1. x \in Nat /\ x < xlen /\ 4 <= x /\ x < Len(wim)
    BY <1>1
  <2>2. \A n \in UsedOf(R) : ~Covers(R[n], x)
    BY <1>3, <1>4, <2>1 DEF Covers
  <2>3. image[x + 1] = OriginalCell(x)
    BY <1>1, <1>2, <2>1, <2>2, UncoveredCell
  <2> QED BY <2>1, <2>3 DEF OriginalCell
<1>7. OnlyHeader(image)
  BY <1>1, <1>6 DEF OnlyHeader, Keeps
<1>8. H.lookup = s.header.lookup /\ H.boot = s.boot
  <2>1. DOMAIN s.header = {"lookup", "boot", "boot_index", "images"}
    BY DEF IsSelected, wim_header
  <2>2. CASE cmdline_index = 0
    <3>1. s.boot = s.header.boot
      BY <2>2 DEF IsSelected, wim_metadata
    <3> QED BY <1>2, <2>2, <3>1 DEF SelectingHeader
  <2>3. CASE cmdline_index # 0
    BY <1>2, <2>1, <2>3 DEF SelectingHeader
  <2> QED BY <2>2, <2>3
<1> HIDE DEF H
<1>9. \A j \in 1 .. HeaderLen : image[j] = HeaderCells(H)[j]
  BY <1>1, <1>5
<1>10. \E h \in wim_header(image) : h.lookup = H.lookup /\ h.boot = H.boot
  BY <1>1, <1>9, HeaderRead
<1> QED BY <1>7, <1>8, <1>10

\* What is behind the header reads the same.
LEMMA ReadSame ==
  ASSUME NEW image, OnlyHeader(image), NEW res, IsSound(wim, res), BehindHeader(res),
         NEW x \in Nat, NEW n \in Nat
  PROVE  /\ wim_readable(image, res, x, n) <=> wim_readable(wim, res, x, n)
         /\ wim_readable(wim, res, x, n) => wim_read(image, res, x, n) = wim_read(wim, res, x, n)
<1>1. Keeps(image) /\ Len(image) = Len(wim) /\ IsWim(wim)
  BY DEF OnlyHeader
<1>2. ASSUME wim_readable(wim, res, x, n)
      PROVE  /\ wim_readable(image, res, x, n)
             /\ wim_read(image, res, x, n) = wim_read(wim, res, x, n)
  BY <1>1, <1>2, ReadKept
<1>3. ASSUME wim_readable(image, res, x, n) PROVE wim_readable(wim, res, x, n)
  BY <1>1, <1>3, ReadableKept
<1> QED BY <1>2, <1>3

\* The directories are the same.
LEMMA LengthsSame ==
  ASSUME NEW image, OnlyHeader(image), NEW meta, IsSound(wim, meta), BehindHeader(meta)
  PROVE  /\ DirentLengths(image, meta) = DirentLengths(wim, meta)
         /\ HasLengths(wim, meta) /\ meta.len \in Nat
<1>1. HasLengths(wim, meta) /\ meta.len \in Nat
  BY WimHasLengths DEF OnlyHeader, HasLengths
<1>2. ASSUME NEW x \in 0 .. meta.len
      PROVE  /\ wim_readable(image, meta, x, LengthLen) <=> wim_readable(wim, meta, x, LengthLen)
             /\ wim_readable(wim, meta, x, LengthLen) =>
                  DirentLength(image, meta, x) = DirentLength(wim, meta, x)
  <2>1. x \in Nat /\ LengthLen \in Nat
    BY <1>1 DEF LengthLen
  <2> QED BY <2>1, ReadSame DEF DirentLength
<1> QED BY <1>1, <1>2 DEF DirentLengths

LEMMA DirectoriesSame ==
  ASSUME NEW image, OnlyHeader(image), NEW meta, IsSound(wim, meta), BehindHeader(meta),
         NEW name, NEW D
  PROVE  /\ wim_direntry(image, meta, name, D) = wim_direntry(wim, meta, name, D)
         /\ \A at \in wim_direntry(wim, meta, name, D) :
              /\ SubdirOf(image, meta, at) = SubdirOf(wim, meta, at)
              /\ HashOf(image, meta, at) = HashOf(wim, meta, at)
<1>1. /\ DirentLengths(image, meta) = DirentLengths(wim, meta)
      /\ HasLengths(wim, meta) /\ meta.len \in Nat /\ IsWim(wim)
  BY LengthsSame DEF OnlyHeader
<1>2. DirEntries(image, meta, D) = DirEntries(wim, meta, D)
  BY <1>1 DEF DirEntries
<1>3. ASSUME NEW at \in DirEntries(wim, meta, D) PROVE at \in Nat
  <2>1. D \in 0 .. meta.len /\ at \in DirWalk(DirentLengths(wim, meta))[D]
    BY DEF DirEntries
  <2>2. WalkSound(DirentLengths(wim, meta), D)
    BY <1>1, <2>1, WalkIsSound DEF HasLengths
  <2> QED BY <2>1, <2>2 DEF WalkSound
<1>4. ASSUME NEW at \in Nat, wim_readable(wim, meta, at, 4)
      PROVE  /\ wim_read(image, meta, at + 3, 1) = wim_read(wim, meta, at + 3, 1)
             /\ wim_read(image, meta, at, 3) = wim_read(wim, meta, at, 3)
  <2>1. PICK x \in Nat : x = at + 3 /\ x + 1 <= at + 4 /\ at + 3 <= at + 4
    OBVIOUS
  <2>2. wim_readable(wim, meta, x, 1) /\ wim_readable(wim, meta, at, 3)
    BY <1>1, <1>4, <2>1, ReadableWithin
  <2> QED BY <2>1, <2>2, ReadSame
<1>5. ASSUME NEW at \in Nat
      PROVE  wim_readable(image, meta, at, 4) <=> wim_readable(wim, meta, at, 4)
  BY ReadSame
<1>6. Named(image, meta, name, D) = Named(wim, meta, name, D)
  BY <1>2, <1>3, <1>4, <1>5 DEF Named
<1>7. wim_direntry(image, meta, name, D) = wim_direntry(wim, meta, name, D)
  BY <1>6, DirentryIs
<1>8. ASSUME NEW at \in wim_direntry(wim, meta, name, D)
      PROVE  /\ SubdirOf(image, meta, at) = SubdirOf(wim, meta, at)
             /\ HashOf(image, meta, at) = HashOf(wim, meta, at)
  <2>1. at \in Nat /\ wim_readable(wim, meta, at, 4)
    BY <1>1, EntryInside DEF DirentLen, NameLen
  <2> QED BY <1>4, <2>1 DEF SubdirOf, HashOf, DirentLen
<1> QED BY <1>7, <1>8

LEMMA PathsSame ==
  ASSUME NEW image, OnlyHeader(image), NEW meta, IsSound(wim, meta), BehindHeader(meta),
         NEW path, Len(path) \in Nat, Len(path) # 0
  PROVE  /\ wim_path(image, meta, path) = wim_path(wim, meta, path)
         /\ \A at \in wim_path(wim, meta, path) : HashOf(image, meta, at) = HashOf(wim, meta, at)
<1> DEFINE N == Len(path)
           v == PathWalk(image, meta, path)
           w == PathWalk(wim, meta, path)
           Bad == {k \in 1 .. N : v[k] # w[k]}
<1>1. \A k \in 1 .. N :
        /\ v[k] = EntriesIn(image, meta, path[k], DirsAt(image, meta, k, v[k - 1]))
        /\ w[k] = EntriesIn(wim, meta, path[k], DirsAt(wim, meta, k, w[k - 1]))
  BY PathStep
<1> HIDE DEF v, w
<1>2. \A name, D : /\ wim_direntry(image, meta, name, D) = wim_direntry(wim, meta, name, D)
                   /\ \A at \in wim_direntry(wim, meta, name, D) :
                        /\ SubdirOf(image, meta, at) = SubdirOf(wim, meta, at)
                        /\ HashOf(image, meta, at) = HashOf(wim, meta, at)
  BY DirectoriesSame
<1>3. \A name, dirs : EntriesIn(image, meta, name, dirs) = EntriesIn(wim, meta, name, dirs)
  BY <1>2 DEF EntriesIn
<1>4. ASSUME NEW k \in 1 .. N, NEW at \in w[k]
      PROVE  /\ SubdirOf(image, meta, at) = SubdirOf(wim, meta, at)
             /\ HashOf(image, meta, at) = HashOf(wim, meta, at)
  <2>1. \E name, D : at \in wim_direntry(wim, meta, name, D)
    BY <1>1, <1>4 DEF EntriesIn
  <2> QED BY <1>2, <2>1
<1>5. /\ wim_readable(image, meta, 0, SecurityLen) <=> wim_readable(wim, meta, 0, SecurityLen)
      /\ wim_readable(wim, meta, 0, SecurityLen) =>
           RootDirectory(image, meta) = RootDirectory(wim, meta)
  <2>1. 0 \in Nat /\ SecurityLen \in Nat
    BY DEF SecurityLen
  <2> QED BY <2>1, ReadSame DEF RootDirectory
<1>6. ASSUME wim_readable(wim, meta, 0, SecurityLen), Bad # {} PROVE FALSE
  <2>1. Bad \in SUBSET Nat
    OBVIOUS
  <2>2. PICK k \in Bad : \A l \in Bad : k <= l
    <3> HIDE DEF Bad
    <3> QED BY <1>6, <2>1, LeastNatural
  <2>3. k \in 1 .. N /\ v[k] # w[k]
    OBVIOUS
  <2>4. DirsAt(image, meta, k, v[k - 1]) = DirsAt(wim, meta, k, w[k - 1])
    <3>1. CASE k = 1
      BY <1>5, <1>6, <3>1 DEF DirsAt
    <3>2. CASE k # 1
      <4>1. k - 1 \in 1 .. N /\ k - 1 < k
        BY <2>3, <3>2
      <4>2. k - 1 \notin Bad
        <5> HIDE DEF Bad
        <5> QED BY <2>1, <2>2, <4>1
      <4>3. v[k - 1] = w[k - 1]
        BY <4>1, <4>2
      <4>4. \A at \in w[k - 1] : SubdirOf(image, meta, at) = SubdirOf(wim, meta, at)
        BY <1>4, <4>1
      <4>5. {SubdirOf(image, meta, at) : at \in w[k - 1]} = {SubdirOf(wim, meta, at) : at \in w[k - 1]}
        BY <4>4
      <4> QED BY <3>2, <4>3, <4>5 DEF DirsAt
    <3> QED BY <3>1, <3>2
  <2> QED BY <1>1, <1>3, <2>3, <2>4
<1>7. N \in 1 .. N
  OBVIOUS
<1>8. wim_readable(wim, meta, 0, SecurityLen) => v[N] = w[N]
  <2>1. ASSUME wim_readable(wim, meta, 0, SecurityLen) PROVE N \notin Bad
    <3> HIDE DEF Bad
    <3> QED BY <1>6, <2>1
  <2> QED BY <1>7, <2>1
<1>9. /\ wim_path(image, meta, path) = IF wim_readable(image, meta, 0, SecurityLen) THEN v[N] ELSE {}
      /\ wim_path(wim, meta, path) = IF wim_readable(wim, meta, 0, SecurityLen) THEN w[N] ELSE {}
  BY DEF wim_path, v, w
<1> HIDE DEF N, Bad
<1> QED BY <1>4, <1>5, <1>7, <1>8, <1>9

\* The lookup table is the same.
SameTable(image, h, header) ==
  /\ ReadableEntries(image, h) = ReadableEntries(wim, header)
  /\ \A n \in ReadableEntries(wim, header) :
       /\ n \in Nat /\ LookupEntry(image, h, n) = LookupEntry(wim, header, n)
       /\ \A m \in 1 .. n : LookupEntry(image, h, m) = LookupEntry(wim, header, m)
       /\ IsSound(wim, ResourceIn(LookupEntry(wim, header, n)[1]))

LEMMA TableSame ==
  ASSUME NEW image, OnlyHeader(image), NEW h, NEW header, h.lookup = header.lookup,
         IsSound(wim, header.lookup), BehindHeader(header.lookup)
  PROVE  SameTable(image, h, header)
<1>1. LookupEntries(h) = LookupEntries(header) /\ LookupEntries(header) \subseteq Nat \ {0}
      /\ IsWim(wim)
  <2>1. header.lookup.len \in Nat
    BY DEF IsSound, Resources
  <2> QED BY <2>1 DEF LookupEntries, LookupLen, OnlyHeader
<1>2. ASSUME NEW n \in Nat \ {0}
      PROVE  /\ LookupReadable(image, h, n) <=> LookupReadable(wim, header, n)
             /\ LookupReadable(wim, header, n) =>
                  /\ LookupEntry(image, h, n) = LookupEntry(wim, header, n)
                  /\ IsSound(wim, ResourceIn(LookupEntry(wim, header, n)[1]))
  <2>1. PICK x \in Nat : x = (n - 1) * LookupLen
    <3>1. (n - 1) * LookupLen \in Nat
      BY DEF LookupLen
    <3> QED BY <3>1
  <2>2. LookupLen \in Nat /\ 1 \in 1 .. LookupLen
    BY DEF LookupLen
  <2>3. /\ wim_readable(image, header.lookup, x, LookupLen) <=>
             wim_readable(wim, header.lookup, x, LookupLen)
        /\ wim_readable(wim, header.lookup, x, LookupLen) =>
             wim_read(image, header.lookup, x, LookupLen) = wim_read(wim, header.lookup, x, LookupLen)
    BY <2>1, <2>2, ReadSame
  <2>4. ASSUME wim_readable(wim, header.lookup, x, LookupLen)
        PROVE  IsSound(wim, ResourceIn(wim_read(wim, header.lookup, x, LookupLen)[1]))
    BY <1>1, <2>1, <2>2, <2>4, FieldRead
  <2> QED BY <2>1, <2>3, <2>4 DEF LookupReadable, LookupEntry
<1>3. \A n \in LookupEntries(header) : \A m \in 1 .. n : m \in Nat \ {0} /\ n \in 1 .. n
  BY <1>1
<1>4. ReadableEntries(image, h) = ReadableEntries(wim, header)
  BY <1>1, <1>2, <1>3 DEF ReadableEntries
<1>5. ASSUME NEW n \in ReadableEntries(wim, header)
      PROVE  /\ n \in Nat /\ LookupEntry(image, h, n) = LookupEntry(wim, header, n)
             /\ \A m \in 1 .. n : LookupEntry(image, h, m) = LookupEntry(wim, header, m)
             /\ IsSound(wim, ResourceIn(LookupEntry(wim, header, n)[1]))
  <2>1. n \in LookupEntries(header) /\ \A m \in 1 .. n : LookupReadable(wim, header, m)
    BY DEF ReadableEntries
  <2>2. \A m \in 1 .. n : m \in Nat \ {0} /\ n \in 1 .. n /\ n \in Nat
    BY <1>1, <1>3, <2>1
  <2>3. n \in Nat /\ n \in 1 .. n
    BY <1>1, <2>1
  <2> QED BY <1>2, <2>1, <2>2, <2>3
<1> QED BY <1>4, <1>5 DEF SameTable

LEMMA ImagesSame ==
  ASSUME NEW image, NEW h, NEW header, SameTable(image, h, header), NEW index, index # 0
  PROVE  wim_metadata(image, h, index) = wim_metadata(wim, header, index)
<1> DEFINE E == ReadableEntries(wim, header)
           F == {n \in E : IsMetadata(wim, header, n) /\ MetadataUpTo(wim, header, n) = index}
           G == {n \in E : IsMetadata(image, h, n) /\ MetadataUpTo(image, h, n) = index}
<1>1. ASSUME NEW n \in E
      PROVE  /\ IsMetadata(image, h, n) = IsMetadata(wim, header, n)
             /\ MetadataUpTo(image, h, n) = MetadataUpTo(wim, header, n)
  <2>1. {m \in 1 .. n : IsMetadata(image, h, m)} = {m \in 1 .. n : IsMetadata(wim, header, m)}
    BY DEF SameTable, IsMetadata
  <2>2. IsMetadata(image, h, n) = IsMetadata(wim, header, n)
    BY DEF SameTable, IsMetadata
  <2> QED BY <2>1, <2>2 DEF MetadataUpTo
<1>2. F = G
  BY <1>1
<1>3. ReadableEntries(image, h) = E
  BY DEF SameTable
<1>4. /\ wim_metadata(wim, header, index) = {ResourceIn(LookupEntry(wim, header, n)[1]) : n \in FirstEntry(F)}
      /\ wim_metadata(image, h, index) = {ResourceIn(LookupEntry(image, h, n)[1]) : n \in FirstEntry(G)}
  BY <1>3, Zenon DEF wim_metadata
<1>5. \A n \in FirstEntry(F) : n \in E
  BY DEF FirstEntry
<1>6. \A n \in FirstEntry(F) : LookupEntry(image, h, n) = LookupEntry(wim, header, n)
  BY <1>5 DEF SameTable
<1> HIDE DEF F, G
<1> QED BY <1>2, <1>4, <1>6

\* The resources of the files with a hash.
FilesWith(image, header, hash) ==
  {ResourceIn(LookupEntry(image, header, n)[1]) : n \in FirstEntry(Found(image, header, hash))}

LEMMA FilesSame ==
  ASSUME NEW image, NEW h, NEW header, SameTable(image, h, header), NEW hash
  PROVE  /\ FilesWith(image, h, hash) = FilesWith(wim, header, hash)
         /\ \A res \in FilesWith(wim, header, hash) :
              \E n \in ReadableEntries(wim, header) :
                res = ResourceIn(LookupEntry(wim, header, n)[1])
<1>1. Found(image, h, hash) = Found(wim, header, hash)
  BY DEF Found, SameTable
<1>2. \A n \in FirstEntry(Found(wim, header, hash)) : n \in ReadableEntries(wim, header)
  BY DEF FirstEntry, Found
<1>3. \A n \in FirstEntry(Found(wim, header, hash)) :
        LookupEntry(image, h, n) = LookupEntry(wim, header, n)
  BY <1>2 DEF SameTable
<1> QED BY <1>1, <1>2, <1>3 DEF FilesWith

LEMMA ContentsSame ==
  ASSUME NEW image, OnlyHeader(image), NEW h, NEW header, SameTable(image, h, header),
         \A n \in ReadableEntries(wim, header) : IsFiled(wim, header, n),
         NEW meta, IsSound(wim, meta), BehindHeader(meta), NEW path \in ImagePaths
  PROVE  ContentsAt(image, h, meta, path) = ContentsAt(wim, header, meta, path)
<1> DEFINE P == wim_path(wim, meta, path)
<1>1. /\ wim_path(image, meta, path) = P
      /\ \A at \in P : HashOf(image, meta, at) = HashOf(wim, meta, at)
  <2>1. Len(path) \in Nat /\ Len(path) # 0
    BY PathTyped DEF Paths
  <2> QED BY <2>1, PathsSame
<1>2. /\ wim_file(image, h, meta, path)
           = UNION {FilesWith(image, h, HashOf(image, meta, at)) : at \in P}
      /\ wim_file(wim, header, meta, path)
           = UNION {FilesWith(wim, header, HashOf(wim, meta, at)) : at \in P}
  BY <1>1, Zenon DEF wim_file, FilesWith, Found
<1> HIDE DEF P
<1>3. wim_file(image, h, meta, path) = wim_file(wim, header, meta, path)
  <2>1. \A hash : FilesWith(image, h, hash) = FilesWith(wim, header, hash)
    BY FilesSame
  <2> QED BY <1>1, <1>2, <2>1
<1>4. ASSUME NEW res \in wim_file(wim, header, meta, path)
      PROVE  /\ wim_readable(image, res, 0, res.len) <=> wim_readable(wim, res, 0, res.len)
             /\ wim_readable(wim, res, 0, res.len) =>
                  wim_read(image, res, 0, res.len) = wim_read(wim, res, 0, res.len)
  <2>1. \E hash : res \in FilesWith(wim, header, hash)
    BY <1>2
  <2>2. PICK n \in ReadableEntries(wim, header) : res = ResourceIn(LookupEntry(wim, header, n)[1])
    BY <2>1, FilesSame
  <2>3. IsSound(wim, res) /\ BehindHeader(res)
    BY <2>2 DEF SameTable, IsFiled
  <2>4. res.len \in Nat /\ 0 \in Nat
    BY <2>3 DEF IsSound, Resources
  <2> QED BY <2>3, <2>4, ReadSame
<1> DEFINE F == wim_file(wim, header, meta, path)
           A == {x \in F : wim_readable(image, x, 0, x.len)}
           B == {x \in F : wim_readable(wim, x, 0, x.len)}
<1>5. /\ ContentsAt(image, h, meta, path) = {wim_read(image, res, 0, res.len) : res \in A}
      /\ ContentsAt(wim, header, meta, path) = {wim_read(wim, res, 0, res.len) : res \in B}
  BY <1>3, Zenon DEF ContentsAt
<1>6. A = B /\ \A x \in B : wim_read(image, x, 0, x.len) = wim_read(wim, x, 0, x.len)
  BY <1>4
<1> HIDE DEF A, B, F
<1> QED BY <1>5, <1>6

LEMMA HeaderKeeps ==
  ASSUME NEW s, IsSelected(s), NEW image, IsImage(image), IsHeaderPatch(cached_patch, s)
  PROVE  \E h \in wim_header(image) : KeepsFiles(image, h, s)
<1>1. PICK h \in wim_header(image) : h.lookup = s.header.lookup /\ h.boot = s.boot
  BY HeaderOnly
<1>2. OnlyHeader(image)
  BY HeaderOnly
<1>3. /\ IsSound(wim, s.header.lookup) /\ BehindHeader(s.header.lookup)
      /\ IsSound(wim, s.boot) /\ BehindHeader(s.boot)
      /\ \A n \in ReadableEntries(wim, s.header) : IsFiled(wim, s.header, n)
  BY WriterAssumption DEF IsSelected
<1>4. SameTable(image, h, s.header)
  BY <1>1, <1>2, <1>3, TableSame
<1>5. \A path \in ImagePaths :
        ContentsAt(image, h, h.boot, path) = ContentsAt(wim, s.header, s.boot, path)
  BY <1>1, <1>2, <1>3, <1>4, ContentsSame
<1>6. \A index : index # 0 =>
        wim_metadata(image, h, index) = wim_metadata(wim, s.header, index)
  BY <1>4, ImagesSame
<1> QED BY <1>5, <1>6 DEF KeepsFiles

LEMMA PatchKeeps ==
  ASSUME OnceInv, MadeInv, LoopInv, AppliedInv
  PROVE  OriginalFilesKept
<1> DEFINE image == SubSeq(data, 1, xlen)
<1> SUFFICES ASSUME ReadWhole
             PROVE  \E h \in wim_header(image) : \E s \in Selections(cmdline_index) :
                      KeepsFiles(image, h, s)
  BY DEF OriginalFilesKept, KeepsFiles
<1>1. PICK im : im = image
  OBVIOUS
<1> HIDE DEF image
<1>2. IsImage(im)
  BY <1>1, PatchCases DEF image
<1>3. PICK s : /\ IsSelected(s)
               /\ \/ IsHeaderPatch(cached_patch, s)
                  \/ \E dir, at, count :
                       InjectsInto(im, cached_patch, vdisk_files, s, dir, at, count)
  BY <1>1, PatchCases DEF image
<1>4. CASE IsHeaderPatch(cached_patch, s)
  <2>1. \E h \in wim_header(im) : KeepsFiles(im, h, s)
    BY <1>2, <1>3, <1>4, HeaderKeeps
  <2> QED BY <1>1, <1>3, <2>1 DEF IsSelected
<1>5. CASE \E dir, at, count : InjectsInto(im, cached_patch, vdisk_files, s, dir, at, count)
  <2>1. PICK dir, at, count : InjectsInto(im, cached_patch, vdisk_files, s, dir, at, count)
    BY <1>5
  <2>2. \E h \in wim_header(im) : KeepsFiles(im, h, s)
    BY <1>3, <2>1, InjectsKeeps
  <2> QED BY <1>1, <1>3, <2>2 DEF IsSelected
<1> QED BY <1>3, <1>4, <1>5

\* And what it contained before: every path that no injected file takes leads to the same
\* contents, and every image keeps its index and its metadata.
THEOREM OriginalFilesAreKept == Spec => []OriginalFilesKept
BY PatchKeeps, OnceAlways, MadeAlways, LoopAlways, AppliedAlways, PTL
=============================================================================
