--------------------------- MODULE WimRead_proofs ---------------------------
(***************************************************************************)
(* Proofs about wim_read, for every WIM file whose chunk tables ascend and  *)
(* every sequence of requests: the one-chunk cache names what it holds, the *)
(* loop copies the window it was asked for, and the reader has no memory.   *)
(***************************************************************************)
EXTENDS WimRead, Arithmetic_proofs, SequenceTheorems

----------------------------------------------------------------------------
(* Arithmetic *)

\* A quotient that is rounded up.
LEMMA RoundedUp ==
  ASSUME NEW n \in Nat \ {0}, NEW l \in Nat \ {0}, NEW k, k = (l + n - 1) \div n
  PROVE  k \in Nat \ {0} /\ n * (k - 1) < l /\ l <= n * k
<1> DEFINE a == l + n - 1
<1>1. a \in Int /\ a = l + n - 1
  OBVIOUS
<1> HIDE DEF a
<1>2. k = a \div n
  BY <1>1
<1>3. k \in Int /\ a % n \in 0 .. n - 1 /\ a = n * k + (a % n)
  BY <1>1, <1>2, DivMod
<1>4. n * k >= l /\ n * k <= a
  BY <1>1, <1>3
<1>5. n * (k - 1) = n * k - n
  BY <1>3
<1>6. ASSUME k <= 0 PROVE FALSE
  <2>1. n * k <= n * 0 /\ n * 0 = 0
    BY <1>3, <1>6, TimesKeepsOrder
  <2> QED BY <1>4, <2>1
<1> QED BY <1>1, <1>3, <1>4, <1>5, <1>6

\* The chunk of a position: one of the k chunks of a resource of l cells.
LEMMA ChunkOf ==
  ASSUME NEW n \in Nat \ {0}, NEW l \in Nat \ {0}, NEW pos \in Nat, pos < l,
         NEW k \in Nat, l <= n * k, NEW c, c = pos \div n
  PROVE  c \in Nat /\ c <= k - 1 /\ c \in 0 .. l \div n
<1>1. c \in Int /\ pos = n * c + (pos % n) /\ pos % n \in 0 .. n - 1
  BY DivMod
<1>2. ASSUME c <= -1 PROVE FALSE
  <2>1. n * c <= n * (-1) /\ n * (-1) = -n
    BY <1>1, <1>2, TimesKeepsOrder
  <2> QED BY <1>1, <2>1
<1>3. ASSUME c >= k PROVE FALSE
  <2>1. n * k <= n * c
    BY <1>1, <1>3, TimesKeepsOrder
  <2> QED BY <1>1, <2>1
<1>4. PICK q \in Int : q = l \div n
  BY DivMod
<1>5. l % n \in 0 .. n - 1 /\ l = n * q + (l % n)
  BY <1>4, DivMod
<1>6. ASSUME c >= q + 1 PROVE FALSE
  <2>1. n * (q + 1) <= n * c /\ n * (q + 1) = n * q + n
    BY <1>1, <1>6, TimesKeepsOrder
  <2> QED BY <1>1, <1>5, <2>1
<1> QED BY <1>1, <1>2, <1>3, <1>4, <1>6

\* What a length lacks to k whole chunks.
LEMMA Padding ==
  ASSUME NEW n \in Nat \ {0}, NEW l \in Nat, NEW k \in Nat,
         n * (k - 1) < l, l <= n * k
  PROVE  (-l) % n = n * k - l
<1> DEFINE a == -l
           q == -k
<1>1. a \in Int /\ q \in Int /\ a = -l /\ n * q = -(n * k) /\ n * (k - 1) = n * k - n
  OBVIOUS
<1> HIDE DEF a, q
<1>2. n * q <= a /\ a < n * q + n
  BY <1>1
<1>3. a % n = a - n * q
  BY <1>1, <1>2, QuotientIs
<1> QED BY <1>1, <1>3

----------------------------------------------------------------------------
(* Sequences *)

\* A part of a sequence, or of a buffer.
LEMMA Part ==
  ASSUME NEW s, NEW a \in Nat, NEW m \in Nat
  PROVE  /\ SubSeq(s, a + 1, a + m) = [k \in 1 .. m |-> s[a + k]]
         /\ Len(SubSeq(s, a + 1, a + m)) = m
<1> DEFINE T == {s[i] : i \in a + 1 .. a + m}
           t == SubSeq(s, a + 1, a + m)
<1>1. \A i \in a + 1 .. a + m : s[i] \in T
  OBVIOUS
<1>2. a + 1 \in Int /\ a + m \in Int /\ (a + m) - (a + 1) + 1 = m
  OBVIOUS
<1> HIDE DEF T
<1>3. /\ t \in Seq(T)
      /\ Len(t) = IF a + 1 <= a + m THEN (a + m) - (a + 1) + 1 ELSE 0
      /\ \A i \in 1 .. (a + m) - (a + 1) + 1 : t[i] = s[(a + 1) + i - 1]
  BY <1>1, <1>2, SubSeqProperties
<1>4. Len(t) = m /\ \A i \in 1 .. m : t[i] = s[a + i]
  <2>1. Len(t) = m
    BY <1>3
  <2>2. ASSUME NEW i \in 1 .. m PROVE t[i] = s[a + i]
    <3>1. (a + 1) + i - 1 = a + i
      OBVIOUS
    <3> QED BY <1>2, <1>3, <3>1
  <2> QED BY <2>1, <2>2
<1> HIDE DEF t
<1>5. t = [k \in 1 .. m |-> t[k]]
  BY <1>3, <1>4
<1>6. t = [k \in 1 .. m |-> s[a + k]]
  BY <1>4, <1>5
<1> QED BY <1>4, <1>6 DEF t

\* Two sequences, one after the other.
LEMMA Appended ==
  ASSUME NEW n \in Nat, NEW s, s = [k \in 1 .. n |-> s[k]],
         NEW m \in Nat, NEW t, t = [k \in 1 .. m |-> t[k]]
  PROVE  s \o t = [k \in 1 .. n + m |-> IF k <= n THEN s[k] ELSE t[k - n]]
<1> DEFINE T == {s[k] : k \in 1 .. n} \union {t[k] : k \in 1 .. m}
<1>1. s \in Seq(T) /\ Len(s) = n
  OBVIOUS
<1>2. t \in Seq(T) /\ Len(t) = m
  OBVIOUS
<1> HIDE DEF T
<1>3. /\ s \o t \in Seq(T) /\ Len(s \o t) = n + m
      /\ \A k \in 1 .. n + m : (s \o t)[k] = IF k <= n THEN s[k] ELSE t[k - n]
  BY <1>1, <1>2, ConcatProperties
<1> DEFINE u == s \o t
<1>4. u \in Seq(T) /\ Len(u) = n + m
  BY <1>3
<1>5. \A k \in 1 .. n + m : u[k] = IF k <= n THEN s[k] ELSE t[k - n]
  BY <1>3
<1> HIDE DEF u
<1>6. u = [k \in 1 .. n + m |-> u[k]]
  BY <1>4
<1> QED BY <1>5, <1>6 DEF u

----------------------------------------------------------------------------
(* Chunks *)

\* A file, a compressed resource of it that lies within the file, and a chunk.
InFile(file, res) ==
  /\ file \in Files /\ res \in Resources[file] /\ res.compressed
  /\ res.offset + res.zlen <= Len(Image[file])

LEMMA ResourceTypes ==
  ASSUME NEW file \in Files, NEW res \in Resources[file]
  PROVE  /\ res.offset \in Nat /\ res.len \in Nat /\ res.zlen \in Nat
         /\ res.compressed \in BOOLEAN
BY WimTypes

LEMMA RequestTypes ==
  ASSUME NEW r \in Requests
  PROVE  /\ r.file \in Files /\ r.resource \in Resources[r.file]
         /\ r.offset \in Nat /\ r.len \in Nat
BY WimTypes

\* The number of chunks, and the table that lists all of them but the first.
LEMMA ChunkCount ==
  ASSUME NEW file \in Files, NEW res \in Resources[file], res.len > 0
  PROVE  /\ Chunks(res) \in Nat \ {0}
         /\ WIM_CHUNK_LEN * (Chunks(res) - 1) < res.len
         /\ res.len <= WIM_CHUNK_LEN * Chunks(res)
         /\ OffsetLen(res) \in {1, 2} /\ ChunksLen(res) \in Nat
<1>1. WIM_CHUNK_LEN \in Nat \ {0} /\ res.len \in Nat \ {0}
  BY WimTypes, ResourceTypes
<1>2. /\ Chunks(res) \in Nat \ {0}
      /\ WIM_CHUNK_LEN * (Chunks(res) - 1) < res.len
      /\ res.len <= WIM_CHUNK_LEN * Chunks(res)
  BY <1>1, RoundedUp DEF Chunks
<1>3. OffsetLen(res) \in {1, 2}
  BY DEF OffsetLen
<1>4. ChunksLen(res) \in Nat
  BY <1>2, <1>3 DEF ChunksLen
<1> QED BY <1>2, <1>3, <1>4

\* An offset that wim_chunk_offset returns lies within the resource.
LEMMA ChunkOffset ==
  ASSUME NEW file, NEW res, InFile(file, res), res.len > 0, NEW c \in Nat,
         wim_chunk_offset(file, res, c) # Failed
  PROVE  wim_chunk_offset(file, res, c) \in 0 .. res.zlen
<1>1. /\ file \in Files /\ res \in Resources[file] /\ res.compressed
      /\ res.offset + res.zlen <= Len(Image[file])
  BY DEF InFile
<1>2. /\ Chunks(res) \in Nat \ {0} /\ ChunksLen(res) \in Nat
      /\ res.zlen \in Nat /\ res.len \in Nat
  BY <1>1, ChunkCount, ResourceTypes
<1>3. ChunksLen(res) <= res.zlen
  BY <1>2 DEF wim_chunk_offset
<1> DEFINE v == OffsetValue(TableEntry(file, res, c))
<1>4. CASE c = 0
  BY <1>2, <1>3, <1>4 DEF wim_chunk_offset
<1>5. CASE c # 0 /\ c >= Chunks(res)
  BY <1>2, <1>3, <1>5 DEF wim_chunk_offset
<1>6. CASE c # 0 /\ ~(c >= Chunks(res))
  <2>1. v \in Nat
    <3>1. c \in 1 .. Chunks(res) - 1
      BY <1>2, <1>6
    <3> QED BY <1>1, <1>3, <3>1, TablesHoldNumbers
  <2>2. wim_chunk_offset(file, res, c)
          = IF ChunksLen(res) + v > res.zlen THEN Failed ELSE ChunksLen(res) + v
    BY <1>2, <1>3, <1>6 DEF wim_chunk_offset
  <2> HIDE DEF v
  <2> QED BY <1>2, <2>1, <2>2
<1> QED BY <1>4, <1>5, <1>6

\* All chunks are full except the last, which ends with the resource.
LEMMA ChunkIsExpected ==
  ASSUME NEW file \in Files, NEW res \in Resources[file], res.len > 0,
         NEW c \in 0 .. Chunks(res) - 1
  PROVE  /\ expected_out_len(res, c) = OriginalLen(res, c)
         /\ OriginalLen(res, c) \in 1 .. WIM_CHUNK_LEN
<1>1. WIM_CHUNK_LEN \in Nat \ {0} /\ res.len \in Nat \ {0}
  BY WimTypes, ResourceTypes
<1>2. /\ Chunks(res) \in Nat \ {0}
      /\ WIM_CHUNK_LEN * (Chunks(res) - 1) < res.len
      /\ res.len <= WIM_CHUNK_LEN * Chunks(res)
  BY ChunkCount
<1>3. (-res.len) % WIM_CHUNK_LEN = WIM_CHUNK_LEN * Chunks(res) - res.len
  BY <1>1, <1>2, Padding
<1>4. CASE c = Chunks(res) - 1
  <2>1. expected_out_len(res, c) = WIM_CHUNK_LEN - ((-res.len) % WIM_CHUNK_LEN)
    BY <1>2, <1>4 DEF expected_out_len
  <2>2. WIM_CHUNK_LEN * c = WIM_CHUNK_LEN * Chunks(res) - WIM_CHUNK_LEN
    BY <1>1, <1>2, <1>4, SMTT(30)
  <2>3. WIM_CHUNK_LEN * (Chunks(res) - 1) = WIM_CHUNK_LEN * Chunks(res) - WIM_CHUNK_LEN
    BY <1>1, <1>2
  <2>4. expected_out_len(res, c) = res.len - WIM_CHUNK_LEN * c
    BY <1>1, <1>2, <1>3, <2>1, <2>2
  <2>5. WIM_CHUNK_LEN * c \in Int /\ WIM_CHUNK_LEN * Chunks(res) \in Int
    BY <1>1, <1>2
  <2>6. res.len - WIM_CHUNK_LEN * c \in 1 .. WIM_CHUNK_LEN
    BY <1>1, <1>2, <2>2, <2>3, <2>5
  <2> QED BY <1>4, <2>4, <2>6 DEF OriginalLen
<1>5. CASE c # Chunks(res) - 1
  <2>1. expected_out_len(res, c) = WIM_CHUNK_LEN
    BY <1>2, <1>5 DEF expected_out_len
  <2>2. OriginalLen(res, c) = WIM_CHUNK_LEN
    BY <1>5 DEF OriginalLen
  <2> QED BY <1>1, <2>1, <2>2
<1> QED BY <1>4, <1>5

LEMMA ExpectedLength ==
  ASSUME NEW file \in Files, NEW res \in Resources[file], NEW pos \in Nat, pos < res.len,
         NEW c, c = pos \div WIM_CHUNK_LEN
  PROVE  /\ c \in Nat /\ c \in 0 .. res.len \div WIM_CHUNK_LEN
         /\ c \in 0 .. Chunks(res) - 1
         /\ expected_out_len(res, c) \in 1 .. WIM_CHUNK_LEN
         /\ \/ WIM_CHUNK_LEN * c + expected_out_len(res, c) = res.len
            \/ expected_out_len(res, c) = WIM_CHUNK_LEN
<1>1. WIM_CHUNK_LEN \in Nat \ {0} /\ res.len \in Nat \ {0} /\ res.len > 0
  BY WimTypes, ResourceTypes
<1>2. Chunks(res) \in Nat \ {0} /\ res.len <= WIM_CHUNK_LEN * Chunks(res)
  BY <1>1, ChunkCount
<1>3. c \in Nat /\ c <= Chunks(res) - 1 /\ c \in 0 .. res.len \div WIM_CHUNK_LEN
  BY <1>1, <1>2, ChunkOf
<1>4. c \in 0 .. Chunks(res) - 1
  BY <1>2, <1>3
<1>5. /\ expected_out_len(res, c) = OriginalLen(res, c)
      /\ OriginalLen(res, c) \in 1 .. WIM_CHUNK_LEN
  BY <1>1, <1>4, ChunkIsExpected
<1>6. \/ WIM_CHUNK_LEN * c + OriginalLen(res, c) = res.len
      \/ OriginalLen(res, c) = WIM_CHUNK_LEN
  <2>1. CASE c = Chunks(res) - 1
    <3>1. OriginalLen(res, c) = res.len - WIM_CHUNK_LEN * c
      BY <2>1 DEF OriginalLen
    <3>2. WIM_CHUNK_LEN * c \in Int
      BY <1>1, <1>3
    <3> QED BY <1>1, <3>1, <3>2
  <2>2. CASE c # Chunks(res) - 1
    BY <2>2 DEF OriginalLen
  <2> QED BY <2>1, <2>2
<1> QED BY <1>3, <1>4, <1>5, <1>6

\* A chunk that can be read has the length that is expected of it.
LEMMA ChunkLength ==
  ASSUME NEW file, NEW res, InFile(file, res), NEW pos \in Nat, pos < res.len,
         NEW c, c = pos \div WIM_CHUNK_LEN, wim_chunk(file, res, c) # DecompressError
  PROVE  Len(wim_chunk(file, res, c)) = expected_out_len(res, c)
<1> DEFINE from == wim_chunk_offset(file, res, c)
           to   == wim_chunk_offset(file, res, c + 1)
           zbuf == Read(file, res.offset + from, to - from)
<1>1. /\ file \in Files /\ res \in Resources[file] /\ res.compressed
      /\ res.offset + res.zlen <= Len(Image[file])
  BY DEF InFile
<1>2. /\ res.len \in Nat \ {0} /\ res.offset \in Nat /\ res.zlen \in Nat
  BY <1>1, ResourceTypes
<1>3. /\ c \in Nat /\ c \in 0 .. res.len \div WIM_CHUNK_LEN
      /\ expected_out_len(res, c) \in Nat \ {0}
  BY <1>1, ExpectedLength
<1>4. from # Failed /\ to # Failed
  BY DEF wim_chunk
<1>5. from \in Nat /\ to \in Nat
  <2>1. from \in 0 .. res.zlen
    BY <1>2, <1>3, <1>4, ChunkOffset
  <2>2. c + 1 \in Nat
    BY <1>3
  <2>3. to \in 0 .. res.zlen
    BY <1>2, <1>4, <2>2, ChunkOffset
  <2> QED BY <1>2, <2>1, <2>3
<1>6. CASE to - from = expected_out_len(res, c)
  <2>1. wim_chunk(file, res, c) = zbuf
    BY <1>4, <1>6 DEF wim_chunk
  <2> DEFINE at == res.offset + from
             m  == to - from
  <2>2. at \in Nat /\ m \in Nat
    BY <1>2, <1>3, <1>5, <1>6
  <2>3. zbuf = SubSeq(Image[file], at + 1, at + m)
    BY DEF Read
  <2> HIDE DEF at, zbuf
  <2>4. Len(zbuf) = m
    <3> HIDE DEF m
    <3> QED BY <2>2, <2>3, Part
  <2> QED BY <1>6, <2>1, <2>4
<1>7. CASE to - from # expected_out_len(res, c)
  BY <1>4, <1>7 DEF wim_chunk
<1> QED BY <1>6, <1>7

\* A position of a resource lies within its chunk.
LEMMA InChunk ==
  ASSUME NEW file \in Files, NEW res \in Resources[file], NEW pos \in Nat, pos < res.len,
         NEW c, c = pos \div WIM_CHUNK_LEN
  PROVE  (pos % WIM_CHUNK_LEN) + 1 \in 1 .. expected_out_len(res, c)
<1> DEFINE w == WIM_CHUNK_LEN
           e == expected_out_len(res, c)
<1>1. w \in Nat \ {0} /\ res.len \in Nat
  BY WimTypes, ResourceTypes
<1>2. c \in Int /\ pos % w \in 0 .. w - 1 /\ pos = w * c + (pos % w)
  BY <1>1, DivMod
<1>3. e \in 1 .. w /\ (w * c + e = res.len \/ e = w)
  BY ExpectedLength
<1>4. w * c \in Int
  BY <1>1, <1>2
<1> HIDE DEF w, e
<1>5. (pos % w) + 1 \in 1 .. e
  BY <1>1, <1>2, <1>3, <1>4
<1> QED BY <1>5 DEF w, e

----------------------------------------------------------------------------
(* What a WIM writer stored *)

\* The number that is written into an entry of the table is read from it.
LEMMA EntryIsRead ==
  ASSUME NEW res, NEW n \in Nat
  PROVE  OffsetValue(WrittenEntry(res, n)) = n
<1>1. UINT32 \in Nat \ {0}
  BY WimTypes
<1>2. n = UINT32 * (n \div UINT32) + (n % UINT32) /\ n % UINT32 \in Int /\ n \div UINT32 \in Int
  BY <1>1, DivMod
<1> DEFINE lo == n % UINT32
           hi == n \div UINT32
<1>3. n = UINT32 * hi + lo /\ lo \in Int /\ hi \in Int
  BY <1>2
<1> HIDE DEF lo, hi
<1>4. CASE OffsetLen(res) = 2
  <2>1. WrittenEntry(res, n) = <<[number |-> lo], [number |-> hi]>>
    BY <1>4 DEF WrittenEntry, lo, hi
  <2>2. OffsetValue(WrittenEntry(res, n)) = lo + UINT32 * hi
    BY <2>1 DEF OffsetValue
  <2>3. UINT32 * hi \in Int
    BY <1>1, <1>3
  <2> QED BY <1>3, <2>2, <2>3
<1>5. CASE OffsetLen(res) # 2
  <2>1. WrittenEntry(res, n) = <<[number |-> n]>>
    BY <1>5 DEF WrittenEntry
  <2> QED BY <2>1 DEF OffsetValue
<1> QED BY <1>4, <1>5

\* Where a chunk starts according to the table is where wim_chunk_offset finds it.
LEMMA StartIsFound ==
  ASSUME NEW file \in Files, NEW res \in Resources[file], res.len > 0,
         ChunksLen(res) <= res.zlen,
         NEW c \in 0 .. Chunks(res), NEW n \in 0 .. res.zlen, StartsAt(file, res, c, n)
  PROVE  wim_chunk_offset(file, res, c) = n
<1>1. /\ Chunks(res) \in Nat \ {0} /\ ChunksLen(res) \in Nat
      /\ res.zlen \in Nat /\ res.len \in Nat
  BY ChunkCount, ResourceTypes
<1>2. ~(res.len = 0) /\ ~(ChunksLen(res) > res.zlen)
  BY <1>1
<1>3. CASE c = 0 /\ n = ChunksLen(res)
  BY <1>2, <1>3 DEF wim_chunk_offset
<1>4. CASE c = Chunks(res) /\ n = res.zlen
  <2>1. ~(c = 0) /\ c >= Chunks(res)
    BY <1>1, <1>4
  <2> QED BY <1>2, <1>4, <2>1 DEF wim_chunk_offset
<1>5. CASE /\ c \in 1 .. Chunks(res) - 1 /\ n >= ChunksLen(res)
           /\ TableEntry(file, res, c) = WrittenEntry(res, n - ChunksLen(res))
  <2>1. ~(c = 0) /\ ~(c >= Chunks(res)) /\ n - ChunksLen(res) \in Nat
    BY <1>1, <1>5
  <2>2. OffsetValue(TableEntry(file, res, c)) = n - ChunksLen(res)
    BY <1>5, <2>1, EntryIsRead
  <2>3. ChunksLen(res) + OffsetValue(TableEntry(file, res, c)) = n /\ ~(n > res.zlen)
    BY <1>1, <2>2
  <2> QED BY <1>2, <2>1, <2>3 DEF wim_chunk_offset
<1> QED BY <1>3, <1>4, <1>5 DEF StartsAt

\* A chunk of a resource whose original is known is read as it was given to the
\* writer, or not at all.
LEMMA ChunkIsOriginal ==
  ASSUME NEW file \in Files, NEW res \in DOMAIN Original[file], InFile(file, res),
         res.len > 0, NEW c \in 0 .. Chunks(res) - 1,
         wim_chunk(file, res, c) # DecompressError
  PROVE  wim_chunk(file, res, c) = OriginalChunk(file, res, c)
<1> DEFINE e == OriginalLen(res, c)
           begin == wim_chunk_offset(file, res, c)
           end == wim_chunk_offset(file, res, c + 1)
<1>1. /\ res \in Resources[file] /\ res.compressed /\ IsThere(file, res)
      /\ res.offset \in Nat /\ res.zlen \in Nat /\ res.len \in Nat
  BY ResourceTypes DEF InFile, IsThere
<1>2. ChunksLen(res) <= res.zlen /\ (IsStored(file, res, c) \/ DamageShows(file, res, c))
  BY <1>1, WriterAssumption
<1>3. Chunks(res) \in Nat \ {0} /\ ChunksLen(res) \in Nat
  BY <1>1, ChunkCount
<1>4. expected_out_len(res, c) = e /\ e \in Nat
  BY <1>1, WimTypes, ChunkIsExpected
<1>5. c \in 0 .. Chunks(res) /\ c + 1 \in 0 .. Chunks(res) /\ c \in Nat
  BY <1>3
<1>6. begin # Failed /\ end # Failed
  BY DEF wim_chunk
<1> HIDE DEF e
<1>7. ASSUME NEW from \in 0 .. res.zlen, NEW to \in 0 .. res.zlen, from <= to,
             StartsAt(file, res, c, from), StartsAt(file, res, c + 1, to)
      PROVE  wim_chunk(file, res, c)
               = LET stored == Read(file, res.offset + from, to - from)
                 IN  IF to - from = e THEN stored ELSE Decompress(Scheme[file], stored)
  <2>1. begin = from
    BY <1>1, <1>2, <1>5, <1>7, StartIsFound
  <2>2. end = to
    BY <1>1, <1>2, <1>5, <1>7, StartIsFound
  <2> QED BY <1>4, <1>6, <2>1, <2>2 DEF wim_chunk
<1>8. CASE IsStored(file, res, c)
  <2>1. PICK from \in 0 .. res.zlen, to \in 0 .. res.zlen :
          /\ from <= to /\ StartsAt(file, res, c, from) /\ StartsAt(file, res, c + 1, to)
          /\ LET stored == Read(file, res.offset + from, to - from)
             IN  \/ stored = OriginalChunk(file, res, c)
                 \/ /\ to - from < e
                    /\ Decompress(Scheme[file], stored) = OriginalChunk(file, res, c)
    BY <1>8 DEF IsStored, e
  <2> DEFINE at == res.offset + from
             m  == to - from
             stored == Read(file, at, m)
  <2>2. at \in Nat /\ m \in Nat
    BY <1>1, <2>1
  <2> HIDE DEF at, m
  <2>3. Len(stored) = m
    BY <2>2, Part DEF Read
  <2> HIDE DEF stored
  <2>4. wim_chunk(file, res, c) = IF m = e THEN stored ELSE Decompress(Scheme[file], stored)
    BY <1>7, <2>1 DEF at, m, stored
  <2>5. \/ stored = OriginalChunk(file, res, c)
        \/ m < e /\ Decompress(Scheme[file], stored) = OriginalChunk(file, res, c)
    BY <2>1 DEF at, m, stored
  <2>6. Len(OriginalChunk(file, res, c)) = e
    <3>1. WIM_CHUNK_LEN * c \in Nat
      BY <1>5, WimTypes
    <3> QED BY <1>4, <3>1, Part DEF OriginalChunk, e
  <2> QED BY <1>4, <2>2, <2>3, <2>4, <2>5, <2>6
<1>9. CASE DamageShows(file, res, c)
  <2>1. CASE \E next \in {c, c + 1} \cap 1 .. Chunks(res) - 1 :
               ChunksLen(res) + OffsetValue(TableEntry(file, res, next)) > res.zlen
    <3>1. PICK next \in {c, c + 1} \cap 1 .. Chunks(res) - 1 :
            ChunksLen(res) + OffsetValue(TableEntry(file, res, next)) > res.zlen
      BY <2>1
    <3>2. /\ ~(res.len = 0) /\ ~(ChunksLen(res) > res.zlen) /\ ~(next = 0)
          /\ ~(next >= Chunks(res))
      BY <1>1, <1>2, <1>3, <3>1
    <3>3. wim_chunk_offset(file, res, next) = Failed
      BY <3>1, <3>2 DEF wim_chunk_offset
    <3> QED BY <1>6, <3>1, <3>3
  <2>2. CASE \E from, to \in 0 .. res.zlen :
               /\ from <= to /\ StartsAt(file, res, c, from) /\ StartsAt(file, res, c + 1, to)
               /\ to - from # e
               /\ LET out == Decompress(Scheme[file], Read(file, res.offset + from, to - from))
                  IN  \/ out = DecompressError \/ Scheme[file] \notin {"lzx", "xpress"}
                      \/ Len(out) # e
    <3>1. PICK from \in 0 .. res.zlen, to \in 0 .. res.zlen :
            /\ from <= to /\ StartsAt(file, res, c, from) /\ StartsAt(file, res, c + 1, to)
            /\ to - from # e
            /\ LET out == Decompress(Scheme[file], Read(file, res.offset + from, to - from))
               IN  \/ out = DecompressError \/ Scheme[file] \notin {"lzx", "xpress"}
                   \/ Len(out) # e
      BY <2>2
    <3>2. begin = from
      BY <1>1, <1>2, <1>5, <3>1, StartIsFound
    <3>3. end = to
      BY <1>1, <1>2, <1>5, <3>1, StartIsFound
    <3>4. wim_chunk(file, res, c) = DecompressError
      BY <1>4, <3>1, <3>2, <3>3 DEF wim_chunk
    <3> QED BY <3>4
  <2> QED BY <1>9, <2>1, <2>2 DEF DamageShows, e
<1> QED BY <1>2, <1>8, <1>9

\* So is each of its cells.
LEMMA CellIsOriginal ==
  ASSUME NEW file \in Files, NEW res \in DOMAIN Original[file], InFile(file, res),
         NEW pos \in Nat, pos < res.len,
         wim_chunk(file, res, pos \div WIM_CHUNK_LEN) # DecompressError
  PROVE  ResourceCell(file, res, pos) = Original[file][res][pos + 1]
<1> DEFINE w == WIM_CHUNK_LEN
           c == pos \div w
           a == pos % w
           e == OriginalLen(res, c)
           s == Original[file][res]
<1>1. res \in Resources[file] /\ res.len \in Nat /\ res.len > 0 /\ w \in Nat \ {0}
  BY ResourceTypes, WimTypes DEF InFile
<1>2. c \in Nat /\ c \in 0 .. Chunks(res) - 1
  BY <1>1, ExpectedLength
<1>3. expected_out_len(res, c) = e /\ e \in Nat
  BY <1>1, <1>2, ChunkIsExpected
<1>4. a + 1 \in 1 .. e
  <2>1. a + 1 \in 1 .. expected_out_len(res, c)
    BY <1>1, InChunk
  <2> QED BY <1>3, <2>1
<1>5. pos = w * c + a /\ a \in Int
  BY <1>1, DivMod
<1>6. wim_chunk(file, res, c) = OriginalChunk(file, res, c)
  BY <1>1, <1>2, ChunkIsOriginal
<1>7. ResourceCell(file, res, pos) = OriginalChunk(file, res, c)[a + 1]
  BY <1>6 DEF ResourceCell
<1>8. w * c \in Nat
  BY <1>1, <1>2
<1>9. OriginalChunk(file, res, c) = [k \in 1 .. e |-> s[w * c + k]]
  <2> DEFINE b == w * c
  <2>1. b \in Nat
    BY <1>8
  <2> HIDE DEF s, b, e
  <2>2. SubSeq(s, b + 1, b + e) = [k \in 1 .. e |-> s[b + k]]
    BY <1>3, <2>1, Part
  <2> QED BY <2>2 DEF OriginalChunk, s, b, e
<1>10. w * c + (a + 1) = pos + 1
  BY <1>5, <1>8
<1> HIDE DEF w, c, a, e, s
<1>11. ResourceCell(file, res, pos) = s[pos + 1]
  BY <1>4, <1>7, <1>9, <1>10
<1> QED BY <1>11 DEF s

----------------------------------------------------------------------------
(* The inductive invariant *)

\* What a call that is being served has done: the request passed the sanity
\* checks, and every position before offset was in a chunk that could be read
\* and was copied.
Serving ==
  /\ request \in Requests /\ ~TooShort(request) /\ request.resource.compressed
  /\ offset \in Nat /\ len \in Nat /\ request.offset <= offset
  /\ offset + len = request.offset + request.len
  /\ data = [k \in 1 .. offset - request.offset |->
               ResourceCell(request.file, request.resource, request.offset + k - 1)]
  /\ \A pos \in request.offset .. offset - 1 :
       wim_chunk(request.file, request.resource, pos \div WIM_CHUNK_LEN) # DecompressError

IInv ==
  /\ pc \in {"idle", "loop", "copy"}
  /\ CacheIsCoherent
  /\ pc # "idle" => Serving
  /\ pc = "copy" => Cached /\ len # 0

LEMMA InitIInv == Init => IInv
<1> SUFFICES ASSUME Init PROVE IInv
  OBVIOUS
<1>1. CacheIsCoherent
  BY WimTypes DEF Init, CacheIsCoherent
<1> QED BY <1>1 DEF Init, IInv

\* A call that is being served is about a resource that lies within its file, and
\* what is left of it lies within the resource.
LEMMA ServingFacts ==
  ASSUME Serving
  PROVE  /\ request.file \in Files /\ request.resource \in Resources[request.file]
         /\ request.resource.compressed
         /\ InFile(request.file, request.resource)
         /\ request.offset \in Nat /\ request.len \in Nat
         /\ request.resource.len \in Nat /\ request.resource.offset \in Nat
         /\ offset + len <= request.resource.len
         /\ len # 0 => offset < request.resource.len
<1>1. /\ request \in Requests /\ ~TooShort(request) /\ request.resource.compressed
      /\ offset \in Nat /\ len \in Nat /\ offset + len = request.offset + request.len
  BY DEF Serving
<1>2. /\ request.file \in Files /\ request.resource \in Resources[request.file]
      /\ request.offset \in Nat /\ request.len \in Nat
  BY <1>1, RequestTypes
<1>3. /\ request.resource.len \in Nat /\ request.resource.offset \in Nat
      /\ request.resource.zlen \in Nat
  BY <1>2, ResourceTypes
<1>4. request.offset + request.len <= request.resource.len
  BY <1>1, <1>2, <1>3 DEF TooShort
<1>5. request.resource.offset + request.resource.zlen <= Len(Image[request.file])
      \/ request.resource.offset + request.resource.zlen > Len(Image[request.file])
  <2>1. Len(Image[request.file]) \in Nat
    BY <1>2, WimTypes
  <2> QED BY <2>1, <1>3
<1>6. InFile(request.file, request.resource)
  BY <1>1, <1>2, <1>5 DEF InFile, TooShort
<1> QED BY <1>1, <1>2, <1>3, <1>4, <1>6

\* A call begins.
LEMMA BeginStep ==
  ASSUME IInv, NEW r \in Requests, wim_read_begin(r)
  PROVE  IInv'
<1>1. /\ ~TooShort(r) /\ r.resource.compressed
      /\ request' = r /\ offset' = r.offset /\ len' = r.len /\ data' = <<>>
      /\ pc' = "loop"
      /\ UNCHANGED <<cached_file, cached_resource_offset, cached_chunk, wim_chunk_buffer>>
  BY DEF wim_read_begin, cache
<1>2. r.offset \in Nat /\ r.len \in Nat
  BY RequestTypes
<1>3. CacheIsCoherent'
  BY <1>1 DEF IInv, CacheIsCoherent
<1>4. Serving'
  <2>1. 1 .. r.offset - r.offset = {} /\ r.offset .. r.offset - 1 = {}
    BY <1>2
  <2>2. data' = [k \in 1 .. r.offset - r.offset |->
                  ResourceCell(r.file, r.resource, r.offset + k - 1)]
    BY <1>1, <2>1
  <2>3. TooShort(request)' = TooShort(r)
    BY <1>1 DEF TooShort
  <2> QED BY <1>1, <1>2, <2>1, <2>2, <2>3 DEF Serving
<1> QED BY <1>1, <1>3, <1>4 DEF IInv

\* A chunk is read into the buffer: the keys and the buffer change together.
LEMMA ChunkReadStep ==
  ASSUME IInv, ChunkRead
  PROVE  IInv'
<1> DEFINE f == request.file
           s == request.resource
           cells == wim_chunk(f, s, chunk)
<1>1. /\ pc = "loop" /\ len # 0 /\ cells # DecompressError
      /\ wim_chunk_buffer' = Overwrite(wim_chunk_buffer, cells)
      /\ cached_file' = f /\ cached_resource_offset' = s.offset /\ cached_chunk' = chunk
      /\ pc' = "copy" /\ UNCHANGED <<request, offset, len, data, rc>>
  BY DEF ChunkRead
<1>2. Serving
  BY <1>1 DEF IInv
<1>3. /\ f \in Files /\ s \in Resources[f] /\ s.compressed /\ InFile(f, s)
      /\ offset \in Nat /\ offset < s.len
  BY <1>1, <1>2, ServingFacts DEF Serving
<1>4. /\ Len(cells) = expected_out_len(s, chunk)
      /\ expected_out_len(s, chunk) \in 1 .. WIM_CHUNK_LEN
  BY <1>1, <1>3, ChunkLength, ExpectedLength DEF chunk
<1>5. CacheIsCoherent'
  <2> SUFFICES ASSUME NEW file \in Files, NEW res \in Resources[file], res.compressed,
                      cached_file' = file, cached_resource_offset' = res.offset
               PROVE  /\ wim_chunk(file, res, cached_chunk') # DecompressError
                      /\ \A k \in 1 .. Len(wim_chunk(file, res, cached_chunk')) :
                           wim_chunk_buffer'[k] = wim_chunk(file, res, cached_chunk')[k]
    BY DEF CacheIsCoherent
  <2>1. file = f /\ res = s
    BY <1>1, <1>3, OneHeaderPerOffset
  <2>2. wim_chunk(file, res, cached_chunk') = cells
    BY <1>1, <2>1
  <2>3. ASSUME NEW k \in 1 .. Len(cells) PROVE wim_chunk_buffer'[k] = cells[k]
    <3> HIDE DEF cells
    <3>1. k \in 1 .. WIM_CHUNK_LEN /\ k <= Len(cells)
      BY <1>4, WimTypes
    <3> QED BY <1>1, <3>1 DEF Overwrite
  <2> QED BY <1>1, <2>2, <2>3
<1>6. Serving'
  BY <1>1, <1>2 DEF Serving, TooShort
<1>7. Cached'
  BY <1>1 DEF Cached, chunk
<1> QED BY <1>1, <1>5, <1>6, <1>7 DEF IInv

\* The cells that one pass of the loop copies.
LEMMA CopyFacts ==
  ASSUME IInv, CopyFragment
  PROVE  /\ frag_len \in Nat \ {0} /\ frag_len <= len /\ offset' = offset + frag_len
         /\ len' \in Nat /\ offset' + len' = offset + len
         /\ data' = [k \in 1 .. offset' - request.offset |->
                       ResourceCell(request.file, request.resource, request.offset + k - 1)]
         /\ \A pos \in offset .. offset' - 1 :
              wim_chunk(request.file, request.resource, pos \div WIM_CHUNK_LEN)
                # DecompressError
<1> DEFINE f == request.file
           s == request.resource
           w == WIM_CHUNK_LEN
           n == offset - request.offset
           m == frag_len
           a == skip_len
           cells == wim_chunk(f, s, chunk)
           C(pos) == ResourceCell(f, s, pos)
<1>1. /\ pc = "copy" /\ Serving /\ Cached /\ len # 0 /\ CacheIsCoherent
      /\ data' = data \o SubSeq(wim_chunk_buffer, a + 1, a + m)
      /\ offset' = offset + m /\ len' = len - m
  BY DEF CopyFragment, IInv
<1>2. /\ f \in Files /\ s \in Resources[f] /\ s.compressed /\ InFile(f, s)
      /\ request.offset \in Nat /\ s.len \in Nat
      /\ offset \in Nat /\ len \in Nat /\ request.offset <= offset
      /\ offset + len <= s.len
      /\ data = [k \in 1 .. n |-> C(request.offset + k - 1)]
  BY <1>1, ServingFacts DEF Serving
<1>3. w \in Nat \ {0} /\ chunk \in Int /\ a \in 0 .. w - 1 /\ offset = w * chunk + a
  BY <1>2, WimTypes, DivMod DEF chunk, skip_len
<1>4. m \in Nat \ {0} /\ m <= len /\ a + m <= w
  BY <1>1, <1>2, <1>3 DEF frag_len
<1>5. cells # DecompressError /\ \A k \in 1 .. Len(cells) : wim_chunk_buffer[k] = cells[k]
  BY <1>1, <1>2 DEF Cached, CacheIsCoherent
<1>6. ASSUME NEW i \in 0 .. m - 1
      PROVE  /\ (offset + i) \div w = chunk
             /\ C(offset + i) = wim_chunk_buffer[a + i + 1]
  <2> HIDE DEF w, m, a
  <2>1. w * chunk \in Int /\ offset + i \in Nat
    BY <1>2, <1>3, <1>4
  <2>2. w * chunk <= offset + i /\ offset + i < w * chunk + w
    BY <1>3, <1>4, <2>1
  <2>3. (offset + i) \div w = chunk /\ (offset + i) % w = a + i
    <3> DEFINE p == offset + i
    <3>1. p \in Int /\ w * chunk <= p /\ p < w * chunk + w
      BY <2>1, <2>2
    <3> HIDE DEF p
    <3>2. p \div w = chunk /\ p % w = p - w * chunk
      BY <1>3, <3>1, QuotientIs
    <3>3. (offset + i) \div w = chunk /\ (offset + i) % w = (offset + i) - w * chunk
      BY <3>2 DEF p
    <3> QED BY <1>2, <1>3, <1>4, <2>1, <3>3
  <2>4. offset + i < s.len
    BY <1>2, <1>4
  <2>5. a + i + 1 \in 1 .. expected_out_len(s, chunk)
    BY <1>2, <2>1, <2>3, <2>4, InChunk DEF w
  <2>6. Len(cells) = expected_out_len(s, chunk)
    BY <1>2, <1>5, <2>1, <2>3, <2>4, ChunkLength DEF w
  <2>7. wim_chunk_buffer[a + i + 1] = cells[a + i + 1]
    BY <1>5, <2>5, <2>6
  <2> QED BY <2>3, <2>7 DEF ResourceCell, w
<1>7. \A pos \in offset .. offset' - 1 : wim_chunk(f, s, pos \div w) # DecompressError
  <2> SUFFICES ASSUME NEW pos \in offset .. offset' - 1
               PROVE  wim_chunk(f, s, pos \div w) # DecompressError
    OBVIOUS
  <2> DEFINE i == pos - offset
  <2>1. i \in 0 .. m - 1 /\ pos = offset + i
    <3> HIDE DEF m
    <3> QED BY <1>1, <1>2, <1>4
  <2> HIDE DEF i
  <2>2. pos \div w = chunk
    BY <1>6, <2>1
  <2> QED BY <1>5, <2>2
<1>8. data' = [k \in 1 .. offset' - request.offset |-> C(request.offset + k - 1)]
  <2> DEFINE t == SubSeq(wim_chunk_buffer, a + 1, a + m)
  <2> HIDE DEF C, m, a
  <2>1. /\ a \in Nat /\ m \in Nat /\ n \in Nat /\ offset' - request.offset = n + m
        /\ offset = request.offset + n
    BY <1>1, <1>2, <1>3, <1>4
  <2>2. t = [k \in 1 .. m |-> wim_chunk_buffer[a + k]]
    BY <2>1, Part
  <2> HIDE DEF t, n
  <2>3. t = [k \in 1 .. m |-> t[k]] /\ data = [k \in 1 .. n |-> data[k]]
    BY <1>2, <2>2
  <2>4. data \o t = [k \in 1 .. n + m |-> IF k <= n THEN data[k] ELSE t[k - n]]
    BY <2>1, <2>3, Appended
  <2>5. ASSUME NEW k \in 1 .. n + m
        PROVE  (IF k <= n THEN data[k] ELSE t[k - n]) = C(request.offset + k - 1)
    <3>1. CASE k <= n
      BY <1>2, <2>1, <3>1
    <3>2. CASE ~(k <= n)
      <4> DEFINE i == k - n - 1
      <4>1. /\ i \in 0 .. m - 1 /\ k - n = i + 1 /\ k - n \in 1 .. m
            /\ a + (k - n) = a + i + 1
        BY <2>1, <3>2
      <4> HIDE DEF i
      <4>2. t[k - n] = wim_chunk_buffer[a + i + 1]
        BY <2>2, <4>1
      <4>3. C(offset + i) = wim_chunk_buffer[a + i + 1]
        BY <1>6, <4>1
      <4>4. offset + i = request.offset + k - 1
        <5>1. request.offset \in Nat
          BY <1>2
        <5> QED BY <5>1, <2>1, <4>1
      <4> QED BY <3>2, <4>2, <4>3, <4>4
    <3> QED BY <3>1, <3>2
  <2>6. data \o t = [k \in 1 .. n + m |-> C(request.offset + k - 1)]
    BY <2>4, <2>5
  <2> QED BY <1>1, <2>1, <2>6 DEF t
<1>9. len' \in Nat /\ offset' + len' = offset + len
  BY <1>1, <1>2, <1>4
<1> QED BY <1>1, <1>4, <1>7, <1>8, <1>9

\* A pass of the loop extends what was copied.
LEMMA CopyFragmentStep ==
  ASSUME IInv, CopyFragment
  PROVE  IInv'
<1>1. /\ pc = "copy" /\ pc' = "loop" /\ Serving /\ UNCHANGED <<request, rc>>
      /\ UNCHANGED <<cached_file, cached_resource_offset, cached_chunk, wim_chunk_buffer>>
  BY DEF CopyFragment, IInv, cache
<1>2. CacheIsCoherent'
  BY <1>1 DEF IInv, CacheIsCoherent
<1>3. /\ frag_len \in Nat \ {0} /\ offset' = offset + frag_len
      /\ len' \in Nat /\ offset' + len' = offset + len
  BY CopyFacts
<1>4. /\ request.offset \in Nat /\ offset \in Nat /\ request.offset <= offset
      /\ offset + len = request.offset + request.len
      /\ \A pos \in request.offset .. offset - 1 :
           wim_chunk(request.file, request.resource, pos \div WIM_CHUNK_LEN)
             # DecompressError
  BY <1>1, ServingFacts DEF Serving
<1>5. ASSUME NEW pos \in request.offset .. offset' - 1
      PROVE  wim_chunk(request.file, request.resource, pos \div WIM_CHUNK_LEN)
               # DecompressError
  <2>1. CASE pos < offset
    <3>1. pos \in request.offset .. offset - 1
      BY <1>3, <1>4, <2>1
    <3> QED BY <1>4, <3>1
  <2>2. CASE ~(pos < offset)
    <3>1. pos \in offset .. offset' - 1
      BY <1>3, <1>4, <2>2
    <3> QED BY <3>1, CopyFacts
  <2> QED BY <2>1, <2>2
<1>6. /\ offset' \in Nat /\ request.offset <= offset'
      /\ offset' + len' = request.offset + request.len
  BY <1>3, <1>4
<1>7. data' = [k \in 1 .. offset' - request.offset |->
                ResourceCell(request.file, request.resource, request.offset + k - 1)]
  BY CopyFacts
<1>8. Serving'
  BY <1>1, <1>3, <1>5, <1>6, <1>7 DEF Serving, TooShort
<1> QED BY <1>1, <1>2, <1>8 DEF IInv

LEMMA NextIInv == IInv /\ [Next]_vars => IInv'
<1> SUFFICES ASSUME IInv, [Next]_vars PROVE IInv'
  OBVIOUS
<1>1. CASE \E r \in Requests : wim_read_refuse(r) \/ wim_read_raw(r)
  <2>1. /\ pc = "idle" /\ pc' = "idle"
        /\ UNCHANGED <<cached_file, cached_resource_offset, cached_chunk, wim_chunk_buffer>>
    BY <1>1 DEF wim_read_refuse, wim_read_raw, cache
  <2> QED BY <2>1 DEF IInv, CacheIsCoherent
<1>2. CASE \E r \in Requests : wim_read_begin(r)
  BY <1>2, BeginStep
<1>3. CASE ChunkCached
  <2>1. /\ pc = "loop" /\ len # 0 /\ Cached /\ pc' = "copy"
        /\ UNCHANGED <<cached_file, cached_resource_offset, cached_chunk, wim_chunk_buffer>>
        /\ UNCHANGED <<request, offset, len, data>>
    BY <1>3 DEF ChunkCached, cache
  <2>2. CacheIsCoherent'
    BY <2>1 DEF IInv, CacheIsCoherent
  <2>3. Serving' /\ Cached'
    BY <2>1 DEF IInv, Serving, TooShort, Cached, chunk
  <2> QED BY <2>1, <2>2, <2>3 DEF IInv
<1>4. CASE ChunkRead
  BY <1>4, ChunkReadStep
<1>5. CASE ChunkFailed \/ wim_read_return
  <2>1. /\ pc' = "idle"
        /\ UNCHANGED <<cached_file, cached_resource_offset, cached_chunk, wim_chunk_buffer>>
    BY <1>5 DEF ChunkFailed, wim_read_return, cache
  <2> QED BY <2>1 DEF IInv, CacheIsCoherent
<1>6. CASE CopyFragment
  BY <1>6, CopyFragmentStep
<1>7. CASE UNCHANGED vars
  BY <1>7 DEF vars, IInv, CacheIsCoherent, Serving, TooShort, Cached, chunk
<1> QED BY <1>1, <1>2, <1>3, <1>4, <1>5, <1>6, <1>7 DEF Next, wim_read_step

\* What a call that returned with success has done.
Answered ==
  pc = "idle" /\ rc = 0 =>
    request \in Requests /\ Readable(request) /\ data = Window(request)

\* At the end of the loop the whole window was copied.
LEMMA ReturnFacts ==
  ASSUME IInv, wim_read_return
  PROVE  /\ pc = "loop" /\ pc' = "idle" /\ rc' = 0 /\ request' = request /\ data' = data
         /\ request \in Requests /\ Readable(request) /\ data = Window(request)
<1>1. /\ pc = "loop" /\ pc' = "idle" /\ rc' = 0 /\ request' = request /\ len = 0
      /\ data' = data
  BY DEF wim_read_return
<1>2. Serving
  BY <1>1 DEF IInv
<1>3. /\ request.offset \in Nat /\ request.len \in Nat /\ offset \in Nat
      /\ offset = request.offset + request.len
  BY <1>1, <1>2, ServingFacts DEF Serving
<1>4. Readable(request)
  BY <1>2, <1>3, SMTT(30) DEF Serving, Readable
<1>5. data = Window(request)
  <2>1. offset - request.offset = request.len
    BY <1>3
  <2> QED BY <1>2, <2>1 DEF Serving, Window
<1> QED BY <1>1, <1>2, <1>4, <1>5 DEF Serving

LEMMA NextAnswered ==
  ASSUME IInv, Answered, [Next]_vars
  PROVE  Answered'
<1>1. CASE \E r \in Requests : wim_read_refuse(r)
  BY <1>1 DEF wim_read_refuse, Answered, Failed
<1>2. ASSUME NEW r \in Requests, wim_read_raw(r) PROVE Answered'
  <2>1. request' = r /\ data' = Read(r.file, r.resource.offset + r.offset, r.len)
    BY <1>2 DEF wim_read_raw
  <2>2. Readable(r) /\ Window(r) = Read(r.file, r.resource.offset + r.offset, r.len)
    BY <1>2 DEF wim_read_raw, Readable, Window
  <2>3. Readable(request)' = Readable(r) /\ Window(request)' = Window(r)
    BY <2>1 DEF Readable, Window, TooShort, ResourceCell
  <2> QED BY <2>1, <2>2, <2>3 DEF Answered
<1>3. CASE (\E r \in Requests : wim_read_begin(r)) \/ ChunkCached \/ ChunkRead \/ CopyFragment
  <2>1. pc' # "idle"
    BY <1>3 DEF wim_read_begin, ChunkCached, ChunkRead, CopyFragment
  <2> QED BY <2>1 DEF Answered
<1>4. CASE ChunkFailed
  BY <1>4 DEF ChunkFailed, Answered, Failed
<1>5. CASE wim_read_return
  <2>1. /\ request' = request /\ data' = data /\ request \in Requests
        /\ Readable(request) /\ data = Window(request)
    BY <1>5, ReturnFacts
  <2>2. Readable(request)' = Readable(request) /\ Window(request)' = Window(request)
    BY <2>1 DEF Readable, Window, TooShort, ResourceCell
  <2> QED BY <2>1, <2>2 DEF Answered
<1>6. CASE UNCHANGED vars
  <2>1. request' = request /\ data' = data /\ pc' = pc /\ rc' = rc
    BY <1>6 DEF vars
  <2>2. Readable(request)' = Readable(request) /\ Window(request)' = Window(request)
    BY <2>1 DEF Readable, Window, TooShort, ResourceCell
  <2> QED BY <2>1, <2>2 DEF Answered
<1> QED BY <1>1, <1>2, <1>3, <1>4, <1>5, <1>6 DEF Next, wim_read_step

LEMMA Invariance == Spec => []IInv
  BY InitIInv, NextIInv, PTL DEF Spec

----------------------------------------------------------------------------
(* The theorems *)

\* Whatever was read before, and whatever failed to be read, the statics of
\* wim_read name the chunk that is in wim_chunk_buffer.
THEOREM CacheCoherence == Spec => []CacheIsCoherent
<1>1. IInv => CacheIsCoherent
  BY DEF IInv
<1> QED BY <1>1, Invariance, PTL

\* The while loop of wim_read copies the window it was asked for, in order, without
\* gaps, and never more than the caller asked for.
THEOREM WindowCopied == Spec => []LoopCopiesWindow
<1>1. IInv => LoopCopiesWindow
  <2> SUFFICES ASSUME IInv, pc # "idle" PROVE LoopCopiesWindow
    BY DEF LoopCopiesWindow
  <2> DEFINE n == offset - request.offset
  <2>1. Serving /\ request.offset \in Nat
    BY ServingFacts DEF IInv
  <2>2. /\ len \in Nat /\ n \in Nat /\ offset + len = request.offset + request.len
        /\ data = [k \in 1 .. n |->
                     ResourceCell(request.file, request.resource, request.offset + k - 1)]
    BY <2>1 DEF Serving
  <2> HIDE DEF n
  <2>3. Len(data) = n
    BY <2>2
  <2> QED BY <2>2, <2>3 DEF LoopCopiesWindow, n
<1> QED BY <1>1, Invariance, PTL

\* Every step of wim_read is a step of the reader without memory, or none.
LEMMA StepSimulation ==
  ASSUME IInv, [Next]_vars
  PROVE  [Reader!Next]_(Reader!vars)
<1> USE DEF Reader!Next, Reader!vars, Reader!AnswerAtOnce, Reader!Begin, Reader!Finish,
            Reader!Answer
<1>1. ASSUME NEW r \in Requests, wim_read_refuse(r) PROVE Reader!AnswerAtOnce(r)
  <2>1. ~Readable(r)
    BY <1>1 DEF wim_read_refuse, Readable
  <2> QED BY <1>1, <2>1 DEF wim_read_refuse, Failed
<1>2. ASSUME NEW r \in Requests, wim_read_raw(r) PROVE Reader!AnswerAtOnce(r)
  <2>1. Readable(r) /\ data' = Window(r)
    BY <1>2 DEF wim_read_raw, Readable, Window
  <2> QED BY <1>2, <2>1 DEF wim_read_raw
<1>3. ASSUME NEW r \in Requests, wim_read_begin(r) PROVE Reader!Begin(r)
  BY <1>3 DEF wim_read_begin
<1>4. CASE ChunkCached \/ ChunkRead \/ CopyFragment
  <2>1. pc # "idle" /\ pc' # "idle" /\ request' = request
    BY <1>4 DEF ChunkCached, ChunkRead, CopyFragment
  <2> QED BY <2>1
<1>5. CASE ChunkFailed
  <2>1. /\ pc = "loop" /\ pc' = "idle" /\ rc' = Failed /\ request' = request /\ len # 0
        /\ wim_chunk(request.file, request.resource, chunk) = DecompressError
    BY <1>5 DEF ChunkFailed
  <2>2. Serving
    BY <2>1 DEF IInv
  <2>3. offset \in request.offset .. request.offset + request.len - 1
    <3>1. /\ request.offset \in Nat /\ request.len \in Nat /\ offset \in Nat /\ len \in Nat
          /\ request.offset <= offset /\ offset + len = request.offset + request.len
      BY <2>2, ServingFacts DEF Serving
    <3> QED BY <2>1, <3>1
  <2>4. ~Readable(request)
    BY <2>1, <2>2, <2>3 DEF Readable, Serving, chunk
  <2> QED BY <2>1, <2>4 DEF Failed
<1>6. CASE wim_read_return
  BY <1>6, ReturnFacts
<1>7. CASE UNCHANGED vars
  BY <1>7 DEF vars
<1> QED BY <1>1, <1>2, <1>3, <1>4, <1>5, <1>6, <1>7 DEF Next, wim_read_step

\* The cache of one chunk is invisible to the callers of wim_read: each call is
\* answered as its arguments alone determine, with the window or with a failure.
THEOREM ReaderRefinement == Spec => ImplementsReader
<1>1. Init => Reader!Init
  BY DEF Init, Reader!Init
<1>2. IInv /\ [Next]_vars => [Reader!Next]_(Reader!vars)
  BY StepSimulation
<1> QED BY <1>1, <1>2, Invariance, PTL DEF Spec, ImplementsReader, Reader!Spec

\* The cells of a window that was read with success are those that the writer of
\* the WIM was given.
LEMMA WindowIsOriginal ==
  ASSUME NEW r \in Requests, Readable(r), r.resource \in DOMAIN Original[r.file]
  PROVE  Window(r) = SubSeq(Original[r.file][r.resource], r.offset + 1, r.offset + r.len)
<1> DEFINE file == r.file
           res  == r.resource
           s    == Original[file][res]
           m    == res.len
           a    == r.offset
           n    == r.len
           o    == res.offset
<1>1. file \in Files /\ res \in Resources[file] /\ a \in Nat /\ n \in Nat
  BY RequestTypes
<1>2. o \in Nat /\ m \in Nat /\ res.zlen \in Nat /\ res.compressed \in BOOLEAN
  BY <1>1, ResourceTypes
<1>3. a + n <= m /\ o + res.zlen <= Len(Image[file])
  <2>1. Len(Image[file]) \in Nat
    BY <1>1, WimTypes
  <2> QED BY <1>1, <1>2, <2>1 DEF Readable, TooShort
<1>4. res \in DOMAIN Original[file]
  OBVIOUS
<1>5. ASSUME NEW k \in 1 .. n
      PROVE  /\ a + k - 1 \in Nat /\ a + k - 1 < m /\ a + k - 1 \in a .. a + n - 1
             /\ (a + k - 1) + 1 = a + k /\ a + k \in 1 .. m
  <2>1. PICK x \in Nat, y \in Nat, z \in Nat : x = a /\ y = n /\ z = m
    BY <1>1, <1>2
  <2>2. x + y <= z /\ k \in 1 .. y
    BY <1>3, <2>1
  <2>3. /\ x + k - 1 \in Nat /\ x + k - 1 < z /\ x + k - 1 \in x .. x + y - 1
        /\ (x + k - 1) + 1 = x + k /\ x + k \in 1 .. z
    BY <2>2
  <2> QED BY <2>1, <2>3, Zenon
<1>6. CASE res.compressed
  <2>1. InFile(file, res)
    BY <1>1, <1>3, <1>6 DEF InFile
  <2>2. Window(r) = [k \in 1 .. n |-> ResourceCell(file, res, a + k - 1)]
    BY <1>6 DEF Window
  <2>3. ASSUME NEW k \in 1 .. n
        PROVE  ResourceCell(file, res, a + k - 1) = s[a + k]
    <3> DEFINE pos == a + k - 1
    <3>1. pos \in Nat /\ pos < m /\ pos \in a .. a + n - 1 /\ pos + 1 = a + k
      BY <1>5
    <3>2. wim_chunk(file, res, pos \div WIM_CHUNK_LEN) # DecompressError
      BY <1>6, <3>1 DEF Readable
    <3> HIDE DEF pos
    <3>3. ResourceCell(file, res, pos) = s[pos + 1]
      BY <1>1, <1>4, <2>1, <3>1, <3>2, CellIsOriginal
    <3> QED BY <3>1, <3>3 DEF pos
  <2> HIDE DEF file, res, s, a, n
  <2>4. Window(r) = [k \in 1 .. n |-> s[a + k]]
    BY <2>2, <2>3
  <2>5. SubSeq(s, a + 1, a + n) = [k \in 1 .. n |-> s[a + k]]
    BY <1>1, Part
  <2>6. Window(r) = SubSeq(s, a + 1, a + n)
    BY <2>4, <2>5
  <2> QED BY <2>6 DEF file, res, s, a, n
<1>7. CASE ~res.compressed
  <2> DEFINE image == Image[file]
             b == o + a
  <2>1. s = SubSeq(image, o + 1, o + m)
    BY <1>1, <1>3, <1>4, <1>7, WriterAssumption DEF IsThere, Read
  <2>2. Window(r) = SubSeq(image, b + 1, b + n)
    BY <1>7 DEF Window, Read
  <2> HIDE DEF image, s, m, o, a, n
  <2>3. s = [k \in 1 .. m |-> image[o + k]]
    BY <1>2, <2>1, Part
  <2>4. b \in Nat
    BY <1>1, <1>2
  <2>5. \A k \in 1 .. n : b + k = o + (a + k)
    BY <1>1, <1>2
  <2> HIDE DEF b
  <2>6. Window(r) = [k \in 1 .. n |-> image[b + k]]
    BY <1>1, <2>2, <2>4, Part
  <2>7. ASSUME NEW k \in 1 .. n PROVE image[b + k] = s[a + k]
    BY <1>5, <2>3, <2>5
  <2>8. Window(r) = [k \in 1 .. n |-> s[a + k]]
    BY <2>6, <2>7
  <2>9. SubSeq(s, a + 1, a + n) = [k \in 1 .. n |-> s[a + k]]
    BY <1>1, Part
  <2>10. Window(r) = SubSeq(s, a + 1, a + n)
    BY <2>8, <2>9
  <2> QED BY <2>10 DEF s, a, n
<1> QED BY <1>2, <1>6, <1>7

\* What wim_read returns with success is what the writer of the WIM was given,
\* whatever was read before and whatever parts of the file are damaged.
THEOREM OriginalIsRead == Spec => []ReadsOriginal
<1>1. Init => Answered
  BY DEF Init, Answered, Failed
<1>2. IInv /\ Answered /\ [Next]_vars => Answered'
  BY NextAnswered
<1>3. Answered => ReadsOriginal
  BY WindowIsOriginal DEF Answered, ReadsOriginal
<1> QED BY <1>1, <1>2, <1>3, Invariance, PTL DEF Spec
=============================================================================
