----------------------------- MODULE MCWimRead -----------------------------
(***************************************************************************)
(* Small WIM files for TLC, built as a WIM writer builds them (external):   *)
(* a resource is cut into chunks, each stored compressed if that makes it   *)
(* shorter, behind a table of the chunks' offsets.  A compressed chunk is   *)
(* one cell that holds the chunk.                                           *)
(***************************************************************************)
EXTENDS WimRead, SequencesExt

CONSTANTS intact, damaged, foreign  \* the files

MCFiles == {intact, damaged, foreign}

MCScheme == (intact :> "lzx") @@ (damaged :> "xpress") @@ (foreign :> "unknown")

\* The decompressor of a scheme undoes what its compressor did.
MCDecompress(scheme, cells) ==
  IF Len(cells) = 1 /\ "chunk" \in DOMAIN cells[1] /\ cells[1].scheme = scheme
    THEN cells[1].chunk
    ELSE DecompressError

\* The original resources of every file: what the writer was given.
Lengths == <<8, 5, 3, 4>>

Given(file, id) == [k \in 1 .. Lengths[id] |-> [file |-> file, id |-> id, at |-> k]]

NumChunks(id) == (Lengths[id] + WIM_CHUNK_LEN - 1) \div WIM_CHUNK_LEN

ChunkCells(file, id, c) ==
  SubSeq(Given(file, id), c * WIM_CHUNK_LEN + 1,
         IF c = NumChunks(id) - 1 THEN Lengths[id] ELSE (c + 1) * WIM_CHUNK_LEN)

\* Resources 1 and 2 are compressed, 3 is not; of resource 4, compressed too, the
\* first chunk does not get shorter.  The second chunk of the damaged file's
\* first resource decompresses to too little, the foreign file's chunks are
\* compressed by a scheme that wimboot does not know.
StoredChunk(file, id, c) ==
  LET cells == ChunkCells(file, id, c)
  IN  IF Len(cells) = 1 \/ (id = 4 /\ c = 0) THEN cells
      ELSE <<[scheme |-> IF file = foreign THEN "lzms" ELSE MCScheme[file],
              chunk  |-> IF file = damaged /\ id = 1 /\ c = 1
                           THEN Tail(cells) ELSE cells]>>

Number(n) == [number |-> n]

Entry(id, n) ==
  IF Lengths[id] >= UINT32 THEN <<Number(n % UINT32), Number(n \div UINT32)>>
                           ELSE <<Number(n)>>

ChunkStart(file, id, c) ==
  Len(FlattenSeq([k \in 1 .. c |-> StoredChunk(file, id, k - 1)]))

\* An entry of the damaged file's second resource points past its end.
Stored(file, id) ==
  IF id = 3 THEN Given(file, id)
  ELSE FlattenSeq([k \in 1 .. NumChunks(id) - 1 |->
         Entry(id, IF file = damaged /\ id = 2 THEN 9 ELSE ChunkStart(file, id, k))])
       \o FlattenSeq([k \in 1 .. NumChunks(id) |-> StoredChunk(file, id, k - 1)])

\* Every file has its resources at the same offsets, behind two cells of header;
\* the damaged file has lost its last cell.
Header == <<Number(0), Number(0)>>

Written(file) == Header \o FlattenSeq([id \in 1 .. 4 |-> Stored(file, id)])

IntactImage  == Written(intact)
DamagedImage == Front(Written(damaged))
ForeignImage == Written(foreign)

MCImage == (intact :> IntactImage) @@ (damaged :> DamagedImage)
           @@ (foreign :> ForeignImage)

ResourceAt(id) ==
  [offset |-> 2 + Len(FlattenSeq([k \in 1 .. id - 1 |-> Stored(intact, k)])),
   len    |-> Lengths[id],
   zlen   |-> Len(Stored(intact, id)),
   compressed |-> id # 3]

MCHeaders == <<ResourceAt(1), ResourceAt(2), ResourceAt(3), ResourceAt(4)>>

\* A header that promises more chunks than its resource has room to list.
Overlong == [offset |-> 1, len |-> 30, zlen |-> 3, compressed |-> TRUE]

MCResources == [file \in MCFiles |-> {MCHeaders[id] : id \in 1 .. 4} \cup {Overlong}]

\* Windows that start in every chunk, end in every chunk or run past the end by
\* one; of the foreign file, only of the resource with a chunk it stores raw.
MCRequests ==
  {r \in [file : MCFiles, resource : MCResources[intact],
          offset : {0, 1, 4, 6}, len : {0, 2, 5}] :
     /\ r.offset + r.len <= r.resource.len + 1
     /\ r.file = foreign => r.resource = MCHeaders[4]
     /\ r.resource = Overlong => r.file = intact /\ r.offset = 0}

\* What was lost at the end of the damaged file was given to its writer too.
MCOriginal ==
  [file \in MCFiles |->
     [res \in {MCHeaders[id] : id \in 1 .. 4} |->
        Given(file, CHOOSE id \in 1 .. 4 : MCHeaders[id] = res)]]
=============================================================================
