------------------------------ MODULE WimRead ------------------------------
(***************************************************************************)
(* Reading resources of a WIM file (src/src/wim.c): wim_read, which serves  *)
(* any window of a resource from chunks that are decompressed one at a time *)
(* into a single static buffer, and the cache of that buffer's contents.    *)
(*                                                                         *)
(* A file is a sequence of cells.  A cell of a chunk table holds a number;  *)
(* any other cell is a value that only the decompressor looks into.  A      *)
(* table entry is one cell where the code has a uint32_t and two where it   *)
(* has a uint64_t.  wim_read is not reentered: file->read of the file that holds  *)
(* the WIM is a copy from memory or from the firmware's file system.        *)
(***************************************************************************)
EXTENDS Integers, Sequences

CONSTANTS
  WIM_CHUNK_LEN,    \* cells in an uncompressed chunk (32768)
  UINT32,           \* number of values of a uint32_t
  Files,            \* the virtual files
  NoFile,           \* cached_file before the first chunk is read (NULL)
  Image,            \* Image[file]: the cells of the file
  Scheme,           \* Scheme[file]: "lzx", "xpress" or "unknown" (header->flags)
  Resources,        \* Resources[file]: resource headers, [offset, len, zlen,
                    \* compressed]
  Requests,         \* records [file, resource, offset, len]
  Original,         \* Original[file][resource]: the cells a WIM writer was given for
                    \* a resource of the file, for resources of which that is known
  Decompress(_, _), \* Decompress(scheme, cells): what the decompressor writes,
                    \* or DecompressError
  DecompressError

ASSUME WimTypes ==
  /\ WIM_CHUNK_LEN \in Nat \ {0} /\ UINT32 \in Nat \ {0}
  /\ NoFile \notin Files /\ \A f \in Files : Len(Image[f]) \in Nat
  /\ Resources \in [Files -> SUBSET [offset : Nat, len : Nat, zlen : Nat,
                                     compressed : BOOLEAN]]
  /\ Requests \subseteq [file : Files, resource : UNION {Resources[f] : f \in Files},
                         offset : Nat, len : Nat]
  /\ \A r \in Requests : r.resource \in Resources[r.file]

\* A WIM stores each resource once: two headers of one file that name the same
\* compressed resource agree on all of it.
ASSUME OneHeaderPerOffset ==
  \A f \in Files : \A a, b \in Resources[f] :
    a.compressed /\ b.compressed /\ a.offset = b.offset => a = b

----------------------------------------------------------------------------
(* file->read, the chunk table and the chunks *)

\* n cells of a file from offset at; the callers have checked that they exist.
Read(file, at, n) == SubSeq(Image[file], at + 1, at + n)

Failed == -1

Chunks(res) == (res.len + WIM_CHUNK_LEN - 1) \div WIM_CHUNK_LEN

\* Cells of an entry of the chunk table.
OffsetLen(res) == IF res.len >= UINT32 THEN 2 ELSE 1

ChunksLen(res) == (Chunks(res) - 1) * OffsetLen(res)

\* The entry of a chunk in the table, which has none for chunk 0.
TableEntry(file, res, chunk) ==
  Read(file, res.offset + (chunk - 1) * OffsetLen(res), OffsetLen(res))

\* The number in an entry of the chunk table, little-endian.
OffsetValue(cells) ==
  IF Len(cells) = 2 THEN cells[1].number + UINT32 * cells[2].number
                    ELSE cells[1].number

\* Mutant: offsets are taken to count from the start of the table.
wim_chunk_offset_NoTable(file, res, chunk) ==
  IF res.len = 0 THEN 0
  ELSE IF ChunksLen(res) > res.zlen THEN Failed
  ELSE IF chunk = 0 THEN 0
  ELSE IF chunk >= Chunks(res) THEN res.zlen
  ELSE LET at == OffsetValue(TableEntry(file, res, chunk))
       IN  IF at > res.zlen THEN Failed ELSE at

\* Where a chunk starts in its resource, or Failed.
wim_chunk_offset(file, res, chunk) ==
  IF res.len = 0 THEN 0
  ELSE IF ChunksLen(res) > res.zlen THEN Failed
  ELSE IF chunk = 0 THEN ChunksLen(res)
  ELSE IF chunk >= Chunks(res) THEN res.zlen
  ELSE LET at == ChunksLen(res) + OffsetValue(TableEntry(file, res, chunk))
       IN  IF at > res.zlen THEN Failed ELSE at

expected_out_len(res, chunk) ==
  IF chunk >= Chunks(res) - 1
    THEN WIM_CHUNK_LEN - ((-res.len) % WIM_CHUNK_LEN)
    ELSE WIM_CHUNK_LEN

\* What wim_chunk writes to the start of the buffer, or DecompressError.  The
\* decompressor runs twice, first without a buffer to find the length, so a
\* chunk that is refused leaves the buffer as it was.
wim_chunk(file, res, chunk) ==
  LET from == wim_chunk_offset(file, res, chunk)
      to   == wim_chunk_offset(file, res, chunk + 1)
      zbuf == Read(file, res.offset + from, to - from)
      out  == Decompress(Scheme[file], zbuf)
  IN  IF from = Failed \/ to = Failed THEN DecompressError
      ELSE IF to - from = expected_out_len(res, chunk) THEN zbuf
      ELSE IF Scheme[file] \notin {"lzx", "xpress"} THEN DecompressError
      ELSE IF out = DecompressError THEN DecompressError
      ELSE IF Len(out) # expected_out_len(res, chunk) THEN DecompressError
      ELSE out

\* The buffer after the cells of a chunk were written to its start.
Overwrite(buffer, cells) ==
  [k \in 1 .. WIM_CHUNK_LEN |-> IF k <= Len(cells) THEN cells[k] ELSE buffer[k]]

\* Chunk tables ascend.  (Of one that does not, the code takes a negative number
\* of cells for the size of a buffer on the stack.)
ASSUME TablesAscend ==
  \A f \in Files : \A res \in Resources[f] : res.compressed =>
    \A chunk \in 0 .. res.len \div WIM_CHUNK_LEN :
      LET from == wim_chunk_offset(f, res, chunk)
          to   == wim_chunk_offset(f, res, chunk + 1)
      IN  from = Failed \/ to = Failed \/ from <= to

\* The entries of a chunk table that is there hold numbers.
ASSUME TablesHoldNumbers ==
  \A f \in Files : \A res \in Resources[f] :
    res.compressed /\ ChunksLen(res) <= res.zlen
    /\ res.offset + res.zlen <= Len(Image[f]) =>
      \A chunk \in 1 .. Chunks(res) - 1 : OffsetValue(TableEntry(f, res, chunk)) \in Nat

----------------------------------------------------------------------------
(* What a WIM writer stores (external): a resource is cut into chunks, each  *)
(* stored compressed if that makes it shorter, behind a table of the chunks' *)
(* offsets.                                                                 *)

\* The file was not cut off before the end of the resource.
IsThere(file, res) == res.offset + res.zlen <= Len(Image[file])

\* The entry of a chunk that starts n cells behind the table.
WrittenEntry(res, n) ==
  IF OffsetLen(res) = 2 THEN <<[number |-> n % UINT32], [number |-> n \div UINT32]>>
                        ELSE <<[number |-> n]>>

\* The table says that a chunk starts at n in its resource; the last ends with it.
StartsAt(file, res, chunk, n) ==
  \/ chunk = 0 /\ n = ChunksLen(res)
  \/ /\ chunk \in 1 .. Chunks(res) - 1 /\ n >= ChunksLen(res)
     /\ TableEntry(file, res, chunk) = WrittenEntry(res, n - ChunksLen(res))
  \/ chunk = Chunks(res) /\ n = res.zlen

OriginalLen(res, chunk) ==
  IF chunk = Chunks(res) - 1 THEN res.len - WIM_CHUNK_LEN * chunk ELSE WIM_CHUNK_LEN

OriginalChunk(file, res, chunk) ==
  SubSeq(Original[file][res], WIM_CHUNK_LEN * chunk + 1,
         WIM_CHUNK_LEN * chunk + OriginalLen(res, chunk))

\* The chunk is stored where the table says, as it is or compressed to fewer cells.
IsStored(file, res, chunk) ==
  \E from, to \in 0 .. res.zlen :
    /\ from <= to /\ StartsAt(file, res, chunk, from) /\ StartsAt(file, res, chunk + 1, to)
    /\ LET stored == Read(file, res.offset + from, to - from)
       IN  \/ stored = OriginalChunk(file, res, chunk)
           \/ /\ to - from < OriginalLen(res, chunk)
              /\ Decompress(Scheme[file], stored) = OriginalChunk(file, res, chunk)

\* The chunk was damaged, and it shows: an entry of the table points past the end of
\* the resource, or what is stored is compressed, and not of this chunk's length.
DamageShows(file, res, chunk) ==
  \/ \E next \in {chunk, chunk + 1} \cap 1 .. Chunks(res) - 1 :
       ChunksLen(res) + OffsetValue(TableEntry(file, res, next)) > res.zlen
  \/ \E from, to \in 0 .. res.zlen :
       /\ from <= to /\ StartsAt(file, res, chunk, from) /\ StartsAt(file, res, chunk + 1, to)
       /\ to - from # OriginalLen(res, chunk)
       /\ LET out == Decompress(Scheme[file], Read(file, res.offset + from, to - from))
          IN  \/ out = DecompressError \/ Scheme[file] \notin {"lzx", "xpress"}
              \/ Len(out) # OriginalLen(res, chunk)

ASSUME WriterAssumption ==
  \A f \in Files : \A res \in DOMAIN Original[f] :
    /\ res \in Resources[f]
    /\ Original[f][res] = [k \in 1 .. res.len |-> Original[f][res][k]]
    /\ IsThere(f, res) =>
         IF res.compressed
           THEN /\ ChunksLen(res) <= res.zlen
                /\ \A chunk \in 0 .. Chunks(res) - 1 :
                     IsStored(f, res, chunk) \/ DamageShows(f, res, chunk)
           ELSE Read(f, res.offset, res.len) = Original[f][res]

----------------------------------------------------------------------------
(* The state *)

VARIABLES
  cached_file, cached_resource_offset, cached_chunk, \* statics of wim_read
  wim_chunk_buffer,                                  \* the static buffer
  pc,       \* "idle", "loop" (at the while), "copy" (the chunk is cached)
  request,  \* the arguments of the call being, or last, served
  offset, len,
  data,     \* the cells copied to the caller so far
  rc        \* the status the last call returned: 0 or -1

vars == <<cached_file, cached_resource_offset, cached_chunk, wim_chunk_buffer,
          pc, request, offset, len, data, rc>>

cache == <<cached_file, cached_resource_offset, cached_chunk, wim_chunk_buffer>>

----------------------------------------------------------------------------
(* wim_read *)

Unset == [number |-> 0]  \* what the static buffer holds before the first chunk

Init ==
  /\ cached_file = NoFile /\ cached_resource_offset = 0 /\ cached_chunk = 0
  /\ wim_chunk_buffer = [k \in 1 .. WIM_CHUNK_LEN |-> Unset]
  /\ pc = "idle" /\ request = NoFile
  /\ offset = 0 /\ len = 0 /\ data = <<>> /\ rc = Failed

\* The sanity checks.
TooShort(r) ==
  \/ r.offset + r.len > r.resource.len
  \/ r.resource.offset + r.resource.zlen > Len(Image[r.file])

wim_read_refuse(r) ==
  /\ pc = "idle" /\ TooShort(r)
  /\ request' = r /\ data' = <<>> /\ rc' = Failed
  /\ UNCHANGED <<cache, pc, offset, len>>

wim_read_raw(r) ==
  /\ pc = "idle" /\ ~TooShort(r) /\ ~r.resource.compressed
  /\ request' = r
  /\ data' = Read(r.file, r.resource.offset + r.offset, r.len)
  /\ rc' = 0
  /\ UNCHANGED <<cache, pc, offset, len>>

wim_read_begin(r) ==
  /\ pc = "idle" /\ ~TooShort(r) /\ r.resource.compressed
  /\ request' = r /\ offset' = r.offset /\ len' = r.len /\ data' = <<>>
  /\ pc' = "loop"
  /\ UNCHANGED <<cache, rc>>

chunk == offset \div WIM_CHUNK_LEN

\* Mutant: the file is not part of the key.
Cached_AnyFile ==
  /\ cached_file # NoFile
  /\ request.resource.offset = cached_resource_offset
  /\ chunk = cached_chunk

Cached ==
  /\ request.file = cached_file
  /\ request.resource.offset = cached_resource_offset
  /\ chunk = cached_chunk

\* Mutant: a chunk that is cached is passed over.
ChunkCached_Continue ==
  /\ pc = "loop" /\ len # 0 /\ Cached
  /\ UNCHANGED vars

ChunkCached ==
  /\ pc = "loop" /\ len # 0 /\ Cached
  /\ pc' = "copy"
  /\ UNCHANGED <<cache, request, offset, len, data, rc>>

ChunkRead ==
  LET cells == wim_chunk(request.file, request.resource, chunk)
  IN  /\ pc = "loop" /\ len # 0 /\ ~Cached
      /\ cells # DecompressError
      /\ wim_chunk_buffer' = Overwrite(wim_chunk_buffer, cells)
      /\ cached_file' = request.file
      /\ cached_resource_offset' = request.resource.offset
      /\ cached_chunk' = chunk
      /\ pc' = "copy"
      /\ UNCHANGED <<request, offset, len, data, rc>>

\* Mutant: the cache is updated although the chunk was not read.
ChunkFailed_KeysKept ==
  /\ pc = "loop" /\ len # 0 /\ ~Cached
  /\ wim_chunk(request.file, request.resource, chunk) = DecompressError
  /\ cached_file' = request.file
  /\ cached_resource_offset' = request.resource.offset
  /\ cached_chunk' = chunk
  /\ rc' = Failed /\ pc' = "idle"
  /\ UNCHANGED <<wim_chunk_buffer, request, offset, len, data>>

\* A chunk that cannot be read ends the call; what it copied so far stays.
ChunkFailed ==
  /\ pc = "loop" /\ len # 0 /\ ~Cached
  /\ wim_chunk(request.file, request.resource, chunk) = DecompressError
  /\ rc' = Failed /\ pc' = "idle"
  /\ UNCHANGED <<cache, request, offset, len, data>>

skip_len == offset % WIM_CHUNK_LEN

\* Mutant: the fragment runs to the end of the chunk.
frag_len_Whole == WIM_CHUNK_LEN - skip_len

frag_len == IF WIM_CHUNK_LEN - skip_len > len THEN len
            ELSE WIM_CHUNK_LEN - skip_len

CopyFragment ==
  /\ pc = "copy"
  /\ data' = data \o SubSeq(wim_chunk_buffer, skip_len + 1, skip_len + frag_len)
  /\ offset' = offset + frag_len
  /\ len' = len - frag_len
  /\ pc' = "loop"
  /\ UNCHANGED <<cache, request, rc>>

wim_read_return ==
  /\ pc = "loop" /\ len = 0
  /\ rc' = 0 /\ pc' = "idle"
  /\ UNCHANGED <<cache, request, offset, len, data>>

wim_read_step ==
  \/ ChunkCached
  \/ ChunkRead
  \/ ChunkFailed
  \/ CopyFragment
  \/ wim_read_return

Next ==
  \/ \E r \in Requests : wim_read_refuse(r) \/ wim_read_raw(r) \/ wim_read_begin(r)
  \/ wim_read_step

\* The loop runs on the caller's stack: a call that was begun goes on.
Spec == Init /\ [][Next]_vars /\ WF_vars(wim_read_step)

----------------------------------------------------------------------------
(* What a read answers, whatever was read before it *)

\* The cell at pos of a compressed resource.
ResourceCell(file, res, pos) ==
  wim_chunk(file, res, pos \div WIM_CHUNK_LEN)[(pos % WIM_CHUNK_LEN) + 1]

\* The chunks that a request needs can all be read.
Readable(r) ==
  /\ ~TooShort(r)
  /\ r.resource.compressed =>
       \A pos \in r.offset .. r.offset + r.len - 1 :
         wim_chunk(r.file, r.resource, pos \div WIM_CHUNK_LEN) # DecompressError

\* The cells a readable request asks for.
Window(r) ==
  IF r.resource.compressed
    THEN [k \in 1 .. r.len |-> ResourceCell(r.file, r.resource, r.offset + k - 1)]
    ELSE Read(r.file, r.resource.offset + r.offset, r.len)

\* The keys name the chunk that is in the buffer: every cell of that chunk is
\* there, for every resource header the keys stand for, however many chunks of
\* other files and resources were read or failed to be read before.
CacheIsCoherent ==
  \A file \in Files : \A res \in Resources[file] :
    res.compressed /\ cached_file = file /\ cached_resource_offset = res.offset =>
      LET cells == wim_chunk(file, res, cached_chunk)
      IN  /\ cells # DecompressError
          /\ \A k \in 1 .. Len(cells) : wim_chunk_buffer[k] = cells[k]

\* The loop copies the window it was asked for, in order and without gaps, and
\* never more than the caller's buffer holds.
LoopCopiesWindow ==
  pc # "idle" =>
    /\ len >= 0 /\ offset + len = request.offset + request.len
    /\ Len(data) = offset - request.offset
    /\ \A k \in 1 .. Len(data) :
         data[k] = ResourceCell(request.file, request.resource,
                                request.offset + k - 1)

\* A read that succeeds returns what the writer was given: the chunk table, the
\* chunk sizes and the raw chunks are read the way they were written.
ReadsOriginal ==
  pc = "idle" /\ rc = 0 /\ request.resource \in DOMAIN Original[request.file] =>
    data = SubSeq(Original[request.file][request.resource],
                  request.offset + 1, request.offset + request.len)

Reader == INSTANCE ResourceReader WITH
  busy  <- pc # "idle",
  reply <- IF pc # "idle" THEN <<>> ELSE IF rc = 0 THEN data ELSE <<"failed">>

\* The cache is invisible: every read is answered as if it were the first, with
\* the window it asked for or, if a chunk of it cannot be read, with a failure.
ImplementsReader == Reader!Spec

\* Every call of wim_read returns.
ReadReturns == pc = "loop" ~> pc = "idle"
============================================================================
