----------------------------- MODULE WimFormat -----------------------------
(***************************************************************************)
(* The contents of a WIM file and the walks over it (src/src/wim.c): the    *)
(* lookup table, the metadata of an image and its directories.              *)
(*                                                                         *)
(* A file is a sequence of cells.  A cell holds one field of a structure,   *)
(* or one unit of a file's contents; structures are the sequences of cells  *)
(* below, so every offset and length of the code is counted in cells.  A    *)
(* cell of zeros is the number 0.  wim_read is the reader without memory    *)
(* that module WimRead is shown to implement.                               *)
(*                                                                         *)
(* A search that may fail yields a set: of its one result, or empty where   *)
(* the code returns an error.                                               *)
(***************************************************************************)
EXTENDS Integers, Sequences, FiniteSets

CONSTANT ALIGN  \* cells to which wim_align rounds up (8 bytes)

ASSUME AlignAssumption == ALIGN \in Nat \ {0}

wim_align(n) == ((n + ALIGN - 1) \div ALIGN) * ALIGN

Number(n) == [number |-> n]
Zero == Number(0)

\* A resource header: where a resource lies, its length there and uncompressed.
Resource(offset, zlen, len, compressed, metadata) ==
  [offset |-> offset, zlen |-> zlen, len |-> len, compressed |-> compressed,
   metadata |-> metadata]

NoResource == Resource(0, 0, 0, FALSE, FALSE)

\* The structures, and the number of their cells.
HeaderCells(h) == <<[resource |-> h.lookup], [resource |-> h.boot],
                    Number(h.boot_index), Number(h.images)>>
HeaderLen == 4

LookupCells(resource, hash) == <<[resource |-> resource], [hash |-> hash]>>
LookupLen == 2

SecurityLen == 1

\* The fixed part of a directory entry, and the name that follows it.
DirentCells(len, subdir, hash, name) ==
  <<Number(len), Number(subdir), [hash |-> hash], [name |-> name]>>
DirentLen == 3
NameLen == 1
SubdirAt == 1   \* offsetof ( subdir )
LengthLen == 1  \* sizeof ( len )

\* A hash of zeros is not the hash of any file, and equal hashes are hashes of equal
\* contents.
NoHash == <<>>
wim_hash(cells) == <<cells>>

\* The value of a field; a cell that does not hold one is read as zeros.
NumberIn(cell)   == IF "number" \in DOMAIN cell THEN cell.number ELSE 0
ResourceIn(cell) == IF "resource" \in DOMAIN cell THEN cell.resource ELSE NoResource
HashIn(cell)     == IF "hash" \in DOMAIN cell THEN cell.hash ELSE NoHash
NameIn(cell)     == IF "name" \in DOMAIN cell THEN cell.name ELSE ""

----------------------------------------------------------------------------
(* Reading *)

Read(image, at, n) == SubSeq(image, at + 1, at + n)

\* The whole of a compressed resource: one cell stands for all its chunks.
Unpacked(image, res) == image[res.offset + 1].packed

\* wim_read succeeds: the window is in the resource, the resource is in the file
\* and, if it is compressed, its chunks can be decompressed that far.
wim_readable(image, res, offset, len) ==
  /\ offset + len <= res.len
  /\ res.offset + res.zlen <= Len(image)
  /\ res.compressed => offset + len <= Len(Unpacked(image, res))

wim_read(image, res, offset, len) ==
  IF res.compressed THEN SubSeq(Unpacked(image, res), offset + 1, offset + len)
                    ELSE Read(image, res.offset + offset, len)

\* A file in which numbers and resource headers are what they should be, both in its
\* own cells and in those of its compressed resources, and in which the resources
\* that lie within it were stored as a WIM writer (external) stores them: compressed,
\* or in as many cells as they have.
Resources == [offset : Nat, zlen : Nat, len : Nat, compressed : BOOLEAN,
              metadata : BOOLEAN]

IsPacked(cell) == "packed" \in DOMAIN cell

IsStored(image, res) ==
  res.offset + res.zlen <= Len(image) =>
    IF res.compressed THEN res.offset < Len(image) /\ IsPacked(image[res.offset + 1])
                      ELSE res.zlen = res.len

HoldsFields(image, cells) ==
  /\ Len(cells) \in Nat
  /\ \A k \in 1 .. Len(cells) : /\ NumberIn(cells[k]) \in Nat
                                /\ ResourceIn(cells[k]) \in Resources
                                /\ IsStored(image, ResourceIn(cells[k]))

IsWim(image) ==
  /\ HoldsFields(image, image)
  /\ \A k \in 1 .. Len(image) :
       IsPacked(image[k]) => HoldsFields(image, image[k].packed)

wim_header(image) ==
  IF HeaderLen > Len(image) THEN {}
  ELSE {[lookup |-> ResourceIn(image[1]), boot |-> ResourceIn(image[2]),
         boot_index |-> NumberIn(image[3]), images |-> NumberIn(image[4])]}

----------------------------------------------------------------------------
(* The lookup table *)

\* The whole entries of the table, and the n-th of them.
LookupEntries(header) == 1 .. header.lookup.len \div LookupLen

LookupEntry(image, header, n) ==
  wim_read(image, header.lookup, (n - 1) * LookupLen, LookupLen)

LookupReadable(image, header, n) ==
  wim_readable(image, header.lookup, (n - 1) * LookupLen, LookupLen)

\* The entries that a search comes to before it fails to read one, and the first of
\* those it looks for.
ReadableEntries(image, header) ==
  {n \in LookupEntries(header) : \A m \in 1 .. n : LookupReadable(image, header, m)}

FirstEntry(found) == {n \in found : \A m \in found : n <= m}

IsMetadata(image, header, n) ==
  ResourceIn(LookupEntry(image, header, n)[1]).metadata

\* How many of the first n entries are metadata.
MetadataUpTo(image, header, n) ==
  Cardinality({m \in 1 .. n : IsMetadata(image, header, m)})

wim_count(image, header) ==
  IF \A n \in LookupEntries(header) : LookupReadable(image, header, n)
    THEN {MetadataUpTo(image, header, header.lookup.len \div LookupLen)}
    ELSE {}

wim_metadata(image, header, index) ==
  LET found == {n \in ReadableEntries(image, header) :
                  /\ IsMetadata(image, header, n)
                  /\ MetadataUpTo(image, header, n) = index}
  IN  IF index = 0 THEN {header.boot}
      ELSE {ResourceIn(LookupEntry(image, header, n)[1]) : n \in FirstEntry(found)}

----------------------------------------------------------------------------
(* Directories *)

\* The length of the directory entry at an offset; 0 ends a directory.
DirentLength(image, meta, at) ==
  NumberIn(wim_read(image, meta, at, LengthLen)[1])

\* The lengths of the directory entries by their offsets; 0 also where there is none to
\* read.
DirentLengths(image, meta) ==
  [at \in 0 .. meta.len |->
     IF wim_readable(image, meta, at, LengthLen) THEN DirentLength(image, meta, at) ELSE 0]

\* The entries that a walk over entries of such lengths comes to, by where it starts.
DirWalk(length) ==
  LET from[at \in DOMAIN length] ==
        IF length[at] = 0 THEN {}
        ELSE {at} \union IF at + length[at] \in DOMAIN length
                           THEN from[at + length[at]] ELSE {}
  IN  from

\* The entries of the directory at offset that a walk comes to: it ends at the entry of
\* length 0, or where there is none to read.
DirEntries(image, meta, offset) ==
  IF offset \in 0 .. meta.len THEN DirWalk(DirentLengths(image, meta))[offset] ELSE {}

\* The offset of the first entry called name in the directory at offset.  Names are
\* equal if they are equal up to case (wcscasecmp).
wim_direntry(image, meta, name, offset) ==
  FirstEntry({at \in DirEntries(image, meta, offset) :
                /\ wim_readable(image, meta, at, DirentLen + NameLen)
                /\ NameIn(wim_read(image, meta, at + DirentLen, NameLen)[1]) = name})

\* The fields of the directory entry at an offset.
SubdirOf(image, meta, at) == NumberIn(wim_read(image, meta, at, DirentLen)[2])
HashOf(image, meta, at)   == HashIn(wim_read(image, meta, at, DirentLen)[3])

\* The root directory follows the security data.
RootDirectory(image, meta) ==
  wim_align(NumberIn(wim_read(image, meta, 0, SecurityLen)[1]))

\* The entries of the first n names of a path: each is looked for in the root directory,
\* or in the one that the entry before leads to.
PathWalk(image, meta, path) ==
  LET entry[n \in 1 .. Len(path)] ==
        UNION {wim_direntry(image, meta, path[n], dir) :
                 dir \in IF n = 1 THEN {RootDirectory(image, meta)}
                         ELSE {SubdirOf(image, meta, at) : at \in entry[n - 1]}}
  IN  entry

\* The offset of the directory entry of a path: a sequence of names, of which the
\* first is empty and names the root.
wim_path(image, meta, path) ==
  IF wim_readable(image, meta, 0, SecurityLen)
    THEN PathWalk(image, meta, path)[Len(path)] ELSE {}

\* The resource of the file at a path: that of the first entry of the lookup
\* table with the hash of the directory entry.
wim_file(image, header, meta, path) ==
  UNION {LET found == {n \in ReadableEntries(image, header) :
                         HashIn(LookupEntry(image, header, n)[2])
                           = HashOf(image, meta, at)}
         IN  {ResourceIn(LookupEntry(image, header, n)[1]) : n \in FirstEntry(found)} :
           at \in wim_path(image, meta, path)}

\* The length of the directory at offset, without its terminator: the entry of length 0
\* at its start or behind one of its entries.
wim_dir_len(image, meta, offset) ==
  LET behind == {at + DirentLength(image, meta, at) : at \in DirEntries(image, meta, offset)}
  IN  {at - offset : at \in {x \in offset .. meta.len :
                               /\ x \in {offset} \union behind
                               /\ wim_readable(image, meta, x, LengthLen)
                               /\ DirentLength(image, meta, x) = 0}}
============================================================================
