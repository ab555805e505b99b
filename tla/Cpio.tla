-------------------------------- MODULE Cpio --------------------------------
(***************************************************************************)
(* Extraction of files from the cpio archives of the initrd                 *)
(* (src/src/cpio.c).                                                        *)
(*                                                                         *)
(* An initrd is one archive or several, one behind the other, with zeros    *)
(* between them, and may have been cut short.  It is given as the list of   *)
(* its items; the code sees the bytes, which are described by the headers   *)
(* that stand at some offsets and the zeros at others.                      *)
(***************************************************************************)
EXTENDS Integers, Sequences, SequencesExt

CONSTANTS
  CpioHeaderLen,  \* sizeof ( struct cpio_header ): 110
  CPIO_TRAILER    \* the name of the last member of an archive

ASSUME CpioAssumption == CpioHeaderLen \in Nat \ {0}

VARIABLES
  archive,   \* [items, starts, len]: members [name, namesize, filesize, magic] or runs of
             \* zeros [zeros], where each starts, and the number of bytes there are;
             \* magic says whether a member's header has the right magic number
  cpio_data, \* the offset of data in the archive
  cpio_len,  \* the variable len
  extracted, \* the names for which the file handler was called
  cpio_rc    \* Running, 0 or -1

cpioVars == <<archive, cpio_data, cpio_len, extracted, cpio_rc>>

\* cpio_extract has not returned.
Running == 1

IsMember(item) == "name" \in DOMAIN item

\* Mutant: cuts to the lower multiple of four.
cpio_align_Down(n) == 4 * (n \div 4)

cpio_align(n) == 4 * ((n + 3) \div 4)

\* The data starts behind the name, aligned; a member ends behind its data.
DataOffset(member) == cpio_align(CpioHeaderLen + member.namesize)
MemberLen(member) == DataOffset(member) + member.filesize

----------------------------------------------------------------------------
(* The bytes of an archive, as a cpio writer (external) lays them out *)

CpioPadded(n) == n + ((4 - (n % 4)) % 4)
ItemLen(item) ==
  IF IsMember(item)
  THEN CpioPadded(CpioPadded(CpioHeaderLen + item.namesize) + item.filesize)
  ELSE item.zeros

ItemStart(items, i) ==
  FoldLeft(LAMBDA n, item : n + ItemLen(item), 0, SubSeq(items, 1, i - 1))

Archive(items, len) ==
  [items |-> items, starts |-> [i \in DOMAIN items |-> ItemStart(items, i)], len |-> len]

\* The items stand one behind the other; the archive may be cut, but is not longer.
IsArchive(arc) ==
  /\ arc.len \in Nat /\ Len(arc.items) \in Nat
  /\ \A i \in 1 .. Len(arc.items) :
       LET item == arc.items[i]
       IN  IF IsMember(item)
           THEN item.namesize \in Nat /\ item.filesize \in Nat
           ELSE item.zeros \in Nat \ {0} /\ item.zeros % 4 = 0
  /\ \A i \in 1 .. Len(arc.items) :
       arc.starts[i] = IF i = 1 THEN 0 ELSE arc.starts[i - 1] + ItemLen(arc.items[i - 1])
  /\ IF Len(arc.items) = 0 THEN arc.len = 0
     ELSE arc.len <= arc.starts[Len(arc.items)] + ItemLen(arc.items[Len(arc.items)])

CpioInit ==
  /\ IsArchive(archive)
  /\ cpio_data = 0 /\ cpio_len = archive.len /\ extracted = <<>> /\ cpio_rc = Running

\* The member whose header stands at an offset.
HeadersAt(offset) ==
  {archive.items[i] : i \in {j \in 1 .. Len(archive.items) :
                               /\ IsMember(archive.items[j])
                               /\ archive.starts[j] = offset}}

----------------------------------------------------------------------------
(* One iteration of the outer loop *)

InHeader(offset) == HeadersAt(offset) # {}

SkipPadding ==
  /\ cpio_rc = Running /\ cpio_len >= 4 /\ ~InHeader(cpio_data)
  /\ cpio_data' = cpio_data + 4 /\ cpio_len' = cpio_len - 4
  /\ UNCHANGED <<archive, extracted, cpio_rc>>

AtHeader == cpio_rc = Running /\ (cpio_len < 4 \/ InHeader(cpio_data))

Return(rc) == cpio_rc' = rc /\ UNCHANGED <<archive, cpio_data, cpio_len, extracted>>

EndOfArchive == AtHeader /\ cpio_len = 0 /\ Return(0)

\* cpio_len is aligned unless the member ends where the archive ends.
StepLen(member) ==
  IF MemberLen(member) < cpio_len THEN cpio_align(MemberLen(member)) ELSE MemberLen(member)

BadOrTruncated ==
  /\ AtHeader /\ cpio_len # 0
  /\ \/ cpio_len < CpioHeaderLen
     \/ \E member \in HeadersAt(cpio_data) : ~member.magic \/ StepLen(member) > cpio_len
  /\ Return(-1)

Whole(member) ==
  /\ AtHeader /\ cpio_len >= CpioHeaderLen /\ member.magic
  /\ StepLen(member) <= cpio_len

\* Mutant: a trailer is only the end of its own archive.
Trailer_Skipped ==
  \E member \in HeadersAt(cpio_data) :
    /\ Whole(member) /\ member.name = CPIO_TRAILER
    /\ cpio_data' = cpio_data + StepLen(member)
    /\ cpio_len' = cpio_len - StepLen(member)
    /\ UNCHANGED <<archive, extracted, cpio_rc>>

Trailer ==
  \E member \in HeadersAt(cpio_data) :
    Whole(member) /\ member.name = CPIO_TRAILER /\ Return(0)

\* The file handler is called and succeeds, as add_file always does.
ExtractMember(name) ==
  \E member \in HeadersAt(cpio_data) :
    /\ Whole(member) /\ member.name # CPIO_TRAILER /\ member.name = name
    /\ extracted' = Append(extracted, name)
    /\ cpio_data' = cpio_data + StepLen(member)
    /\ cpio_len' = cpio_len - StepLen(member)
    /\ UNCHANGED <<archive, cpio_rc>>

----------------------------------------------------------------------------
(* What an archive contains *)

Items == archive.items

\* The items of which at least one byte is there.
Present == {i \in 1 .. Len(Items) : archive.starts[i] < archive.len}

\* A member can be used if its padding is there too, or nothing behind its data.
Sound(i) ==
  IsMember(Items[i]) =>
    LET end == archive.starts[i] + CpioPadded(CpioHeaderLen + Items[i].namesize)
                 + Items[i].filesize
    IN  Items[i].magic /\ (archive.len = end \/ CpioPadded(end) <= archive.len)

IsTrailer(item) == IsMember(item) /\ item.name = CPIO_TRAILER

\* The items that are reached: those behind a trailer or a damaged member are not.
Reached ==
  {i \in Present : \A j \in Present : j < i => Sound(j) /\ ~IsTrailer(Items[j])}

\* The members that are found.
Taken == {i \in Reached : Sound(i) /\ IsMember(Items[i]) /\ ~IsTrailer(Items[i])}

\* The place of a member among those.
Position(i) == Cardinality({j \in Taken : j <= i})

\* cpio_extract calls the handler for the members that are wholly there, each once and in
\* their order, and returns 0 exactly if all that it reaches is sound: it fails if the
\* archive was cut inside a member or its padding, or inside a word of zeros.
MembersExtracted ==
  cpio_rc # Running =>
    LET sound == /\ \A i \in Reached : Sound(i)
                 /\ ~IsMember(Items[Max(Present)]) /\ Max(Present) \in Reached =>
                       archive.len % 4 = 0
    IN  /\ Len(extracted) = Cardinality(Taken)
        /\ \A i \in Taken : extracted[Position(i)] = Items[i].name
        /\ cpio_rc = IF Present = {} \/ sound THEN 0 ELSE -1
=============================================================================
