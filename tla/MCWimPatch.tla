----------------------------- MODULE MCWimPatch -----------------------------
(***************************************************************************)
(* A small WIM of two images for TLC, laid out as a WIM writer (external)   *)
(* lays it out: header, files, metadata, lookup table.  The first image has *)
(* the directory for injected files, the second does not.                   *)
(***************************************************************************)
EXTENDS WimPatch

Cells(name, n) == [k \in 1 .. n |-> [byte |-> <<name, k>>]]

\* The files of the images, in the order in which they are stored.
OldExe  == Cells("old.exe", 2)
BootSdi == Cells("boot.sdi", 3)
Font    == Cells("font.ttf", 1)

DirentSize == wim_align(DirentLen + NameLen)

Entry(name, subdir, hash) ==
  DirentCells(DirentSize, subdir, hash, name)
  \o [k \in 1 .. DirentSize - DirentLen - NameLen |-> Zero]

\* A directory of n entries, with its terminator.
DirLen(n) == n * DirentSize + LengthLen

Security == <<Number(SecurityLen)>> \o [k \in 1 .. wim_align(SecurityLen) - SecurityLen |-> Zero]

Root == wim_align(SecurityLen)

\* \Windows\System32\old.exe, \Windows\Boot\boot.sdi, \Windows\Boot\font.ttf
Metadata1 ==
  LET top      == Root + DirLen(1)
      windows  == top + DirLen(1)
      system32 == windows + DirLen(2)
      boot     == system32 + DirLen(1)
  IN  Security
      \o Entry("", top, NoHash) \o <<Zero>>
      \o Entry("Windows", windows, NoHash) \o <<Zero>>
      \o Entry("System32", system32, NoHash) \o Entry("Boot", boot, NoHash) \o <<Zero>>
      \o Entry("old.exe", 0, wim_hash(OldExe)) \o <<Zero>>
      \o Entry("boot.sdi", 0, wim_hash(BootSdi))
      \o Entry("font.ttf", 0, wim_hash(Font)) \o <<Zero>>

\* \old.exe
Metadata2 ==
  Security \o Entry("", Root + DirLen(1), NoHash) \o <<Zero>>
  \o Entry("old.exe", 0, wim_hash(OldExe)) \o <<Zero>>

\* The first image's metadata is compressed.  In the damaged WIM its last chunks,
\* which hold the last directory, cannot be decompressed.
Packed(cells) == <<[packed |-> cells]>>

Stored(damaged) ==
  OldExe \o BootSdi \o Font \o Metadata2
  \o Packed(IF damaged THEN SubSeq(Metadata1, 1, Len(Metadata1) - DirLen(2))
                       ELSE Metadata1)

Raw(at, cells, metadata) == Resource(at, Len(cells), Len(cells), FALSE, metadata)

Resource1 == Resource(HeaderLen + 6 + Len(Metadata2), 1, Len(Metadata1), TRUE, TRUE)

Lookup ==
  LookupCells(Raw(HeaderLen, OldExe, FALSE), wim_hash(OldExe))
  \o LookupCells(Resource1, NoHash)
  \o LookupCells(Raw(HeaderLen + 2, BootSdi, FALSE), wim_hash(BootSdi))
  \o LookupCells(Raw(HeaderLen + 5, Font, FALSE), wim_hash(Font))
  \o LookupCells(Raw(HeaderLen + 6, Metadata2, TRUE), NoHash)

Wim(damaged) ==
  HeaderCells([lookup |-> Raw(HeaderLen + Len(Stored(damaged)), Lookup, FALSE),
               boot |-> Resource1, boot_index |-> 1, images |-> 2])
  \o Stored(damaged) \o Lookup

GoodWim    == Wim(FALSE)
DamagedWim == Wim(TRUE)

\* A download that was cut off in the lookup table.
CutWim == SubSeq(GoodWim, 1, Len(GoodWim) - 1)

MCWims == {GoodWim, DamagedWim, CutWim}

\* A new file, one that takes the place of a file of the image, one that takes the
\* place of a file to extract, and one without contents.
MCLoadedFiles ==
  {[name |-> "new.exe", ext |-> "exe", cells |-> Cells("new", 2)],
   [name |-> "old.exe", ext |-> "exe", cells |-> Cells("update", 3)],
   [name |-> "boot.sdi", ext |-> "sdi", cells |-> Cells("loaded", 1)],
   [name |-> "empty.txt", ext |-> "txt", cells |-> <<>>]}

MCInjectDir == <<"", "Windows", "System32">>

MCFileAt(path) ==
  [name |-> path[Len(path)],
   ext |-> CASE path[Len(path)] = "boot.sdi" -> "sdi"
             [] path[Len(path)] = "font.ttf" -> "ttf"
             [] OTHER -> "exe"]

MCWimPaths ==
  {<<"", "Windows", "Boot", "boot.sdi">>, <<"", "Windows", "Boot", "font.ttf">>,
   <<"", "sms", "boot", "boot.sdi">>}

MCImagePaths == MCWimPaths \cup {Append(MCInjectDir, "old.exe"), <<"", "old.exe">>}

\* The whole file, and windows that overlap and start and end everywhere.
Whole == [offset |-> 0, len |-> 180]

MCWindows == {Whole} \cup [offset : {n * 7 : n \in 0 .. 20}, len : {11}]
=============================================================================
