------------------------------- MODULE Vdisk -------------------------------
(***************************************************************************)
(* The virtual disk (src/src/vdisk.c): the table of files, and the loop of  *)
(* vdisk_read, which cuts a request into fragments at the boundaries of     *)
(* file slots and metadata regions and calls one builder for each.          *)
(*                                                                         *)
(* A sector is a record of what it holds.  File contents are not modelled   *)
(* byte by byte: a sector of a file says which file and offset it shows,    *)
(* how many of its bytes file->read supplied and how many were handed to    *)
(* file->patch; the remaining bytes are zero.                               *)
(*                                                                         *)
(* Each iteration of the do loop is an action, and so is each iteration of  *)
(* the scan over vdisk_regions inside it.  vdisk_read is not reentered and  *)
(* nothing else runs meanwhile: int13 and EFI callers wait for it.          *)
(***************************************************************************)
EXTENDS VdiskLayout, Sequences

CONSTANTS
  FileNames,            \* names the files may have
  FileLens,             \* FileLens[idx]: lengths the file added at idx may have;
                        \* idx = VDISK_MAX_FILES is one file too many
  PatchGrowth,          \* bytes by which a patch method may extend a file
  Requests,             \* the reads issued: records [lba, count]
  VDISK_FAT_END_MARKER, \* FAT entry that ends a chain (0x0ffffff8)
  FatMediaEntry         \* FAT entry 0 (0x0ffffff8 & ~0xff | VDISK_VBR_MEDIA)

FileIndices == 0 .. VDISK_MAX_FILES - 1

ASSUME FilesAssumption ==
  /\ FileLens \in [0 .. VDISK_MAX_FILES -> SUBSET (0 .. ULONG - 1)]
  /\ PatchGrowth \subseteq Nat
  /\ \A idx \in FileIndices : \A len \in FileLens[idx] : \A g \in PatchGrowth :
       len + g < ULONG

\* A caller reads inside the disk (EFI's LastBlock, INT 13's sector count) and
\* its buffer is smaller than the address space of the 32-bit build.
ASSUME RequestsAssumption ==
  /\ Requests \subseteq [lba : Nat, count : Nat]
  /\ \A r \in Requests :
       /\ r.lba + r.count <= VDISK_COUNT
       /\ r.count * VDISK_SECTOR_SIZE < UINT32

ASSUME MarkerAssumption ==
  /\ VDISK_FAT_END_MARKER \in Nat /\ VDISK_FAT_END_MARKER > VDISK_CLUSTERS + 2
  /\ FatMediaEntry \in Nat /\ FatMediaEntry > VDISK_CLUSTERS + 2

VARIABLES
  vdisk_files,  \* the table of files
  index,        \* vdisk_add_file's static index of the next free entry
  pc,           \* "setup" while files are added, "idle" once the disk is
                \* installed, where vdisk_read is ("frag", "scan", "build"), or
                \* "dead" after die ( )
  request,      \* the arguments lba and count of vdisk_read
  frag_start, frag_end,
  region,       \* the loop counter i of the scan over vdisk_regions
  build,        \* the builder chosen for this fragment, or "none"
  data          \* the sectors written to the caller's buffer so far

vars == <<vdisk_files, index, pc, request, frag_start, frag_end, region, build,
          data>>

----------------------------------------------------------------------------
(* The sectors *)

Zero == [kind |-> "zero"]

Mbr == [kind |-> "mbr", start |-> VDISK_PARTITION_LBA,
        length |-> VDISK_PARTITION_COUNT % UINT32]

Vbr == [kind |-> "vbr",
        bytes_per_sector |-> VDISK_SECTOR_SIZE,
        sectors_per_cluster |-> VDISK_CLUSTER_COUNT,
        reserved_sectors |-> VDISK_RESERVED_COUNT,
        fats |-> 1,
        hidden_sectors |-> VDISK_VBR_LBA,
        sectors |-> VDISK_PARTITION_COUNT % UINT32,
        sectors_per_fat |-> VDISK_SECTORS_PER_FAT,
        root |-> VDISK_ROOT_CLUSTER,
        fsinfo |-> VDISK_FSINFO_SECTOR,
        backup |-> VDISK_BACKUP_VBR_SECTOR]

FsInfo == [kind |-> "fsinfo"]

FatSector(next) == [kind |-> "fat", next |-> next]

Directory(entries) == [kind |-> "dir", entries |-> entries]

\* The cluster is stored as two 16-bit halves, the length in 32 bits.
DirEntry(name, len, attr, cluster) ==
  [name |-> name, size |-> len % UINT32, attr |-> attr,
   cluster |-> cluster % UINT32]

Subdirectory(name, cluster) == DirEntry(name, 0, "directory", cluster)

\* A sector of a file: all zeros unless something was read or patched.
FileSector(file, offset, copied, patched) ==
  IF copied = 0 /\ patched = 0
    THEN Zero
    ELSE [kind |-> "file", file |-> file, offset |-> offset,
          copied |-> copied, patched |-> patched]

----------------------------------------------------------------------------
(* The builders: the sectors each one writes for count sectors from lba *)

\* vdisk_mbr, vdisk_vbr, vdisk_fsinfo and the subdirectory builders write one
\* sector whatever count is.
vdisk_mbr == <<Mbr>>
vdisk_vbr == <<Vbr>>
vdisk_fsinfo == <<FsInfo>>

\* The sector that lists the subdirectories of a directory.
Subdirectories(dir) ==
  CASE dir = VDISK_ROOT_CLUSTER ->
         {Subdirectory("BOOT", VDISK_BOOT_CLUSTER),
          Subdirectory("SOURCES", VDISK_SOURCES_CLUSTER),
          Subdirectory("EFI", VDISK_EFI_CLUSTER)}
    [] dir = VDISK_BOOT_CLUSTER ->
         {Subdirectory("FONTS", VDISK_FONTS_CLUSTER),
          Subdirectory("RESOURCES", VDISK_RESOURCES_CLUSTER)}
    [] dir = VDISK_EFI_CLUSTER ->
         {Subdirectory("BOOT", VDISK_BOOT_CLUSTER),
          Subdirectory("MICROSOFT", VDISK_MICROSOFT_CLUSTER)}
    [] dir = VDISK_MICROSOFT_CLUSTER ->
         {Subdirectory("BOOT", VDISK_BOOT_CLUSTER)}
    [] OTHER -> {}

vdisk_subdirs(dir) == <<Directory(Subdirectories(dir))>>

\* Mutant: the number of clusters is taken for the last cluster.
file_end_marker_RoundUp(files, i) ==
  (VDISK_FILE_CLUSTER(i)
     + (files[i].xlen + VDISK_CLUSTER_SIZE - 1) \div VDISK_CLUSTER_SIZE) % UINT32

\* Mutant: the length before patching ends the chain.
file_end_marker_Unpatched(files, i) ==
  (VDISK_FILE_CLUSTER(i)
     + ((files[i].len - 1) % ULONG) \div VDISK_CLUSTER_SIZE) % UINT32

file_end_marker(files, i) ==
  (VDISK_FILE_CLUSTER(i)
     + ((files[i].xlen - 1) % ULONG) \div VDISK_CLUSTER_SIZE) % UINT32

\* Mutant: the special values are added wherever the window starts.
FatEntry_AlwaysFirst(files, start, c) ==
  IF \E i \in FileIndices : files[i].read /\ file_end_marker(files, i) = c
    THEN VDISK_FAT_END_MARKER
    ELSE IF c < start + FatEntriesPerSector
      THEN VDISK_FAT_END_MARKER
      ELSE c + 1

\* One entry of the FAT, in a window whose first entry is start.
FatEntry(files, start, c) ==
  IF \E i \in FileIndices : files[i].read /\ file_end_marker(files, i) = c
    THEN VDISK_FAT_END_MARKER
    ELSE IF start = 0 /\ c < FatEntriesPerSector
      THEN IF c = 0 THEN FatMediaEntry ELSE VDISK_FAT_END_MARKER
      ELSE c + 1

vdisk_fat(files, lba, count) ==
  LET start   == (((lba - VDISK_FAT_LBA) % UINT32) * FatEntriesPerSector) % UINT32
      \* The first-sector values are stored even when no sector was asked for.
      written == IF start = 0 /\ count = 0 THEN 1 ELSE count
  IN  [k \in 1 .. written |->
        FatSector([j \in 0 .. FatEntriesPerSector - 1 |->
          FatEntry(files, start, start + (k - 1) * FatEntriesPerSector + j)])]

vdisk_dir_files(files, lba, count) ==
  [k \in 1 .. count |->
    LET idx  == VDISK_FILE_DIRENT_IDX(lba + k - 1)
        file == files[idx]
    IN  IF file.read
          THEN Directory({DirEntry(file.name, file.xlen, "read_only",
                                   VDISK_FILE_CLUSTER(idx))})
          ELSE Directory({})]

\* Bytes of [0, total) that fall in the k-th sector of a buffer of len bytes.
Portion(total, len, k) ==
  LET t    == IF total > len THEN len ELSE total
      rest == t - (k - 1) * VDISK_SECTOR_SIZE
  IN  IF rest <= 0 THEN 0
      ELSE IF rest > VDISK_SECTOR_SIZE THEN VDISK_SECTOR_SIZE ELSE rest

\* Mutant: the end of the data is not compared with the offset of the read.
vdisk_file_NoOffset(files, lba, count) ==
  LET idx == VDISK_FILE_IDX(lba)
      len == (count * VDISK_SECTOR_SIZE) % UINT32
  IN  [k \in 1 .. count |->
        FileSector(idx, VDISK_FILE_OFFSET(lba) + (k - 1) * VDISK_SECTOR_SIZE,
                   Portion(files[idx].len, len, k), 0)]

vdisk_file(files, lba, count) ==
  LET idx       == VDISK_FILE_IDX(lba)
      file      == files[idx]
      offset    == VDISK_FILE_OFFSET(lba)
      len       == (count * VDISK_SECTOR_SIZE) % UINT32
      copy_len  == IF offset < file.len THEN file.len - offset ELSE 0
      patch_len == IF file.patch /\ offset < file.xlen
                     THEN file.xlen - offset ELSE 0
  IN  [k \in 1 .. count |->
        FileSector(idx, offset + (k - 1) * VDISK_SECTOR_SIZE,
                   Portion(copy_len, len, k), Portion(patch_len, len, k))]

----------------------------------------------------------------------------
(* The regions of slot 0, in the order of vdisk_regions *)

Region(lba, count, builder, dir) ==
  [lba |-> lba, count |-> count, build |-> builder, dir |-> dir]

DirectoryRegion(dir) ==
  <<Region(VDISK_DIR_LBA(dir), 1, "subdirs", dir),
    Region(VDISK_DIR_LBA(dir) + 1, VDISK_CLUSTER_COUNT - 1, "dir_files", dir)>>

vdisk_regions ==
  <<Region(VDISK_MBR_LBA, 1, "mbr", 0),
    Region(VDISK_VBR_LBA, 1, "vbr", 0),
    Region(VDISK_FSINFO_LBA, 1, "fsinfo", 0),
    Region(VDISK_BACKUP_VBR_LBA, 1, "vbr", 0),
    Region(VDISK_FAT_LBA, VDISK_SECTORS_PER_FAT, "fat", 0)>>
  \o DirectoryRegion(VDISK_ROOT_CLUSTER)
  \o DirectoryRegion(VDISK_BOOT_CLUSTER)
  \o DirectoryRegion(VDISK_SOURCES_CLUSTER)
  \o DirectoryRegion(VDISK_FONTS_CLUSTER)
  \o DirectoryRegion(VDISK_RESOURCES_CLUSTER)
  \o DirectoryRegion(VDISK_EFI_CLUSTER)
  \o DirectoryRegion(VDISK_MICROSOFT_CLUSTER)

\* A call of the builder of region r; a fragment of a slot has no region.
BuildRegion(r, files, lba, count) ==
  CASE r.build = "mbr"       -> vdisk_mbr
    [] r.build = "vbr"       -> vdisk_vbr
    [] r.build = "fsinfo"    -> vdisk_fsinfo
    [] r.build = "fat"       -> vdisk_fat(files, lba, count)
    [] r.build = "subdirs"   -> vdisk_subdirs(r.dir)
    [] r.build = "dir_files" -> vdisk_dir_files(files, lba, count)
    [] r.build = "file"      -> vdisk_file(files, lba, count)
    [] r.build = "none"      -> [k \in 1 .. count |-> Zero]

NoRegion   == Region(0, 0, "none", 0)
FileRegion == Region(0, 0, "file", 0)

----------------------------------------------------------------------------
(* The table of files *)

EmptyFile == [read |-> FALSE, name |-> "", len |-> 0, xlen |-> 0,
              patch |-> FALSE]

Init ==
  /\ vdisk_files = [idx \in FileIndices |-> EmptyFile]
  /\ index = 0
  /\ pc = "setup"
  /\ request = [lba |-> 0, count |-> 0]
  /\ frag_start = 0 /\ frag_end = 0 /\ region = 1
  /\ build = NoRegion
  /\ data = <<>>

LoopVars == <<request, frag_start, frag_end, region, build, data>>

\* Mutant: the table is assumed to be large enough.
vdisk_add_file_NoLimit(name, len) ==
  /\ pc = "setup"
  /\ index' = index + 1
  /\ UNCHANGED <<vdisk_files, pc, LoopVars>>

vdisk_add_file(name, len) ==
  /\ pc = "setup"
  /\ index < VDISK_MAX_FILES
  /\ vdisk_files' = [vdisk_files EXCEPT
                       ![index].read = TRUE, ![index].name = name,
                       ![index].len = len, ![index].xlen = len]
  /\ index' = index + 1
  /\ UNCHANGED <<pc, LoopVars>>

\* die ( "Too many files\n" ) does not return.
vdisk_add_file_die(name, len) ==
  /\ pc = "setup"
  /\ index >= VDISK_MAX_FILES
  /\ pc' = "dead"
  /\ UNCHANGED <<vdisk_files, index, LoopVars>>

\* The call patch ( file, NULL, 0, 0 ) lets the method set file->xlen.
vdisk_patch_file(idx, growth) ==
  /\ pc = "setup"
  /\ idx < index
  /\ vdisk_files' = [vdisk_files EXCEPT
                       ![idx].patch = TRUE,
                       ![idx].xlen = vdisk_files[idx].len + growth]
  /\ UNCHANGED <<index, pc, LoopVars>>

----------------------------------------------------------------------------
(* vdisk_read *)

\* initialise_int13 or efi_install: from here on others read the disk, and
\* main and efi_main add no more files.
Install ==
  /\ pc = "setup"
  /\ pc' = "idle"
  /\ UNCHANGED <<vdisk_files, index, LoopVars>>

ReadEnd == request.lba + request.count

Least(a, b) == IF a < b THEN a ELSE b

ReadStart(r) ==
  /\ pc = "idle"
  /\ request' = r
  /\ frag_start' = r.lba
  /\ frag_end' = 0 /\ region' = 1 /\ build' = NoRegion  \* not yet assigned
  /\ data' = <<>>
  /\ pc' = "frag"
  /\ UNCHANGED <<vdisk_files, index>>

\* The fragment starts in a file's slot, or in a slot after the last file's.
FragmentInSlot ==
  LET file_idx == VDISK_FILE_IDX(frag_start)
  IN  /\ pc = "frag"
      /\ file_idx >= 0
      /\ frag_end' = Least(ReadEnd, VDISK_FILE_LBA(file_idx + 1))
      /\ build' = IF file_idx < VDISK_MAX_FILES THEN FileRegion ELSE NoRegion
      /\ pc' = "build"
      /\ UNCHANGED <<vdisk_files, index, request, frag_start, region, data>>

\* The fragment starts in slot 0: begin the scan for its region.
FragmentInMetadata ==
  /\ pc = "frag"
  /\ VDISK_FILE_IDX(frag_start) < 0
  /\ frag_end' = ReadEnd
  /\ build' = NoRegion
  /\ region' = 1
  /\ pc' = "scan"
  /\ UNCHANGED <<vdisk_files, index, request, frag_start, data>>

\* Mutant: a fragment that starts with a region is cut off before it.
ClipAtStart_OwnStart(r) ==
  IF frag_start <= r.lba /\ frag_end > r.lba THEN r.lba ELSE frag_end

\* frag_end after "Avoid crossing start of any region".
ClipAtStart(r) ==
  IF frag_start < r.lba /\ frag_end > r.lba THEN r.lba ELSE frag_end

\* "Ignore unless we overlap with this region".
Overlaps(r) ==
  /\ frag_start < r.lba + r.count
  /\ ClipAtStart(r) > r.lba

\* This region does not overlap the fragment: try the next one.
ScanPast ==
  /\ pc = "scan"
  /\ region <= Len(vdisk_regions)
  /\ ~Overlaps(vdisk_regions[region])
  /\ frag_end' = ClipAtStart(vdisk_regions[region])
  /\ region' = region + 1
  /\ UNCHANGED <<vdisk_files, index, pc, request, frag_start, build, data>>

\* Mutant: a fragment may run over the end of its region.
ClipAtEnd_Never(r, end) == end

\* "Avoid crossing end of region".
ClipAtEnd(r, end) == Least(end, r.lba + r.count)

ScanFound ==
  /\ pc = "scan"
  /\ region <= Len(vdisk_regions)
  /\ Overlaps(vdisk_regions[region])
  /\ frag_end' = ClipAtEnd(vdisk_regions[region],
                           ClipAtStart(vdisk_regions[region]))
  /\ build' = vdisk_regions[region]
  /\ pc' = "build"
  /\ UNCHANGED <<vdisk_files, index, request, frag_start, region, data>>

\* No region at all: the fragment is empty space.
ScanEnd ==
  /\ pc = "scan"
  /\ region > Len(vdisk_regions)
  /\ pc' = "build"
  /\ UNCHANGED <<vdisk_files, index, request, frag_start, frag_end, region,
                 build, data>>

\* frag_count is an unsigned int.
frag_count == (frag_end - frag_start) % UINT32

BuildFragment ==
  /\ pc = "build"
  /\ data' = data \o BuildRegion(build, vdisk_files, frag_start, frag_count)
  /\ frag_start' = frag_start + frag_count
  /\ pc' = IF frag_start' = ReadEnd THEN "idle" ELSE "frag"
  /\ UNCHANGED <<vdisk_files, index, request, frag_end, region, build>>

vdisk_read_step ==
  \/ FragmentInSlot
  \/ FragmentInMetadata
  \/ ScanPast
  \/ ScanFound
  \/ ScanEnd
  \/ BuildFragment

Next ==
  \/ \E name \in FileNames, len \in FileLens[index] :
       vdisk_add_file(name, len) \/ vdisk_add_file_die(name, len)
  \/ \E idx \in FileIndices, growth \in PatchGrowth :
       vdisk_patch_file(idx, growth)
  \/ Install
  \/ \E r \in Requests : ReadStart(r)
  \/ vdisk_read_step

\* A read that was begun is carried on: the loop runs on the caller's stack.
Fairness == WF_vars(vdisk_read_step)

Spec == Init /\ [][Next]_vars /\ Fairness

----------------------------------------------------------------------------
(* What a read returns *)

Contains(r, lba) == r.lba <= lba /\ lba < r.lba + r.count

\* The first region that holds a sector of slot 0.
RegionOf(lba) ==
  IF VDISK_FILE_IDX(lba) >= 0
    THEN IF VDISK_FILE_IDX(lba) < VDISK_MAX_FILES THEN FileRegion ELSE NoRegion
    ELSE IF \E n \in 1 .. Len(vdisk_regions) : Contains(vdisk_regions[n], lba)
      THEN vdisk_regions[CHOOSE n \in 1 .. Len(vdisk_regions) :
             /\ Contains(vdisk_regions[n], lba)
             /\ \A m \in 1 .. n - 1 : ~Contains(vdisk_regions[m], lba)]
      ELSE NoRegion

\* The reads that vdisk_read serves as it should: not from before the first
\* file's slot into it, and not in a slot whose end is no unsigned long.
Served(r) ==
  /\ r.lba >= VDISK_FILE_COUNT \/ r.lba + r.count <= VDISK_FILE_COUNT
  /\ r.lba + r.count + VDISK_FILE_COUNT <= ULONG

\* The sector at lba, as a read of that one sector returns it.
DiskSector(files, lba) == BuildRegion(RegionOf(lba), files, lba, 1)[1]

FileRecords ==
  [read : BOOLEAN, name : FileNames \cup {""}, len : Nat, xlen : Nat,
   patch : BOOLEAN]

DirEntries ==
  [name : FileNames \cup {"", "BOOT", "SOURCES", "EFI", "FONTS", "RESOURCES",
                          "MICROSOFT"},
   size : Nat, attr : {"directory", "read_only"}, cluster : Nat]

Sectors ==
  {Zero, Mbr, Vbr, FsInfo}
  \cup [kind : {"fat"}, next : [0 .. FatEntriesPerSector - 1 -> Nat]]
  \cup [kind : {"dir"}, entries : SUBSET DirEntries]
  \cup [kind : {"file"}, file : FileIndices, offset : Nat,
        copied : 0 .. VDISK_SECTOR_SIZE, patched : 0 .. VDISK_SECTOR_SIZE]

Builders == {NoRegion, FileRegion}
            \cup {vdisk_regions[n] : n \in 1 .. Len(vdisk_regions)}

\* The variables of vdisk_read and the table of files have their types.
TypeOK ==
  /\ vdisk_files \in [FileIndices -> FileRecords]
  /\ index \in 0 .. VDISK_MAX_FILES
  /\ pc \in {"setup", "idle", "dead", "frag", "scan", "build"}
  /\ request \in [lba : Nat, count : Nat]
  /\ frag_start \in Nat
  /\ frag_end \in Nat
  /\ region \in 1 .. Len(vdisk_regions) + 1
  /\ build \in Builders
  /\ data \in Seq(Sectors)

\* The loop of vdisk_read covers the request without gap or overlap: what has
\* been written is exactly the part of the request before frag_start, and a
\* fragment about to be built stays inside the request and is empty only if the
\* request is, so the loop's test frag_start != end cannot be stepped over and
\* the buffer of the caller is never overrun.
FragmentsCover ==
  /\ pc \in {"frag", "scan", "build"} =>
       /\ request.lba <= frag_start /\ frag_start <= ReadEnd
       /\ Len(data) = frag_start - request.lba
       /\ request.count # 0 => frag_start < ReadEnd
  /\ pc \in {"scan", "build"} =>
       /\ frag_start <= frag_end /\ frag_end <= ReadEnd
       /\ request.count # 0 => frag_start < frag_end
  /\ pc \in {"setup", "idle"} => Len(data) = request.count

\* However a request is cut into fragments, and wherever in a region, a slot or
\* the FAT a fragment starts, every sector built for it is the sector a read of
\* that one sector returns: builders that work on windows agree on every window,
\* and no fragment runs from one builder's sectors into another's.
FragmentIsExact ==
  pc = "build" =>
    BuildRegion(build, vdisk_files, frag_start, frag_count)
      = [k \in 1 .. frag_end - frag_start |->
           DiskSector(vdisk_files, frag_start + k - 1)]

\* vdisk_dir_files's assertion: the entry of vdisk_files it is about to take
\* from a directory sector's number is in the table.
DirentIdxInTable ==
  pc = "build" /\ build.build = "dir_files" =>
    \A lba \in frag_start .. frag_end - 1 :
      VDISK_FILE_DIRENT_IDX(lba) \in FileIndices

\* Every read that is begun ends.
ReadEnds == pc = "frag" ~> pc = "idle"

----------------------------------------------------------------------------
(* vdisk_read implements a device that answers a read in one step *)

Device == INSTANCE BlockDevice WITH
  Sector   <- DiskSector,
  table    <- vdisk_files,
  state    <- IF pc \in {"frag", "scan", "build"} THEN "busy" ELSE pc,
  reply    <- IF pc \in {"frag", "scan", "build"} THEN <<>> ELSE data

\* The fragments of a read are invisible to its caller: each read is one atomic
\* answer, the part of the disk that was asked for.
ImplementsBlockDevice == Device!Spec
============================================================================
