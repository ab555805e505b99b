------------------------------ MODULE MCVdisk ------------------------------
(***************************************************************************)
(* A scaled-down disk for TLC.  The ratios of vdisk.h are kept: a slot      *)
(* holds as many bytes as a 32-bit size_t counts, the disk ends in the last *)
(* slot below 2^32 sectors, the FAT is a whole number of clusters.          *)
(***************************************************************************)
EXTENDS FatView

\* Bytes by which MC patch methods extend a file: more than a sector.
MCPatchGrowth == {VDISK_SECTOR_SIZE + 6}

\* Lengths for the read loop: at most two files, the second of a sector and a
\* byte, or filling its slot once it is patched.
MCFileLens ==
  [idx \in 0 .. VDISK_MAX_FILES |->
    CASE idx = 0 -> {VDISK_CLUSTER_SIZE}
      [] idx = 1 -> {VDISK_SECTOR_SIZE + 1, UINT32 - 7 - VDISK_SECTOR_SIZE}
      [] OTHER   -> {}]

\* Lengths for the file system view: below, at and above a cluster, no bytes,
\* and a slot that is full when patched; then as many files as there is room for.
MCFileLensAll ==
  [idx \in 0 .. VDISK_MAX_FILES |->
    CASE idx = 0 -> {VDISK_CLUSTER_SIZE, VDISK_CLUSTER_SIZE + 1}
      [] idx = 1 -> {UINT32 - 7 - VDISK_SECTOR_SIZE}
      [] idx = 2 -> {0}
      [] OTHER   -> {VDISK_CLUSTER_SIZE - 1}]

\* First sectors of everything on the disk, and the ends of the last slots.
Boundaries ==
  {vdisk_regions[n].lba : n \in 1 .. Len(vdisk_regions)}
  \cup {VDISK_FAT_LBA + VDISK_SECTORS_PER_FAT, VDISK_FAT_LBA + 1,
        VDISK_FAT_LBA + 2,
        VDISK_DIR_LBA(VDISK_MICROSOFT_CLUSTER) + VDISK_CLUSTER_COUNT}
  \cup {VDISK_FILE_COUNT + VDISK_CLUSTER_COUNT}
  \cup {n * VDISK_FILE_COUNT : n \in 1 .. 3}
  \cup {n * VDISK_FILE_COUNT : n \in VDISK_MAX_FILES .. VDISK_MAX_FILES + 2}

Request(lba, count) == [lba |-> lba, count |-> count]

MCRequests ==
  {r \in {Request(b - before, before + after) :
            b \in Boundaries \ {0}, before \in {0, 1}, after \in {1, 3}}
         \cup {Request(b, 0) : b \in {0, VDISK_VBR_LBA, VDISK_FAT_LBA,
                                       VDISK_FAT_LBA + 1, VDISK_FILE_COUNT}}
         \cup {Request(0, 1), Request(VDISK_FAT_LBA, 12),
               Request(0, 2 * VDISK_PARTITION_LBA),
               Request(VDISK_DIR_LBA(2) - 1, 8 * VDISK_CLUSTER_COUNT)}
   : Served(r)}

\* The sector before the first file's slot, and the first of that slot.
MCIntoFirstSlot == {Request(VDISK_FILE_COUNT - 1, 2)}

\* The end of the disk, which lies in the last slot below 2^32 sectors.
MCLastSlot == {Request(VDISK_COUNT - 2, 2)}
============================================================================
