---------------------------- MODULE VdiskLayout ----------------------------
(***************************************************************************)
(* The geometry of the virtual disk (src/src/vdisk.h).                     *)
(*                                                                         *)
(* wimboot presents its files as a 2TB FAT32 disk that exists nowhere: each *)
(* sector is computed when it is read.  The disk is divided into slots of   *)
(* VDISK_FILE_COUNT sectors.  Slot 0 holds the partition table, the volume  *)
(* boot record, the FAT and the seven directories; file idx owns the whole  *)
(* of slot idx + 1.  Every operator has the name of the macro it models.    *)
(*                                                                         *)
(* The numbers of vdisk.h are constants here: TLC cannot count to 2^32, so  *)
(* it checks a disk scaled down with every ratio of the real one kept,      *)
(* while the theorems hold for every geometry that satisfies the            *)
(* assumptions, the real one among them.                                    *)
(***************************************************************************)
EXTENDS Integers

CONSTANTS
  VDISK_SECTOR_SIZE,    \* bytes in a sector (512)
  VDISK_PARTITION_LBA,  \* first sector of the partition (128)
  VDISK_CLUSTER_COUNT,  \* sectors in a cluster (64)
  VDISK_CLUSTERS,       \* clusters of the partition (0x03ffc000)
  VDISK_FILE_COUNT,     \* sectors of a slot (0x800000)
  UINT32,               \* number of values of a uint32_t and of an unsigned int
  ULONG                 \* number of values of an unsigned long and of a size_t:
                        \* UINT32 on i386, UINT32^2 on x86_64 and arm64

VDISK_CLUSTER_SIZE == VDISK_CLUSTER_COUNT * VDISK_SECTOR_SIZE

VDISK_MAX_FILES == VDISK_CLUSTER_COUNT - 1

VDISK_FILE_CLUSTERS == VDISK_FILE_COUNT \div VDISK_CLUSTER_COUNT

VDISK_RESERVED_COUNT == VDISK_CLUSTER_COUNT

VDISK_ROOT_CLUSTER      == 2
VDISK_BOOT_CLUSTER      == 3
VDISK_SOURCES_CLUSTER   == 4
VDISK_FONTS_CLUSTER     == 5
VDISK_RESOURCES_CLUSTER == 6
VDISK_EFI_CLUSTER       == 7
VDISK_MICROSOFT_CLUSTER == 8

\* Size of a FAT entry, and the number of entries in a sector of the FAT.
FatEntrySize == 4
FatEntriesPerSector == VDISK_SECTOR_SIZE \div FatEntrySize

VDISK_SECTORS_PER_FAT ==
  ((VDISK_CLUSTERS * FatEntrySize + VDISK_CLUSTER_SIZE - 1)
     \div VDISK_CLUSTER_SIZE) * VDISK_CLUSTER_COUNT

VDISK_PARTITION_COUNT ==
  VDISK_RESERVED_COUNT + VDISK_SECTORS_PER_FAT
    + VDISK_CLUSTERS * VDISK_CLUSTER_COUNT

VDISK_COUNT == VDISK_PARTITION_LBA + VDISK_PARTITION_COUNT

\* Sector of a cluster, relative to the partition.
VDISK_CLUSTER_SECTOR(cluster) ==
  (cluster - 2) * VDISK_CLUSTER_COUNT
    + VDISK_RESERVED_COUNT + VDISK_SECTORS_PER_FAT

(***************************************************************************)
(* Files.  VDISK_FILE_COUNT is an unsigned long, so the product in          *)
(* VDISK_FILE_LBA is computed modulo ULONG; an lba is a uint64_t.           *)
(***************************************************************************)
\* Mutant: the slot of the metadata is forgotten.
VDISK_FILE_LBA_NoMetadata(idx) == (idx * VDISK_FILE_COUNT) % ULONG

VDISK_FILE_LBA(idx) == ((idx + 1) * VDISK_FILE_COUNT) % ULONG

VDISK_FILE_IDX(lba) == (lba \div VDISK_FILE_COUNT) - 1

VDISK_FILE_OFFSET(lba) == (lba % VDISK_FILE_COUNT) * VDISK_SECTOR_SIZE

\* Mutant: the sector that lists the subdirectories is not skipped.
VDISK_FILE_DIRENT_IDX_NoSkip(lba) == lba % VDISK_CLUSTER_COUNT

VDISK_FILE_DIRENT_IDX(lba) == (lba - 1) % VDISK_CLUSTER_COUNT

VDISK_FILE_CLUSTER(idx) ==
  ((VDISK_FILE_COUNT - VDISK_PARTITION_LBA
      - VDISK_RESERVED_COUNT - VDISK_SECTORS_PER_FAT) \div VDISK_CLUSTER_COUNT)
    + 2 + idx * VDISK_FILE_CLUSTERS

(***************************************************************************)
(* Start sectors of the metadata.                                           *)
(***************************************************************************)
VDISK_MBR_LBA        == 0
VDISK_VBR_LBA        == VDISK_PARTITION_LBA
VDISK_FSINFO_SECTOR  == 1
VDISK_FSINFO_LBA     == VDISK_VBR_LBA + VDISK_FSINFO_SECTOR
VDISK_BACKUP_VBR_SECTOR == 6
VDISK_BACKUP_VBR_LBA == VDISK_VBR_LBA + VDISK_BACKUP_VBR_SECTOR
VDISK_FAT_LBA        == VDISK_VBR_LBA + VDISK_RESERVED_COUNT

\* VDISK_ROOT_LBA ... VDISK_MICROSOFT_LBA: the directory of a cluster.
VDISK_DIR_LBA(cluster) == VDISK_VBR_LBA + VDISK_CLUSTER_SECTOR(cluster)

(***************************************************************************)
(* What the geometry must satisfy for the disk to make sense.  The macros   *)
(* of vdisk.h satisfy all of it; nothing in the source states it.           *)
(***************************************************************************)
ASSUME GeometryTypes ==
  /\ VDISK_SECTOR_SIZE \in Nat \ {0}
  /\ VDISK_PARTITION_LBA \in Nat \ {0}
  /\ VDISK_CLUSTER_COUNT \in Nat
  /\ VDISK_CLUSTERS \in Nat
  /\ VDISK_FILE_COUNT \in Nat \ {0}
  /\ UINT32 \in Nat \ {0}
  /\ ULONG \in Nat \ {0}

\* The reserved sectors hold the backup boot record; partition and slots start
\* on cluster boundaries; the special first sector of the FAT covers the
\* directories and no file; the directories end before the first file's slot.
ASSUME GeometryFits ==
  /\ VDISK_CLUSTER_COUNT > VDISK_BACKUP_VBR_SECTOR
  /\ VDISK_PARTITION_LBA % VDISK_CLUSTER_COUNT = 0
  /\ VDISK_FILE_COUNT % VDISK_CLUSTER_COUNT = 0
  /\ VDISK_SECTOR_SIZE % FatEntrySize = 0
  /\ VDISK_MICROSOFT_CLUSTER < FatEntriesPerSector
  /\ FatEntriesPerSector <= VDISK_FILE_CLUSTER(0)
  /\ VDISK_DIR_LBA(VDISK_MICROSOFT_CLUSTER) + VDISK_CLUSTER_COUNT
       <= VDISK_FILE_COUNT

\* Every file slot is on the disk, and the disk's size and the numbers of the
\* entries of the FAT are uint32_t values.
ASSUME GeometryHoldsFiles ==
  /\ (VDISK_MAX_FILES + 1) * VDISK_FILE_COUNT <= VDISK_COUNT
  /\ VDISK_COUNT < UINT32
  /\ VDISK_SECTORS_PER_FAT * FatEntriesPerSector <= UINT32
  /\ UINT32 <= ULONG

\* A slot holds as many bytes as a uint32_t counts, and the FAT has an entry for
\* every cluster of every file (not for every cluster of the disk: vdisk.h leaves
\* no room for the two that have no sectors).  An unsigned long that is longer than
\* a uint32_t is longer by more than a byte count within a cluster is.
ASSUME GeometryMapsFiles ==
  /\ VDISK_FILE_COUNT * VDISK_SECTOR_SIZE = UINT32
  /\ VDISK_FILE_CLUSTER(VDISK_MAX_FILES)
       <= VDISK_SECTORS_PER_FAT * FatEntriesPerSector
  /\ ULONG = UINT32 \/ ULONG % (UINT32 * VDISK_CLUSTER_SIZE) = 0
============================================================================
