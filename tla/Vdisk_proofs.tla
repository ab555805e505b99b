---------------------------- MODULE Vdisk_proofs ----------------------------
(***************************************************************************)
(* Proofs about the virtual disk, for every geometry that satisfies the     *)
(* assumptions of VdiskLayout; the numbers of vdisk.h satisfy them.  First  *)
(* the reads, for every set of requests that vdisk_read serves (Served);    *)
(* then the disk as a FAT driver sees it: the structures of slot 0, each    *)
(* built by its own function of vdisk.c, agree with one another and with    *)
(* the file slots.                                                          *)
(***************************************************************************)
EXTENDS FatView, Arithmetic_proofs

USE DEF FatEntrySize

----------------------------------------------------------------------------
(* Arithmetic *)

\* Quotient and remainder are unique.
LEMMA DivUnique ==
  ASSUME NEW q \in Int, NEW b \in Nat \ {0}, NEW r \in 0 .. b - 1
  PROVE  (q * b + r) \div b = q /\ (q * b + r) % b = r
<1> DEFINE a == q * b + r
<1>1. a \in Int /\ b * q <= a /\ a < b * q + b /\ a - b * q = r
  OBVIOUS
<1> QED BY <1>1, QuotientIs

LEMMA MulMono ==
  ASSUME NEW a \in Nat, NEW b \in Nat, NEW c \in Nat, a <= b
  PROVE  a * c <= b * c
OBVIOUS

----------------------------------------------------------------------------
(* The geometry *)

LEMMA SizesAreNat ==
  /\ VDISK_CLUSTER_SIZE \in Nat \ {0}
  /\ VDISK_MAX_FILES \in Nat /\ VDISK_MAX_FILES > 0
  /\ FatEntriesPerSector \in Nat \ {0}
  /\ VDISK_SECTORS_PER_FAT \in Nat
<1>1. VDISK_SECTOR_SIZE \in Nat \ {0} /\ VDISK_CLUSTER_COUNT \in Nat \ {0, 1}
  BY GeometryTypes, GeometryFits DEF VDISK_BACKUP_VBR_SECTOR
<1>2. VDISK_CLUSTER_SIZE \in Nat \ {0}
  BY <1>1 DEF VDISK_CLUSTER_SIZE
<1>3. VDISK_MAX_FILES \in Nat /\ VDISK_MAX_FILES > 0
  BY <1>1 DEF VDISK_MAX_FILES
<1>4. FatEntriesPerSector \in Nat \ {0}
  <2>1. FatEntriesPerSector \in Int
    BY <1>1 DEF FatEntriesPerSector
  <2> QED BY <2>1, GeometryFits DEF VDISK_MICROSOFT_CLUSTER
<1>5. VDISK_SECTORS_PER_FAT \in Nat
  <2> DEFINE a == VDISK_CLUSTERS * FatEntrySize + VDISK_CLUSTER_SIZE - 1
  <2>1. a \in Nat
    BY <1>2, GeometryTypes
  <2>2. a \div VDISK_CLUSTER_SIZE \in Nat
    BY <2>1, <1>2
  <2> QED BY <2>2, <1>1 DEF VDISK_SECTORS_PER_FAT
<1> QED BY <1>2, <1>3, <1>4, <1>5

\* A directory starts on a multiple of the cluster size, so that the sector of
\* file idx within any directory is idx + 1 modulo that size.
LEMMA DirectoriesAligned ==
  ASSUME NEW dir \in Nat, dir >= VDISK_ROOT_CLUSTER
  PROVE  /\ VDISK_DIR_LBA(dir) \in Nat
         /\ \E q \in Nat : VDISK_DIR_LBA(dir) = q * VDISK_CLUSTER_COUNT
<1> DEFINE cc == VDISK_CLUSTER_COUNT
           p  == VDISK_PARTITION_LBA \div cc
           f  == (VDISK_CLUSTERS * FatEntrySize + VDISK_CLUSTER_SIZE - 1)
                   \div VDISK_CLUSTER_SIZE
           q  == p + (dir - 2) + 1 + f
<1>1. cc \in Nat \ {0} /\ VDISK_PARTITION_LBA \in Nat /\ VDISK_CLUSTERS \in Nat
  BY GeometryTypes, GeometryFits DEF VDISK_BACKUP_VBR_SECTOR
<1>2. p \in Nat /\ VDISK_PARTITION_LBA = cc * p
  BY <1>1, GeometryFits
<1>3. f \in Nat
  BY SizesAreNat, <1>1
<1>4. q \in Nat
  BY <1>2, <1>3 DEF VDISK_ROOT_CLUSTER
<1>5. VDISK_DIR_LBA(dir) = cc * p + (dir - 2) * cc + cc + f * cc
  BY <1>1, <1>2, <1>3 DEF VDISK_DIR_LBA, VDISK_VBR_LBA, VDISK_CLUSTER_SECTOR,
              VDISK_RESERVED_COUNT, VDISK_SECTORS_PER_FAT
<1> HIDE DEF p, f
<1>6. VDISK_DIR_LBA(dir) = q * cc
  BY <1>1, <1>2, <1>3, <1>5
<1>7. q * cc \in Nat
  BY <1>4, <1>1
<1> QED BY <1>4, <1>6, <1>7

----------------------------------------------------------------------------
(* The table of regions *)

\* What the builders rely on: the one-sector builders have one-sector regions, a
\* directory's files start one sector after a multiple of the cluster size, and
\* there is one FAT.
TableRegions ==
  {r \in [lba : Nat, count : Nat, dir : Nat,
          build : {"mbr", "vbr", "fsinfo", "fat", "subdirs", "dir_files"}] :
     /\ r.build \in {"mbr", "vbr", "fsinfo", "subdirs"} => r.count = 1
     /\ r.build = "dir_files" =>
          /\ r.count = VDISK_CLUSTER_COUNT - 1
          /\ \E q \in Nat : r.lba = q * VDISK_CLUSTER_COUNT + 1
     /\ r.build = "fat" =>
          r.lba = VDISK_FAT_LBA /\ r.count = VDISK_SECTORS_PER_FAT}

LEMMA DirectoryRegionsInTable ==
  ASSUME NEW dir \in Nat, dir >= VDISK_ROOT_CLUSTER
  PROVE  DirectoryRegion(dir) \in Seq(TableRegions)
<1> DEFINE subdirs == Region(VDISK_DIR_LBA(dir), 1, "subdirs", dir)
           files   == Region(VDISK_DIR_LBA(dir) + 1, VDISK_CLUSTER_COUNT - 1,
                             "dir_files", dir)
<1>1. VDISK_DIR_LBA(dir) \in Nat
      /\ \E q \in Nat : VDISK_DIR_LBA(dir) = q * VDISK_CLUSTER_COUNT
  BY DirectoriesAligned
<1>2. VDISK_CLUSTER_COUNT - 1 \in Nat
  BY GeometryTypes, GeometryFits DEF VDISK_BACKUP_VBR_SECTOR
<1>3. subdirs \in TableRegions
  BY <1>1 DEF Region, TableRegions
<1>4. files \in TableRegions
  BY <1>1, <1>2 DEF Region, TableRegions
<1> QED BY <1>3, <1>4 DEF DirectoryRegion

LEMMA RegionsInTable == vdisk_regions \in Seq(TableRegions)
<1>1. VDISK_PARTITION_LBA \in Nat /\ VDISK_CLUSTER_COUNT \in Nat
  BY GeometryTypes
<1> DEFINE fixed ==
      <<Region(VDISK_MBR_LBA, 1, "mbr", 0),
        Region(VDISK_VBR_LBA, 1, "vbr", 0),
        Region(VDISK_FSINFO_LBA, 1, "fsinfo", 0),
        Region(VDISK_BACKUP_VBR_LBA, 1, "vbr", 0),
        Region(VDISK_FAT_LBA, VDISK_SECTORS_PER_FAT, "fat", 0)>>
<1>2. /\ VDISK_MBR_LBA \in Nat /\ VDISK_VBR_LBA \in Nat
      /\ VDISK_FSINFO_LBA \in Nat /\ VDISK_BACKUP_VBR_LBA \in Nat
      /\ VDISK_FAT_LBA \in Nat
  BY <1>1 DEF VDISK_MBR_LBA, VDISK_VBR_LBA, VDISK_FSINFO_LBA,
              VDISK_BACKUP_VBR_LBA, VDISK_FAT_LBA, VDISK_FSINFO_SECTOR,
              VDISK_BACKUP_VBR_SECTOR, VDISK_RESERVED_COUNT
<1>3. /\ Region(VDISK_MBR_LBA, 1, "mbr", 0) \in TableRegions
      /\ Region(VDISK_VBR_LBA, 1, "vbr", 0) \in TableRegions
      /\ Region(VDISK_FSINFO_LBA, 1, "fsinfo", 0) \in TableRegions
      /\ Region(VDISK_BACKUP_VBR_LBA, 1, "vbr", 0) \in TableRegions
  BY <1>2 DEF Region, TableRegions
<1>4. Region(VDISK_FAT_LBA, VDISK_SECTORS_PER_FAT, "fat", 0) \in TableRegions
  BY <1>2, SizesAreNat DEF Region, TableRegions
<1>5. fixed \in Seq(TableRegions)
  BY <1>3, <1>4
<1>6. \A dir \in VDISK_ROOT_CLUSTER .. VDISK_MICROSOFT_CLUSTER :
        DirectoryRegion(dir) \in Seq(TableRegions)
  BY DirectoryRegionsInTable DEF VDISK_ROOT_CLUSTER, VDISK_MICROSOFT_CLUSTER
<1>7. \A s, t \in Seq(TableRegions) : s \o t \in Seq(TableRegions)
  OBVIOUS
<1> HIDE DEF fixed
<1>8. /\ DirectoryRegion(VDISK_ROOT_CLUSTER) \in Seq(TableRegions)
      /\ DirectoryRegion(VDISK_BOOT_CLUSTER) \in Seq(TableRegions)
      /\ DirectoryRegion(VDISK_SOURCES_CLUSTER) \in Seq(TableRegions)
      /\ DirectoryRegion(VDISK_FONTS_CLUSTER) \in Seq(TableRegions)
      /\ DirectoryRegion(VDISK_RESOURCES_CLUSTER) \in Seq(TableRegions)
      /\ DirectoryRegion(VDISK_EFI_CLUSTER) \in Seq(TableRegions)
      /\ DirectoryRegion(VDISK_MICROSOFT_CLUSTER) \in Seq(TableRegions)
  BY <1>6 DEF VDISK_ROOT_CLUSTER, VDISK_BOOT_CLUSTER, VDISK_SOURCES_CLUSTER,
              VDISK_FONTS_CLUSTER, VDISK_RESOURCES_CLUSTER, VDISK_EFI_CLUSTER,
              VDISK_MICROSOFT_CLUSTER
<1> QED BY <1>5, <1>7, <1>8, Zenon DEF vdisk_regions, fixed

\* The facts about one region, and about the pseudo-regions of the file slots.
LEMMA RegionFacts ==
  ASSUME NEW n \in 1 .. Len(vdisk_regions)
  PROVE  /\ vdisk_regions[n] \in TableRegions
         /\ vdisk_regions[n].lba \in Nat /\ vdisk_regions[n].count \in Nat
         /\ vdisk_regions[n].build \notin {"file", "none"}
<1>1. vdisk_regions[n] \in TableRegions
  BY RegionsInTable
<1> QED BY <1>1 DEF TableRegions

\* The region of a sector of slot 0 is the first of the table that holds it.
LEMMA RegionOfFirst ==
  ASSUME NEW lba \in Nat, VDISK_FILE_IDX(lba) < 0,
         NEW n \in 1 .. Len(vdisk_regions), Contains(vdisk_regions[n], lba),
         \A m \in 1 .. n - 1 : ~Contains(vdisk_regions[m], lba)
  PROVE  RegionOf(lba) = vdisk_regions[n]
<1> DEFINE First(x) == /\ Contains(vdisk_regions[x], lba)
                       /\ \A m \in 1 .. x - 1 : ~Contains(vdisk_regions[m], lba)
           c == CHOOSE x \in 1 .. Len(vdisk_regions) : First(x)
<1>0. Len(vdisk_regions) \in Nat
  BY RegionsInTable
<1>1. c \in 1 .. Len(vdisk_regions) /\ First(c)
  OBVIOUS
<1>2. c = n
  <2>1. ~(c < n)
    BY <1>0, <1>1
  <2>2. ~(n < c)
    BY <1>0, <1>1
  <2> QED BY <1>0, <1>1, <2>1, <2>2
<1>3. VDISK_FILE_IDX(lba) \in Int
  BY GeometryTypes DEF VDISK_FILE_IDX
<1>4. ~(VDISK_FILE_IDX(lba) >= 0)
  BY <1>3
<1>5. RegionOf(lba) = vdisk_regions[c]
  BY <1>4 DEF RegionOf
<1> QED BY <1>2, <1>5

LEMMA RegionOfNone ==
  ASSUME NEW lba \in Nat, VDISK_FILE_IDX(lba) < 0,
         \A n \in 1 .. Len(vdisk_regions) : ~Contains(vdisk_regions[n], lba)
  PROVE  RegionOf(lba) = NoRegion
<1>1. VDISK_FILE_IDX(lba) \in Int
  BY GeometryTypes DEF VDISK_FILE_IDX
<1> QED BY <1>1 DEF RegionOf

\* Slot idx + 1 is the sectors from (idx + 1) * VDISK_FILE_COUNT on.
LEMMA SlotOf ==
  ASSUME NEW lba \in Nat, NEW idx \in Int,
         (idx + 1) * VDISK_FILE_COUNT <= lba,
         lba < (idx + 2) * VDISK_FILE_COUNT
  PROVE  /\ VDISK_FILE_IDX(lba) = idx
         /\ lba % VDISK_FILE_COUNT = lba - (idx + 1) * VDISK_FILE_COUNT
<1> DEFINE fc == VDISK_FILE_COUNT
           r  == lba - (idx + 1) * fc
<1>1. fc \in Nat \ {0}
  BY GeometryTypes
<1>2. (idx + 2) * fc = (idx + 1) * fc + fc
  BY <1>1
<1>3. r \in 0 .. fc - 1
  BY <1>1, <1>2
<1>4. lba = (idx + 1) * fc + r
  BY <1>1
<1> HIDE DEF r
<1>5. lba \div fc = idx + 1 /\ lba % fc = r
  BY <1>1, <1>3, <1>4, DivUnique
<1> QED BY <1>5, <1>1 DEF VDISK_FILE_IDX, r

\* Every sector is in the slot its index says.
LEMMA InSlot ==
  ASSUME NEW lba \in Nat
  PROVE  /\ VDISK_FILE_IDX(lba) \in Int /\ VDISK_FILE_IDX(lba) >= -1
         /\ (VDISK_FILE_IDX(lba) + 1) * VDISK_FILE_COUNT <= lba
         /\ lba < (VDISK_FILE_IDX(lba) + 2) * VDISK_FILE_COUNT
<1> DEFINE fc == VDISK_FILE_COUNT
           q  == lba \div fc
<1>1. fc \in Nat \ {0}
  BY GeometryTypes
<1>2. q \in Int /\ lba % fc \in 0 .. fc - 1 /\ lba = fc * q + (lba % fc)
  BY <1>1, DivMod
<1>3. q >= 0
  BY <1>1
<1>4. VDISK_FILE_IDX(lba) = q - 1
  BY DEF VDISK_FILE_IDX
<1> HIDE DEF q
<1>5. q * fc <= lba /\ lba < q * fc + fc
  BY <1>1, <1>2
<1>6. (q + 1) * fc = q * fc + fc
  BY <1>1, <1>2
<1> QED BY <1>2, <1>3, <1>4, <1>5, <1>6

----------------------------------------------------------------------------
(* Builders agree on every window *)

\* The FAT: a window of n sectors is n windows of one sector, although the
\* values of its first sector depend on where the window starts.
LEMMA FatWindows ==
  ASSUME NEW files \in [FileIndices -> FileRecords],
         NEW lba \in Nat, NEW n \in Nat \ {0},
         VDISK_FAT_LBA <= lba, lba + n <= VDISK_FAT_LBA + VDISK_SECTORS_PER_FAT
  PROVE  /\ vdisk_fat(files, lba, n)
              = [k \in 1 .. n |-> vdisk_fat(files, lba + k - 1, 1)[1]]
         /\ vdisk_fat(files, lba, n) \in Seq(Sectors)
<1> DEFINE E == FatEntriesPerSector
           S == VDISK_SECTORS_PER_FAT
           start(l) == (((l - VDISK_FAT_LBA) % UINT32) * FatEntriesPerSector)
                         % UINT32
           Cells(l, m) == [j \in 0 .. E - 1 |->
                            FatEntry(files, start(l), start(l) + (m - 1) * E + j)]
<1>1. /\ E \in Nat \ {0} /\ S \in Nat /\ UINT32 \in Nat \ {0}
      /\ VDISK_FAT_LBA \in Nat /\ S * E <= UINT32
  BY SizesAreNat, GeometryTypes, GeometryHoldsFiles
     DEF VDISK_FAT_LBA, VDISK_VBR_LBA, VDISK_RESERVED_COUNT
<1>2. \A l \in lba .. lba + n - 1 :
        start(l) = (l - VDISK_FAT_LBA) * E /\ start(l) \in Nat
  <2> TAKE l \in lba .. lba + n - 1
  <2> DEFINE d == l - VDISK_FAT_LBA
  <2>1. d \in Nat /\ d + 1 <= S
    BY <1>1
  <2>2. (d + 1) * E <= S * E
    BY <2>1, <1>1, MulMono
  <2>3. (d + 1) * E = d * E + E /\ d * E >= d /\ d * E \in Nat
    BY <2>1, <1>1
  <2>4. d < UINT32 /\ d * E < UINT32
    BY <2>1, <2>2, <2>3, <1>1
  <2>5. d % UINT32 = d /\ (d * E) % UINT32 = d * E
    BY <2>1, <2>3, <2>4, <1>1, ModSmall
  <2> QED BY <2>3, <2>5
<1>3. vdisk_fat(files, lba, n) = [k \in 1 .. n |-> FatSector(Cells(lba, k))]
  BY DEF vdisk_fat
<1>4. \A l : vdisk_fat(files, l, 1) = [k \in 1 .. 1 |-> FatSector(Cells(l, k))]
  BY DEF vdisk_fat
<1>5. ASSUME NEW k \in 1 .. n
      PROVE  Cells(lba, k) = Cells(lba + k - 1, 1)
  <2> DEFINE l == lba + k - 1
             s == start(lba)
             t == start(l)
  <2>1. s = (lba - VDISK_FAT_LBA) * E /\ t = (l - VDISK_FAT_LBA) * E
        /\ s \in Nat /\ t \in Nat
    BY <1>2
  <2> HIDE DEF s, t
  <2>2. t = s + (k - 1) * E
    <3>1. l - VDISK_FAT_LBA = (lba - VDISK_FAT_LBA) + (k - 1)
      BY <1>1
    <3> QED BY <2>1, <3>1, <1>1
  <2>3. ASSUME NEW j \in 0 .. E - 1
        PROVE  FatEntry(files, s, s + (k - 1) * E + j) = FatEntry(files, t, t + j)
    <3> DEFINE c == t + j
    <3>1. c \in Nat /\ s + (k - 1) * E + j = c
      BY <2>1, <2>2, <1>1
    <3>2. (s = 0 /\ c < E) <=> (t = 0 /\ c < E)
      <4>1. k = 1 \/ (k - 1) * E >= E
        BY <1>1
      <4>2. (k - 1) * E \in Nat
        BY <1>1
      <4> QED BY <4>1, <4>2, <2>1, <2>2, <1>1
    <3> HIDE DEF c
    <3>3. FatEntry(files, s, c) = FatEntry(files, t, c)
      BY <3>2 DEF FatEntry
    <3> QED BY <3>1, <3>3 DEF c
  <2>4. \A j \in 0 .. E - 1 : t + (1 - 1) * E + j = t + j
    BY <2>1, <1>1
  <2> QED BY <2>3, <2>4 DEF s, t
<1>6. ASSUME NEW k \in 1 .. n
      PROVE  FatSector(Cells(lba, k)) \in Sectors
  <2>1. \A j \in 0 .. E - 1 : start(lba) + (k - 1) * E + j \in Nat
    <3>1. start(lba) \in Nat
      BY <1>2
    <3>2. (k - 1) * E \in Nat
      BY <1>1
    <3> QED BY <3>1, <3>2, <1>1
  <2>2. \A st, c \in Nat : FatEntry(files, st, c) \in Nat
    BY MarkerAssumption DEF FatEntry
  <2>3. start(lba) \in Nat
    BY <1>2
  <2> HIDE DEF start
  <2>4. Cells(lba, k) \in [0 .. E - 1 -> Nat]
    BY <2>1, <2>2, <2>3
  <2> HIDE DEF Cells
  <2> QED BY <2>4 DEF FatSector, Sectors
<1> HIDE DEF Cells
<1>7. ASSUME NEW k \in 1 .. n
      PROVE  vdisk_fat(files, lba + k - 1, 1)[1] = FatSector(Cells(lba, k))
  <2>1. \A l : vdisk_fat(files, l, 1)[1] = FatSector(Cells(l, 1))
    BY <1>4
  <2> QED BY <2>1, <1>5
<1>8. vdisk_fat(files, lba, n)
        = [k \in 1 .. n |-> vdisk_fat(files, lba + k - 1, 1)[1]]
  BY <1>3, <1>7
<1>9. [k \in 1 .. n |-> FatSector(Cells(lba, k))] \in Seq(Sectors)
  BY <1>6
<1> QED BY <1>3, <1>8, <1>9

\* The files of a directory: in a directory's region the number taken from a
\* sector is that of an entry of the table, so the assertion of vdisk_dir_files
\* holds.
LEMMA DirentInTable ==
  ASSUME NEW r \in TableRegions, r.build = "dir_files",
         NEW lba \in Nat, Contains(r, lba)
  PROVE  VDISK_FILE_DIRENT_IDX(lba) \in FileIndices
<1> DEFINE cc == VDISK_CLUSTER_COUNT
<1>1. PICK q \in Nat : r.lba = q * cc + 1
  BY DEF TableRegions
<1>2. r.count = cc - 1 /\ cc \in Nat \ {0}
  BY GeometryTypes, GeometryFits DEF TableRegions, VDISK_BACKUP_VBR_SECTOR
<1> DEFINE i == lba - 1 - q * cc
<1>3. i \in 0 .. cc - 2 /\ i \in 0 .. cc - 1 /\ lba - 1 = q * cc + i
  BY <1>1, <1>2 DEF Contains
<1> HIDE DEF i
<1>4. (lba - 1) % cc = i
  <2>1. \A x \in 0 .. cc - 1 : (q * cc + x) % cc = x
    BY <1>2, DivUnique
  <2> QED BY <2>1, <1>3
<1> QED BY <1>2, <1>3, <1>4
        DEF VDISK_FILE_DIRENT_IDX, FileIndices, VDISK_MAX_FILES

LEMMA DirWindows ==
  ASSUME NEW files \in [FileIndices -> FileRecords],
         NEW lba \in Nat, NEW n \in Nat \ {0},
         \A l \in lba .. lba + n - 1 : VDISK_FILE_DIRENT_IDX(l) \in FileIndices
  PROVE  /\ vdisk_dir_files(files, lba, n)
              = [k \in 1 .. n |-> vdisk_dir_files(files, lba + k - 1, 1)[1]]
         /\ vdisk_dir_files(files, lba, n) \in Seq(Sectors)
<1> DEFINE D(l) == IF files[VDISK_FILE_DIRENT_IDX(l)].read
                     THEN Directory({DirEntry(
                            files[VDISK_FILE_DIRENT_IDX(l)].name,
                            files[VDISK_FILE_DIRENT_IDX(l)].xlen, "read_only",
                            VDISK_FILE_CLUSTER(VDISK_FILE_DIRENT_IDX(l)))})
                     ELSE Directory({})
<1>1. vdisk_dir_files(files, lba, n) = [k \in 1 .. n |-> D(lba + k - 1)]
  BY DEF vdisk_dir_files
<1>2. \A l : vdisk_dir_files(files, l, 1) = [k \in 1 .. 1 |-> D(l + k - 1)]
  BY DEF vdisk_dir_files
<1>3. ASSUME NEW l \in lba .. lba + n - 1
      PROVE  D(l) \in Sectors
  <2> DEFINE idx == VDISK_FILE_DIRENT_IDX(l)
             e == DirEntry(files[idx].name, files[idx].xlen, "read_only",
                           VDISK_FILE_CLUSTER(idx))
  <2>1. idx \in FileIndices
    OBVIOUS
  <2>2. files[idx] \in FileRecords
    BY <2>1
  <2>3. VDISK_FILE_CLUSTER(idx) \in Int
    <3>0. idx \in Int
      BY <2>1, SizesAreNat DEF FileIndices
    <3> HIDE DEF idx
    <3>1. /\ VDISK_FILE_COUNT \in Nat /\ VDISK_PARTITION_LBA \in Nat
          /\ VDISK_CLUSTER_COUNT \in Nat \ {0} /\ VDISK_SECTORS_PER_FAT \in Nat
      BY SizesAreNat, GeometryTypes, GeometryFits DEF VDISK_BACKUP_VBR_SECTOR
    <3>2. (VDISK_FILE_COUNT - VDISK_PARTITION_LBA - VDISK_CLUSTER_COUNT
             - VDISK_SECTORS_PER_FAT) \div VDISK_CLUSTER_COUNT \in Int
      BY <3>1
    <3>3. VDISK_FILE_COUNT \div VDISK_CLUSTER_COUNT \in Int
      BY <3>1
    <3> QED BY <3>0, <3>2, <3>3
            DEF VDISK_FILE_CLUSTER, VDISK_RESERVED_COUNT, VDISK_FILE_CLUSTERS
  <2>4. /\ \A x \in Int : x % UINT32 \in Nat
        /\ \A x \in Nat : x % UINT32 \in Nat
    BY GeometryTypes
  <2> HIDE DEF idx
  <2>5. e \in DirEntries
    <3>1. /\ files[idx].name \in FileNames \cup {""}
          /\ files[idx].xlen % UINT32 \in Nat
          /\ VDISK_FILE_CLUSTER(idx) % UINT32 \in Nat
      <4>1. files[idx].name \in FileNames \cup {""}
        BY <2>2, Zenon DEF FileRecords
      <4>2. files[idx].xlen \in Nat
        BY <2>2 DEF FileRecords
      <4> QED BY <4>1, <4>2, <2>3, <2>4, Zenon
    <3> QED BY <3>1 DEF DirEntry, DirEntries
  <2> HIDE DEF e
  <2>6. Directory({e}) \in Sectors /\ Directory({}) \in Sectors
    BY <2>5 DEF Directory, Sectors
  <2> QED BY <2>6 DEF e, idx
<1> HIDE DEF D
<1>4. ASSUME NEW k \in 1 .. n
      PROVE  vdisk_dir_files(files, lba + k - 1, 1)[1] = D(lba + k - 1)
  BY <1>2
<1>5. [k \in 1 .. n |-> D(lba + k - 1)] \in Seq(Sectors)
  BY <1>3
<1> QED BY <1>1, <1>4, <1>5

\* The bytes of a file that fall in the k-th sector of a buffer are the bytes
\* that fall in a buffer of one sector k - 1 sectors further on.
LEMMA PortionShift ==
  ASSUME NEW have \in Nat, NEW offset \in Nat, NEW n \in Nat \ {0},
         NEW k \in 1 .. n
  PROVE  LET skip == (k - 1) * VDISK_SECTOR_SIZE
             from(o) == IF o < have THEN have - o ELSE 0
         IN  /\ Portion(from(offset), n * VDISK_SECTOR_SIZE, k)
                  = Portion(from(offset + skip), VDISK_SECTOR_SIZE, 1)
             /\ Portion(from(offset), n * VDISK_SECTOR_SIZE, k)
                  \in 0 .. VDISK_SECTOR_SIZE
<1> DEFINE ss   == VDISK_SECTOR_SIZE
           skip == (k - 1) * ss
           len  == n * ss
<1>1. ss \in Nat \ {0}
  BY GeometryTypes
<1>2. skip \in Nat /\ len \in Nat /\ (1 - 1) * ss = 0
  BY <1>1
<1>3. skip + ss <= len
  <2>1. k * ss <= n * ss
    BY <1>1, MulMono
  <2>2. k * ss = skip + ss
    BY <1>1
  <2> QED BY <2>1, <2>2
<1> HIDE DEF skip, len
<1> QED BY <1>1, <1>2, <1>3 DEF Portion, skip, len

\* A file: inside one slot, a window of n sectors is n windows of one sector.
LEMMA FileWindows ==
  ASSUME NEW files \in [FileIndices -> FileRecords],
         NEW idx \in FileIndices, NEW lba \in Nat, NEW n \in Nat \ {0},
         (idx + 1) * VDISK_FILE_COUNT <= lba,
         lba + n <= (idx + 2) * VDISK_FILE_COUNT,
         n * VDISK_SECTOR_SIZE < UINT32
  PROVE  /\ vdisk_file(files, lba, n)
              = [k \in 1 .. n |-> vdisk_file(files, lba + k - 1, 1)[1]]
         /\ vdisk_file(files, lba, n) \in Seq(Sectors)
<1> DEFINE ss == VDISK_SECTOR_SIZE
           fc == VDISK_FILE_COUNT
           off(l) == (l - (idx + 1) * fc) * ss
           flen == files[idx].len
           plen == IF files[idx].patch THEN files[idx].xlen ELSE 0
           from(have, o) == IF o < have THEN have - o ELSE 0
           F(l, m, k) ==
             FileSector(idx, off(l) + (k - 1) * ss,
                        Portion(from(flen, off(l)), m * ss, k),
                        Portion(from(plen, off(l)), m * ss, k))
<1>1. ss \in Nat \ {0} /\ fc \in Nat \ {0} /\ UINT32 \in Nat \ {0}
  BY GeometryTypes
<1>2. idx \in Nat /\ files[idx] \in FileRecords
  BY DEF FileIndices
<1>3. flen \in Nat /\ plen \in Nat /\ files[idx].patch \in BOOLEAN
      /\ files[idx].xlen \in Nat
  BY <1>2 DEF FileRecords
<1>4. \A l \in lba .. lba + n - 1 : off(l) \in Nat
  BY <1>1, <1>2
<1>5. ASSUME NEW l \in lba .. lba + n - 1, NEW m \in 1 .. n
      PROVE  vdisk_file(files, l, m) = [k \in 1 .. m |-> F(l, m, k)]
  <2>1. VDISK_FILE_IDX(l) = idx /\ l % fc = l - (idx + 1) * fc
    <3>1. l \in Nat /\ (idx + 1) * fc <= l /\ l < (idx + 2) * fc
      BY <1>1, <1>2
    <3> QED BY <3>1, <1>2, SlotOf
  <2>2. VDISK_FILE_OFFSET(l) = off(l)
    BY <2>1 DEF VDISK_FILE_OFFSET
  <2>3. (m * ss) % UINT32 = m * ss
    <3>1. m * ss <= n * ss
      BY <1>1, MulMono
    <3>2. m * ss \in Nat /\ n * ss \in Nat
      BY <1>1
    <3> QED BY <3>1, <3>2, <1>1, ModSmall
  <2>4. (IF files[idx].patch /\ off(l) < files[idx].xlen
           THEN files[idx].xlen - off(l) ELSE 0) = from(plen, off(l))
    BY <1>3, <1>4
  <2> HIDE DEF off
  <2> QED BY <2>1, <2>2, <2>3, <2>4 DEF vdisk_file
<1>6. ASSUME NEW k \in 1 .. n
      PROVE  F(lba, n, k) = F(lba + k - 1, 1, 1) /\ F(lba, n, k) \in Sectors
  <2> DEFINE o == off(lba)
             skip == (k - 1) * ss
  <2>1. o \in Nat /\ skip \in Nat /\ 1 * ss = ss /\ (1 - 1) * ss = 0
    BY <1>1, <1>4
  <2>2. off(lba + k - 1) = o + skip
    <3> DEFINE x == lba - (idx + 1) * fc
    <3>1. off(lba + k - 1) = (x + (k - 1)) * ss /\ o = x * ss
      BY <1>1, <1>2
    <3>2. x \in Int /\ k - 1 \in Int
      BY <1>1, <1>2
    <3> HIDE DEF x, off, o
    <3>3. \A a, b \in Int : (a + b) * ss = a * ss + b * ss
      BY <1>1
    <3> QED BY <3>1, <3>2, <3>3
  <2> HIDE DEF off, o, flen, plen
  <2>3. /\ Portion(from(flen, o), n * ss, k) = Portion(from(flen, o + skip), ss, 1)
        /\ Portion(from(flen, o), n * ss, k) \in 0 .. ss
    BY <1>3, <2>1, PortionShift
  <2>4. /\ Portion(from(plen, o), n * ss, k) = Portion(from(plen, o + skip), ss, 1)
        /\ Portion(from(plen, o), n * ss, k) \in 0 .. ss
    BY <1>3, <2>1, PortionShift
  <2> HIDE DEF skip
  <2>5. off(lba + k - 1) + (1 - 1) * ss = o + skip
    BY <2>1, <2>2
  <2>6. F(lba, n, k) = F(lba + k - 1, 1, 1)
    BY <2>1, <2>2, <2>3, <2>4, <2>5 DEF o, skip
  <2>7. F(lba, n, k) = FileSector(idx, o + skip,
                                  Portion(from(flen, o), n * ss, k),
                                  Portion(from(plen, o), n * ss, k))
    BY DEF o, skip
  <2>8. \A c, p \in 0 .. ss : FileSector(idx, o + skip, c, p) \in Sectors
    BY <2>1 DEF FileSector, Sectors
  <2> QED BY <2>3, <2>4, <2>6, <2>7, <2>8
<1> HIDE DEF F
<1>7. ASSUME NEW k \in 1 .. n
      PROVE  vdisk_file(files, lba + k - 1, 1)[1] = F(lba + k - 1, 1, 1)
  <2>1. lba + k - 1 \in lba .. lba + n - 1 /\ 1 \in 1 .. n
    OBVIOUS
  <2> QED BY <1>5, <2>1
<1>8. vdisk_file(files, lba, n) = [k \in 1 .. n |-> F(lba, n, k)]
  BY <1>5
<1>9. [k \in 1 .. n |-> F(lba, n, k)] \in Seq(Sectors)
  BY <1>6
<1>10. \A k \in 1 .. n :
         vdisk_file(files, lba + k - 1, 1)[1] = F(lba, n, k)
  BY <1>6, <1>7
<1> QED BY <1>8, <1>9, <1>10

----------------------------------------------------------------------------
(* The inductive invariant *)

Busy == pc \in {"frag", "scan", "build"}

\* The fragment and region n have no sector in common.
Misses(n) == \/ frag_start >= vdisk_regions[n].lba + vdisk_regions[n].count
             \/ frag_end <= vdisk_regions[n].lba

\* The fragment ends in the slot it starts in.
InOneSlot ==
  frag_end <= (VDISK_FILE_IDX(frag_start) + 2) * VDISK_FILE_COUNT

\* What the scan has established about the fragment, and why it ended.
FragmentInv ==
  /\ pc = "scan" =>
       /\ frag_end <= VDISK_FILE_COUNT
       /\ build = NoRegion
       /\ \A n \in 1 .. region - 1 : Misses(n)
  /\ pc = "build" =>
       \/ /\ VDISK_FILE_IDX(frag_start) \in FileIndices
          /\ InOneSlot
          /\ build = FileRegion
       \/ /\ VDISK_FILE_IDX(frag_start) >= VDISK_MAX_FILES
          /\ InOneSlot
          /\ build = NoRegion
       \/ /\ frag_end <= VDISK_FILE_COUNT
          /\ build = NoRegion
          /\ \A n \in 1 .. Len(vdisk_regions) : Misses(n)
       \/ /\ frag_end <= VDISK_FILE_COUNT
          /\ region \in 1 .. Len(vdisk_regions)
          /\ build = vdisk_regions[region]
          /\ vdisk_regions[region].lba <= frag_start
          /\ frag_end <= vdisk_regions[region].lba + vdisk_regions[region].count
          /\ \A n \in 1 .. region - 1 : Misses(n)

RequestInv == Busy => request \in Requests

\* The buffer holds what the disk has from the start of the request on.
DataInv ==
  Busy => data = [k \in 1 .. frag_start - request.lba |->
                    DiskSector(vdisk_files, request.lba + k - 1)]

IInv == TypeOK /\ RequestInv /\ FragmentsCover /\ FragmentInv /\ DataInv

\* The requests are reads of at least one sector that vdisk_read serves.
AllServed == \A r \in Requests : Served(r) /\ r.count # 0

LEMMA DiskCountIsNat == VDISK_COUNT \in Nat /\ VDISK_COUNT < UINT32
<1>1. VDISK_CLUSTERS * VDISK_CLUSTER_COUNT \in Nat
  BY GeometryTypes
<1> QED BY <1>1, SizesAreNat, GeometryTypes, GeometryHoldsFiles
        DEF VDISK_COUNT, VDISK_PARTITION_COUNT, VDISK_RESERVED_COUNT

\* The fragment about to be built is not empty, and its number of sectors does
\* not overflow an unsigned int.
LEMMA FragmentCount ==
  ASSUME AllServed, IInv, pc = "build"
  PROVE  /\ frag_count = frag_end - frag_start
         /\ frag_end - frag_start \in Nat \ {0}
         /\ (frag_end - frag_start) * VDISK_SECTOR_SIZE < UINT32
         /\ frag_end <= ReadEnd /\ ReadEnd \in Nat
<1> DEFINE n == frag_end - frag_start
<1>1. /\ request \in Requests /\ request.lba \in Nat /\ request.count \in Nat
      /\ request.count # 0
  BY RequestsAssumption DEF IInv, RequestInv, Busy, AllServed, TypeOK
<1>2. /\ request.lba + request.count <= VDISK_COUNT
      /\ request.count * VDISK_SECTOR_SIZE < UINT32
  BY <1>1, RequestsAssumption
<1>3. frag_start \in Nat /\ frag_end \in Nat
  BY DEF IInv, TypeOK
<1>4. /\ request.lba <= frag_start /\ frag_end <= request.lba + request.count
      /\ frag_start < frag_end
  BY <1>1 DEF IInv, FragmentsCover, ReadEnd
<1>5. n \in Nat \ {0} /\ n <= request.count
  BY <1>1, <1>3, <1>4
<1>6. n < UINT32
  BY <1>1, <1>2, <1>5, DiskCountIsNat, GeometryTypes
<1>7. n % UINT32 = n
  BY <1>5, <1>6, GeometryTypes, ModSmall
<1>8. n * VDISK_SECTOR_SIZE <= request.count * VDISK_SECTOR_SIZE
  BY <1>1, <1>5, GeometryTypes, MulMono
<1>9. n * VDISK_SECTOR_SIZE < UINT32
  BY <1>1, <1>2, <1>5, <1>8, GeometryTypes
<1> QED BY <1>1, <1>4, <1>5, <1>7, <1>9 DEF frag_count, ReadEnd

\* A sector before the first file's slot has no file.
LEMMA Metadata ==
  ASSUME NEW lba \in Nat
  PROVE  VDISK_FILE_IDX(lba) < 0 <=> lba < VDISK_FILE_COUNT
<1> DEFINE i == VDISK_FILE_IDX(lba)
           fc == VDISK_FILE_COUNT
<1>1. fc \in Nat \ {0}
  BY GeometryTypes
<1>2. i \in Int /\ i >= -1 /\ (i + 1) * fc <= lba /\ lba < (i + 2) * fc
  BY InSlot
<1> HIDE DEF i
<1>3. CASE i < 0
  <2>1. i = -1
    BY <1>2, <1>3
  <2> QED BY <1>1, <1>2, <2>1 DEF i
<1>4. CASE i >= 0
  <2>1. (i + 1) * fc >= fc
    BY <1>1, <1>2, <1>4
  <2>2. (i + 1) * fc \in Int
    BY <1>1, <1>2
  <2> QED BY <1>1, <1>2, <1>4, <2>1, <2>2 DEF i
<1> QED BY <1>2, <1>3, <1>4

\* The builder that BuildRegion calls.
LEMMA BuildRegionCases ==
  ASSUME NEW r, NEW files, NEW lba, NEW n
  PROVE  LET b == BuildRegion(r, files, lba, n)
         IN  /\ r.build = "mbr" => b = <<Mbr>>
             /\ r.build = "vbr" => b = <<Vbr>>
             /\ r.build = "fsinfo" => b = <<FsInfo>>
             /\ r.build = "fat" => b = vdisk_fat(files, lba, n)
             /\ r.build = "subdirs" => b = <<Directory(Subdirectories(r.dir))>>
             /\ r.build = "dir_files" => b = vdisk_dir_files(files, lba, n)
             /\ r.build = "file" => b = vdisk_file(files, lba, n)
             /\ r.build = "none" => b = [k \in 1 .. n |-> Zero]
BY DEF BuildRegion, vdisk_mbr, vdisk_vbr, vdisk_fsinfo, vdisk_subdirs

LEMMA FixedSectors ==
  ASSUME NEW dir
  PROVE  {Zero, Mbr, Vbr, FsInfo, Directory(Subdirectories(dir))} \subseteq Sectors
<1>1. \A name \in {"BOOT", "SOURCES", "EFI", "FONTS", "RESOURCES", "MICROSOFT"} :
        \A c \in Nat : Subdirectory(name, c) \in DirEntries
  <2>1. \A c \in Nat : c % UINT32 \in Nat
    BY GeometryTypes
  <2> QED BY <2>1 DEF Subdirectory, DirEntry, DirEntries
<1>2. Subdirectories(dir) \subseteq DirEntries
  BY <1>1 DEF Subdirectories, VDISK_BOOT_CLUSTER, VDISK_SOURCES_CLUSTER,
              VDISK_EFI_CLUSTER, VDISK_FONTS_CLUSTER, VDISK_RESOURCES_CLUSTER,
              VDISK_MICROSOFT_CLUSTER
<1>3. Directory(Subdirectories(dir)) \in Sectors
  BY <1>2 DEF Directory, Sectors
<1>4. {Zero, Mbr, Vbr, FsInfo} \subseteq Sectors
  BY DEF Sectors
<1> QED BY <1>3, <1>4

\* The builder of a fragment writes, for each of its sectors, the sector that a
\* read of it alone returns.
LEMMA BuildExact ==
  ASSUME AllServed, IInv, pc = "build"
  PROVE  /\ BuildRegion(build, vdisk_files, frag_start, frag_end - frag_start)
              = [k \in 1 .. frag_end - frag_start |->
                   DiskSector(vdisk_files, frag_start + k - 1)]
         /\ BuildRegion(build, vdisk_files, frag_start, frag_end - frag_start)
              \in Seq(Sectors)
         /\ DirentIdxInTable
<1> DEFINE n == frag_end - frag_start
           f == vdisk_files
           B(r, l, m) == BuildRegion(r, f, l, m)
           Frag == frag_start .. frag_end - 1
           Goal == /\ B(build, frag_start, n)
                        = [k \in 1 .. n |-> DiskSector(f, frag_start + k - 1)]
                   /\ B(build, frag_start, n) \in Seq(Sectors)
                   /\ DirentIdxInTable
<1>1. /\ f \in [FileIndices -> FileRecords]
      /\ frag_start \in Nat /\ frag_end \in Nat
  BY DEF IInv, TypeOK
<1>2. n \in Nat \ {0} /\ n * VDISK_SECTOR_SIZE < UINT32
  BY FragmentCount
<1>3. \A k \in 1 .. n : frag_start + k - 1 \in Frag
  BY <1>1
<1>4. \A l \in Frag : l \in Nat
  BY <1>1
<1>5. VDISK_MAX_FILES \in Nat /\ VDISK_FILE_COUNT \in Nat \ {0}
  BY SizesAreNat, GeometryTypes
\* It is enough to know the region of every sector of the fragment.
<1>6. ASSUME \A l \in Frag : RegionOf(l) = build,
             B(build, frag_start, n)
               = [k \in 1 .. n |-> B(build, frag_start + k - 1, 1)[1]]
      PROVE  B(build, frag_start, n)
               = [k \in 1 .. n |-> DiskSector(f, frag_start + k - 1)]
  <2>1. \A k \in 1 .. n : DiskSector(f, frag_start + k - 1)
                            = B(build, frag_start + k - 1, 1)[1]
    BY <1>3, <1>6 DEF DiskSector
  <2> HIDE DEF B, n
  <2> QED BY <1>6, <2>1
<1>7. ASSUME build = NoRegion, \A l \in Frag : RegionOf(l) = NoRegion
      PROVE  Goal
  <2>1. NoRegion.build = "none"
    BY DEF NoRegion, Region
  <2>2. \A l, m : B(build, l, m) = [k \in 1 .. m |-> Zero]
    BY <1>7, <2>1, BuildRegionCases
  <2>3. \A l : B(build, l, 1)[1] = Zero
    BY <2>2
  <2>4. [k \in 1 .. n |-> Zero] \in Seq(Sectors)
    BY <1>2, FixedSectors
  <2>5. DirentIdxInTable
    BY <1>7, <2>1 DEF DirentIdxInTable
  <2> HIDE DEF B, n
  <2>6. B(build, frag_start, n)
          = [k \in 1 .. n |-> B(build, frag_start + k - 1, 1)[1]]
    BY <2>2, <2>3
  <2> QED BY <1>6, <1>7, <2>2, <2>4, <2>5, <2>6
<1>8. CASE /\ VDISK_FILE_IDX(frag_start) \in FileIndices
           /\ InOneSlot
           /\ build = FileRegion
  <2> DEFINE idx == VDISK_FILE_IDX(frag_start)
  <2>1. /\ idx \in Nat /\ idx < VDISK_MAX_FILES
        /\ (idx + 1) * VDISK_FILE_COUNT <= frag_start
        /\ frag_end <= (idx + 2) * VDISK_FILE_COUNT
    BY <1>1, <1>5, <1>8, InSlot DEF FileIndices, InOneSlot
  <2> HIDE DEF idx
  <2>2. ASSUME NEW l \in Frag PROVE RegionOf(l) = FileRegion
    <3>1. l < (idx + 2) * VDISK_FILE_COUNT /\ (idx + 1) * VDISK_FILE_COUNT <= l
      BY <1>1, <1>5, <2>1
    <3>2. VDISK_FILE_IDX(l) = idx
      BY <1>4, <2>1, <3>1, SlotOf
    <3> QED BY <2>1, <3>2 DEF RegionOf
  <2>3. FileRegion.build = "file"
    BY DEF FileRegion, Region
  <2>4. \A l, m : B(build, l, m) = vdisk_file(f, l, m)
    BY <1>8, <2>3, BuildRegionCases
  <2>5. idx \in FileIndices /\ frag_start + n <= (idx + 2) * VDISK_FILE_COUNT
    BY <1>1, <1>5, <1>8, <2>1 DEF idx
  <2>6. /\ vdisk_file(f, frag_start, n)
             = [k \in 1 .. n |-> vdisk_file(f, frag_start + k - 1, 1)[1]]
        /\ vdisk_file(f, frag_start, n) \in Seq(Sectors)
    BY <1>1, <1>2, <2>1, <2>5, FileWindows
  <2>7. DirentIdxInTable
    BY <1>8, <2>3 DEF DirentIdxInTable
  <2> HIDE DEF B, n
  <2>8. B(build, frag_start, n)
          = [k \in 1 .. n |-> B(build, frag_start + k - 1, 1)[1]]
    BY <2>4, <2>6
  <2> QED BY <1>6, <1>8, <2>2, <2>4, <2>6, <2>7, <2>8 DEF B, n
<1>9. CASE /\ VDISK_FILE_IDX(frag_start) >= VDISK_MAX_FILES
           /\ InOneSlot
           /\ build = NoRegion
  <2> DEFINE idx == VDISK_FILE_IDX(frag_start)
  <2>1. /\ idx \in Int /\ idx >= VDISK_MAX_FILES
        /\ (idx + 1) * VDISK_FILE_COUNT <= frag_start
        /\ frag_end <= (idx + 2) * VDISK_FILE_COUNT
    BY <1>1, <1>9, InSlot DEF InOneSlot
  <2> HIDE DEF idx
  <2>2. ASSUME NEW l \in Frag PROVE RegionOf(l) = NoRegion
    <3>1. l < (idx + 2) * VDISK_FILE_COUNT /\ (idx + 1) * VDISK_FILE_COUNT <= l
      BY <1>1, <1>5, <2>1
    <3>2. VDISK_FILE_IDX(l) = idx
      BY <1>4, <2>1, <3>1, SlotOf
    <3> QED BY <1>5, <2>1, <3>2 DEF RegionOf
  <2> QED BY <1>7, <1>9, <2>2
<1>10. CASE /\ frag_end <= VDISK_FILE_COUNT
            /\ build = NoRegion
            /\ \A m \in 1 .. Len(vdisk_regions) : Misses(m)
  <2>1. ASSUME NEW l \in Frag PROVE RegionOf(l) = NoRegion
    <3>1. VDISK_FILE_IDX(l) < 0
      BY <1>1, <1>4, <1>5, <1>10, Metadata
    <3>2. \A m \in 1 .. Len(vdisk_regions) : ~Contains(vdisk_regions[m], l)
      BY <1>1, <1>10, RegionFacts DEF Misses, Contains
    <3> QED BY <1>4, <3>1, <3>2, RegionOfNone
  <2> QED BY <1>7, <1>10, <2>1
<1>11. CASE /\ frag_end <= VDISK_FILE_COUNT
            /\ region \in 1 .. Len(vdisk_regions)
            /\ build = vdisk_regions[region]
            /\ vdisk_regions[region].lba <= frag_start
            /\ frag_end <= vdisk_regions[region].lba + vdisk_regions[region].count
            /\ \A m \in 1 .. region - 1 : Misses(m)
  <2>0. Len(vdisk_regions) \in Nat
    BY RegionsInTable
  <2>1. build \in TableRegions /\ build.lba \in Nat /\ build.count \in Nat
    BY <1>11, RegionFacts
  <2>2. build.lba <= frag_start /\ frag_end <= build.lba + build.count
    BY <1>11
  <2>3. ASSUME NEW l \in Frag PROVE RegionOf(l) = build /\ Contains(build, l)
    <3>1. VDISK_FILE_IDX(l) < 0
      BY <1>1, <1>4, <1>5, <1>11, Metadata
    <3>2. Contains(build, l)
      BY <1>1, <2>1, <2>2 DEF Contains
    <3>3. ASSUME NEW m \in 1 .. region - 1
          PROVE  ~Contains(vdisk_regions[m], l)
      <4>1. m \in 1 .. Len(vdisk_regions)
        BY <1>11, <2>0
      <4>2. Misses(m)
        BY <1>11
      <4>3. vdisk_regions[m].lba \in Nat /\ vdisk_regions[m].count \in Nat
        BY <4>1, RegionFacts
      <4> QED BY <1>1, <4>2, <4>3 DEF Misses, Contains
    <3> QED BY <1>4, <1>11, <3>1, <3>2, <3>3, RegionOfFirst
  <2>4. ASSUME build.build \in {"mbr", "vbr", "fsinfo", "subdirs"} PROVE Goal
    <3>1. build.count = 1
      BY <2>1, <2>4 DEF TableRegions
    <3>2. n = 1
      BY <1>1, <1>2, <2>1, <2>2, <3>1
    <3>3. PICK x \in Sectors : \A l, m : B(build, l, m) = <<x>>
      BY <2>4, BuildRegionCases, FixedSectors
    <3>4. DirentIdxInTable
      BY <2>4 DEF DirentIdxInTable
    <3> HIDE DEF B, n
    <3>5. B(build, frag_start, n)
            = [k \in 1 .. n |-> B(build, frag_start + k - 1, 1)[1]]
      BY <3>2, <3>3
    <3>6. B(build, frag_start, n) \in Seq(Sectors)
      <4>1. <<x>> \in Seq(Sectors)
        OBVIOUS
      <4> QED BY <3>3, <4>1
    <3> QED BY <1>6, <2>3, <3>4, <3>5, <3>6
  <2>5. ASSUME build.build = "fat" PROVE Goal
    <3>1. build.lba = VDISK_FAT_LBA /\ build.count = VDISK_SECTORS_PER_FAT
      BY <2>1, <2>5 DEF TableRegions
    <3>2. VDISK_FAT_LBA <= frag_start
          /\ frag_start + n <= VDISK_FAT_LBA + VDISK_SECTORS_PER_FAT
      BY <1>1, <2>1, <2>2, <3>1
    <3>3. \A l, m : B(build, l, m) = vdisk_fat(f, l, m)
      BY <2>5, BuildRegionCases
    <3>4. /\ vdisk_fat(f, frag_start, n)
               = [k \in 1 .. n |-> vdisk_fat(f, frag_start + k - 1, 1)[1]]
          /\ vdisk_fat(f, frag_start, n) \in Seq(Sectors)
      BY <1>1, <1>2, <3>2, FatWindows
    <3>5. DirentIdxInTable
      BY <2>5 DEF DirentIdxInTable
    <3> HIDE DEF B, n
    <3>6. B(build, frag_start, n)
            = [k \in 1 .. n |-> B(build, frag_start + k - 1, 1)[1]]
      BY <3>3, <3>4
    <3> QED BY <1>6, <2>3, <3>3, <3>4, <3>5, <3>6 DEF B, n
  <2>6. ASSUME build.build = "dir_files" PROVE Goal
    <3>1. \A l \in Frag : VDISK_FILE_DIRENT_IDX(l) \in FileIndices
      BY <1>4, <2>1, <2>3, <2>6, DirentInTable
    <3>2. frag_start + n - 1 = frag_end - 1
      BY <1>1
    <3>3. \A l, m : B(build, l, m) = vdisk_dir_files(f, l, m)
      BY <2>6, BuildRegionCases
    <3>4. /\ vdisk_dir_files(f, frag_start, n)
               = [k \in 1 .. n |-> vdisk_dir_files(f, frag_start + k - 1, 1)[1]]
          /\ vdisk_dir_files(f, frag_start, n) \in Seq(Sectors)
      BY <1>1, <1>2, <3>1, <3>2, DirWindows
    <3>5. DirentIdxInTable
      BY <3>1 DEF DirentIdxInTable
    <3> HIDE DEF B, n
    <3>6. B(build, frag_start, n)
            = [k \in 1 .. n |-> B(build, frag_start + k - 1, 1)[1]]
      BY <3>3, <3>4
    <3> QED BY <1>6, <2>3, <3>3, <3>4, <3>5, <3>6 DEF B, n
  <2>7. build.build \in {"mbr", "vbr", "fsinfo", "fat", "subdirs", "dir_files"}
    BY <2>1 DEF TableRegions
  <2> QED BY <2>4, <2>5, <2>6, <2>7
<1> QED BY <1>8, <1>9, <1>10, <1>11 DEF IInv, FragmentInv

----------------------------------------------------------------------------
(* Every step preserves the invariant *)

LEMMA InitIInv == Init => IInv
<1> SUFFICES ASSUME Init PROVE IInv
  OBVIOUS
<1>1. Len(vdisk_regions) \in Nat /\ VDISK_MAX_FILES \in Nat
  BY RegionsInTable, SizesAreNat
<1>2. EmptyFile \in FileRecords
  BY DEF EmptyFile, FileRecords
<1>3. vdisk_files \in [FileIndices -> FileRecords]
  BY <1>2 DEF Init
<1>4. TypeOK
  BY <1>1, <1>3 DEF Init, TypeOK, Builders
<1> QED BY <1>4 DEF Init, IInv, RequestInv, Busy, FragmentsCover, FragmentInv,
                    DataInv

\* Adding and patching files happens before the first read.
LEMMA SetupStep ==
  ASSUME IInv, pc = "setup",
         \/ \E name \in FileNames, len \in FileLens[index] :
              vdisk_add_file(name, len) \/ vdisk_add_file_die(name, len)
         \/ \E idx \in FileIndices, growth \in PatchGrowth :
              vdisk_patch_file(idx, growth)
         \/ Install
  PROVE  IInv'
<1> USE DEF LoopVars
<1>0. TypeOK
  BY DEF IInv
<1>1. /\ vdisk_files \in [FileIndices -> FileRecords]
      /\ index \in 0 .. VDISK_MAX_FILES
      /\ VDISK_MAX_FILES \in Nat
  BY <1>0, SizesAreNat DEF TypeOK
<1>2. ASSUME NEW f \in FileRecords, NEW i \in FileIndices,
             vdisk_files' = [vdisk_files EXCEPT ![i] = f]
      PROVE  vdisk_files' \in [FileIndices -> FileRecords]
  BY <1>1, <1>2
<1>3. /\ vdisk_files' \in [FileIndices -> FileRecords]
      /\ index' \in 0 .. VDISK_MAX_FILES
  <2>1. ASSUME NEW name \in FileNames, NEW len \in FileLens[index],
               vdisk_add_file(name, len)
        PROVE  <1>3!1 /\ <1>3!2
    <3>0. index < VDISK_MAX_FILES /\ index' = index + 1
      BY <2>1, Zenon DEF vdisk_add_file
    <3>1. index \in FileIndices /\ index' \in 0 .. VDISK_MAX_FILES
      BY <1>1, <3>0 DEF FileIndices
    <3>2. len \in Nat
      BY <1>1, <3>1, FilesAssumption, GeometryTypes
    <3> DEFINE g == [vdisk_files[index] EXCEPT !.read = TRUE, !.name = name,
                                              !.len = len, !.xlen = len]
    <3>3. g \in FileRecords
      BY <1>1, <3>1, <3>2 DEF FileRecords
    <3>4. vdisk_files' = [vdisk_files EXCEPT ![index] = g]
      BY <1>1, <2>1, <3>1 DEF vdisk_add_file
    <3> HIDE DEF g
    <3> QED BY <1>2, <3>1, <3>3, <3>4
  <2>2. ASSUME NEW idx \in FileIndices, NEW growth \in PatchGrowth,
               vdisk_patch_file(idx, growth)
        PROVE  <1>3!1 /\ <1>3!2
    <3>1. vdisk_files[idx].len + growth \in Nat
      <4>1. growth \in Nat /\ vdisk_files[idx].len \in Nat
        BY <1>1, FilesAssumption DEF FileRecords
      <4> QED BY <4>1
    <3> DEFINE g == [vdisk_files[idx] EXCEPT !.patch = TRUE,
                                            !.xlen = vdisk_files[idx].len + growth]
    <3>2. g \in FileRecords
      BY <1>1, <3>1 DEF FileRecords
    <3>3. vdisk_files' = [vdisk_files EXCEPT ![idx] = g]
      BY <1>1, <2>2 DEF vdisk_patch_file
    <3> HIDE DEF g
    <3> QED BY <1>1, <1>2, <2>2, <3>2, <3>3 DEF vdisk_patch_file
  <2> QED BY <1>1, <2>1, <2>2 DEF vdisk_add_file_die, Install
<1>4. pc' \in {"setup", "idle", "dead"} /\ UNCHANGED LoopVars
  BY DEF vdisk_add_file, vdisk_add_file_die, vdisk_patch_file, Install
<1>5. TypeOK'
  BY <1>0, <1>3, <1>4 DEF TypeOK
<1>6. Len(data') = request'.count
  BY <1>4 DEF IInv, FragmentsCover
<1> QED BY <1>4, <1>5, <1>6
        DEF IInv, RequestInv, Busy, FragmentsCover, FragmentInv, DataInv

LEMMA ReadStartStep ==
  ASSUME AllServed, IInv, NEW r \in Requests, ReadStart(r)
  PROVE  IInv'
<1>1. r \in [lba : Nat, count : Nat] /\ r.lba \in Nat /\ r.count \in Nat
      /\ r.count # 0
  BY RequestsAssumption DEF AllServed
<1>2. /\ pc' = "frag" /\ request' = r /\ frag_start' = r.lba
      /\ frag_end' = 0 /\ region' = 1 /\ build' = NoRegion /\ data' = <<>>
      /\ UNCHANGED <<vdisk_files, index>>
  BY DEF ReadStart
<1>3. TypeOK'
  <2>1. Len(vdisk_regions) \in Nat
    BY RegionsInTable
  <2> QED BY <1>1, <1>2, <2>1 DEF IInv, TypeOK, Builders
<1>4. FragmentsCover'
  BY <1>1, <1>2 DEF FragmentsCover, ReadEnd
<1>5. DataInv'
  BY <1>1, <1>2 DEF DataInv
<1> QED BY <1>2, <1>3, <1>4, <1>5 DEF IInv, RequestInv, FragmentInv

\* What is known of the request and the fragment while vdisk_read runs.
LEMMA BusyFacts ==
  ASSUME AllServed, IInv, Busy
  PROVE  /\ request \in Requests /\ Served(request)
         /\ request.lba \in Nat /\ request.count \in Nat \ {0}
         /\ ReadEnd \in Nat
         /\ frag_start \in Nat /\ frag_end \in Nat
         /\ request.lba <= frag_start /\ frag_start < ReadEnd
<1>1. request \in Requests /\ Served(request) /\ request.count # 0
  BY DEF IInv, RequestInv, AllServed
<1>2. request.lba \in Nat /\ request.count \in Nat
  BY <1>1, RequestsAssumption
<1> QED BY <1>1, <1>2 DEF IInv, TypeOK, FragmentsCover, Busy, ReadEnd

\* A read that starts a fragment in slot 0 ends in slot 0.
LEMMA FragmentInMetadataStep ==
  ASSUME AllServed, IInv, FragmentInMetadata
  PROVE  IInv'
<1>1. pc = "frag" /\ VDISK_FILE_IDX(frag_start) < 0
  BY DEF FragmentInMetadata
<1>2. /\ pc' = "scan" /\ frag_end' = ReadEnd /\ region' = 1
      /\ build' = NoRegion
      /\ UNCHANGED <<vdisk_files, index, request, frag_start, data>>
  BY DEF FragmentInMetadata
<1>3. /\ request \in Requests /\ Served(request)
      /\ request.lba \in Nat /\ request.count \in Nat \ {0}
      /\ ReadEnd \in Nat /\ frag_start \in Nat
      /\ request.lba <= frag_start /\ frag_start < ReadEnd
  BY <1>1, BusyFacts DEF Busy
<1>4. ReadEnd <= VDISK_FILE_COUNT
  <2>1. frag_start < VDISK_FILE_COUNT
    BY <1>1, <1>3, Metadata
  <2> QED BY <1>3, <2>1, GeometryTypes DEF Served, ReadEnd
<1>5. TypeOK'
  <2>1. Len(vdisk_regions) \in Nat
    BY RegionsInTable
  <2> QED BY <1>2, <1>3, <2>1 DEF IInv, TypeOK, Builders
<1>6. FragmentsCover'
  BY <1>1, <1>2, <1>3 DEF IInv, FragmentsCover, ReadEnd
<1>7. FragmentInv'
  BY <1>2, <1>4 DEF FragmentInv
<1>8. DataInv' /\ RequestInv'
  BY <1>1, <1>2, <1>3 DEF IInv, DataInv, RequestInv, Busy
<1> QED BY <1>5, <1>6, <1>7, <1>8 DEF IInv

\* The end of the slot a fragment starts in is no more than an unsigned long.
LEMMA FragmentInSlotStep ==
  ASSUME AllServed, IInv, FragmentInSlot
  PROVE  IInv'
<1> DEFINE i == VDISK_FILE_IDX(frag_start)
           fc == VDISK_FILE_COUNT
<1>1. pc = "frag" /\ i >= 0
  BY DEF FragmentInSlot
<1>2. /\ pc' = "build" /\ frag_end' = Least(ReadEnd, VDISK_FILE_LBA(i + 1))
      /\ build' = IF i < VDISK_MAX_FILES THEN FileRegion ELSE NoRegion
      /\ UNCHANGED <<vdisk_files, index, request, frag_start, region, data>>
  BY DEF FragmentInSlot
<1>3. /\ request \in Requests /\ Served(request)
      /\ request.lba \in Nat /\ request.count \in Nat \ {0}
      /\ ReadEnd \in Nat /\ frag_start \in Nat
      /\ request.lba <= frag_start /\ frag_start < ReadEnd
  BY <1>1, BusyFacts DEF Busy
<1>4. fc \in Nat \ {0} /\ ULONG \in Nat \ {0} /\ VDISK_MAX_FILES \in Nat
  BY GeometryTypes, SizesAreNat
<1>5. i \in Int /\ (i + 1) * fc <= frag_start /\ frag_start < (i + 2) * fc
  BY <1>3, InSlot
<1>6. VDISK_FILE_LBA(i + 1) = (i + 2) * fc
  <2>1. (i + 2) * fc = (i + 1) * fc + fc /\ (i + 2) * fc \in Nat
    <3> HIDE DEF i
    <3> QED BY <1>1, <1>4, <1>5
  <2>2. (i + 2) * fc < ULONG
    <3>1. ReadEnd + fc <= ULONG
      BY <1>3, <1>4 DEF Served, ReadEnd
    <3> HIDE DEF i
    <3> QED BY <2>1, <3>1, <1>3, <1>4, <1>5
  <2>3. ((i + 2) * fc) % ULONG = (i + 2) * fc
    <3> HIDE DEF i
    <3> QED BY <2>1, <2>2, <1>4, ModSmall
  <2>4. (i + 1) + 1 = i + 2
    BY <1>5
  <2> QED BY <2>3, <2>4 DEF VDISK_FILE_LBA
<1>7. /\ frag_end' \in Nat /\ frag_end' <= ReadEnd
      /\ frag_start < frag_end' /\ frag_end' <= (i + 2) * fc
  <2>1. (i + 2) * fc \in Nat
    <3> HIDE DEF i
    <3> QED BY <1>1, <1>4, <1>5
  <2> HIDE DEF i
  <2> QED BY <1>2, <1>3, <1>5, <1>6, <2>1 DEF Least
<1>8. TypeOK'
  BY <1>2, <1>7 DEF IInv, TypeOK, Builders
<1>9. FragmentsCover'
  BY <1>1, <1>2, <1>3, <1>7 DEF IInv, FragmentsCover, ReadEnd
<1>10. FragmentInv'
  <2>1. VDISK_FILE_IDX(frag_start') = i /\ InOneSlot'
    BY <1>2, <1>7 DEF InOneSlot
  <2>2. CASE i < VDISK_MAX_FILES
    <3>1. i \in FileIndices
      BY <1>1, <1>4, <1>5, <2>2 DEF FileIndices
    <3> QED BY <1>2, <2>1, <2>2, <3>1 DEF FragmentInv
  <2>3. CASE ~(i < VDISK_MAX_FILES)
    <3>1. i >= VDISK_MAX_FILES
      BY <1>4, <1>5, <2>3
    <3> QED BY <1>2, <2>1, <2>3, <3>1 DEF FragmentInv
  <2> QED BY <2>2, <2>3
<1>11. DataInv' /\ RequestInv'
  BY <1>1, <1>2, <1>3 DEF IInv, DataInv, RequestInv, Busy
<1> QED BY <1>8, <1>9, <1>10, <1>11 DEF IInv

\* Cutting a fragment at the start of a region keeps it from being empty, and
\* what the scan has found of earlier regions stays true.
LEMMA ClipFacts ==
  ASSUME AllServed, IInv, pc = "scan", region <= Len(vdisk_regions)
  PROVE  LET r == vdisk_regions[region]
             e == ClipAtStart(r)
         IN  /\ region \in 1 .. Len(vdisk_regions)
             /\ r.lba \in Nat /\ r.count \in Nat
             /\ e \in Nat /\ frag_start < e /\ e <= frag_end
             /\ frag_start < r.lba => e <= r.lba
<1> DEFINE r == vdisk_regions[region]
<1>1. region \in 1 .. Len(vdisk_regions)
  <2>1. Len(vdisk_regions) \in Nat /\ region \in 1 .. Len(vdisk_regions) + 1
    BY RegionsInTable DEF IInv, TypeOK
  <2> QED BY <2>1
<1>2. r.lba \in Nat /\ r.count \in Nat
  BY <1>1, RegionFacts
<1>3. frag_start \in Nat /\ frag_end \in Nat /\ frag_start < frag_end
  BY BusyFacts DEF Busy, IInv, FragmentsCover
<1> HIDE DEF r
<1>4. /\ ClipAtStart(r) \in Nat /\ frag_start < ClipAtStart(r)
      /\ ClipAtStart(r) <= frag_end
      /\ frag_start < r.lba => ClipAtStart(r) <= r.lba
  BY <1>2, <1>3 DEF ClipAtStart
<1> QED BY <1>1, <1>2, <1>4 DEF r

LEMMA ScanPastStep ==
  ASSUME AllServed, IInv, ScanPast
  PROVE  IInv'
<1> DEFINE r == vdisk_regions[region]
<1>1. /\ pc = "scan" /\ region <= Len(vdisk_regions) /\ ~Overlaps(r)
      /\ frag_end' = ClipAtStart(r) /\ region' = region + 1
      /\ UNCHANGED <<vdisk_files, index, pc, request, frag_start, build, data>>
  BY DEF ScanPast
<1>2. /\ region \in 1 .. Len(vdisk_regions)
      /\ r.lba \in Nat /\ r.count \in Nat
      /\ frag_end' \in Nat /\ frag_start < frag_end' /\ frag_end' <= frag_end
  BY <1>1, ClipFacts
<1>3. /\ frag_start \in Nat /\ frag_end \in Nat /\ ReadEnd \in Nat
      /\ frag_end <= ReadEnd /\ Len(vdisk_regions) \in Nat
  BY <1>1, BusyFacts, RegionsInTable DEF Busy, IInv, FragmentsCover
<1>4. TypeOK'
  <2>1. region' \in 1 .. Len(vdisk_regions) + 1
    BY <1>1, <1>2, <1>3
  <2> QED BY <1>1, <1>2, <2>1 DEF IInv, TypeOK
<1>5. FragmentsCover'
  BY <1>1, <1>2, <1>3 DEF IInv, FragmentsCover, ReadEnd
<1>6. \A n \in 1 .. region' - 1 : Misses(n)'
  <2> SUFFICES ASSUME NEW n \in 1 .. region' - 1 PROVE Misses(n)'
    OBVIOUS
  <2>1. CASE n = region
    BY <1>1, <1>2, <1>3, <2>1 DEF Misses, Overlaps
  <2>2. CASE n # region
    <3>1. n \in 1 .. region - 1
      BY <1>1, <1>2, <1>3, <2>2
    <3>2. Misses(n)
      BY <1>1, <3>1 DEF IInv, FragmentInv
    <3>3. n \in 1 .. Len(vdisk_regions)
      BY <1>2, <1>3, <3>1
    <3>4. vdisk_regions[n].lba \in Nat /\ vdisk_regions[n].count \in Nat
      BY <3>3, RegionFacts
    <3> QED BY <1>1, <1>2, <1>3, <3>2, <3>4 DEF Misses
  <2> QED BY <2>1, <2>2
<1>7. frag_end' <= VDISK_FILE_COUNT
  BY <1>1, <1>2, <1>3, GeometryTypes DEF IInv, FragmentInv
<1>8. FragmentInv'
  BY <1>1, <1>6, <1>7 DEF IInv, FragmentInv
<1>9. DataInv' /\ RequestInv'
  BY <1>1 DEF IInv, DataInv, RequestInv, Busy
<1> QED BY <1>4, <1>5, <1>8, <1>9 DEF IInv

\* The region found is the first that holds the fragment's first sector, and
\* the fragment ends inside it.
LEMMA ScanFoundStep ==
  ASSUME AllServed, IInv, ScanFound
  PROVE  IInv'
<1> DEFINE r == vdisk_regions[region]
           e == ClipAtStart(r)
<1>1. /\ pc = "scan" /\ region <= Len(vdisk_regions) /\ Overlaps(r)
      /\ frag_end' = ClipAtEnd(r, e) /\ build' = r /\ pc' = "build"
      /\ UNCHANGED <<vdisk_files, index, request, frag_start, region, data>>
  BY DEF ScanFound
<1>2. /\ region \in 1 .. Len(vdisk_regions)
      /\ r.lba \in Nat /\ r.count \in Nat
      /\ e \in Nat /\ frag_start < e /\ e <= frag_end
      /\ frag_start < r.lba => e <= r.lba
  BY <1>1, ClipFacts
<1>3. /\ frag_start \in Nat /\ frag_end \in Nat /\ ReadEnd \in Nat
      /\ frag_end <= ReadEnd /\ Len(vdisk_regions) \in Nat
      /\ frag_end <= VDISK_FILE_COUNT /\ VDISK_FILE_COUNT \in Nat
  BY <1>1, BusyFacts, RegionsInTable, GeometryTypes
     DEF Busy, IInv, FragmentsCover, FragmentInv
<1>4. frag_start < r.lba + r.count /\ e > r.lba
  BY <1>1 DEF Overlaps
<1>5. /\ frag_end' \in Nat /\ frag_start < frag_end' /\ frag_end' <= frag_end
      /\ frag_end' <= r.lba + r.count /\ r.lba <= frag_start
  <2> HIDE DEF r, e
  <2> QED BY <1>1, <1>2, <1>3, <1>4 DEF ClipAtEnd, Least
<1>6. TypeOK'
  BY <1>1, <1>2, <1>5 DEF IInv, TypeOK, Builders
<1>7. FragmentsCover'
  BY <1>1, <1>3, <1>5 DEF IInv, FragmentsCover, ReadEnd
<1>8. \A n \in 1 .. region' - 1 : Misses(n)'
  <2> SUFFICES ASSUME NEW n \in 1 .. region - 1 PROVE Misses(n)'
    BY <1>1
  <2>1. Misses(n)
    BY <1>1 DEF IInv, FragmentInv
  <2>2. n \in 1 .. Len(vdisk_regions)
    BY <1>2, <1>3
  <2>3. vdisk_regions[n].lba \in Nat /\ vdisk_regions[n].count \in Nat
    BY <2>2, RegionFacts
  <2> QED BY <1>1, <1>3, <1>5, <2>1, <2>3 DEF Misses
<1>9. FragmentInv'
  <2>1. frag_end' <= VDISK_FILE_COUNT
    BY <1>3, <1>5
  <2> QED BY <1>1, <1>2, <1>5, <1>8, <2>1 DEF FragmentInv
<1>10. DataInv' /\ RequestInv'
  BY <1>1 DEF IInv, DataInv, RequestInv, Busy
<1> QED BY <1>6, <1>7, <1>9, <1>10 DEF IInv

LEMMA ScanEndStep ==
  ASSUME AllServed, IInv, ScanEnd
  PROVE  IInv'
<1>1. /\ pc = "scan" /\ region > Len(vdisk_regions) /\ pc' = "build"
      /\ UNCHANGED <<vdisk_files, index, request, frag_start, frag_end, region,
                     build, data>>
  BY DEF ScanEnd
<1>2. Len(vdisk_regions) \in Nat /\ region = Len(vdisk_regions) + 1
  BY <1>1, RegionsInTable DEF IInv, TypeOK
<1>3. TypeOK' /\ FragmentsCover' /\ DataInv' /\ RequestInv'
  BY <1>1 DEF IInv, TypeOK, FragmentsCover, ReadEnd, DataInv, RequestInv, Busy
<1>4. \A n \in 1 .. Len(vdisk_regions) : Misses(n)
  BY <1>1, <1>2 DEF IInv, FragmentInv
<1>5. FragmentInv'
  BY <1>1, <1>4 DEF IInv, FragmentInv, Misses
<1> QED BY <1>3, <1>5 DEF IInv

LEMMA Concatenation ==
  ASSUME NEW T, NEW s \in Seq(T), NEW t \in Seq(T)
  PROVE  /\ s \o t \in Seq(T) /\ Len(s \o t) = Len(s) + Len(t)
         /\ \A k \in 1 .. Len(s) : (s \o t)[k] = s[k]
         /\ \A k \in Len(s) + 1 .. Len(s) + Len(t) : (s \o t)[k] = t[k - Len(s)]
OBVIOUS

\* A fragment is appended where the buffer ends.
LEMMA BuildFragmentData ==
  ASSUME AllServed, IInv, BuildFragment
  PROVE  /\ frag_start' = frag_end
         /\ data' \in Seq(Sectors)
         /\ Len(data') = frag_end - request.lba
         /\ data' = [k \in 1 .. frag_end - request.lba |->
                       DiskSector(vdisk_files, request.lba + k - 1)]
<1> DEFINE n == frag_end - frag_start
           b == BuildRegion(build, vdisk_files, frag_start, n)
           l == request.lba
           S(lba) == DiskSector(vdisk_files, lba)
<1>1. pc = "build" /\ frag_count = n /\ n \in Nat \ {0}
  BY FragmentCount DEF BuildFragment
<1>2. data' = data \o b /\ frag_start' = frag_start + n
  BY <1>1 DEF BuildFragment
<1>3. b \in Seq(Sectors) /\ b = [k \in 1 .. n |-> S(frag_start + k - 1)]
  BY <1>1, BuildExact
<1>4. /\ l \in Nat /\ frag_start \in Nat /\ frag_end \in Nat
      /\ l <= frag_start
  BY <1>1, BusyFacts DEF Busy
<1>5. /\ data \in Seq(Sectors)
      /\ data = [k \in 1 .. frag_start - l |-> S(l + k - 1)]
      /\ Len(data) = frag_start - l
  BY <1>1 DEF IInv, TypeOK, DataInv, FragmentsCover, Busy
<1>6. Len(b) = n
  BY <1>1, <1>3
<1>7. frag_start + n = frag_end
  BY <1>4
<1>8. data' \in Seq(Sectors) /\ Len(data') = frag_end - l
  <2>1. data' \in Seq(Sectors) /\ Len(data') = Len(data) + Len(b)
    BY <1>2, <1>3, <1>5, Concatenation, Zenon
  <2> QED BY <2>1, <1>4, <1>5, <1>6
<1>9. ASSUME NEW k \in 1 .. frag_end - l
      PROVE  data'[k] = S(l + k - 1)
  <2> HIDE DEF S
  <2>1. CASE k <= Len(data)
    <3>1. k \in 1 .. frag_start - l
      BY <1>4, <1>5, <2>1
    <3>2. data'[k] = data[k]
      <4>1. k \in 1 .. Len(data)
        BY <1>5, <3>1
      <4> QED BY <1>2, <1>3, <1>5, <4>1, Concatenation, ZenonT(60)
    <3> QED BY <1>5, <3>1, <3>2
  <2>2. CASE k > Len(data)
    <3> DEFINE j == k - Len(data)
    <3>1. j \in 1 .. n /\ frag_start + j - 1 = l + k - 1
      BY <1>4, <1>5, <2>2, SMTT(30)
    <3>2. data'[k] = b[j]
      <4>1. k \in Len(data) + 1 .. Len(data) + Len(b)
        BY <1>4, <1>5, <1>6, <2>2
      <4> QED BY <1>2, <1>3, <1>5, <4>1, Concatenation, ZenonT(60)
    <3>3. b[j] = S(frag_start + j - 1)
      <4> HIDE DEF b, j
      <4> QED BY <1>3, <3>1
    <3> QED BY <3>1, <3>2, <3>3
  <2> QED BY <1>5, <1>4, <2>1, <2>2
<1>10. data' = [k \in 1 .. frag_end - l |-> S(l + k - 1)]
  <2> HIDE DEF S
  <2>1. DOMAIN data' = 1 .. frag_end - l
    BY <1>8
  <2>2. data' = [k \in 1 .. frag_end - l |-> data'[k]]
    BY <1>8, <2>1
  <2> QED BY <1>9, <2>2
<1> QED BY <1>2, <1>7, <1>8, <1>10

LEMMA BuildFragmentStep ==
  ASSUME AllServed, IInv, BuildFragment
  PROVE  IInv'
<1>1. /\ pc = "build" /\ pc' = (IF frag_start' = ReadEnd THEN "idle" ELSE "frag")
      /\ UNCHANGED <<vdisk_files, index, request, frag_end, region, build>>
  BY DEF BuildFragment
<1>2. /\ frag_start' = frag_end /\ data' \in Seq(Sectors)
      /\ Len(data') = frag_end - request.lba
      /\ data' = [k \in 1 .. frag_end - request.lba |->
                    DiskSector(vdisk_files, request.lba + k - 1)]
  BY BuildFragmentData
<1>3. /\ request \in Requests
      /\ request.lba \in Nat /\ request.count \in Nat \ {0}
      /\ ReadEnd \in Nat /\ frag_start \in Nat /\ frag_end \in Nat
      /\ request.lba <= frag_start
      /\ frag_start < frag_end /\ frag_end <= ReadEnd
  BY <1>1, BusyFacts DEF Busy, IInv, FragmentsCover
<1>4. TypeOK'
  BY <1>1, <1>2, <1>3 DEF IInv, TypeOK
<1>5. FragmentsCover'
  BY <1>1, <1>2, <1>3 DEF FragmentsCover, ReadEnd
<1>6. FragmentInv'
  BY <1>1 DEF FragmentInv
<1>7. DataInv' /\ RequestInv'
  BY <1>1, <1>2, <1>3 DEF DataInv, RequestInv
<1> QED BY <1>4, <1>5, <1>6, <1>7 DEF IInv

LEMMA NextIInv ==
  ASSUME AllServed, IInv, [Next]_vars
  PROVE  IInv'
<1>1. CASE \/ \E name \in FileNames, len \in FileLens[index] :
                vdisk_add_file(name, len) \/ vdisk_add_file_die(name, len)
           \/ \E idx \in FileIndices, growth \in PatchGrowth :
                vdisk_patch_file(idx, growth)
           \/ Install
  <2>1. pc = "setup"
    BY <1>1 DEF vdisk_add_file, vdisk_add_file_die, vdisk_patch_file, Install
  <2> QED BY <1>1, <2>1, SetupStep
<1>2. CASE \E r \in Requests : ReadStart(r)
  BY <1>2, ReadStartStep
<1>3. CASE vdisk_read_step
  BY <1>3, FragmentInSlotStep, FragmentInMetadataStep, ScanPastStep,
     ScanFoundStep, ScanEndStep, BuildFragmentStep DEF vdisk_read_step
<1>4. CASE UNCHANGED vars
  BY <1>4 DEF vars, IInv, TypeOK, RequestInv, Busy, FragmentsCover, ReadEnd,
              FragmentInv, InOneSlot, Misses, DataInv
<1> QED BY <1>1, <1>2, <1>3, <1>4 DEF Next

LEMMA Invariance ==
  ASSUME AllServed
  PROVE  Spec => []IInv
<1>1. Init => IInv
  BY InitIInv
<1>2. IInv /\ [Next]_vars => IInv'
  BY NextIInv
<1> QED BY <1>1, <1>2, PTL DEF Spec

----------------------------------------------------------------------------
(* The theorems *)

\* The table of files and the variables of vdisk_read keep their types:
\* vdisk_add_file never writes past the last entry of vdisk_files.
THEOREM TypeCorrectness ==
  ASSUME AllServed
  PROVE  Spec => []TypeOK
<1>1. IInv => TypeOK
  BY DEF IInv
<1> QED BY <1>1, Invariance, PTL

\* The fragments that vdisk_read cuts a request into cover it without gap or
\* overlap, for every disk geometry and every request it serves.
THEOREM FragmentsCoverRequest ==
  ASSUME AllServed
  PROVE  Spec => []FragmentsCover
<1>1. IInv => FragmentsCover
  BY DEF IInv
<1> QED BY <1>1, Invariance, PTL

\* However vdisk_read cuts a request, each builder writes the sectors that
\* reads of one sector return.
THEOREM FragmentsAreExact ==
  ASSUME AllServed
  PROVE  Spec => []FragmentIsExact
<1>1. IInv => FragmentIsExact
  BY FragmentCount, BuildExact DEF FragmentIsExact
<1> QED BY <1>1, Invariance, PTL

\* vdisk_dir_files's assertion never fails.
THEOREM DirentAssertion ==
  ASSUME AllServed
  PROVE  Spec => []DirentIdxInTable
<1>1. IInv => DirentIdxInTable
  BY BuildExact DEF DirentIdxInTable
<1> QED BY <1>1, Invariance, PTL

\* The steps of vdisk_read are stuttering steps of a device that answers a read
\* at once, except the one that completes the last fragment.
LEMMA StepSimulation ==
  ASSUME AllServed, IInv, [Next]_vars
  PROVE  [Device!Next]_(Device!vars)
<1> USE DEF Device!Next, Device!vars, Device!Configure, Device!Install,
            Device!Ask, Device!Answer
<1>1. CASE \/ \E name \in FileNames, len \in FileLens[index] :
                vdisk_add_file(name, len) \/ vdisk_add_file_die(name, len)
           \/ \E idx \in FileIndices, growth \in PatchGrowth :
                vdisk_patch_file(idx, growth)
  <2>1. /\ pc = "setup" /\ pc' \in {"setup", "dead"}
        /\ UNCHANGED <<request, data>>
    BY <1>1 DEF vdisk_add_file, vdisk_add_file_die, vdisk_patch_file, LoopVars
  <2> QED BY <2>1
<1>2. CASE Install
  BY <1>2 DEF Install, LoopVars
<1>3. CASE \E r \in Requests : ReadStart(r)
  BY <1>3 DEF ReadStart
<1>4. CASE \/ FragmentInSlot \/ FragmentInMetadata \/ ScanPast \/ ScanFound
           \/ ScanEnd
  <2>1. /\ pc \in {"frag", "scan"} /\ pc' \in {"scan", "build"}
        /\ UNCHANGED <<vdisk_files, request>>
    BY <1>4 DEF FragmentInSlot, FragmentInMetadata, ScanPast, ScanFound, ScanEnd
  <2> QED BY <2>1
<1>5. CASE BuildFragment
  <2>1. /\ pc = "build" /\ UNCHANGED <<vdisk_files, request>>
        /\ pc' = (IF frag_start' = ReadEnd THEN "idle" ELSE "frag")
    BY <1>5 DEF BuildFragment
  <2>2. /\ frag_start' = frag_end
        /\ data' = [k \in 1 .. frag_end - request.lba |->
                      DiskSector(vdisk_files, request.lba + k - 1)]
    BY <1>5, BuildFragmentData
  <2>3. CASE frag_start' = ReadEnd
    <3>1. frag_end - request.lba = request.count
      <4>1. request.lba \in Nat /\ request.count \in Nat
        BY <2>1, BusyFacts DEF Busy
      <4> QED BY <2>2, <2>3, <4>1 DEF ReadEnd
    <3>2. data' = [k \in 1 .. request.count |->
                     DiskSector(vdisk_files, request.lba + k - 1)]
      BY <2>2, <3>1
    <3> QED BY <2>1, <2>3, <3>2
  <2>4. CASE frag_start' # ReadEnd
    BY <2>1, <2>4
  <2> QED BY <2>3, <2>4
<1>6. CASE UNCHANGED vars
  BY <1>6 DEF vars
<1> QED BY <1>1, <1>2, <1>3, <1>4, <1>5, <1>6 DEF Next, vdisk_read_step

\* vdisk_read implements the block device that answers each read in one step
\* with exactly that part of the disk.
THEOREM Refinement ==
  ASSUME AllServed
  PROVE  Spec => ImplementsBlockDevice
<1>1. Init => Device!Init
  BY DEF Init, Device!Init
<1>2. IInv /\ [Next]_vars => [Device!Next]_(Device!vars)
  BY StepSimulation
<1> QED BY <1>1, <1>2, Invariance, PTL DEF Spec, ImplementsBlockDevice, Device!Spec

----------------------------------------------------------------------------
(* The layout *)

\* The cluster that vdisk_dir_files names for file i begins with the sector that
\* vdisk_read takes for the first of file i: the FAT's arithmetic in clusters
\* and the read loop's arithmetic in slots agree on where every file is.
THEOREM SlotOfCluster ==
  ASSUME NEW i \in Nat
  PROVE  VDISK_PARTITION_LBA + VDISK_CLUSTER_SECTOR(VDISK_FILE_CLUSTER(i))
           = (i + 1) * VDISK_FILE_COUNT
<1> DEFINE cc == VDISK_CLUSTER_COUNT
           p  == VDISK_PARTITION_LBA \div cc
           a  == VDISK_FILE_COUNT \div cc
           f  == (VDISK_CLUSTERS * FatEntrySize + VDISK_CLUSTER_SIZE - 1)
                   \div VDISK_CLUSTER_SIZE
           q  == a - p - 1 - f
<1>1. /\ cc \in Nat \ {0} /\ VDISK_PARTITION_LBA \in Nat /\ VDISK_CLUSTERS \in Nat
      /\ VDISK_FILE_COUNT \in Nat
  BY GeometryTypes, GeometryFits DEF VDISK_BACKUP_VBR_SECTOR
<1>2. p \in Nat /\ VDISK_PARTITION_LBA = p * cc
  BY <1>1, GeometryFits
<1>3. a \in Nat /\ VDISK_FILE_COUNT = a * cc
  BY <1>1, GeometryFits
<1>4. f \in Nat
  BY SizesAreNat, <1>1 DEF FatEntrySize
<1>5. VDISK_SECTORS_PER_FAT = f * cc
  BY DEF VDISK_SECTORS_PER_FAT
<1> HIDE DEF a, p, f
<1>6. VDISK_FILE_COUNT - VDISK_PARTITION_LBA - VDISK_RESERVED_COUNT
        - VDISK_SECTORS_PER_FAT = q * cc + 0
  BY <1>1, <1>2, <1>3, <1>4, <1>5 DEF VDISK_RESERVED_COUNT
<1>7. VDISK_FILE_CLUSTER(i) = q + 2 + i * a
  <2>1. q \in Int /\ 0 \in 0 .. cc - 1
    BY <1>1, <1>2, <1>3, <1>4
  <2>2. (q * cc + 0) \div cc = q
    <3> HIDE DEF q
    <3> QED BY <1>1, <2>1, DivUnique
  <2> QED BY <1>6, <2>2 DEF VDISK_FILE_CLUSTER, VDISK_FILE_CLUSTERS, a
<1>8. VDISK_CLUSTER_SECTOR(VDISK_FILE_CLUSTER(i)) = (q + i * a) * cc + cc + f * cc
  <2>1. VDISK_FILE_CLUSTER(i) - 2 = q + i * a
    <3>1. i * a \in Nat /\ q \in Int
      BY <1>2, <1>3, <1>4
    <3> HIDE DEF q
    <3> QED BY <1>7, <3>1
  <2> QED BY <1>5, <2>1, Zenon DEF VDISK_CLUSTER_SECTOR, VDISK_RESERVED_COUNT
<1>9. p * cc + ((q + i * a) * cc + cc + f * cc) = (i + 1) * (a * cc)
  <2>1. i * a \in Nat
    BY <1>3
  <2>2. (q + i * a) * cc = a * cc - p * cc - cc - f * cc + (i * a) * cc
    <3>1. \A x \in Nat : (q + x) * cc = a * cc - p * cc - cc - f * cc + x * cc
      BY <1>1, <1>2, <1>3, <1>4
    <3> QED BY <2>1, <3>1
  <2>3. (i * a) * cc = i * (a * cc) /\ (i + 1) * (a * cc) = i * (a * cc) + a * cc
    <3>1. \A x, y, z \in Nat : (x * y) * z = x * (y * z)
      OBVIOUS
    <3>2. \A x, y \in Nat : (x + 1) * y = x * y + y
      OBVIOUS
    <3>3. a * cc \in Nat
      BY <1>1, <1>3
    <3> QED BY <1>1, <1>3, <3>1, <3>2, <3>3
  <2>4. /\ a * cc \in Int /\ p * cc \in Int /\ f * cc \in Int
        /\ (i * a) * cc \in Int /\ i * (a * cc) \in Int
    BY <1>1, <1>2, <1>3, <1>4, <2>1
  <2> QED BY <1>1, <2>2, <2>3, <2>4
<1> QED BY <1>2, <1>3, <1>8, <1>9

----------------------------------------------------------------------------
(* The geometry *)

LEMMA Sizes ==
  /\ VDISK_SECTOR_SIZE \in Nat \ {0} /\ VDISK_PARTITION_LBA \in Nat \ {0}
  /\ VDISK_CLUSTER_COUNT \in Nat /\ VDISK_CLUSTER_COUNT > 6
  /\ VDISK_FILE_COUNT \in Nat \ {0} /\ UINT32 \in Nat \ {0} /\ ULONG \in Nat \ {0}
  /\ VDISK_SECTORS_PER_FAT \in Nat
  /\ FatEntriesPerSector \in Nat /\ FatEntriesPerSector > 8
  /\ VDISK_MAX_FILES \in Nat \ {0} /\ VDISK_MAX_FILES = VDISK_CLUSTER_COUNT - 1
  /\ VDISK_FAT_LBA = VDISK_PARTITION_LBA + VDISK_CLUSTER_COUNT
<1>1. VDISK_CLUSTER_COUNT \in Nat /\ VDISK_CLUSTER_COUNT > 6
  BY GeometryTypes, GeometryFits DEF VDISK_BACKUP_VBR_SECTOR
<1>2. FatEntriesPerSector > 8
  BY GeometryFits DEF VDISK_MICROSOFT_CLUSTER
<1>3. VDISK_FAT_LBA = VDISK_PARTITION_LBA + VDISK_CLUSTER_COUNT
  BY DEF VDISK_FAT_LBA, VDISK_VBR_LBA, VDISK_RESERVED_COUNT
<1> QED BY <1>1, <1>2, <1>3, GeometryTypes, SizesAreNat DEF VDISK_MAX_FILES

\* The directories follow the FAT, each a cluster long.
LEMMA DirLba ==
  ASSUME NEW c \in Int
  PROVE  VDISK_DIR_LBA(c) = VDISK_FAT_LBA + VDISK_SECTORS_PER_FAT
                              + (c - 2) * VDISK_CLUSTER_COUNT
<1> DEFINE x == (c - 2) * VDISK_CLUSTER_COUNT
<1>1. x \in Int
  BY Sizes
<1>2. VDISK_DIR_LBA(c) = VDISK_PARTITION_LBA
                           + (x + VDISK_CLUSTER_COUNT + VDISK_SECTORS_PER_FAT)
  BY DEF VDISK_DIR_LBA, VDISK_VBR_LBA, VDISK_CLUSTER_SECTOR, VDISK_RESERVED_COUNT
<1> HIDE DEF x
<1>3. VDISK_DIR_LBA(c) = VDISK_FAT_LBA + VDISK_SECTORS_PER_FAT + x
  BY <1>1, <1>2, Sizes
<1> QED BY <1>3 DEF x

LEMMA DirOrder ==
  ASSUME NEW c \in 2 .. 8, NEW d \in 2 .. 8, c < d
  PROVE  VDISK_DIR_LBA(c) + VDISK_CLUSTER_COUNT <= VDISK_DIR_LBA(d)
<1> DEFINE cc == VDISK_CLUSTER_COUNT
<1>1. cc \in Nat
  BY Sizes
<1>2. (c - 1) * cc <= (d - 2) * cc /\ (c - 1) * cc = (c - 2) * cc + cc
  <2>1. c - 1 \in Nat /\ d - 2 \in Nat /\ c - 1 <= d - 2
    OBVIOUS
  <2>2. (c - 1) * cc <= (d - 2) * cc
    BY <1>1, <2>1, MulMono
  <2> QED BY <1>1, <2>2
<1>3. PICK x, y \in Int : x = (c - 2) * cc /\ y = (d - 2) * cc
  BY <1>1
<1>4. x + cc <= y
  BY <1>1, <1>2, <1>3
<1>5. /\ VDISK_DIR_LBA(c) = VDISK_FAT_LBA + VDISK_SECTORS_PER_FAT + x
      /\ VDISK_DIR_LBA(d) = VDISK_FAT_LBA + VDISK_SECTORS_PER_FAT + y
  BY <1>3, DirLba
<1> QED BY <1>1, <1>4, <1>5, Sizes

\* Slot 0 ends after the last directory.
LEMMA DirsInSlot0 ==
  ASSUME NEW c \in 2 .. 8
  PROVE  /\ VDISK_DIR_LBA(c) \in Nat
         /\ VDISK_FAT_LBA + VDISK_SECTORS_PER_FAT <= VDISK_DIR_LBA(c)
         /\ VDISK_DIR_LBA(c) + VDISK_CLUSTER_COUNT <= VDISK_FILE_COUNT
<1>1. VDISK_DIR_LBA(8) + VDISK_CLUSTER_COUNT <= VDISK_FILE_COUNT
  BY GeometryFits DEF VDISK_MICROSOFT_CLUSTER
<1>2. \A x \in 2 .. 8 : VDISK_DIR_LBA(x) \in Nat
  BY DirectoriesAligned DEF VDISK_ROOT_CLUSTER
<1>3. VDISK_DIR_LBA(2) = VDISK_FAT_LBA + VDISK_SECTORS_PER_FAT
  BY DirLba, Sizes
<1>4. c = 2 \/ VDISK_DIR_LBA(2) + VDISK_CLUSTER_COUNT <= VDISK_DIR_LBA(c)
  BY DirOrder
<1>5. c = 8 \/ VDISK_DIR_LBA(c) + VDISK_CLUSTER_COUNT <= VDISK_DIR_LBA(8)
  BY DirOrder
<1>6. VDISK_DIR_LBA(2) \in Nat /\ VDISK_DIR_LBA(8) \in Nat /\ VDISK_DIR_LBA(c) \in Nat
  BY <1>2
<1> QED BY <1>1, <1>3, <1>4, <1>5, <1>6, Sizes

----------------------------------------------------------------------------
(* The table of regions *)

\* A directory's two regions at the end of a table.
LEMMA AppendPair ==
  ASSUME NEW T, NEW s \in Seq(T), NEW a \in T, NEW b \in T
  PROVE  /\ s \o <<a, b>> \in Seq(T) /\ Len(s \o <<a, b>>) = Len(s) + 2
         /\ \A i \in 1 .. Len(s) : (s \o <<a, b>>)[i] = s[i]
         /\ (s \o <<a, b>>)[Len(s) + 1] = a /\ (s \o <<a, b>>)[Len(s) + 2] = b
OBVIOUS

\* The region that lists a directory's subdirectories, and the one of its files.
ListRegion(c) == Region(VDISK_DIR_LBA(c), 1, "subdirs", c)
FilesRegion(c) == Region(VDISK_DIR_LBA(c) + 1, VDISK_CLUSTER_COUNT - 1, "dir_files", c)

AnyRegion ==
  [lba : Int, count : Int, dir : Int,
   build : {"mbr", "vbr", "fsinfo", "fat", "subdirs", "dir_files"}]

LEMMA IsRegion ==
  ASSUME NEW a \in Int, NEW n \in Int, NEW d \in Int,
         NEW b \in {"mbr", "vbr", "fsinfo", "fat", "subdirs", "dir_files"}
  PROVE  Region(a, n, b, d) \in AnyRegion
BY DEF Region, AnyRegion

\* A table that has the regions of the directories below c.
TableTo(s, c) ==
  /\ s \in Seq(AnyRegion)
  /\ Len(s) = 2 * c + 1
  /\ s[1] = Region(0, 1, "mbr", 0)
  /\ s[2] = Region(VDISK_PARTITION_LBA, 1, "vbr", 0)
  /\ s[3] = Region(VDISK_PARTITION_LBA + 1, 1, "fsinfo", 0)
  /\ s[4] = Region(VDISK_PARTITION_LBA + 6, 1, "vbr", 0)
  /\ s[5] = Region(VDISK_FAT_LBA, VDISK_SECTORS_PER_FAT, "fat", 0)
  /\ \A d \in 2 .. c - 1 : s[2 * d + 2] = ListRegion(d) /\ s[2 * d + 3] = FilesRegion(d)

LEMMA TableGrows ==
  ASSUME NEW s, NEW c \in 2 .. 8, TableTo(s, c)
  PROVE  TableTo(s \o DirectoryRegion(c), c + 1)
<1> DEFINE T == AnyRegion
           t == s \o <<ListRegion(c), FilesRegion(c)>>
<1>1. ListRegion(c) \in T /\ FilesRegion(c) \in T
  <2>1. /\ VDISK_DIR_LBA(c) \in Int /\ VDISK_DIR_LBA(c) + 1 \in Int
        /\ VDISK_CLUSTER_COUNT - 1 \in Int /\ c \in Int
    BY DirsInSlot0, Sizes
  <2> QED BY <2>1, IsRegion DEF ListRegion, FilesRegion
<1>2. s \in Seq(T) /\ Len(s) = 2 * c + 1
  BY DEF TableTo
<1>3. /\ t \in Seq(T) /\ Len(t) = Len(s) + 2 /\ \A i \in 1 .. Len(s) : t[i] = s[i]
      /\ t[Len(s) + 1] = ListRegion(c) /\ t[Len(s) + 2] = FilesRegion(c)
  <2> HIDE DEF T
  <2>1. PICK a, b \in T : a = ListRegion(c) /\ b = FilesRegion(c)
    BY <1>1
  <2>2. t = s \o <<a, b>>
    BY <2>1
  <2>3. /\ s \o <<a, b>> \in Seq(T) /\ Len(s \o <<a, b>>) = Len(s) + 2
        /\ \A i \in 1 .. Len(s) : (s \o <<a, b>>)[i] = s[i]
        /\ (s \o <<a, b>>)[Len(s) + 1] = a /\ (s \o <<a, b>>)[Len(s) + 2] = b
    <3> HIDE DEF t
    <3>1. s \in Seq(T)
      BY <1>2
    <3> QED BY <3>1, AppendPair, SMTT(30)
  <2> HIDE DEF t
  <2> QED BY <2>1, <2>2, <2>3
<1>4. t = s \o DirectoryRegion(c)
  BY DEF DirectoryRegion, ListRegion, FilesRegion
<1> HIDE DEF t
<1>5. /\ Len(t) = 2 * (c + 1) + 1 /\ \A i \in 1 .. 2 * c + 1 : t[i] = s[i]
      /\ t[2 * c + 2] = ListRegion(c) /\ t[2 * c + 3] = FilesRegion(c)
  <2>1. Len(s) + 1 = 2 * c + 2 /\ Len(s) + 2 = 2 * c + 3 /\ Len(s) + 2 = 2 * (c + 1) + 1
    BY <1>2
  <2> QED BY <1>2, <1>3, <2>1, Zenon
<1>6. t[1] = s[1] /\ t[2] = s[2] /\ t[3] = s[3] /\ t[4] = s[4] /\ t[5] = s[5]
  BY <1>5
<1>7. ASSUME NEW d \in 2 .. (c + 1) - 1
      PROVE  t[2 * d + 2] = ListRegion(d) /\ t[2 * d + 3] = FilesRegion(d)
  <2>1. CASE d = c
    BY <1>5, <2>1
  <2>2. CASE d # c
    <3>1. d \in 2 .. c - 1 /\ 2 * d + 2 \in 1 .. 2 * c + 1 /\ 2 * d + 3 \in 1 .. 2 * c + 1
      BY <2>2
    <3>2. s[2 * d + 2] = ListRegion(d) /\ s[2 * d + 3] = FilesRegion(d)
      BY <3>1 DEF TableTo
    <3>3. t[2 * d + 2] = s[2 * d + 2] /\ t[2 * d + 3] = s[2 * d + 3]
      BY <1>5, <3>1
    <3> QED BY <3>2, <3>3
  <2> QED BY <2>1, <2>2
<1>8. TableTo(t, c + 1)
  <2>1. t \in Seq(T)
    BY <1>3
  <2>2. /\ t[1] = Region(0, 1, "mbr", 0)
        /\ t[2] = Region(VDISK_PARTITION_LBA, 1, "vbr", 0)
        /\ t[3] = Region(VDISK_PARTITION_LBA + 1, 1, "fsinfo", 0)
        /\ t[4] = Region(VDISK_PARTITION_LBA + 6, 1, "vbr", 0)
        /\ t[5] = Region(VDISK_FAT_LBA, VDISK_SECTORS_PER_FAT, "fat", 0)
    BY <1>6, Zenon DEF TableTo
  <2> QED BY <1>5, <1>7, <2>1, <2>2, Zenon DEF TableTo
<1> QED BY <1>4, <1>8

LEMMA RegionTable == TableTo(vdisk_regions, 9)
<1> DEFINE s2 == <<Region(VDISK_MBR_LBA, 1, "mbr", 0),
                   Region(VDISK_VBR_LBA, 1, "vbr", 0),
                   Region(VDISK_FSINFO_LBA, 1, "fsinfo", 0),
                   Region(VDISK_BACKUP_VBR_LBA, 1, "vbr", 0),
                   Region(VDISK_FAT_LBA, VDISK_SECTORS_PER_FAT, "fat", 0)>>
           s3 == s2 \o DirectoryRegion(2)
           s4 == s3 \o DirectoryRegion(3)
           s5 == s4 \o DirectoryRegion(4)
           s6 == s5 \o DirectoryRegion(5)
           s7 == s6 \o DirectoryRegion(6)
           s8 == s7 \o DirectoryRegion(7)
           s9 == s8 \o DirectoryRegion(8)
<1>1. TableTo(s2, 2)
  <2>1. /\ VDISK_MBR_LBA = 0 /\ VDISK_VBR_LBA = VDISK_PARTITION_LBA
        /\ VDISK_FSINFO_LBA = VDISK_PARTITION_LBA + 1
        /\ VDISK_BACKUP_VBR_LBA = VDISK_PARTITION_LBA + 6
    BY DEF VDISK_MBR_LBA, VDISK_VBR_LBA, VDISK_FSINFO_LBA, VDISK_BACKUP_VBR_LBA,
           VDISK_FSINFO_SECTOR, VDISK_BACKUP_VBR_SECTOR
  <2>2. VDISK_FAT_LBA \in Nat /\ VDISK_PARTITION_LBA \in Nat /\ VDISK_SECTORS_PER_FAT \in Nat
    BY Sizes
  <2>3. \A d \in 2 .. 2 - 1 : FALSE
    OBVIOUS
  <2>4. s2 \in Seq(AnyRegion)
    <3>1. /\ Region(VDISK_MBR_LBA, 1, "mbr", 0) \in AnyRegion
          /\ Region(VDISK_VBR_LBA, 1, "vbr", 0) \in AnyRegion
          /\ Region(VDISK_FSINFO_LBA, 1, "fsinfo", 0) \in AnyRegion
          /\ Region(VDISK_BACKUP_VBR_LBA, 1, "vbr", 0) \in AnyRegion
          /\ Region(VDISK_FAT_LBA, VDISK_SECTORS_PER_FAT, "fat", 0) \in AnyRegion
      BY <2>1, <2>2, IsRegion
    <3> QED BY <3>1
  <2>5. /\ Len(s2) = 5
        /\ s2[1] = Region(0, 1, "mbr", 0)
        /\ s2[2] = Region(VDISK_PARTITION_LBA, 1, "vbr", 0)
        /\ s2[3] = Region(VDISK_PARTITION_LBA + 1, 1, "fsinfo", 0)
        /\ s2[4] = Region(VDISK_PARTITION_LBA + 6, 1, "vbr", 0)
        /\ s2[5] = Region(VDISK_FAT_LBA, VDISK_SECTORS_PER_FAT, "fat", 0)
    BY <2>1
  <2> HIDE DEF s2
  <2>6. 5 = 2 * 2 + 1
    OBVIOUS
  <2> QED BY <2>3, <2>4, <2>5, <2>6, Zenon DEF TableTo
<1> HIDE DEF s2
<1>2. TableTo(s3, 3)
  BY <1>1, TableGrows
<1> HIDE DEF s3
<1>3. TableTo(s4, 4)
  BY <1>2, TableGrows
<1> HIDE DEF s4
<1>4. TableTo(s5, 5)
  BY <1>3, TableGrows
<1> HIDE DEF s5
<1>5. TableTo(s6, 6)
  BY <1>4, TableGrows
<1> HIDE DEF s6
<1>6. TableTo(s7, 7)
  BY <1>5, TableGrows
<1> HIDE DEF s7
<1>7. TableTo(s8, 8)
  BY <1>6, TableGrows
<1> HIDE DEF s8
<1>8. TableTo(s9, 9)
  BY <1>7, TableGrows
<1>9. vdisk_regions = s9
  BY DEF vdisk_regions, s2, s3, s4, s5, s6, s7, s8, VDISK_ROOT_CLUSTER,
         VDISK_BOOT_CLUSTER, VDISK_SOURCES_CLUSTER, VDISK_FONTS_CLUSTER,
         VDISK_RESOURCES_CLUSTER, VDISK_EFI_CLUSTER, VDISK_MICROSOFT_CLUSTER
<1> QED BY <1>8, <1>9

\* The regions are in the order of their sectors: those before the n-th are below
\* any sector it holds, which is therefore its own.
Before(n, lba) ==
  \A m \in 1 .. n - 1 : vdisk_regions[m].lba + vdisk_regions[m].count <= lba

LEMMA RegionIs ==
  ASSUME NEW n \in 1 .. 19, NEW lba \in Nat, lba < VDISK_FILE_COUNT,
         Contains(vdisk_regions[n], lba), Before(n, lba)
  PROVE  RegionOf(lba) = vdisk_regions[n]
<1>1. Len(vdisk_regions) = 19
  BY RegionTable DEF TableTo
<1>2. VDISK_FILE_IDX(lba) < 0
  BY Metadata
<1>3. ASSUME NEW m \in 1 .. n - 1
      PROVE  ~Contains(vdisk_regions[m], lba)
  <2>1. vdisk_regions[m].lba + vdisk_regions[m].count <= lba
    BY DEF Before
  <2>2. m \in 1 .. Len(vdisk_regions)
    BY <1>1
  <2>3. vdisk_regions[m].lba \in Nat /\ vdisk_regions[m].count \in Nat
    BY <2>2, RegionFacts
  <2> QED BY <2>1, <2>3 DEF Contains
<1> QED BY <1>1, <1>2, <1>3, RegionOfFirst

\* The regions before the FAT, and the FAT, are below the directories.
LEMMA FirstRegions ==
  ASSUME NEW lba \in Nat
  PROVE  /\ Before(1, lba)
         /\ lba >= VDISK_PARTITION_LBA => Before(2, lba)
         /\ lba >= VDISK_FAT_LBA => Before(5, lba)
         /\ lba >= VDISK_FAT_LBA + VDISK_SECTORS_PER_FAT => Before(6, lba)
<1> DEFINE End(m) == vdisk_regions[m].lba + vdisk_regions[m].count
<1>1. /\ End(1) = 1 /\ End(2) = VDISK_PARTITION_LBA + 1
      /\ End(3) = VDISK_PARTITION_LBA + 1 + 1 /\ End(4) = VDISK_PARTITION_LBA + 6 + 1
      /\ End(5) = VDISK_FAT_LBA + VDISK_SECTORS_PER_FAT
  BY RegionTable DEF TableTo, Region
<1>b. ASSUME NEW n, \A m \in 1 .. n - 1 : End(m) <= lba
      PROVE  Before(n, lba)
  BY <1>b, Zenon DEF Before
<1> HIDE DEF End
<1>2. Before(1, lba)
  BY DEF Before
<1>3. ASSUME lba >= VDISK_PARTITION_LBA PROVE Before(2, lba)
  <2>1. End(1) <= lba
    BY <1>1, <1>3, Sizes
  <2>2. \A m \in 1 .. 2 - 1 : m = 1
    OBVIOUS
  <2> QED BY <1>b, <2>1, <2>2, Zenon
<1>4. ASSUME lba >= VDISK_FAT_LBA
      PROVE  End(1) <= lba /\ End(2) <= lba /\ End(3) <= lba /\ End(4) <= lba
  BY <1>1, <1>4, Sizes
<1>5. ASSUME lba >= VDISK_FAT_LBA PROVE Before(5, lba)
  <2>1. \A m \in 1 .. 5 - 1 : m = 1 \/ m = 2 \/ m = 3 \/ m = 4
    OBVIOUS
  <2>2. \A m \in 1 .. 5 - 1 : End(m) <= lba
    BY <1>4, <1>5, <2>1, Zenon
  <2> QED BY <1>b, <2>2, Zenon
<1>6. ASSUME lba >= VDISK_FAT_LBA + VDISK_SECTORS_PER_FAT PROVE Before(6, lba)
  <2>1. lba >= VDISK_FAT_LBA /\ End(5) <= lba
    BY <1>1, <1>6, Sizes
  <2>2. \A m \in 1 .. 6 - 1 : m = 1 \/ m = 2 \/ m = 3 \/ m = 4 \/ m = 5
    OBVIOUS
  <2>3. \A m \in 1 .. 6 - 1 : End(m) <= lba
    BY <1>4, <2>1, <2>2, Zenon
  <2> QED BY <1>b, <2>3, Zenon
<1> QED BY <1>2, <1>3, <1>5, <1>6

LEMMA DirectoryRegions ==
  ASSUME NEW c \in 2 .. 8
  PROVE  /\ vdisk_regions[2 * c + 2] = ListRegion(c)
         /\ vdisk_regions[2 * c + 3] = FilesRegion(c)
<1>1. c \in 2 .. 9 - 1
  OBVIOUS
<1> QED BY <1>1, RegionTable, Zenon DEF TableTo

LEMMA DirectoriesBefore ==
  ASSUME NEW c \in 2 .. 8
  PROVE  /\ Before(2 * c + 2, VDISK_DIR_LBA(c))
         /\ \A lba \in Nat : lba > VDISK_DIR_LBA(c) => Before(2 * c + 3, lba)
<1> DEFINE L == VDISK_DIR_LBA(c)
           End(m) == vdisk_regions[m].lba + vdisk_regions[m].count
<1>1. L \in Nat /\ L >= VDISK_FAT_LBA + VDISK_SECTORS_PER_FAT
  BY DirsInSlot0
<1>2. Before(6, L)
  BY <1>1, FirstRegions
<1>3. \A d \in 2 .. 8 : /\ End(2 * d + 2) = VDISK_DIR_LBA(d) + 1
                        /\ End(2 * d + 3) = VDISK_DIR_LBA(d) + VDISK_CLUSTER_COUNT
  <2> TAKE d \in 2 .. 8
  <2>1. /\ End(2 * d + 2) = VDISK_DIR_LBA(d) + 1
        /\ End(2 * d + 3) = VDISK_DIR_LBA(d) + 1 + (VDISK_CLUSTER_COUNT - 1)
    BY DirectoryRegions DEF ListRegion, FilesRegion, Region
  <2>2. VDISK_DIR_LBA(d) \in Nat /\ VDISK_CLUSTER_COUNT \in Nat
    BY DirsInSlot0, Sizes
  <2> HIDE DEF End
  <2> QED BY <2>1, <2>2
<1>4. \A m \in 1 .. 5 : End(m) <= L
  BY <1>2 DEF Before
<1> HIDE DEF End
<1>5. ASSUME NEW m \in 1 .. 2 * c + 1 PROVE End(m) <= L
  <2>1. CASE m <= 5
    BY <1>4, <2>1
  <2>2. CASE m > 5
    <3>1. PICK d \in 2 .. c - 1 : m = 2 * d + 2 \/ m = 2 * d + 3
      <4>1. PICK d \in Int : m = 2 * d \/ m = 2 * d + 1
        <5>1. m = 2 * (m \div 2) \/ m = 2 * (m \div 2) + 1
          OBVIOUS
        <5> QED BY <5>1
      <4>2. d - 1 \in 2 .. c - 1 /\ (m = 2 * (d - 1) + 2 \/ m = 2 * (d - 1) + 3)
        BY <2>2, <4>1
      <4> QED BY <4>2
    <3>2. d \in 2 .. 8 /\ d < c
      OBVIOUS
    <3>3. VDISK_DIR_LBA(d) + VDISK_CLUSTER_COUNT <= L
      BY <3>2, DirOrder
    <3>4. VDISK_DIR_LBA(d) \in Nat /\ VDISK_CLUSTER_COUNT \in Nat
          /\ VDISK_CLUSTER_COUNT > 6
      BY <3>2, DirsInSlot0, Sizes
    <3>5. End(m) = VDISK_DIR_LBA(d) + 1 \/ End(m) = VDISK_DIR_LBA(d) + VDISK_CLUSTER_COUNT
      BY <1>3, <3>1, <3>2
    <3> QED BY <1>1, <3>3, <3>4, <3>5
  <2> QED BY <2>1, <2>2
<1>6. Before(2 * c + 2, L)
  <2>1. (2 * c + 2) - 1 = 2 * c + 1
    OBVIOUS
  <2> QED BY <1>5, <2>1, Zenon DEF Before, End
<1>7. ASSUME NEW lba \in Nat, lba > L PROVE Before(2 * c + 3, lba)
  <2>1. ASSUME NEW m \in 1 .. (2 * c + 3) - 1 PROVE End(m) <= lba
    <3>1. CASE m = 2 * c + 2
      BY <1>1, <1>3, <1>7, <3>1
    <3>2. CASE m # 2 * c + 2
      <4>1. m \in 1 .. 2 * c + 1
        BY <3>2
      <4>2. End(m) <= L
        BY <1>5, <4>1
      <4>3. m \in 1 .. Len(vdisk_regions)
        <5>1. Len(vdisk_regions) = 19
          BY RegionTable DEF TableTo
        <5> QED BY <4>1, <5>1
      <4>4. vdisk_regions[m].lba \in Nat /\ vdisk_regions[m].count \in Nat
        BY <4>3, RegionFacts
      <4>5. End(m) \in Nat
        BY <4>4 DEF End
      <4> QED BY <1>1, <1>7, <4>2, <4>5
    <3> QED BY <3>1, <3>2
  <2> QED BY <2>1 DEF Before, End
<1> QED BY <1>6, <1>7

----------------------------------------------------------------------------
(* The sectors *)

LEMMA MbrAt ==
  ASSUME NEW files
  PROVE  DiskSector(files, 0) = Mbr
<1>1. vdisk_regions[1] = Region(0, 1, "mbr", 0)
  BY RegionTable DEF TableTo
<1>2. Contains(vdisk_regions[1], 0)
  BY <1>1 DEF Contains, Region
<1>3. RegionOf(0) = vdisk_regions[1]
  BY <1>2, FirstRegions, RegionIs, Sizes
<1>4. RegionOf(0).build = "mbr"
  BY <1>1, <1>3 DEF Region
<1>5. BuildRegion(RegionOf(0), files, 0, 1) = <<Mbr>>
  BY <1>4, BuildRegionCases
<1> QED BY <1>5 DEF DiskSector

\* The partition starts in slot 0.
LEMMA PartitionInSlot0 ==
  /\ VDISK_PARTITION_LBA + VDISK_CLUSTER_COUNT <= VDISK_FILE_COUNT
  /\ VDISK_FAT_LBA + VDISK_SECTORS_PER_FAT <= VDISK_FILE_COUNT
<1>1. /\ VDISK_DIR_LBA(2) \in Nat
      /\ VDISK_FAT_LBA + VDISK_SECTORS_PER_FAT <= VDISK_DIR_LBA(2)
      /\ VDISK_DIR_LBA(2) + VDISK_CLUSTER_COUNT <= VDISK_FILE_COUNT
  BY DirsInSlot0
<1> QED BY <1>1, Sizes

LEMMA VbrAt ==
  ASSUME NEW files
  PROVE  DiskSector(files, VDISK_PARTITION_LBA) = Vbr
<1> DEFINE p == VDISK_PARTITION_LBA
<1>0. p \in Nat /\ p < VDISK_FILE_COUNT
  BY PartitionInSlot0, Sizes
<1>1. vdisk_regions[2] = Region(p, 1, "vbr", 0)
  BY RegionTable DEF TableTo
<1>2. Contains(vdisk_regions[2], p)
  BY <1>0, <1>1 DEF Contains, Region
<1>3. Before(2, p)
  BY <1>0, FirstRegions
<1>4. RegionOf(p) = vdisk_regions[2]
  BY <1>0, <1>2, <1>3, RegionIs
<1>5. RegionOf(p).build = "vbr"
  BY <1>1, <1>4 DEF Region
<1>6. BuildRegion(RegionOf(p), files, p, 1) = <<Vbr>>
  BY <1>5, BuildRegionCases
<1> QED BY <1>6 DEF DiskSector

\* A sector of the FAT, read on its own, starts at its first entry: the numbers of
\* the entries do not overflow.
LEMMA FatSectorAt ==
  ASSUME NEW files, NEW k \in Nat, k < VDISK_SECTORS_PER_FAT
  PROVE  DiskSector(files, VDISK_FAT_LBA + k)
           = FatSector([j \in 0 .. FatEntriesPerSector - 1 |->
               FatEntry(files, k * FatEntriesPerSector, k * FatEntriesPerSector + j)])
<1> DEFINE E == FatEntriesPerSector
           S == VDISK_SECTORS_PER_FAT
           l == VDISK_FAT_LBA + k
           st == (((l - VDISK_FAT_LBA) % UINT32) * E) % UINT32
<1>0. /\ E \in Nat /\ E > 8 /\ S \in Nat /\ UINT32 \in Nat \ {0} /\ VDISK_FAT_LBA \in Nat
      /\ l \in Nat /\ VDISK_FAT_LBA <= l /\ l < VDISK_FAT_LBA + S
  BY Sizes
<1>1. vdisk_regions[5] = Region(VDISK_FAT_LBA, S, "fat", 0)
  BY RegionTable DEF TableTo
<1>2. Contains(vdisk_regions[5], l)
  BY <1>0, <1>1 DEF Contains, Region
<1>3. Before(5, l) /\ l < VDISK_FILE_COUNT
  BY <1>0, FirstRegions, PartitionInSlot0, Sizes
<1>4. RegionOf(l) = vdisk_regions[5]
  BY <1>0, <1>2, <1>3, RegionIs
<1>5. BuildRegion(RegionOf(l), files, l, 1) = vdisk_fat(files, l, 1)
  <2>1. RegionOf(l).build = "fat"
    BY <1>1, <1>4 DEF Region
  <2> HIDE DEF l
  <2> QED BY <2>1, BuildRegionCases
<1>6. st = k * E /\ k * E \in Nat
  <2>1. l - VDISK_FAT_LBA = k
    BY <1>0
  <2>2. (k + 1) * E <= S * E /\ S * E <= UINT32
    BY <1>0, GeometryHoldsFiles, MulMono
  <2>3. k * E \in Nat /\ (k + 1) * E = k * E + E /\ k <= k * E
    BY <1>0
  <2>4. k < UINT32 /\ k * E < UINT32
    <3>1. PICK x \in Nat : x = k * E
      BY <2>3
    <3>2. PICK y \in Int : y = S * E
      BY <1>0
    <3>3. x + E <= y /\ y <= UINT32 /\ k <= x
      BY <2>2, <2>3, <3>1, <3>2
    <3> QED BY <1>0, <3>1, <3>2, <3>3
  <2>5. k % UINT32 = k /\ (k * E) % UINT32 = k * E
    BY <1>0, <2>3, <2>4, ModSmall
  <2> HIDE DEF l
  <2> QED BY <2>1, <2>3, <2>5, Zenon
<1> HIDE DEF l
<1>7. vdisk_fat(files, l, 1)[1]
        = FatSector([j \in 0 .. E - 1 |-> FatEntry(files, st, st + (1 - 1) * E + j)])
  BY DEF vdisk_fat
<1> HIDE DEF st
<1>8. ASSUME NEW j \in 0 .. E - 1
      PROVE  FatEntry(files, st, st + (1 - 1) * E + j) = FatEntry(files, k * E, k * E + j)
  <2>1. PICK x \in Nat : x = k * E
    BY <1>6
  <2>2. st = x /\ st + (1 - 1) * E + j = x + j
    BY <1>0, <1>6, <2>1
  <2> QED BY <2>1, <2>2, Zenon
<1> QED BY <1>5, <1>7, <1>8 DEF DiskSector, l

LEMMA FatEntryAt ==
  ASSUME NEW files, NEW c \in Nat, c < VDISK_SECTORS_PER_FAT * FatEntriesPerSector
  PROVE  DiskSector(files, VDISK_FAT_LBA + c \div FatEntriesPerSector)
           .next[c % FatEntriesPerSector]
             = FatEntry(files, (c \div FatEntriesPerSector) * FatEntriesPerSector, c)
<1> DEFINE E == FatEntriesPerSector
           S == VDISK_SECTORS_PER_FAT
<1>0. E \in Nat /\ E > 8 /\ S \in Nat
  BY Sizes
<1>1. PICK k, r : k = c \div E /\ r = c % E
  OBVIOUS
<1>2. k \in Int /\ r \in 0 .. E - 1 /\ c = E * k + r
  BY <1>0, <1>1, DivMod
<1>3. k \in Nat
  BY <1>0, <1>1
<1>4. k < S
  <2>1. ASSUME S <= k PROVE FALSE
    <3>1. S * E <= k * E /\ k * E = E * k
      BY <1>0, <1>3, <2>1, MulMono
    <3>2. PICK x, y \in Nat : x = S * E /\ y = E * k
      BY <1>0, <1>3
    <3> QED BY <1>2, <3>1, <3>2
  <2> QED BY <1>0, <1>3, <2>1
<1>5. DiskSector(files, VDISK_FAT_LBA + k)
        = FatSector([j \in 0 .. E - 1 |-> FatEntry(files, k * E, k * E + j)])
  BY <1>3, <1>4, FatSectorAt
<1>6. DiskSector(files, VDISK_FAT_LBA + k).next[r] = FatEntry(files, k * E, k * E + r)
  <2>1. PICK F : F = [j \in 0 .. E - 1 |-> FatEntry(files, k * E, k * E + j)]
    OBVIOUS
  <2>2. DiskSector(files, VDISK_FAT_LBA + k).next = F
    <3>1. \A x : FatSector(x).next = x
      BY DEF FatSector
    <3>2. DiskSector(files, VDISK_FAT_LBA + k) = FatSector(F)
      BY <1>5, <2>1, Zenon
    <3> QED BY <3>1, <3>2, Zenon
  <2>3. F[r] = FatEntry(files, k * E, k * E + r)
    BY <1>2, <2>1
  <2> QED BY <2>2, <2>3
<1>7. k * E + r = c
  BY <1>0, <1>2, <1>3
<1> QED BY <1>1, <1>6, <1>7, Zenon

----------------------------------------------------------------------------
(* The directories *)

LEMMA ListAt ==
  ASSUME NEW files, NEW c \in 2 .. 8
  PROVE  DiskSector(files, VDISK_DIR_LBA(c)) = Directory(Subdirectories(c))
<1> DEFINE l == VDISK_DIR_LBA(c)
           n == 2 * c + 2
<1>0. l \in Nat /\ l < VDISK_FILE_COUNT /\ n \in 1 .. 19
  BY DirsInSlot0, Sizes
<1>1. vdisk_regions[n] = Region(l, 1, "subdirs", c)
  BY DirectoryRegions DEF ListRegion
<1>2. Before(n, l)
  BY DirectoriesBefore
<1> HIDE DEF l, n
<1>3. Contains(vdisk_regions[n], l)
  BY <1>0, <1>1 DEF Contains, Region
<1>4. RegionOf(l) = vdisk_regions[n]
  BY <1>0, <1>2, <1>3, RegionIs
<1>5. RegionOf(l).build = "subdirs" /\ RegionOf(l).dir = c
  BY <1>1, <1>4 DEF Region
<1>6. BuildRegion(RegionOf(l), files, l, 1) = <<Directory(Subdirectories(c))>>
  BY <1>5, BuildRegionCases
<1> QED BY <1>6 DEF DiskSector, l

\* The entry that every directory has for a file.
EntryOf(files, i) ==
  DirEntry(files[i].name, files[i].xlen, "read_only", VDISK_FILE_CLUSTER(i))

LEMMA FileEntryAt ==
  ASSUME NEW files, NEW c \in 2 .. 8, NEW i \in FileIndices
  PROVE  DiskSector(files, VDISK_DIR_LBA(c) + (1 + i))
           = IF files[i].read THEN Directory({EntryOf(files, i)}) ELSE Directory({})
<1> DEFINE cc == VDISK_CLUSTER_COUNT
           d == VDISK_DIR_LBA(c)
           l == d + (1 + i)
           n == 2 * c + 3
<1>0. /\ d \in Nat /\ d + cc <= VDISK_FILE_COUNT /\ n \in 1 .. 19
      /\ cc \in Nat /\ cc > 6 /\ i \in Nat /\ i + 1 <= cc - 1 /\ VDISK_FILE_COUNT \in Nat
  BY DirsInSlot0, Sizes DEF FileIndices
<1>1. vdisk_regions[n] = Region(d + 1, cc - 1, "dir_files", c)
  BY DirectoryRegions DEF FilesRegion
<1>2. \A x \in Nat : x > d => Before(n, x)
  BY DirectoriesBefore
<1>3. PICK q \in Nat : d = q * cc
  BY DirectoriesAligned DEF VDISK_ROOT_CLUSTER
<1> HIDE DEF d, n
<1>4. l \in Nat /\ l > d /\ l < VDISK_FILE_COUNT /\ l - 1 = d + i /\ l < d + 1 + (cc - 1)
      /\ d + 1 <= l
  BY <1>0
<1> HIDE DEF l
<1>5. Contains(vdisk_regions[n], l)
  BY <1>1, <1>4 DEF Contains, Region
<1>6. RegionOf(l) = vdisk_regions[n]
  BY <1>0, <1>2, <1>4, <1>5, RegionIs
<1>7. RegionOf(l).build = "dir_files"
  BY <1>1, <1>6 DEF Region
<1>8. BuildRegion(RegionOf(l), files, l, 1) = vdisk_dir_files(files, l, 1)
  BY <1>7, BuildRegionCases
<1>9. VDISK_FILE_DIRENT_IDX(l) = i
  <2>1. cc \in Nat \ {0} /\ i \in 0 .. cc - 1
    BY <1>0
  <2>2. (q * cc + i) % cc = i
    BY <2>1, DivUnique
  <2> QED BY <1>3, <1>4, <2>2, Zenon DEF VDISK_FILE_DIRENT_IDX
<1>10. l + 1 - 1 = l
  BY <1>4
<1>11. vdisk_dir_files(files, l, 1)[1]
         = IF files[i].read THEN Directory({EntryOf(files, i)}) ELSE Directory({})
  BY <1>9, <1>10 DEF vdisk_dir_files, EntryOf
<1> QED BY <1>8, <1>11, Zenon DEF DiskSector, l, d

----------------------------------------------------------------------------
(* The file slots *)

\* What Portion computes for a buffer of one sector.
LEMMA PortionIsClamp ==
  ASSUME NEW have \in Nat, NEW o \in Nat
  PROVE  Portion(IF o < have THEN have - o ELSE 0, VDISK_SECTOR_SIZE, 1)
           = Clamp(have - o)
<1>1. VDISK_SECTOR_SIZE \in Nat \ {0} /\ (1 - 1) * VDISK_SECTOR_SIZE = 0
  BY Sizes
<1>2. CASE o < have
  BY <1>1, <1>2 DEF Portion, Clamp
<1>3. CASE ~(o < have)
  BY <1>1, <1>3 DEF Portion, Clamp
<1> QED BY <1>2, <1>3

\* A sector is shorter than a uint32_t counts: a slot has more than one.
LEMMA SectorFits == VDISK_SECTOR_SIZE < UINT32
<1>1. VDISK_FILE_COUNT > 1
  BY PartitionInSlot0, Sizes
<1>2. VDISK_FILE_COUNT * VDISK_SECTOR_SIZE = UINT32
  BY GeometryMapsFiles
<1>3. 2 * VDISK_SECTOR_SIZE <= VDISK_FILE_COUNT * VDISK_SECTOR_SIZE
  BY <1>1, Sizes, MulMono
<1> QED BY <1>2, <1>3, Sizes

\* The s-th sector of a slot shows the file of the slot from byte
\* s * VDISK_SECTOR_SIZE on.
LEMMA FileSectorAt ==
  ASSUME NEW files \in [FileIndices -> FileRecords], NEW i \in FileIndices,
         NEW s \in Nat, s < VDISK_FILE_COUNT
  PROVE  DiskSector(files, (i + 1) * VDISK_FILE_COUNT + s)
           = FileSector(i, s * VDISK_SECTOR_SIZE,
                        Clamp(files[i].len - s * VDISK_SECTOR_SIZE),
                        IF files[i].patch
                          THEN Clamp(files[i].xlen - s * VDISK_SECTOR_SIZE) ELSE 0)
<1> DEFINE ss == VDISK_SECTOR_SIZE
           fc == VDISK_FILE_COUNT
           l == (i + 1) * fc + s
           o == s * ss
<1>0. /\ ss \in Nat \ {0} /\ fc \in Nat \ {0} /\ UINT32 \in Nat \ {0}
      /\ i \in Nat /\ i < VDISK_MAX_FILES
  BY Sizes DEF FileIndices
<1>1. l \in Nat /\ (i + 1) * fc <= l /\ l < (i + 2) * fc /\ l - (i + 1) * fc = s
  <2>1. PICK x \in Nat : x = (i + 1) * fc
    BY <1>0
  <2>2. (i + 2) * fc = x + fc
    BY <1>0, <2>1
  <2> QED BY <1>0, <2>1, <2>2
<1>2. VDISK_FILE_IDX(l) = i /\ l % fc = s
  <2> HIDE DEF l
  <2>1. /\ VDISK_FILE_IDX(l) = i /\ l % VDISK_FILE_COUNT = l - (i + 1) * VDISK_FILE_COUNT
    BY <1>0, <1>1, SlotOf
  <2> QED BY <1>1, <2>1
<1> HIDE DEF l
<1>3. RegionOf(l) = FileRegion
  BY <1>0, <1>2 DEF RegionOf
<1>4. BuildRegion(RegionOf(l), files, l, 1) = vdisk_file(files, l, 1)
  <2>1. RegionOf(l).build = "file"
    BY <1>3 DEF FileRegion, Region
  <2> QED BY <2>1, BuildRegionCases
<1>5. VDISK_FILE_OFFSET(l) = o /\ o \in Nat
  BY <1>0, <1>2 DEF VDISK_FILE_OFFSET
<1>6. (1 * ss) % UINT32 = ss
  <2>1. ss % UINT32 = ss
    BY <1>0, SectorFits, ModSmall
  <2> QED BY <1>0, <2>1
<1>7. /\ files[i].len \in Nat /\ files[i].xlen \in Nat /\ files[i].patch \in BOOLEAN
  BY DEF FileRecords
<1> HIDE DEF o
<1>8. o + (1 - 1) * ss = o
  BY <1>0, <1>5
<1>9. /\ Portion(IF o < files[i].len THEN files[i].len - o ELSE 0, ss, 1)
           = Clamp(files[i].len - o)
      /\ Portion(IF o < files[i].xlen THEN files[i].xlen - o ELSE 0, ss, 1)
           = Clamp(files[i].xlen - o)
  BY <1>5, <1>7, PortionIsClamp
<1>10. Portion(0, ss, 1) = 0
  BY <1>0 DEF Portion
<1>11. Portion(IF files[i].patch /\ o < files[i].xlen THEN files[i].xlen - o ELSE 0, ss, 1)
         = IF files[i].patch THEN Clamp(files[i].xlen - o) ELSE 0
  BY <1>7, <1>9, <1>10
<1>12. vdisk_file(files, l, 1)[1]
         = FileSector(i, o + (1 - 1) * ss,
             Portion(IF o < files[i].len THEN files[i].len - o ELSE 0, ss, 1),
             Portion(IF files[i].patch /\ o < files[i].xlen
                       THEN files[i].xlen - o ELSE 0, ss, 1))
  BY <1>2, <1>5, <1>6 DEF vdisk_file
<1>13. vdisk_file(files, l, 1)[1]
         = FileSector(i, o, Clamp(files[i].len - o),
                      IF files[i].patch THEN Clamp(files[i].xlen - o) ELSE 0)
  BY <1>8, <1>9, <1>11, <1>12, Zenon
<1> QED BY <1>4, <1>13, Zenon DEF DiskSector, l, o

----------------------------------------------------------------------------
(* The volume *)

\* What mounting finds: the boot record, and a device on which the partition is
\* where the disk has it.
IsVolume(v) ==
  /\ v.vbr = Vbr /\ v.lba \in Nat /\ v.dev.lba \in Nat /\ v.dev.LastBlock \in Int
  /\ v.lba + v.dev.lba = VDISK_PARTITION_LBA
  /\ v.dev.LastBlock + v.dev.lba = VDISK_COUNT - 1

LEMMA SectorIs ==
  ASSUME NEW dev, NEW lba
  PROVE  Sector(dev, lba) = DiskSector(vdisk_files, lba + dev.lba)
BY DEF Sector, efi_read_blocks

LEMMA VolumeIs ==
  ASSUME NEW v \in Volumes
  PROVE  IsVolume(v)
<1> DEFINE p == VDISK_PARTITION_LBA
           d == Mount(efi_vdisk, Sector(efi_vdisk, 0).start)
           e == Mount(efi_vpartition, 0)
<1>0. p \in Nat /\ VDISK_COUNT \in Nat /\ VDISK_PARTITION_COUNT \in Int
      /\ VDISK_COUNT = p + VDISK_PARTITION_COUNT
  <2>1. VDISK_CLUSTERS * VDISK_CLUSTER_COUNT \in Nat
    BY GeometryTypes
  <2>2. VDISK_PARTITION_COUNT \in Int
    BY <2>1, Sizes DEF VDISK_PARTITION_COUNT, VDISK_RESERVED_COUNT
  <2> QED BY <2>2, DiskCountIsNat, Sizes DEF VDISK_COUNT
<1>1. Sector(efi_vdisk, 0).start = p
  <2>1. 0 + efi_vdisk.lba = 0
    BY DEF efi_vdisk
  <2>2. Sector(efi_vdisk, 0) = Mbr
    BY <2>1, SectorIs, MbrAt
  <2> QED BY <2>2 DEF Mbr
<1>2. Sector(efi_vdisk, p) = Vbr /\ Sector(efi_vpartition, 0) = Vbr
  <2>1. p + efi_vdisk.lba = p /\ 0 + efi_vpartition.lba = p
    BY <1>0 DEF efi_vdisk, efi_vpartition
  <2> QED BY <2>1, SectorIs, VbrAt
<1>3. IsVolume(d)
  <2>1. d.vbr = Vbr /\ d.lba = p /\ d.dev = efi_vdisk
    BY <1>1, <1>2 DEF Mount
  <2> HIDE DEF d
  <2>2. d.dev.lba = 0 /\ d.dev.LastBlock = VDISK_COUNT - 1
    BY <2>1 DEF efi_vdisk
  <2> QED BY <1>0, <2>1, <2>2 DEF IsVolume
<1>4. IsVolume(e)
  <2>1. e.vbr = Vbr /\ e.lba = 0 /\ e.dev = efi_vpartition
    BY <1>2 DEF Mount
  <2> HIDE DEF e
  <2>2. e.dev.lba = p /\ e.dev.LastBlock = VDISK_PARTITION_COUNT - 1
    BY <2>1 DEF efi_vpartition
  <2> QED BY <1>0, <2>1, <2>2 DEF IsVolume
<1> QED BY <1>3, <1>4, Zenon DEF Volumes

LEMMA BlockAt ==
  ASSUME NEW v, IsVolume(v), NEW x \in Int
  PROVE  Sector(v.dev, v.lba + x) = DiskSector(vdisk_files, VDISK_PARTITION_LBA + x)
<1>1. v.lba + x + v.dev.lba = VDISK_PARTITION_LBA + x
  BY DEF IsVolume
<1> QED BY <1>1, SectorIs

\* The boot record's numbers are those of the macros.
LEMMA VbrFields ==
  ASSUME NEW v, IsVolume(v)
  PROVE  /\ v.vbr.bytes_per_sector = VDISK_SECTOR_SIZE
         /\ v.vbr.sectors_per_cluster = VDISK_CLUSTER_COUNT
         /\ v.vbr.reserved_sectors = VDISK_CLUSTER_COUNT
         /\ v.vbr.fats = 1 /\ v.vbr.sectors_per_fat = VDISK_SECTORS_PER_FAT
         /\ v.vbr.root = 2
BY DEF IsVolume, Vbr, VDISK_RESERVED_COUNT, VDISK_ROOT_CLUSTER

LEMMA ClusterLbaIs ==
  ASSUME NEW v, IsVolume(v), NEW c \in Int
  PROVE  /\ ClusterLba(v, c) = v.lba + VDISK_CLUSTER_SECTOR(c)
         /\ VDISK_CLUSTER_SECTOR(c) \in Int
         /\ VDISK_DIR_LBA(c) = VDISK_PARTITION_LBA + VDISK_CLUSTER_SECTOR(c)
<1>1. PICK x \in Int : x = (c - 2) * VDISK_CLUSTER_COUNT
  BY Sizes
<1>2. VDISK_CLUSTER_SECTOR(c) = x + VDISK_CLUSTER_COUNT + VDISK_SECTORS_PER_FAT
  BY <1>1 DEF VDISK_CLUSTER_SECTOR, VDISK_RESERVED_COUNT
<1>3. ClusterLba(v, c) = v.lba + VDISK_CLUSTER_COUNT + 1 * VDISK_SECTORS_PER_FAT + x
  BY <1>1, VbrFields DEF ClusterLba
<1>4. v.lba \in Nat
  BY DEF IsVolume
<1> QED BY <1>2, <1>3, <1>4, Sizes DEF VDISK_DIR_LBA, VDISK_VBR_LBA

LEMMA ClusterBlock ==
  ASSUME NEW v, IsVolume(v), NEW c \in Int, NEW s \in Int
  PROVE  Sector(v.dev, ClusterLba(v, c) + s)
           = DiskSector(vdisk_files, VDISK_DIR_LBA(c) + s)
<1>1. PICK x \in Int : x = VDISK_CLUSTER_SECTOR(c)
  BY ClusterLbaIs
<1>2. ClusterLba(v, c) + s = v.lba + (x + s)
  <2>1. v.lba \in Nat
    BY DEF IsVolume
  <2> QED BY <1>1, <2>1, ClusterLbaIs
<1>3. VDISK_DIR_LBA(c) + s = VDISK_PARTITION_LBA + (x + s)
  BY <1>1, ClusterLbaIs, Sizes
<1>4. x + s \in Int
  OBVIOUS
<1> QED BY <1>2, <1>3, <1>4, BlockAt

LEMMA FatNextIs ==
  ASSUME NEW v, IsVolume(v), NEW c \in Nat,
         c < VDISK_SECTORS_PER_FAT * FatEntriesPerSector
  PROVE  FatNext(v, c)
           = FatEntry(vdisk_files, (c \div FatEntriesPerSector) * FatEntriesPerSector, c)
<1> DEFINE E == FatEntriesPerSector
           k == c \div E
<1>1. E \in Nat /\ E > 8 /\ v.vbr.bytes_per_sector \div 4 = E
  <2>1. v.vbr.bytes_per_sector = VDISK_SECTOR_SIZE
    BY VbrFields
  <2>2. VDISK_SECTOR_SIZE \div 4 = E
    BY DEF FatEntriesPerSector, FatEntrySize
  <2> QED BY <2>1, <2>2, Sizes
<1>2. k \in Int
  BY <1>1
<1>3. FatNext(v, c) = Sector(v.dev, v.lba + VDISK_CLUSTER_COUNT + k).next[c % E]
  BY <1>1, VbrFields, Zenon DEF FatNext
<1> HIDE DEF k
<1>4. v.lba + VDISK_CLUSTER_COUNT + k = v.lba + (VDISK_CLUSTER_COUNT + k)
      /\ VDISK_PARTITION_LBA + (VDISK_CLUSTER_COUNT + k) = VDISK_FAT_LBA + k
      /\ VDISK_CLUSTER_COUNT + k \in Int
  BY <1>2, Sizes DEF IsVolume
<1>5. Sector(v.dev, v.lba + VDISK_CLUSTER_COUNT + k)
        = DiskSector(vdisk_files, VDISK_FAT_LBA + k)
  <2>1. Sector(v.dev, v.lba + (VDISK_CLUSTER_COUNT + k))
          = DiskSector(vdisk_files, VDISK_PARTITION_LBA + (VDISK_CLUSTER_COUNT + k))
    BY <1>4, BlockAt
  <2> QED BY <1>4, <2>1, Zenon
<1>6. DiskSector(vdisk_files, VDISK_FAT_LBA + k).next[c % E]
        = FatEntry(vdisk_files, k * E, c)
  BY FatEntryAt DEF k
<1> QED BY <1>3, <1>5, <1>6, Zenon DEF k

\* A directory lists its subdirectories and every file of the table.
LEMMA EntriesAre ==
  ASSUME NEW v, IsVolume(v), NEW c \in 2 .. 8
  PROVE  EntriesOf(v, c)
           = Subdirectories(c)
               \cup {EntryOf(vdisk_files, i) : i \in {x \in FileIndices : vdisk_files[x].read}}
<1> DEFINE cc == VDISK_CLUSTER_COUNT
           f == vdisk_files
           B(s) == Sector(v.dev, ClusterLba(v, c) + s).entries
           Files == {EntryOf(f, i) : i \in {x \in FileIndices : f[x].read}}
<1>0. cc \in Nat /\ cc > 6 /\ FileIndices = 0 .. cc - 2
  BY Sizes DEF FileIndices
<1>1. \A x : Directory(x).entries = x
  BY DEF Directory
<1>2. B(0) = Subdirectories(c)
  <2>1. VDISK_DIR_LBA(c) + 0 = VDISK_DIR_LBA(c)
    BY DirsInSlot0
  <2>2. Sector(v.dev, ClusterLba(v, c) + 0) = DiskSector(f, VDISK_DIR_LBA(c) + 0)
    BY ClusterBlock
  <2>3. DiskSector(f, VDISK_DIR_LBA(c)) = Directory(Subdirectories(c))
    BY ListAt
  <2> QED BY <1>1, <2>1, <2>2, <2>3, Zenon
<1>3. ASSUME NEW i \in FileIndices
      PROVE  B(1 + i) = IF f[i].read THEN {EntryOf(f, i)} ELSE {}
  <2>1. 1 + i \in Int
    BY <1>0
  <2>2. Sector(v.dev, ClusterLba(v, c) + (1 + i)) = DiskSector(f, VDISK_DIR_LBA(c) + (1 + i))
    BY <2>1, ClusterBlock
  <2>3. DiskSector(f, VDISK_DIR_LBA(c) + (1 + i))
          = IF f[i].read THEN Directory({EntryOf(f, i)}) ELSE Directory({})
    BY FileEntryAt
  <2>4. CASE f[i].read
    BY <1>1, <2>2, <2>3, <2>4, Zenon
  <2>5. CASE ~f[i].read
    BY <1>1, <2>2, <2>3, <2>5, Zenon
  <2> QED BY <2>4, <2>5, Zenon
<1>4. EntriesOf(v, c) = UNION {B(s) : s \in 0 .. cc - 1}
  BY VbrFields, Zenon DEF EntriesOf
<1> HIDE DEF B
<1>5. ASSUME NEW e, e \in EntriesOf(v, c) PROVE e \in Subdirectories(c) \cup Files
  <2>1. PICK s \in 0 .. cc - 1 : e \in B(s)
    BY <1>4, <1>5, Zenon
  <2>2. CASE s = 0
    BY <1>2, <2>1, <2>2, Zenon
  <2>3. CASE s # 0
    <3>1. PICK i \in FileIndices : s = 1 + i
      <4>1. s - 1 \in FileIndices /\ s = 1 + (s - 1)
        BY <1>0, <2>3
      <4> QED BY <4>1, Zenon
    <3>2. f[i].read /\ e = EntryOf(f, i)
      <4>1. e \in B(1 + i)
        BY <2>1, <3>1
      <4>2. CASE f[i].read
        <5>1. B(1 + i) = {EntryOf(f, i)}
          BY <1>3, <4>2
        <5> QED BY <4>1, <4>2, <5>1
      <4>3. CASE ~f[i].read
        BY <1>3, <4>1, <4>3, Zenon
      <4> QED BY <4>2, <4>3, Zenon
    <3> QED BY <3>2, Zenon
  <2> QED BY <2>2, <2>3, Zenon
<1>6. ASSUME NEW e, e \in Subdirectories(c) PROVE e \in EntriesOf(v, c)
  <2>1. 0 \in 0 .. cc - 1
    BY <1>0
  <2> QED BY <1>2, <1>4, <1>6, <2>1, Zenon
<1>7. ASSUME NEW e, e \in Files PROVE e \in EntriesOf(v, c)
  <2>1. PICK i \in FileIndices : f[i].read /\ e = EntryOf(f, i)
    BY <1>7, Zenon
  <2>2. 1 + i \in 0 .. cc - 1
    BY <1>0
  <2>3. e \in B(1 + i)
    BY <1>3, <2>1, Zenon
  <2> QED BY <1>4, <2>2, <2>3, Zenon
<1> QED BY <1>5, <1>6, <1>7, Zenon

----------------------------------------------------------------------------
(* Finding a directory by name *)

LEMMA SubdirectoryIs ==
  ASSUME NEW name, NEW c \in 2 .. 8
  PROVE  /\ Subdirectory(name, c).attr = "directory" /\ Subdirectory(name, c).name = name
         /\ Subdirectory(name, c).cluster = c
<1>1. c % UINT32 = c
  <2>1. VDISK_SECTOR_SIZE > 8
    BY Sizes DEF FatEntriesPerSector, FatEntrySize
  <2>2. c \in Nat /\ c < UINT32
    BY <2>1, SectorFits, Sizes
  <2> QED BY <2>2, ModSmall, Sizes
<1> QED BY <1>1 DEF Subdirectory, DirEntry

LEMMA SubdirectoriesAre ==
  /\ Subdirectories(2) = {Subdirectory("BOOT", 3), Subdirectory("SOURCES", 4),
                          Subdirectory("EFI", 7)}
  /\ Subdirectories(3) = {Subdirectory("FONTS", 5), Subdirectory("RESOURCES", 6)}
  /\ Subdirectories(7) = {Subdirectory("BOOT", 3), Subdirectory("MICROSOFT", 8)}
  /\ Subdirectories(8) = {Subdirectory("BOOT", 3)}
  /\ Subdirectories(4) = {} /\ Subdirectories(5) = {} /\ Subdirectories(6) = {}
BY DEF Subdirectories, VDISK_ROOT_CLUSTER, VDISK_BOOT_CLUSTER, VDISK_SOURCES_CLUSTER,
       VDISK_FONTS_CLUSTER, VDISK_RESOURCES_CLUSTER, VDISK_EFI_CLUSTER,
       VDISK_MICROSOFT_CLUSTER

LEMMA SubdirectoriesPoint ==
  ASSUME NEW c \in 2 .. 8, NEW e \in Subdirectories(c)
  PROVE  e.cluster \in 2 .. 8
<1>1. \A name : \A d \in 2 .. 8 : Subdirectory(name, d).cluster \in 2 .. 8
  BY SubdirectoryIs
<1>2. \E name : \E d \in 2 .. 8 : e = Subdirectory(name, d)
  <2>1. c = 2 \/ c = 3 \/ c = 4 \/ c = 5 \/ c = 6 \/ c = 7 \/ c = 8
    OBVIOUS
  <2>2. 3 \in 2 .. 8 /\ 4 \in 2 .. 8 /\ 5 \in 2 .. 8 /\ 6 \in 2 .. 8 /\ 7 \in 2 .. 8
        /\ 8 \in 2 .. 8
    OBVIOUS
  <2>3. CASE c = 2
    BY <2>2, <2>3, SubdirectoriesAre, Zenon
  <2>4. CASE c = 3
    BY <2>2, <2>4, SubdirectoriesAre, Zenon
  <2>5. CASE c = 7
    BY <2>2, <2>5, SubdirectoriesAre, Zenon
  <2>6. CASE c = 8
    BY <2>2, <2>6, SubdirectoriesAre, Zenon
  <2>7. CASE c = 4 \/ c = 5 \/ c = 6
    BY <2>7, SubdirectoriesAre, Zenon
  <2> QED BY <2>1, <2>3, <2>4, <2>5, <2>6, <2>7, Zenon
<1> QED BY <1>1, <1>2, Zenon

\* Only subdirectories are entered: the entries of files are no directories,
\* whatever their names.
LEMMA EnterStays ==
  ASSUME NEW v, IsVolume(v), NEW dirs \in SUBSET (2 .. 8), NEW name
  PROVE  Enter(v, dirs, name) \subseteq 2 .. 8
<1> SUFFICES ASSUME NEW x \in Enter(v, dirs, name) PROVE x \in 2 .. 8
  BY Zenon
<1>1. PICK e : /\ e \in UNION {EntriesOf(v, c) : c \in dirs}
               /\ e.attr = "directory" /\ x = e.cluster
  BY Zenon DEF Enter
<1>2. PICK c \in dirs : e \in EntriesOf(v, c)
  BY <1>1, Zenon
<1>3. c \in 2 .. 8
  BY Zenon
<1>4. \/ e \in Subdirectories(c)
      \/ \E i \in FileIndices : e = EntryOf(vdisk_files, i)
  BY <1>2, <1>3, EntriesAre, Zenon
<1>5. ASSUME NEW i \in FileIndices PROVE EntryOf(vdisk_files, i).attr = "read_only"
  BY DEF EntryOf, DirEntry
<1>6. "directory" # "read_only"
  OBVIOUS
<1>7. e \in Subdirectories(c)
  BY <1>1, <1>4, <1>5, <1>6, Zenon
<1> QED BY <1>1, <1>3, <1>7, SubdirectoriesPoint, Zenon

LEMMA EnterFinds ==
  ASSUME NEW v, IsVolume(v), NEW dirs \in SUBSET (2 .. 8), NEW d \in dirs, NEW name,
         NEW c \in 2 .. 8, Subdirectory(name, c) \in Subdirectories(d)
  PROVE  c \in Enter(v, dirs, name)
<1> DEFINE e == Subdirectory(name, c)
<1>1. d \in 2 .. 8
  BY Zenon
<1>2. e \in EntriesOf(v, d)
  BY <1>1, EntriesAre, Zenon
<1>3. e.attr = "directory" /\ e.name = name /\ e.cluster = c
  BY SubdirectoryIs
<1> HIDE DEF e
<1>4. e \in {x \in UNION {EntriesOf(v, k) : k \in dirs} :
               x.attr = "directory" /\ x.name = name}
  BY <1>2, <1>3, Zenon
<1> QED BY <1>3, <1>4, Zenon DEF Enter

\* Every path the boot loaders use leads to a directory of slot 0.
LEMMA DirectoriesFound ==
  ASSUME NEW v, IsVolume(v), NEW dirs \in BootDirectories(v)
  PROVE  dirs # {} /\ dirs \subseteq 2 .. 8
<1> DEFINE root == {v.vbr.root}
           boot == Enter(v, root, "BOOT")
           efi == Enter(v, root, "EFI")
           microsoft == Enter(v, efi, "MICROSOFT")
           sources == Enter(v, root, "SOURCES")
           fonts == Enter(v, boot, "FONTS")
           resources == Enter(v, boot, "RESOURCES")
           efi_boot == Enter(v, efi, "BOOT")
           microsoft_boot == Enter(v, microsoft, "BOOT")
<1>1. dirs \in {root, boot, efi, microsoft, sources, fonts, resources, efi_boot,
                microsoft_boot}
  BY Zenon DEF BootDirectories
<1>2. 3 \in 2 .. 8 /\ 4 \in 2 .. 8 /\ 5 \in 2 .. 8 /\ 6 \in 2 .. 8 /\ 7 \in 2 .. 8
      /\ 8 \in 2 .. 8
  OBVIOUS
<1>3. root \subseteq 2 .. 8 /\ 2 \in root
  BY VbrFields
<1> HIDE DEF root
<1>4. boot \subseteq 2 .. 8 /\ 3 \in boot
  BY <1>2, <1>3, EnterStays, EnterFinds, SubdirectoriesAre, Zenon
<1>5. efi \subseteq 2 .. 8 /\ 7 \in efi
  BY <1>2, <1>3, EnterStays, EnterFinds, SubdirectoriesAre, Zenon
<1>6. sources \subseteq 2 .. 8 /\ 4 \in sources
  BY <1>2, <1>3, EnterStays, EnterFinds, SubdirectoriesAre, Zenon
<1> HIDE DEF boot, efi, sources
<1>7. microsoft \subseteq 2 .. 8 /\ 8 \in microsoft
  BY <1>2, <1>5, EnterStays, EnterFinds, SubdirectoriesAre, Zenon
<1>8. efi_boot \subseteq 2 .. 8 /\ 3 \in efi_boot
  BY <1>2, <1>5, EnterStays, EnterFinds, SubdirectoriesAre, Zenon
<1>9. fonts \subseteq 2 .. 8 /\ 5 \in fonts
  BY <1>2, <1>4, EnterStays, EnterFinds, SubdirectoriesAre, Zenon
<1>10. resources \subseteq 2 .. 8 /\ 6 \in resources
  BY <1>2, <1>4, EnterStays, EnterFinds, SubdirectoriesAre, Zenon
<1> HIDE DEF microsoft, efi_boot, fonts, resources
<1>11. microsoft_boot \subseteq 2 .. 8 /\ 3 \in microsoft_boot
  BY <1>2, <1>7, EnterStays, EnterFinds, SubdirectoriesAre, Zenon
<1> HIDE DEF microsoft_boot
<1> QED BY <1>1, <1>3, <1>4, <1>5, <1>6, <1>7, <1>8, <1>9, <1>10, <1>11, Zenon

----------------------------------------------------------------------------
(* The clusters of the files *)

LEMMA ClustersOfSlot ==
  /\ VDISK_FILE_CLUSTERS \in Nat \ {0} /\ VDISK_CLUSTER_SIZE \in Nat \ {0}
  /\ VDISK_FILE_CLUSTERS * VDISK_CLUSTER_COUNT = VDISK_FILE_COUNT
  /\ VDISK_FILE_CLUSTERS * VDISK_CLUSTER_SIZE = UINT32
<1> DEFINE cc == VDISK_CLUSTER_COUNT
           ss == VDISK_SECTOR_SIZE
           fc == VDISK_FILE_COUNT
<1>0. cc \in Nat \ {0} /\ ss \in Nat \ {0} /\ fc \in Nat \ {0}
  BY Sizes
<1>1. PICK a : a = VDISK_FILE_CLUSTERS
  OBVIOUS
<1>2. a = fc \div cc /\ a \in Int /\ fc = cc * a
  <2>1. fc % cc = 0
    BY GeometryFits
  <2>2. a = fc \div cc
    BY <1>1 DEF VDISK_FILE_CLUSTERS
  <2>3. a \in Int /\ fc = cc * a + 0
    BY <1>0, <2>1, <2>2, DivMod
  <2> QED BY <1>0, <2>2, <2>3
<1>3. a \in Nat \ {0}
  BY <1>0, <1>2
<1>4. a * cc = fc
  BY <1>0, <1>2
<1>5. VDISK_CLUSTER_SIZE = cc * ss /\ cc * ss \in Nat \ {0}
  BY <1>0 DEF VDISK_CLUSTER_SIZE
<1>6. a * (cc * ss) = (a * cc) * ss
  BY <1>0, <1>3
<1>7. fc * ss = UINT32
  BY GeometryMapsFiles
<1> QED BY <1>1, <1>3, <1>4, <1>5, <1>6, <1>7

LEMMA ClusterOfFile ==
  ASSUME NEW i \in Nat
  PROVE  /\ VDISK_FILE_CLUSTER(i) = VDISK_FILE_CLUSTER(0) + i * VDISK_FILE_CLUSTERS
         /\ VDISK_FILE_CLUSTER(0) \in Nat /\ VDISK_FILE_CLUSTER(i) \in Nat
         /\ VDISK_FILE_CLUSTER(i) >= FatEntriesPerSector
         /\ VDISK_FILE_CLUSTER(i + 1) = VDISK_FILE_CLUSTER(i) + VDISK_FILE_CLUSTERS
<1>1. PICK q : q = (VDISK_FILE_COUNT - VDISK_PARTITION_LBA - VDISK_RESERVED_COUNT
                      - VDISK_SECTORS_PER_FAT) \div VDISK_CLUSTER_COUNT
  OBVIOUS
<1>2. q \in Int
  BY <1>1, Sizes DEF VDISK_RESERVED_COUNT
<1>3. PICK a \in Nat \ {0} : a = VDISK_FILE_CLUSTERS
  BY ClustersOfSlot
<1>4. \A k : VDISK_FILE_CLUSTER(k) = q + 2 + k * a
  BY <1>1, <1>3 DEF VDISK_FILE_CLUSTER
<1>5. PICK x \in Nat : x = i * a
  BY <1>3
<1>6. /\ VDISK_FILE_CLUSTER(0) = q + 2 /\ VDISK_FILE_CLUSTER(i) = q + 2 + x
      /\ VDISK_FILE_CLUSTER(i + 1) = q + 2 + x + a
  <2>1. 0 * a = 0 /\ (i + 1) * a = x + a
    BY <1>3, <1>5
  <2>2. VDISK_FILE_CLUSTER(0) = q + 2 + 0 /\ VDISK_FILE_CLUSTER(i) = q + 2 + x
        /\ VDISK_FILE_CLUSTER(i + 1) = q + 2 + (x + a)
    BY <1>4, <1>5, <2>1
  <2> QED BY <1>2, <2>2
<1>7. FatEntriesPerSector <= q + 2
  BY <1>6, GeometryFits
<1>8. q + 2 \in Nat /\ q + 2 + x \in Nat /\ q + 2 + x >= FatEntriesPerSector
  BY <1>2, <1>7, Sizes
<1> QED BY <1>3, <1>5, <1>6, <1>8

\* The clusters of the files are numbers of entries of the FAT.
LEMMA ClustersInFat ==
  ASSUME NEW i \in FileIndices, NEW n \in 0 .. VDISK_FILE_CLUSTERS - 1
  PROVE  /\ VDISK_FILE_CLUSTER(i) + n \in Nat
         /\ VDISK_FILE_CLUSTER(i) + n >= FatEntriesPerSector
         /\ VDISK_FILE_CLUSTER(i) + n < VDISK_SECTORS_PER_FAT * FatEntriesPerSector
         /\ VDISK_FILE_CLUSTER(i) + n < UINT32
<1> DEFINE M == VDISK_MAX_FILES
           a == VDISK_FILE_CLUSTERS
<1>0. i \in Nat /\ i + 1 <= M /\ M \in Nat /\ a \in Nat \ {0}
  BY ClustersOfSlot, Sizes DEF FileIndices
<1>1. PICK c0, c \in Nat : c0 = VDISK_FILE_CLUSTER(0) /\ c = VDISK_FILE_CLUSTER(i)
  BY <1>0, ClusterOfFile
<1>2. c >= FatEntriesPerSector /\ c = c0 + i * a
  BY <1>0, <1>1, ClusterOfFile
<1>3. VDISK_FILE_CLUSTER(M) = c0 + M * a
  BY <1>0, <1>1, ClusterOfFile
<1>4. (i + 1) * a <= M * a /\ (i + 1) * a = i * a + a
  BY <1>0, MulMono
<1>5. PICK t \in Int : t = VDISK_SECTORS_PER_FAT * FatEntriesPerSector
  BY Sizes
<1>6. c0 + M * a <= t /\ t <= UINT32
  BY <1>3, <1>5, GeometryMapsFiles, GeometryHoldsFiles
<1>7. PICK x, y \in Nat : x = i * a /\ y = M * a
  BY <1>0
<1>8. c + a <= t
  BY <1>0, <1>2, <1>4, <1>6, <1>7
<1>9. c + n \in Nat /\ c + n >= FatEntriesPerSector /\ c + n < t /\ c + n < UINT32
  <2>1. UINT32 \in Nat /\ FatEntriesPerSector \in Nat
    BY Sizes
  <2>2. n \in Nat /\ n < a
    BY <1>0
  <2> HIDE DEF a
  <2> QED BY <1>0, <1>2, <1>5, <1>6, <1>8, <2>1, <2>2
<1> QED BY <1>1, <1>5, <1>9

\* Two files have no cluster in common.
LEMMA ClustersApart ==
  ASSUME NEW i \in FileIndices, NEW j \in FileIndices,
         NEW m \in 0 .. VDISK_FILE_CLUSTERS - 1, NEW n \in 0 .. VDISK_FILE_CLUSTERS - 1,
         VDISK_FILE_CLUSTER(i) + m = VDISK_FILE_CLUSTER(j) + n
  PROVE  i = j /\ m = n
<1> DEFINE a == VDISK_FILE_CLUSTERS
<1>0. i \in Nat /\ j \in Nat /\ a \in Nat \ {0}
  BY ClustersOfSlot, Sizes DEF FileIndices
<1>1. PICK c0 \in Nat : c0 = VDISK_FILE_CLUSTER(0)
  BY <1>0, ClusterOfFile
<1>2. VDISK_FILE_CLUSTER(i) = c0 + i * a /\ VDISK_FILE_CLUSTER(j) = c0 + j * a
  BY <1>0, <1>1, ClusterOfFile
<1>3. PICK x, y \in Nat : x = i * a /\ y = j * a
  BY <1>0
<1>4. x + m = y + n
  <2>1. c0 + x + m = c0 + y + n
    BY <1>2, <1>3
  <2>2. m \in Int /\ n \in Int
    BY <1>0
  <2> QED BY <2>1, <2>2
<1>5. i * a + m = j * a + n
  BY <1>3, <1>4
<1>6. (i * a + m) \div a = i /\ (j * a + n) \div a = j
  <2>1. i \in Int /\ j \in Int /\ m \in 0 .. a - 1 /\ n \in 0 .. a - 1
    BY <1>0
  <2> HIDE DEF a
  <2>2. \A q \in Int : \A r \in 0 .. a - 1 : (q * a + r) \div a = q
    BY <1>0, DivUnique
  <2> QED BY <2>1, <2>2, Zenon
<1>7. i = j
  BY <1>5, <1>6
<1> QED BY <1>3, <1>4, <1>7

\* The last cluster of a file that fits its slot.
LEMMA LastCluster ==
  ASSUME NEW x \in Nat \ {0}, x <= UINT32
  PROVE  /\ (x - 1) \div VDISK_CLUSTER_SIZE \in 0 .. VDISK_FILE_CLUSTERS - 1
         /\ CeilDiv(x, VDISK_CLUSTER_SIZE) - 1 = (x - 1) \div VDISK_CLUSTER_SIZE
<1>0. PICK a, b \in Nat \ {0} : a = VDISK_FILE_CLUSTERS /\ b = VDISK_CLUSTER_SIZE
  BY ClustersOfSlot
<1>1. a * b = UINT32
  BY <1>0, ClustersOfSlot
<1>2. PICK q, r : q = (x - 1) \div b /\ r = (x - 1) % b
  OBVIOUS
<1>3. q \in Int /\ r \in 0 .. b - 1 /\ x - 1 = b * q + r
  <2>1. PICK y \in Int : y = x - 1
    OBVIOUS
  <2> QED BY <1>0, <1>2, <2>1, DivMod
<1>4. q \in Nat
  BY <1>0, <1>2
<1>5. q < a
  <2>1. ASSUME a <= q PROVE FALSE
    <3>1. a * b <= q * b /\ q * b = b * q
      BY <1>0, <1>4, <2>1, MulMono
    <3>2. PICK y \in Nat : y = b * q
      BY <1>0, <1>4
    <3> QED BY <1>1, <1>3, <3>1, <3>2
  <2> QED BY <1>4, <2>1
<1>6. (x + b - 1) \div b = q + 1
  <2>1. x + b - 1 = (q + 1) * b + r
    BY <1>0, <1>3, <1>4
  <2>2. ((q + 1) * b + r) \div b = q + 1
    <3>1. q + 1 \in Int
      BY <1>4
    <3> QED BY <1>0, <1>3, <3>1, DivUnique
  <2> QED BY <2>1, <2>2
<1>7. CeilDiv(x, b) - 1 = q
  BY <1>4, <1>6 DEF CeilDiv
<1> QED BY <1>0, <1>2, <1>4, <1>5, <1>7

LEMMA ModMinusOne ==
  ASSUME NEW b \in Nat \ {0}
  PROVE  (-1) % b = b - 1
<1>1. b * (-1) <= -1 /\ -1 < b * (-1) + b /\ -1 \in Int
  OBVIOUS
<1>2. (-1) % b = (-1) - b * (-1)
  BY <1>1, QuotientIs
<1> QED BY <1>2

\* The end marker of a file is in its slot; that of an empty file at the end of its
\* slot in the 32-bit build, and at the end of the slot before in the 64-bit build.
LEMMA EndMarkers ==
  ASSUME NEW files, NEW i \in FileIndices, files[i].xlen \in Nat, files[i].xlen < UINT32
  PROVE  /\ files[i].xlen # 0 =>
              file_end_marker(files, i)
                = VDISK_FILE_CLUSTER(i) + (files[i].xlen - 1) \div VDISK_CLUSTER_SIZE
         /\ files[i].xlen = 0 /\ ULONG = UINT32 =>
              file_end_marker(files, i)
                = VDISK_FILE_CLUSTER(i) + (VDISK_FILE_CLUSTERS - 1)
         /\ files[i].xlen = 0 /\ ULONG # UINT32 =>
              file_end_marker(files, i) = VDISK_FILE_CLUSTER(i) - 1
<1>0. /\ UINT32 \in Nat \ {0} /\ ULONG \in Nat \ {0} /\ UINT32 <= ULONG
      /\ VDISK_CLUSTER_SIZE \in Nat \ {0} /\ VDISK_FILE_CLUSTERS \in Nat \ {0}
  BY Sizes, ClustersOfSlot, GeometryHoldsFiles
<1>1. PICK x : x = files[i].xlen
  OBVIOUS
<1>2. x \in Nat /\ x < UINT32
  BY <1>1
<1>3. PICK c : c = VDISK_FILE_CLUSTER(i)
  OBVIOUS
<1>4. c \in Nat /\ c >= FatEntriesPerSector /\ FatEntriesPerSector > 8
  BY <1>3, ClusterOfFile, Sizes DEF FileIndices
<1>5. \A n \in 0 .. VDISK_FILE_CLUSTERS - 1 : (c + n) % UINT32 = c + n
  <2> TAKE n \in 0 .. VDISK_FILE_CLUSTERS - 1
  <2>1. c + n \in Nat /\ c + n < UINT32
    BY <1>3, ClustersInFat
  <2> QED BY <1>0, <2>1, ModSmall
<1>6. file_end_marker(files, i) = (c + ((x - 1) % ULONG) \div VDISK_CLUSTER_SIZE) % UINT32
  BY <1>1, <1>3 DEF file_end_marker
<1>7. ASSUME x # 0
      PROVE  file_end_marker(files, i) = c + (x - 1) \div VDISK_CLUSTER_SIZE
  <2>1. x - 1 \in Nat /\ x - 1 < ULONG /\ x \in Nat \ {0} /\ x <= UINT32
    BY <1>0, <1>2, <1>7
  <2>2. (x - 1) % ULONG = x - 1
    BY <1>0, <2>1, ModSmall
  <2>3. (x - 1) \div VDISK_CLUSTER_SIZE \in 0 .. VDISK_FILE_CLUSTERS - 1
    BY <2>1, LastCluster
  <2>4. (c + (x - 1) \div VDISK_CLUSTER_SIZE) % UINT32 = c + (x - 1) \div VDISK_CLUSTER_SIZE
    BY <1>5, <2>3
  <2> QED BY <1>6, <2>2, <2>4
<1>8. ASSUME x = 0
      PROVE  file_end_marker(files, i) = (c + (ULONG - 1) \div VDISK_CLUSTER_SIZE) % UINT32
  <2>1. x - 1 = -1
    BY <1>8
  <2>2. (x - 1) % ULONG = ULONG - 1
    BY <1>0, <2>1, ModMinusOne
  <2> QED BY <1>6, <2>2
<1>9. ASSUME x = 0, ULONG = UINT32
      PROVE  file_end_marker(files, i) = c + (VDISK_FILE_CLUSTERS - 1)
  <2> DEFINE a == VDISK_FILE_CLUSTERS
             b == VDISK_CLUSTER_SIZE
  <2>1. (a - 1) * b + (b - 1) = UINT32 - 1
    <3>1. a * b = UINT32
      BY ClustersOfSlot
    <3>2. (a - 1) * b = a * b - b
      BY <1>0
    <3> QED BY <1>0, <3>1, <3>2
  <2>2. ((a - 1) * b + (b - 1)) \div b = a - 1
    <3>1. a - 1 \in Int /\ b - 1 \in 0 .. b - 1
      BY <1>0
    <3> QED BY <1>0, <3>1, DivUnique
  <2>3. (ULONG - 1) \div b = a - 1
    BY <1>9, <2>1, <2>2
  <2>4. a - 1 \in 0 .. a - 1
    BY <1>0
  <2> QED BY <1>5, <1>8, <1>9, <2>3, <2>4
<1>10. ASSUME x = 0, ULONG # UINT32
       PROVE  file_end_marker(files, i) = c - 1
  <2> DEFINE b == VDISK_CLUSTER_SIZE
             U == UINT32
  <2>1. PICK m \in Int : ULONG = (U * b) * m
    <3>1. ULONG % (U * b) = 0
      BY <1>10, GeometryMapsFiles
    <3>2. U * b \in Nat \ {0}
      BY <1>0
    <3>3. PICK w : w = U * b
      OBVIOUS
    <3>4. w \in Nat \ {0} /\ ULONG % w = 0
      BY <3>1, <3>2, <3>3
    <3>5. ULONG \div w \in Int /\ ULONG = w * (ULONG \div w) + 0
      BY <1>0, <3>4, DivMod
    <3>6. ULONG = w * (ULONG \div w)
      BY <1>0, <3>4, <3>5
    <3> QED BY <3>3, <3>5, <3>6
  <2>2. PICK u \in Int : u = U * m
    BY <1>0
  <2>3. ULONG = u * b
    BY <1>0, <2>1, <2>2
  <2>4. (ULONG - 1) \div b = u - 1
    <3>1. ULONG - 1 = (u - 1) * b + (b - 1)
      BY <1>0, <2>3
    <3>2. ((u - 1) * b + (b - 1)) \div b = u - 1
      <4>1. u - 1 \in Int /\ b - 1 \in 0 .. b - 1
        BY <1>0
      <4> QED BY <1>0, <4>1, DivUnique
    <3> QED BY <3>1, <3>2
  <2>5. c - 1 \in 0 .. U - 1
    <3>1. 0 \in 0 .. VDISK_FILE_CLUSTERS - 1
      BY <1>0
    <3>2. VDISK_FILE_CLUSTER(i) + 0 < U
      BY <3>1, ClustersInFat
    <3> QED BY <1>0, <1>3, <1>4, <3>2, Sizes
  <2>6. c + (u - 1) = m * U + (c - 1)
    BY <1>0, <1>4, <2>2
  <2>7. (m * U + (c - 1)) % U = c - 1
    <3>1. PICK d \in 0 .. U - 1 : d = c - 1
      BY <2>5
    <3>2. (m * U + d) % U = d
      BY <1>0, DivUnique
    <3> QED BY <3>1, <3>2
  <2> QED BY <1>8, <1>10, <2>4, <2>6, <2>7
<1> QED BY <1>1, <1>3, <1>7, <1>9, <1>10

----------------------------------------------------------------------------
(* The chain of a file *)

\* Every file of the table is shorter than a slot.
TableFits ==
  \A i \in FileIndices : vdisk_files[i].read =>
    vdisk_files[i].xlen \in Nat /\ vdisk_files[i].xlen < UINT32

\* No end marker but a file's own is in the clusters that the file uses.
LEMMA OwnMarker ==
  ASSUME TableFits, NEW idx \in FileIndices, vdisk_files[idx].read,
         vdisk_files[idx].xlen # 0,
         NEW n \in 0 .. (vdisk_files[idx].xlen - 1) \div VDISK_CLUSTER_SIZE,
         NEW i \in FileIndices, vdisk_files[i].read,
         file_end_marker(vdisk_files, i) = VDISK_FILE_CLUSTER(idx) + n
  PROVE  n = (vdisk_files[idx].xlen - 1) \div VDISK_CLUSTER_SIZE
<1> DEFINE a == VDISK_FILE_CLUSTERS
           x(k) == vdisk_files[k].xlen
           last(k) == (x(k) - 1) \div VDISK_CLUSTER_SIZE
<1>0. a \in Nat \ {0}
  BY ClustersOfSlot
<1>1. x(i) \in Nat /\ x(i) < UINT32 /\ x(idx) \in Nat \ {0} /\ x(idx) < UINT32
  BY DEF TableFits
<1>2. UINT32 \in Nat
  BY Sizes
<1>3. last(idx) \in 0 .. a - 1 /\ (x(i) # 0 => last(i) \in 0 .. a - 1)
  <2>1. \A y \in Nat \ {0} : y <= UINT32 => (y - 1) \div VDISK_CLUSTER_SIZE \in 0 .. a - 1
    BY LastCluster
  <2> QED BY <1>1, <1>2, <2>1
<1>4. n \in 0 .. a - 1 /\ n \in Nat /\ n <= last(idx)
  BY <1>0, <1>3
<1>5. CASE x(i) # 0
  <2>1. file_end_marker(vdisk_files, i) = VDISK_FILE_CLUSTER(i) + last(i)
    BY <1>1, <1>5, EndMarkers
  <2> HIDE DEF last, x
  <2>2. i = idx /\ last(i) = n
    BY <1>3, <1>4, <1>5, <2>1, ClustersApart
  <2> QED BY <2>2 DEF last, x
<1>6. CASE x(i) = 0 /\ ULONG = UINT32
  <2>1. file_end_marker(vdisk_files, i) = VDISK_FILE_CLUSTER(i) + (a - 1)
    BY <1>1, <1>6, EndMarkers
  <2>2. a - 1 \in 0 .. a - 1
    BY <1>0
  <2>3. i = idx
    BY <1>4, <2>1, <2>2, ClustersApart
  <2> QED BY <1>6, <2>3
<1>7. CASE x(i) = 0 /\ ULONG # UINT32
  <2>1. file_end_marker(vdisk_files, i) = VDISK_FILE_CLUSTER(i) - 1
    BY <1>1, <1>7, EndMarkers
  <2>2. i \in Nat /\ idx \in Nat
    BY DEF FileIndices
  <2>3. CASE i = 0
    <3>1. VDISK_FILE_CLUSTER(idx) = VDISK_FILE_CLUSTER(0) + idx * a
          /\ VDISK_FILE_CLUSTER(0) \in Nat
      BY <2>2, ClusterOfFile
    <3>2. idx * a \in Nat
      BY <1>0, <2>2
    <3>3. VDISK_FILE_CLUSTER(idx) + n = VDISK_FILE_CLUSTER(0) - 1
      BY <2>1, <2>3
    <3> QED BY <1>4, <3>1, <3>2, <3>3
  <2>4. CASE i # 0
    <3>1. PICK j \in FileIndices : i = j + 1 /\ j \in Nat
      <4>1. i - 1 \in FileIndices /\ i = (i - 1) + 1 /\ i - 1 \in Nat
        BY <2>2, <2>4, Sizes DEF FileIndices
      <4> QED BY <4>1
    <3>2. VDISK_FILE_CLUSTER(j) \in Nat
          /\ VDISK_FILE_CLUSTER(i) = VDISK_FILE_CLUSTER(j) + a
      BY <3>1, ClusterOfFile
    <3>3. VDISK_FILE_CLUSTER(j) + (a - 1) = VDISK_FILE_CLUSTER(idx) + n
      BY <1>0, <2>1, <3>2
    <3>4. a - 1 \in 0 .. a - 1
      BY <1>0
    <3>5. a - 1 = n
      BY <1>4, <3>3, <3>4, ClustersApart
    <3> HIDE DEF last
    <3>6. last(idx) = n
      BY <1>0, <1>3, <1>4, <3>5
    <3> QED BY <3>6 DEF last
  <2> QED BY <2>3, <2>4
<1> QED BY <1>5, <1>6, <1>7

LEMMA ChainOfFile ==
  ASSUME TableFits, NEW v, IsVolume(v), NEW idx \in FileIndices, vdisk_files[idx].read,
         vdisk_files[idx].xlen # 0,
         NEW n \in 0 .. (vdisk_files[idx].xlen - 1) \div VDISK_CLUSTER_SIZE
  PROVE  FatNext(v, VDISK_FILE_CLUSTER(idx) + n)
           = IF n = (vdisk_files[idx].xlen - 1) \div VDISK_CLUSTER_SIZE
               THEN VDISK_FAT_END_MARKER ELSE VDISK_FILE_CLUSTER(idx) + n + 1
<1> DEFINE E == FatEntriesPerSector
           x == vdisk_files[idx].xlen
           last == (x - 1) \div VDISK_CLUSTER_SIZE
           c == VDISK_FILE_CLUSTER(idx) + n
           ends == \E i \in FileIndices :
                     vdisk_files[i].read /\ file_end_marker(vdisk_files, i) = c
<1>1. x \in Nat \ {0} /\ x < UINT32 /\ UINT32 \in Nat
  BY Sizes DEF TableFits
<1>2. last \in 0 .. VDISK_FILE_CLUSTERS - 1
  BY <1>1, LastCluster
<1>3. n \in 0 .. VDISK_FILE_CLUSTERS - 1
  BY <1>2, ClustersOfSlot
<1>4. c \in Nat /\ c >= E /\ c < VDISK_SECTORS_PER_FAT * E
  BY <1>3, ClustersInFat
<1>5. file_end_marker(vdisk_files, idx) = VDISK_FILE_CLUSTER(idx) + last
  BY <1>1, EndMarkers
<1>6. ends <=> n = last
  <2>1. ASSUME n = last PROVE ends
    BY <1>5, <2>1
  <2>2. ASSUME ends PROVE n = last
    BY <2>2, OwnMarker
  <2> QED BY <2>1, <2>2
<1>7. ~(c < E)
  BY <1>4, Sizes
<1>8. FatNext(v, c) = FatEntry(vdisk_files, (c \div E) * E, c)
  BY <1>4, FatNextIs
<1> HIDE DEF c, last
<1>9. FatEntry(vdisk_files, (c \div E) * E, c) = IF ends THEN VDISK_FAT_END_MARKER ELSE c + 1
  BY <1>7 DEF FatEntry
<1> HIDE DEF ends
<1>10. FatNext(v, c) = IF n = last THEN VDISK_FAT_END_MARKER ELSE c + 1
  BY <1>6, <1>8, <1>9
<1> QED BY <1>10 DEF c, last

\* The s-th block of a file through the clusters is the s-th sector of its slot.
LEMMA BlockOfFile ==
  ASSUME NEW v, IsVolume(v), NEW idx \in FileIndices, NEW s \in Nat, s < VDISK_FILE_COUNT,
         vdisk_files \in [FileIndices -> FileRecords]
  PROVE  LET lba == ClusterLba(v, VDISK_FILE_CLUSTER(idx) + s \div VDISK_CLUSTER_COUNT)
                      + (s % VDISK_CLUSTER_COUNT)
         IN  lba <= v.dev.LastBlock /\ Sector(v.dev, lba) = WantedSector(idx, s)
<1> DEFINE cc == VDISK_CLUSTER_COUNT
           fc == VDISK_FILE_COUNT
           M == VDISK_MAX_FILES
<1>0. /\ cc \in Nat \ {0} /\ fc \in Nat \ {0} /\ idx \in Nat /\ idx + 1 <= M /\ M \in Nat
      /\ VDISK_PARTITION_LBA \in Nat /\ VDISK_COUNT \in Nat /\ VDISK_SECTORS_PER_FAT \in Nat
  BY Sizes, DiskCountIsNat DEF FileIndices
<1>1. PICK q, r : q = s \div cc /\ r = s % cc
  OBVIOUS
<1>2. q \in Int /\ r \in 0 .. cc - 1 /\ s = cc * q + r
  BY <1>0, <1>1, DivMod
<1>3. PICK c \in Nat : c = VDISK_FILE_CLUSTER(idx)
  BY <1>0, ClusterOfFile
<1>4. PICK y \in Int : y = VDISK_CLUSTER_SECTOR(c)
  BY ClusterLbaIs
<1>5. VDISK_CLUSTER_SECTOR(c + q) + r = y + s
  <2>1. ((c + q) - 2) * cc = (c - 2) * cc + cc * q
    BY <1>0, <1>2
  <2>2. PICK d, e \in Int : d = (c - 2) * cc /\ e = cc * q
    BY <1>0, <1>2
  <2>3. VDISK_CLUSTER_SECTOR(c) = d + cc + VDISK_SECTORS_PER_FAT
    BY <2>2 DEF VDISK_CLUSTER_SECTOR, VDISK_RESERVED_COUNT
  <2>4. VDISK_CLUSTER_SECTOR(c + q) = d + e + cc + VDISK_SECTORS_PER_FAT
    <3>1. ((c + q) - 2) * cc = d + e
      BY <2>1, <2>2
    <3> QED BY <3>1, Zenon DEF VDISK_CLUSTER_SECTOR, VDISK_RESERVED_COUNT
  <2>5. s = e + r /\ r \in Int
    BY <1>0, <1>2, <2>2
  <2> QED BY <1>0, <1>4, <2>3, <2>4, <2>5
<1>6. PICK lba : lba = ClusterLba(v, c + q) + r
  OBVIOUS
<1>7. lba = v.lba + (y + s)
  <2>1. ClusterLba(v, c + q) = v.lba + VDISK_CLUSTER_SECTOR(c + q)
        /\ VDISK_CLUSTER_SECTOR(c + q) \in Int
    <3>1. c + q \in Int
      BY <1>2
    <3> QED BY <3>1, ClusterLbaIs
  <2>2. v.lba \in Nat
    BY DEF IsVolume
  <2>3. PICK z \in Int : z = VDISK_CLUSTER_SECTOR(c + q)
    BY <2>1
  <2>4. r \in Int /\ z + r = y + s
    BY <1>0, <1>2, <1>5, <2>3
  <2> QED BY <1>6, <2>1, <2>2, <2>3, <2>4
<1>8. PICK f \in Nat : f = (idx + 1) * fc
  BY <1>0
<1>9. VDISK_PARTITION_LBA + y = f
  BY <1>0, <1>3, <1>4, <1>8, SlotOfCluster
<1>10. VDISK_PARTITION_LBA + (y + s) = f + s
  BY <1>0, <1>9
<1>11. Sector(v.dev, lba) = DiskSector(vdisk_files, f + s)
  <2>1. y + s \in Int
    OBVIOUS
  <2>2. Sector(v.dev, v.lba + (y + s))
          = DiskSector(vdisk_files, VDISK_PARTITION_LBA + (y + s))
    BY <2>1, BlockAt
  <2> QED BY <1>7, <1>10, <2>2, Zenon
<1>12. DiskSector(vdisk_files, f + s) = WantedSector(idx, s)
  BY <1>8, FileSectorAt DEF WantedSector
<1>13. lba <= v.dev.LastBlock
  <2>1. f + fc <= VDISK_COUNT
    <3>1. (idx + 2) * fc <= (M + 1) * fc
      BY <1>0, MulMono
    <3>2. (idx + 2) * fc = f + fc
      BY <1>0, <1>8
    <3>3. (M + 1) * fc <= VDISK_COUNT
      BY GeometryHoldsFiles
    <3>4. PICK g \in Int : g = (M + 1) * fc
      BY <1>0
    <3> QED BY <1>0, <1>8, <3>1, <3>2, <3>3, <3>4
  <2>2. /\ v.lba \in Nat /\ v.dev.lba \in Nat /\ v.dev.LastBlock \in Int
        /\ v.lba + v.dev.lba = VDISK_PARTITION_LBA
        /\ v.dev.LastBlock + v.dev.lba = VDISK_COUNT - 1
    BY DEF IsVolume
  <2>3. PICK b0, b1, b2 : b0 = v.lba /\ b1 = v.dev.lba /\ b2 = v.dev.LastBlock
    OBVIOUS
  <2>4. /\ b0 \in Nat /\ b1 \in Nat /\ b2 \in Int /\ b0 + b1 = VDISK_PARTITION_LBA
        /\ b2 + b1 = VDISK_COUNT - 1
    BY <2>2, <2>3
  <2>5. b0 + (y + s) <= b2
    BY <1>0, <1>9, <2>1, <2>4
  <2> QED BY <1>7, <2>3, <2>5
<1> QED BY <1>1, <1>3, <1>6, <1>11, <1>12, <1>13

\* Reading an entry of the table through the FAT yields the file.
LEMMA EntryYields ==
  ASSUME TableFits, vdisk_files \in [FileIndices -> FileRecords],
         NEW v, IsVolume(v), NEW idx \in FileIndices,
         vdisk_files[idx].read, vdisk_files[idx].xlen # 0
  PROVE  /\ EntryOf(vdisk_files, idx).name = vdisk_files[idx].name
         /\ EntryOf(vdisk_files, idx).attr = "read_only"
         /\ EntryOf(vdisk_files, idx).size = vdisk_files[idx].xlen
         /\ EntryYieldsFile(v, EntryOf(vdisk_files, idx), idx)
<1> DEFINE x == vdisk_files[idx].xlen
           c == VDISK_FILE_CLUSTER(idx)
           ss == VDISK_SECTOR_SIZE
           cc == VDISK_CLUSTER_COUNT
           last == (x - 1) \div VDISK_CLUSTER_SIZE
<1>0. /\ x \in Nat \ {0} /\ x < UINT32 /\ UINT32 \in Nat \ {0} /\ ss \in Nat \ {0}
      /\ cc \in Nat \ {0}
  BY Sizes DEF TableFits
<1>1. PICK e : e = EntryOf(vdisk_files, idx)
  OBVIOUS
<1>2. x % UINT32 = x
  BY <1>0, ModSmall
<1>3. c % UINT32 = c
  <2>1. 0 \in 0 .. VDISK_FILE_CLUSTERS - 1
    BY ClustersOfSlot
  <2>2. c + 0 < UINT32
    BY <2>1, ClustersInFat
  <2>3. c \in Nat
    BY ClusterOfFile DEF FileIndices
  <2> HIDE DEF c
  <2>4. c < UINT32
    BY <2>2, <2>3
  <2> QED BY <1>0, <2>3, <2>4, ModSmall
<1>4. /\ e.name = vdisk_files[idx].name /\ e.attr = "read_only" /\ e.size = x /\ e.cluster = c
  BY <1>1, <1>2, <1>3 DEF EntryOf, DirEntry
<1>5. CeilDiv(e.size, v.vbr.bytes_per_sector * v.vbr.sectors_per_cluster) - 1 = last
  <2>1. v.vbr.bytes_per_sector * v.vbr.sectors_per_cluster = ss * cc
    BY VbrFields
  <2>2. ss * cc = VDISK_CLUSTER_SIZE
    BY <1>0 DEF VDISK_CLUSTER_SIZE
  <2>3. x <= UINT32
    BY <1>0
  <2>4. CeilDiv(x, VDISK_CLUSTER_SIZE) - 1 = last
    BY <1>0, <2>3, LastCluster
  <2> QED BY <1>4, <2>1, <2>2, <2>4
<1>6. ASSUME NEW n \in 0 .. last
      PROVE  FatNext(v, e.cluster + n)
               = IF n = last THEN VDISK_FAT_END_MARKER ELSE e.cluster + n + 1
  BY <1>4, <1>6, ChainOfFile
<1>7. ASSUME NEW s \in 0 .. CeilDiv(e.size, v.vbr.bytes_per_sector) - 1
      PROVE  s \in Nat /\ s < VDISK_FILE_COUNT
  <2>1. e.size = x /\ v.vbr.bytes_per_sector = ss
    BY <1>4, VbrFields
  <2>2. PICK q, r : q = (x + ss - 1) \div ss /\ r = (x + ss - 1) % ss
    OBVIOUS
  <2>3. q \in Int /\ r \in 0 .. ss - 1 /\ x + ss - 1 = ss * q + r
    <3>1. PICK y \in Int : y = x + ss - 1
      BY <1>0
    <3> QED BY <1>0, <2>2, <3>1, DivMod
  <2>4. s \in Nat /\ s + 1 <= q
    <3>1. s \in 0 .. q - 1
      BY <2>1, <2>2 DEF CeilDiv
    <3> QED BY <2>3, <3>1
  <2>5. PICK f \in Nat : f = VDISK_FILE_COUNT
    BY Sizes
  <2>6. f * ss = UINT32
    BY <2>5, GeometryMapsFiles
  <2>7. ASSUME f <= s PROVE FALSE
    <3>1. f * ss <= s * ss
      BY <1>0, <2>4, <2>5, <2>7, MulMono
    <3>2. ss * (s + 1) <= ss * q
      BY <1>0, <2>3, <2>4, TimesKeepsOrder
    <3>3. PICK g \in Nat : g = s * ss
      BY <1>0, <2>4
    <3>4. ss * (s + 1) = g + ss
      BY <1>0, <2>4, <3>3
    <3>5. PICK h \in Int : h = ss * q
      BY <1>0, <2>3
    <3>6. g + ss <= h /\ x + ss - 1 = h + r /\ r \in Nat /\ UINT32 <= g
      BY <1>0, <2>3, <2>6, <3>1, <3>2, <3>3, <3>4, <3>5
    <3> HIDE DEF x
    <3> QED BY <1>0, <3>3, <3>5, <3>6
  <2> QED BY <2>4, <2>5, <2>7
<1>8. ASSUME NEW s \in 0 .. CeilDiv(e.size, v.vbr.bytes_per_sector) - 1
      PROVE  LET per_cluster == v.vbr.sectors_per_cluster
                 lba == ClusterLba(v, e.cluster + s \div per_cluster) + (s % per_cluster)
             IN  lba <= v.dev.LastBlock /\ Sector(v.dev, lba) = WantedSector(idx, s)
  <2>1. s \in Nat /\ s < VDISK_FILE_COUNT
    BY <1>7
  <2>2. v.vbr.sectors_per_cluster = cc
    BY VbrFields
  <2>3. LET lba == ClusterLba(v, c + s \div cc) + (s % cc)
        IN  lba <= v.dev.LastBlock /\ Sector(v.dev, lba) = WantedSector(idx, s)
    BY <2>1, BlockOfFile
  <2> QED BY <1>4, <2>2, <2>3, Zenon
<1>9. EntryYieldsFile(v, e, idx)
  BY <1>5, <1>6, <1>8, Zenon DEF EntryYieldsFile
<1> QED BY <1>1, <1>4, <1>9, Zenon

----------------------------------------------------------------------------
(* The table of files *)

\* A file has a length it was added with, and what its patch method added to it.
HasLength(f, i) ==
  /\ f.len \in FileLens[i]
  /\ f.xlen = f.len \/ \E g \in PatchGrowth : f.xlen = f.len + g

\* The entries below index are in use, and no others.
TableInv ==
  /\ vdisk_files \in [FileIndices -> FileRecords]
  /\ index \in 0 .. VDISK_MAX_FILES
  /\ \A i \in FileIndices :
       (vdisk_files[i].read <=> i < index) /\ (i < index => HasLength(vdisk_files[i], i))

LEMMA InitTable == Init => TableInv
<1> SUFFICES ASSUME Init PROVE TableInv
  OBVIOUS
<1>1. EmptyFile \in FileRecords /\ EmptyFile.read = FALSE
  BY DEF EmptyFile, FileRecords
<1>2. vdisk_files = [i \in FileIndices |-> EmptyFile] /\ index = 0
  BY DEF Init
<1>3. VDISK_MAX_FILES \in Nat /\ \A i \in FileIndices : i \in Nat
  BY Sizes DEF FileIndices
<1> QED BY <1>1, <1>2, <1>3 DEF TableInv

LEMMA NextTable ==
  ASSUME TableInv, [Next]_vars
  PROVE  TableInv'
<1>0. /\ vdisk_files \in [FileIndices -> FileRecords] /\ index \in 0 .. VDISK_MAX_FILES
      /\ VDISK_MAX_FILES \in Nat /\ \A i \in FileIndices : i \in Nat
      /\ \A i \in FileIndices : (vdisk_files[i].read <=> i < index)
                                /\ (i < index => HasLength(vdisk_files[i], i))
  BY Sizes DEF TableInv, FileIndices
<1>1. ASSUME NEW name \in FileNames, NEW len \in FileLens[index], vdisk_add_file(name, len)
      PROVE  TableInv'
  <2> DEFINE g == [vdisk_files[index] EXCEPT !.read = TRUE, !.name = name,
                                             !.len = len, !.xlen = len]
  <2>1. index < VDISK_MAX_FILES /\ index' = index + 1
    BY <1>1, Zenon DEF vdisk_add_file
  <2>2. index \in FileIndices /\ index' \in 0 .. VDISK_MAX_FILES
    BY <1>0, <2>1 DEF FileIndices
  <2>3. len \in Nat
    BY <1>0, <2>2, FilesAssumption, GeometryTypes
  <2>4. g \in FileRecords /\ g.read = TRUE /\ g.len = len /\ g.xlen = len
    BY <1>0, <2>2, <2>3 DEF FileRecords
  <2>5. vdisk_files' = [vdisk_files EXCEPT ![index] = g]
    BY <1>0, <1>1, <2>2 DEF vdisk_add_file
  <2>6. HasLength(g, index)
    BY <2>4 DEF HasLength
  <2> HIDE DEF g
  <2>7. vdisk_files' \in [FileIndices -> FileRecords]
    BY <1>0, <2>4, <2>5
  <2>8. ASSUME NEW i \in FileIndices
        PROVE  (vdisk_files'[i].read <=> i < index')
               /\ (i < index' => HasLength(vdisk_files'[i], i))
    <3>1. CASE i = index
      <4>1. vdisk_files'[i] = g /\ i < index'
        BY <1>0, <2>1, <2>5, <3>1
      <4> QED BY <2>4, <2>6, <3>1, <4>1
    <3>2. CASE i # index
      <4>1. vdisk_files'[i] = vdisk_files[i]
        BY <1>0, <2>5, <3>2
      <4>2. i < index' <=> i < index
        BY <1>0, <2>1, <3>2
      <4> QED BY <1>0, <4>1, <4>2
    <3> QED BY <3>1, <3>2
  <2> QED BY <2>2, <2>7, <2>8 DEF TableInv, HasLength
<1>2. ASSUME NEW idx \in FileIndices, NEW growth \in PatchGrowth,
             vdisk_patch_file(idx, growth)
      PROVE  TableInv'
  <2> DEFINE g == [vdisk_files[idx] EXCEPT !.patch = TRUE,
                                           !.xlen = vdisk_files[idx].len + growth]
  <2>1. idx < index /\ index' = index
    BY <1>2, Zenon DEF vdisk_patch_file
  <2>2. vdisk_files[idx].len + growth \in Nat
    <3>1. growth \in Nat /\ vdisk_files[idx].len \in Nat
      BY <1>0, FilesAssumption DEF FileRecords
    <3> QED BY <3>1
  <2>3. g \in FileRecords /\ g.read = vdisk_files[idx].read /\ g.len = vdisk_files[idx].len
        /\ g.xlen = vdisk_files[idx].len + growth
    BY <1>0, <2>2 DEF FileRecords
  <2>4. vdisk_files' = [vdisk_files EXCEPT ![idx] = g]
    BY <1>0, <1>2 DEF vdisk_patch_file
  <2> HIDE DEF g
  <2>5. HasLength(vdisk_files[idx], idx)
    BY <1>0, <2>1
  <2>6. HasLength(g, idx)
    BY <2>3, <2>5 DEF HasLength
  <2>7. vdisk_files' \in [FileIndices -> FileRecords]
    BY <1>0, <2>3, <2>4
  <2>8. ASSUME NEW i \in FileIndices
        PROVE  (vdisk_files'[i].read <=> i < index)
               /\ (i < index => HasLength(vdisk_files'[i], i))
    <3>1. CASE i = idx
      <4>1. vdisk_files'[i] = g
        BY <1>0, <2>4, <3>1
      <4> QED BY <1>0, <2>3, <2>6, <3>1, <4>1
    <3>2. CASE i # idx
      <4>1. vdisk_files'[i] = vdisk_files[i]
        BY <1>0, <2>4, <3>2
      <4> QED BY <1>0, <4>1
    <3> QED BY <3>1, <3>2
  <2> QED BY <1>0, <2>1, <2>7, <2>8 DEF TableInv, HasLength
<1>3. ASSUME UNCHANGED <<vdisk_files, index>> PROVE TableInv'
  BY <1>3 DEF TableInv, HasLength
<1>4. CASE \E name \in FileNames, len \in FileLens[index] : vdisk_add_file_die(name, len)
  BY <1>3, <1>4 DEF vdisk_add_file_die
<1>5. CASE Install \/ \E r \in Requests : ReadStart(r)
  BY <1>3, <1>5 DEF Install, ReadStart
<1>6. CASE vdisk_read_step
  BY <1>3, <1>6 DEF vdisk_read_step, FragmentInSlot, FragmentInMetadata, ScanPast,
                    ScanFound, ScanEnd, BuildFragment
<1>7. CASE UNCHANGED vars
  BY <1>3, <1>7 DEF vars
<1> QED BY <1>1, <1>2, <1>4, <1>5, <1>6, <1>7 DEF Next

LEMMA TableInvariance == Spec => []TableInv
BY InitTable, NextTable, PTL DEF Spec

----------------------------------------------------------------------------
(* The theorems *)

\* No file, patched or not, is as long as a slot.  Where an unsigned long has the
\* length of a uint32_t no file can be.
FilesFitSlots ==
  \A idx \in FileIndices : \A len \in FileLens[idx] :
    len < UINT32 /\ \A g \in PatchGrowth : len + g < UINT32

NoFileEmpty == \A idx \in FileIndices : 0 \notin FileLens[idx]

LEMMA FitInShortBuild ==
  ASSUME ULONG = UINT32
  PROVE  FilesFitSlots
<1>1. ASSUME NEW idx \in FileIndices, NEW len \in FileLens[idx] PROVE len < UINT32
  <2>1. idx \in 0 .. VDISK_MAX_FILES
    BY Sizes DEF FileIndices
  <2>2. len \in 0 .. ULONG - 1
    BY <2>1, FilesAssumption
  <2> QED BY <2>2, Sizes
<1> QED BY <1>1, FilesAssumption DEF FilesFitSlots

LEMMA TableLengths ==
  ASSUME FilesFitSlots, TableInv, NEW i \in FileIndices, vdisk_files[i].read
  PROVE  /\ vdisk_files[i].xlen \in Nat /\ vdisk_files[i].xlen < UINT32
         /\ NoFileEmpty => vdisk_files[i].xlen # 0
<1> DEFINE f == vdisk_files[i]
<1>1. f.xlen \in Nat /\ f.len \in Nat /\ HasLength(f, i)
  <2>1. f \in FileRecords
    BY DEF TableInv
  <2> QED BY <2>1 DEF FileRecords, TableInv
<1>2. f.len \in FileLens[i] /\ (NoFileEmpty => f.len # 0)
  BY <1>1 DEF HasLength, NoFileEmpty
<1>3. CASE f.xlen = f.len
  BY <1>1, <1>2, <1>3 DEF FilesFitSlots
<1>4. CASE \E g \in PatchGrowth : f.xlen = f.len + g
  <2>1. PICK g \in PatchGrowth : f.xlen = f.len + g
    BY <1>4
  <2>2. g \in Nat /\ f.len + g < UINT32
    BY <1>2, FilesAssumption DEF FilesFitSlots
  <2> QED BY <1>1, <1>2, <2>1, <2>2
<1> QED BY <1>1, <1>3, <1>4 DEF HasLength

\* Whatever files are added and patched, each is found by its name in every
\* directory, and the FAT leads to all of its sectors and to no others, on the disk
\* and on the partition: in the 32-bit build always, in the 64-bit build when every
\* file fits its slot, empty files among them or not.
THEOREM FilesAreAlwaysReadable ==
  ASSUME ULONG = UINT32 \/ FilesFitSlots
  PROVE  Spec => []FilesAreReadable
<1>0. FilesFitSlots
  BY FitInShortBuild
<1>1. ASSUME TableInv PROVE FilesAreReadable
  <2>1. TableFits
    BY <1>0, <1>1, TableLengths DEF TableFits
  <2>2. vdisk_files \in [FileIndices -> FileRecords] /\ index \in 0 .. VDISK_MAX_FILES
    BY <1>1 DEF TableInv
  <2> DEFINE Listed(v) == {UNION {EntriesOf(v, c) : c \in dirs} :
                             dirs \in BootDirectories(v)}
  <2>3. ASSUME NEW v \in Volumes, NEW idx \in 0 .. index - 1, vdisk_files[idx].xlen > 0
        PROVE  \E e \in UNION Listed(v) :
                 /\ \A entries \in Listed(v) : e \in entries
                 /\ e.name = vdisk_files[idx].name /\ e.attr = "read_only"
                 /\ e.size = vdisk_files[idx].xlen
                 /\ EntryYieldsFile(v, e, idx)
    <3>1. IsVolume(v)
      BY VolumeIs
    <3>2. idx \in FileIndices /\ idx < index
      BY <2>2, Sizes DEF FileIndices
    <3>3. vdisk_files[idx].read
      BY <1>1, <3>2 DEF TableInv
    <3>4. vdisk_files[idx].xlen # 0
      BY <2>1, <2>3, <3>2, <3>3 DEF TableFits
    <3>5. PICK e : e = EntryOf(vdisk_files, idx)
      OBVIOUS
    <3>6. /\ e.name = vdisk_files[idx].name /\ e.attr = "read_only"
          /\ e.size = vdisk_files[idx].xlen /\ EntryYieldsFile(v, e, idx)
      BY <2>1, <2>2, <3>1, <3>2, <3>3, <3>4, <3>5, EntryYields
    <3>7. \A c \in 2 .. 8 : e \in EntriesOf(v, c)
      BY <3>1, <3>2, <3>3, <3>5, EntriesAre, Zenon
    <3>8. \A entries \in Listed(v) : e \in entries
      <4>1. ASSUME NEW dirs \in BootDirectories(v)
            PROVE  e \in UNION {EntriesOf(v, c) : c \in dirs}
        <5>1. PICK c \in dirs : c \in 2 .. 8
          BY <3>1, DirectoriesFound, Zenon
        <5> QED BY <3>7, <5>1, Zenon
      <4> QED BY <4>1, Zenon
    <3>9. \E entries \in Listed(v) : TRUE
      <4>1. {v.vbr.root} \in BootDirectories(v)
        BY Zenon DEF BootDirectories
      <4> QED BY <4>1, Zenon
    <3>10. e \in UNION Listed(v)
      BY <3>8, <3>9, Zenon
    <3> HIDE DEF Listed
    <3> QED BY <3>6, <3>8, <3>10, Zenon
  <2> QED BY <2>3, Zenon DEF FilesAreReadable
<1> QED BY <1>1, TableInvariance, PTL

\* The chain of each file, empty or not, ends in the slot of the file, and that of
\* each directory in its one cluster: in the 32-bit build always, in the 64-bit build
\* when every file fits its slot and none is empty (the run vdisk_empty shows what an
\* empty one does there).
THEOREM ChainsEndInOwnSlots ==
  ASSUME ULONG = UINT32 \/ (FilesFitSlots /\ NoFileEmpty)
  PROVE  Spec => []ChainEndsInOwnSlot
<1>0. FilesFitSlots
  BY FitInShortBuild
<1>1. ASSUME TableInv PROVE ChainEndsInOwnSlot
  <2>1. TableFits
    BY <1>0, <1>1, TableLengths DEF TableFits
  <2>2. index \in 0 .. VDISK_MAX_FILES
    BY <1>1 DEF TableInv
  <2>3. ASSUME NEW v \in Volumes, NEW dirs \in BootDirectories(v), NEW c \in dirs
        PROVE  FatNext(v, c) = VDISK_FAT_END_MARKER
    <3>1. IsVolume(v)
      BY VolumeIs
    <3>2. c \in 2 .. 8
      BY <3>1, DirectoriesFound, Zenon
    <3> DEFINE E == FatEntriesPerSector
    <3>3. E \in Nat /\ E > 8 /\ c \in Nat /\ c # 0 /\ c < E
      BY <3>2, Sizes
    <3>4. c < VDISK_SECTORS_PER_FAT * E
      <4>1. 0 \in FileIndices /\ 0 \in 0 .. VDISK_FILE_CLUSTERS - 1
        BY ClustersOfSlot, Sizes DEF FileIndices
      <4>2. VDISK_FILE_CLUSTER(0) + 0 >= E
            /\ VDISK_FILE_CLUSTER(0) + 0 < VDISK_SECTORS_PER_FAT * E
            /\ VDISK_FILE_CLUSTER(0) + 0 \in Nat
        BY <4>1, ClustersInFat
      <4>3. PICK t \in Int : t = VDISK_SECTORS_PER_FAT * E
        BY Sizes
      <4> QED BY <3>3, <4>2, <4>3
    <3>5. FatNext(v, c) = FatEntry(vdisk_files, (c \div E) * E, c)
      BY <3>1, <3>3, <3>4, FatNextIs
    <3>6. (c \div E) * E = 0
      <4>1. E * 0 <= c /\ c < E * 0 + E
        BY <3>3
      <4>2. c \div E = 0
        BY <3>3, <4>1, QuotientIs
      <4> QED BY <3>3, <4>2
    <3> HIDE DEF E
    <3>7. FatEntry(vdisk_files, 0, c) = VDISK_FAT_END_MARKER
      BY <3>3 DEF FatEntry, E
    <3> QED BY <3>5, <3>6, <3>7
  <2>4. ASSUME NEW v \in Volumes, NEW idx \in 0 .. index - 1
        PROVE  \E n \in 0 .. VDISK_FILE_CLUSTERS - 1 :
                 FatNext(v, VDISK_FILE_CLUSTER(idx) + n) = VDISK_FAT_END_MARKER
    <3>1. IsVolume(v)
      BY VolumeIs
    <3>2. idx \in FileIndices /\ idx < index
      BY <2>2, Sizes DEF FileIndices
    <3>3. vdisk_files[idx].read
      BY <1>1, <3>2 DEF TableInv
    <3>4. vdisk_files[idx].xlen \in Nat /\ vdisk_files[idx].xlen < UINT32
          /\ (vdisk_files[idx].xlen = 0 => ULONG = UINT32)
      BY <1>0, <1>1, <3>2, <3>3, TableLengths
    <3>5. PICK n \in 0 .. VDISK_FILE_CLUSTERS - 1 :
            file_end_marker(vdisk_files, idx) = VDISK_FILE_CLUSTER(idx) + n
      <4>1. CASE vdisk_files[idx].xlen = 0
        <5>1. VDISK_FILE_CLUSTERS - 1 \in 0 .. VDISK_FILE_CLUSTERS - 1
          BY ClustersOfSlot
        <5> QED BY <3>2, <3>4, <4>1, <5>1, EndMarkers
      <4>2. CASE vdisk_files[idx].xlen # 0
        <5>1. vdisk_files[idx].xlen \in Nat \ {0} /\ vdisk_files[idx].xlen <= UINT32
          BY <3>4, <4>2, Sizes
        <5>2. (vdisk_files[idx].xlen - 1) \div VDISK_CLUSTER_SIZE
                \in 0 .. VDISK_FILE_CLUSTERS - 1
          BY <5>1, LastCluster
        <5> QED BY <3>2, <3>4, <4>2, <5>2, EndMarkers
      <4> QED BY <4>1, <4>2
    <3>6. PICK c : c = VDISK_FILE_CLUSTER(idx) + n
      OBVIOUS
    <3>7. c \in Nat /\ c < VDISK_SECTORS_PER_FAT * FatEntriesPerSector
      BY <3>2, <3>6, ClustersInFat
    <3>8. FatNext(v, c) = FatEntry(vdisk_files,
                            (c \div FatEntriesPerSector) * FatEntriesPerSector, c)
      BY <3>1, <3>7, FatNextIs
    <3>9. \A st : FatEntry(vdisk_files, st, c) = VDISK_FAT_END_MARKER
      BY <3>2, <3>3, <3>5, <3>6, Zenon DEF FatEntry
    <3> QED BY <3>6, <3>8, <3>9, Zenon
  <2> QED BY <2>3, <2>4, Zenon DEF ChainEndsInOwnSlot
<1> QED BY <1>1, TableInvariance, PTL

----------------------------------------------------------------------------
(* The numbers of vdisk.h *)

Disk(unsigned_long) == INSTANCE VdiskLayout WITH
  VDISK_SECTOR_SIZE   <- 512,
  VDISK_PARTITION_LBA <- 128,
  VDISK_CLUSTER_COUNT <- 64,
  VDISK_CLUSTERS      <- 67092480,
  VDISK_FILE_COUNT    <- 8388608,
  UINT32              <- 4294967296,
  ULONG               <- unsigned_long

\* The disk of vdisk.h meets every assumption of the layout, whether an unsigned
\* long has 32 bits (i386) or 64 (x86_64 and arm64).
THEOREM RealGeometry ==
  ASSUME NEW ul \in {4294967296, 18446744073709551616}
  PROVE  /\ Disk(ul)!GeometryTypes
         /\ Disk(ul)!GeometryFits
         /\ Disk(ul)!GeometryHoldsFiles
         /\ Disk(ul)!GeometryMapsFiles
<1>1. /\ Disk(ul)!FatEntriesPerSector = 128
      /\ Disk(ul)!VDISK_SECTORS_PER_FAT = 524160
      /\ Disk(ul)!VDISK_MAX_FILES = 63
  BY SMT DEF Disk!FatEntriesPerSector, Disk!VDISK_SECTORS_PER_FAT,
             Disk!VDISK_MAX_FILES, Disk!FatEntrySize, Disk!VDISK_CLUSTER_SIZE
<1>2. Disk(ul)!VDISK_COUNT = 4294443072
  BY <1>1, SMT DEF Disk!VDISK_COUNT, Disk!VDISK_PARTITION_COUNT,
                   Disk!VDISK_RESERVED_COUNT
<1>3. Disk(ul)!GeometryTypes
  BY SMT DEF Disk!GeometryTypes
<1>4. Disk(ul)!VDISK_FILE_CLUSTER(0) = 122881 /\ Disk(ul)!VDISK_FILE_CLUSTER(63) = 8380417
  BY <1>1, SMT DEF Disk!VDISK_FILE_CLUSTER, Disk!VDISK_FILE_CLUSTERS,
                   Disk!VDISK_RESERVED_COUNT
<1>5. Disk(ul)!GeometryFits
  <2>1. Disk(ul)!VDISK_DIR_LBA(8) = 524736
    BY <1>1, SMT DEF Disk!VDISK_DIR_LBA, Disk!VDISK_VBR_LBA,
                     Disk!VDISK_CLUSTER_SECTOR, Disk!VDISK_RESERVED_COUNT
  <2> QED BY <1>1, <1>4, <2>1, SMT
          DEF Disk!GeometryFits, Disk!VDISK_BACKUP_VBR_SECTOR, Disk!FatEntrySize,
              Disk!VDISK_MICROSOFT_CLUSTER
<1>6. Disk(ul)!GeometryHoldsFiles
  BY <1>1, <1>2, SMT DEF Disk!GeometryHoldsFiles
<1>7. Disk(ul)!GeometryMapsFiles
  <2>1. ul = 4294967296 \/ ul % (4294967296 * Disk(ul)!VDISK_CLUSTER_SIZE) = 0
    BY SMT DEF Disk!VDISK_CLUSTER_SIZE
  <2> QED BY <1>1, <1>4, <2>1, SMT DEF Disk!GeometryMapsFiles
<1> QED BY <1>3, <1>5, <1>6, <1>7, SMT
=============================================================================
