------------------------------ MODULE FatView ------------------------------
(***************************************************************************)
(* The virtual disk as the next boot stage sees it.  A FAT32 driver (of     *)
(* bootmgr or of the firmware; external, modelled from the on-disk format   *)
(* that vdisk.c writes) is given the partition or finds it in the MBR,      *)
(* finds the geometry in the boot record, a directory by name from the      *)
(* root, and a file's clusters by following the FAT.  It knows none of the  *)
(* macros of vdisk.h: only sectors of a device.                             *)
(***************************************************************************)
EXTENDS EfiBlock

\* One block of a device.
Sector(dev, lba) == DiskSector(vdisk_files, efi_read_blocks(dev, lba, VDISK_SECTOR_SIZE).lba)

\* A mounted volume: its device, its first block there and its boot record.
Mount(dev, lba) == [dev |-> dev, lba |-> lba, vbr |-> Sector(dev, lba)]

\* The volume of the disk's first partition, and the one of the partition device.
Volumes == {Mount(efi_vdisk, Sector(efi_vdisk, 0).start), Mount(efi_vpartition, 0)}

\* The FAT entry of cluster c of volume v.
FatNext(v, c) ==
  LET per_sector == v.vbr.bytes_per_sector \div 4
  IN  Sector(v.dev, v.lba + v.vbr.reserved_sectors + c \div per_sector)
        .next[c % per_sector]

ClusterLba(v, c) ==
  v.lba + v.vbr.reserved_sectors + v.vbr.fats * v.vbr.sectors_per_fat
    + (c - 2) * v.vbr.sectors_per_cluster

\* The entries of the directory at cluster c.
EntriesOf(v, c) ==
  UNION {Sector(v.dev, ClusterLba(v, c) + s).entries :
           s \in 0 .. v.vbr.sectors_per_cluster - 1}

\* The subdirectories of the directories dirs that have this name.
Enter(v, dirs, name) ==
  {e.cluster : e \in {x \in UNION {EntriesOf(v, c) : c \in dirs} :
                        x.attr = "directory" /\ x.name = name}}

\* The directories the boot loaders look in.
BootDirectories(v) ==
  LET root      == {v.vbr.root}
      boot      == Enter(v, root, "BOOT")
      efi       == Enter(v, root, "EFI")
      microsoft == Enter(v, efi, "MICROSOFT")
  IN  {root, boot, efi, microsoft, Enter(v, root, "SOURCES"),
       Enter(v, boot, "FONTS"), Enter(v, boot, "RESOURCES"),
       Enter(v, efi, "BOOT"), Enter(v, microsoft, "BOOT")}

CeilDiv(a, b) == (a + b - 1) \div b

Clamp(x) == IF x < 0 THEN 0
            ELSE IF x > VDISK_SECTOR_SIZE THEN VDISK_SECTOR_SIZE ELSE x

\* The s-th sector of a file, from the table of files alone.
WantedSector(idx, s) ==
  LET f == vdisk_files[idx] offset == s * VDISK_SECTOR_SIZE
  IN  FileSector(idx, offset, Clamp(f.len - offset),
                 IF f.patch THEN Clamp(f.xlen - offset) ELSE 0)

\* Following the FAT from a directory entry yields file idx, block by block, all of
\* them on the device, and the chain ends with the cluster of the file's last byte.
EntryYieldsFile(v, e, idx) ==
  LET per_cluster == v.vbr.sectors_per_cluster
      last        == CeilDiv(e.size, v.vbr.bytes_per_sector * per_cluster) - 1
  IN  /\ \A n \in 0 .. last :
           FatNext(v, e.cluster + n) =
             IF n = last THEN VDISK_FAT_END_MARKER ELSE e.cluster + n + 1
      /\ \A s \in 0 .. CeilDiv(e.size, v.vbr.bytes_per_sector) - 1 :
           LET lba == ClusterLba(v, e.cluster + s \div per_cluster) + (s % per_cluster)
           IN  lba <= v.dev.LastBlock /\ Sector(v.dev, lba) = WantedSector(idx, s)

\* Every file that was added, with whatever length its patch method gave it, can
\* be found by its name in every directory the boot loaders look in, and reading
\* it through the FAT gives its bytes and nothing else, from the disk as from the
\* partition: the MBR, the boot record, the directories, the FAT, the file slots and
\* the devices agree with one another.
FilesAreReadable ==
  pc = "idle" => \A v \in Volumes :
    LET listed == {UNION {EntriesOf(v, c) : c \in dirs} : dirs \in BootDirectories(v)}
    IN  \A idx \in 0 .. index - 1 : vdisk_files[idx].xlen > 0 =>
          \E e \in UNION listed :
            /\ \A entries \in listed : e \in entries
            /\ e.name = vdisk_files[idx].name /\ e.attr = "read_only"
            /\ e.size = vdisk_files[idx].xlen
            /\ EntryYieldsFile(v, e, idx)

\* The chain of every directory is its one cluster, and the chain of every file,
\* empty ones too, ends inside the slot of that file.
ChainEndsInOwnSlot ==
  pc = "idle" => \A v \in Volumes :
        /\ \A dirs \in BootDirectories(v) : \A c \in dirs :
             FatNext(v, c) = VDISK_FAT_END_MARKER
        /\ \A idx \in 0 .. index - 1 : \E n \in 0 .. VDISK_FILE_CLUSTERS - 1 :
             FatNext(v, VDISK_FILE_CLUSTER(idx) + n) = VDISK_FAT_END_MARKER
============================================================================
