------------------------------ MODULE EfiBlock ------------------------------
(***************************************************************************)
(* The block devices of the UEFI build (src/src/efiblock.c): the virtual    *)
(* disk and its one partition, both answered by vdisk_read.                 *)
(***************************************************************************)
EXTENDS Vdisk

\* The devices: the first sector, and the last block that the media announces.
efi_vdisk == [lba |-> 0, LastBlock |-> VDISK_COUNT - 1]
efi_vpartition == [lba |-> VDISK_PARTITION_LBA, LastBlock |-> VDISK_PARTITION_COUNT - 1]

\* The request to vdisk_read.  (Writes are refused, reset and flush do nothing.)
efi_read_blocks(block, lba, len) ==
  [lba |-> lba + block.lba, count |-> len \div VDISK_SECTOR_SIZE]
=============================================================================
