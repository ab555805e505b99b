\* A read of the last sectors of the disk in the 32-bit build.
SPECIFICATION Spec
CONSTANTS
  VDISK_SECTOR_SIZE = 64
  VDISK_PARTITION_LBA = 16
  VDISK_CLUSTER_COUNT = 8
  VDISK_CLUSTERS = 4032
  VDISK_FILE_COUNT = 512
  UINT32 = 32768
  ULONG = 32768
  FileNames = {"a"}
  FileLens <- MCFileLens
  PatchGrowth <- MCPatchGrowth
  Requests <- MCLastSlot
  VDISK_FAT_END_MARKER = 40000
  FatMediaEntry = 40001
INVARIANTS FragmentsCover
CHECK_DEADLOCK FALSE
