\* The read loop of the 64-bit build over tables of up to two files.
SPECIFICATION Spec
CONSTANTS
  VDISK_SECTOR_SIZE = 64
  VDISK_PARTITION_LBA = 16
  VDISK_CLUSTER_COUNT = 8
  VDISK_CLUSTERS = 4032
  VDISK_FILE_COUNT = 512
  UINT32 = 32768
  ULONG = 1073741824
  FileNames = {"a"}
  FileLens <- MCFileLens
  PatchGrowth <- MCPatchGrowth
  Requests <- MCRequests
  VDISK_FAT_END_MARKER = 40000
  FatMediaEntry = 40001
INVARIANTS FragmentsCover FragmentIsExact DirentIdxInTable
PROPERTIES ReadEnds ImplementsBlockDevice
CHECK_DEADLOCK FALSE
