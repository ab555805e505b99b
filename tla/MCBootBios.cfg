SPECIFICATION MCSpec
CONSTANTS
  Words <- MCWords
  strtoul <- MCstrtoul
  MaxTokens = 3
  CpioHeaderLen = 6
  CPIO_TRAILER = "TRAILER!!!"
  PAGE_SIZE = 2
  PAGE_SIZE_2MB = 4
  COPY_WINDOW = 4
  ADDR_1MB = 2
  ADDR_2GB = 32
  ADDR_4GB = 40
  MemorySize = 60
  MaxDrives = 2
  WimbootLen = 2
  BootmgrLen = 3
  BootmgrAt = 1
  FileNames = {"bootmgr.exe", "bootmgr", "boot.wim", "BCD", "boot.sdi"}
  WimFiles = {"boot.sdi"}
  Buffers = {1, 2}
INVARIANTS
  CmdlineRestored FlagsAreAsked MembersExtracted HighIfPossible OthersUnmoved
  DriveIsCounted BootmgrChosen FilesIntact ImageIntact CallerUndisturbed TextModeForced
PROPERTY BootDecides
CHECK_DEADLOCK FALSE
