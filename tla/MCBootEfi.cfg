SPECIFICATION Spec
CONSTANTS
  FileNames <- MCFileNames
  BOOTARCH = "bootarch.efi"
  Directories <- MCDirectories
  WimContents <- MCWimContents
  WimFiles <- MCWimFiles
  Gops = {g1, g2}
  MaxRefusals = 2
INVARIANTS LoadedByPrecedence OnlyImageRenamed PagesForImage HookComplete BlockedOnce
PROPERTY RetrySucceeds
CHECK_DEADLOCK FALSE
