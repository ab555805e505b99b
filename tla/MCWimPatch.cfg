\* Patching, extraction and reads of a small WIM.
SPECIFICATION Spec
CONSTANTS
  ALIGN = 3
  VDISK_MAX_FILES = 4
  WIM_MAX_FILES = 3
  Indexes = {0, 1, 2, 3}
  Wims <- MCWims
  LoadedFiles <- MCLoadedFiles
  WIM_INJECT_DIR <- MCInjectDir
  wim_paths <- MCWimPaths
  ImagePaths <- MCImagePaths
  FileAt <- MCFileAt
  Windows <- MCWindows
INVARIANTS WindowsAgree RegionsApart InjectedFilesFound OriginalFilesKept LoadedFilesWin
PROPERTIES LengthIsFinal
CHECK_DEADLOCK FALSE
