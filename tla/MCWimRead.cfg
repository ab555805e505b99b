\* Reads of every window of the resources of three small WIM files.
CONSTANTS
  WIM_CHUNK_LEN = 3
  UINT32 = 8
  intact = intact
  damaged = damaged
  foreign = foreign
  NoFile = NoFile
  DecompressError = DecompressError
  Files <- MCFiles
  Image <- MCImage
  Scheme <- MCScheme
  Resources <- MCResources
  Requests <- MCRequests
  Original <- MCOriginal
  Decompress <- MCDecompress
SPECIFICATION Spec
INVARIANTS CacheIsCoherent LoopCopiesWindow ReadsOriginal
PROPERTIES ImplementsReader ReadReturns
