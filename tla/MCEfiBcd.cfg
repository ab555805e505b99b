SPECIFICATION Spec
CONSTANTS
  Bcds <- MCBcds
  SectorChars = 8
  MaxSectors = 2
INVARIANT OccurrencesPatched
