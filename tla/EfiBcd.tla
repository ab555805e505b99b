------------------------------- MODULE EfiBcd -------------------------------
(***************************************************************************)
(* The patch of the BCD (efi_patch_bcd of src/src/efifile.c), which the     *)
(* virtual disk calls on every window of the file that is read.             *)
(*                                                                         *)
(* The file is a sequence of wide characters, and a window starts and ends  *)
(* between two of them.  Case is left out.                                  *)
(***************************************************************************)
EXTENDS Naturals, Sequences

CONSTANTS
  Bcds,         \* contents of the file
  SectorChars,  \* wide characters in a sector
  MaxSectors    \* bound: sectors in a read

VARIABLES
  bcd,             \* the file
  cmdline_rawbcd,
  offset, len,     \* the window, in characters
  data,            \* the caller's buffer
  i,               \* the loop counter
  pc               \* "idle", "patch" in the loop

vars == <<bcd, cmdline_rawbcd, offset, len, data, i, pc>>

NUL == "nul"
search == <<".", "e", "x", "e", NUL>>
replace == <<".", "e", "f", "i", NUL>>

Init ==
  /\ bcd \in Bcds /\ cmdline_rawbcd \in BOOLEAN
  /\ offset = 0 /\ len = 0 /\ data = <<>> /\ i = 0 /\ pc = "idle"

\* vdisk_file reads sectors and hands what the file has of them to the patch method.
ReadWindow(sector, count) ==
  /\ pc = "idle" /\ sector * SectorChars < Len(bcd)
  /\ offset' = sector * SectorChars
  /\ len' = LET rest == Len(bcd) - offset'
            IN  IF count * SectorChars < rest THEN count * SectorChars ELSE rest
  /\ data' = SubSeq(bcd, offset' + 1, offset' + len')
  /\ i' = 0 /\ pc' = IF cmdline_rawbcd THEN "idle" ELSE "patch"
  /\ UNCHANGED <<bcd, cmdline_rawbcd>>

\* wcscasecmp finds the pattern, with its end, at position k of a string.
FoundAt(chars, k) == SubSeq(chars, k + 1, k + Len(search)) = search

PatchStep ==
  /\ pc = "patch" /\ i + Len(search) < len
  /\ data' = IF FoundAt(data, i)
             THEN [c \in 1 .. len |-> IF c \in i + 1 .. i + Len(search)
                                      THEN replace[c - i] ELSE data[c]]
             ELSE data
  /\ i' = i + 1
  /\ UNCHANGED <<bcd, cmdline_rawbcd, offset, len, pc>>

PatchEnd ==
  /\ pc = "patch" /\ i + Len(search) >= len /\ pc' = "idle"
  /\ UNCHANGED <<bcd, cmdline_rawbcd, offset, len, data, i>>

Next ==
  \/ \E sector \in 0 .. Len(bcd) \div SectorChars, count \in 1 .. MaxSectors :
       ReadWindow(sector, count)
  \/ PatchStep \/ PatchEnd

Spec == Init /\ [][Next]_vars

\* The comment of efi_patch_bcd: "Patch any occurrences of .exe to .efi".  A window that
\* was handed out shows no occurrence of the pattern in the file unpatched.
OccurrencesPatched ==
  pc = "idle" /\ ~cmdline_rawbcd =>
    \A k \in offset .. offset + len - Len(search) :
      FoundAt(bcd, k) =>
        SubSeq(data, k - offset + 1, k - offset + Len(search)) = replace
=============================================================================
