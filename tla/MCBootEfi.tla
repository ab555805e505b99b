----------------------------- MODULE MCBootEfi -----------------------------
(***************************************************************************)
(* Root directories with every choice of the files that matter, for TLC.    *)
(***************************************************************************)
EXTENDS BootEfi

Entry(name) == [name |-> name, subdir |-> FALSE]
Subdirectory == [name |-> "bootmgfw.efi", subdir |-> TRUE]

Listing == <<"BCD", "bootmgfw_EX.efi", "bootmgfw.efi", BOOTARCH, "boot.wim">>

Directory(names) ==
  LET chosen == SelectSeq(Listing, LAMBDA n : n \in names)
  IN  [i \in DOMAIN chosen |-> Entry(chosen[i])]

MCDirectories ==
  {Directory(names) : names \in SUBSET {Listing[i] : i \in DOMAIN Listing}}
  \union {<<Subdirectory, Entry("boot.wim")>>}

MCWimContents == SUBSET {"bootmgfw.efi", "bootmgfw_EX.efi"}
MCFileNames == {Listing[i] : i \in DOMAIN Listing} \union {"boot.sdi"}
MCWimFiles == <<"BCD", "boot.sdi">>
=============================================================================
