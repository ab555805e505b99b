------------------------------- MODULE Int13 -------------------------------
(***************************************************************************)
(* INT 13 emulation (src/src/int13.c): the emulated drive is answered from  *)
(* the virtual disk, every other call goes to the BIOS (external).          *)
(***************************************************************************)
EXTENDS Naturals

CONSTANTS
  MaxDrives   \* bound: the largest number of drives a BIOS reports

ASSUME Int13Assumption == MaxDrives \in 1 .. 127

VARIABLES
  drive_count,  \* the BIOS data area's count of hard disks, INT13_DRIVE_COUNT
  vdisk_drive,  \* the emulated drive, without the bit 0x80; NoDrive before it is set
  params        \* the parameters of the call in progress, or of the last one

int13Vars == <<drive_count, vdisk_drive, params>>

NoDrive == 256
Drives == 0 .. MaxDrives

Commands == {"get_parameters", "get_disk_type", "extension_check", "extended_read",
             "get_extended_parameters", "other"}

initialise_int13 ==
  /\ vdisk_drive' = drive_count
  /\ drive_count' = drive_count + 1
  /\ UNCHANGED params

\* The least number of drives that includes the emulated one.
min_num_drives == vdisk_drive + 1

AtLeast(n, least) == IF n < least THEN least ELSE n

\* What the emulated drive answers: CF, the status in AH and, for the commands that have
\* one, the number of drives in DL.
Emulated(command, dl) ==
  [cf |-> command = "other",
   dl |-> IF command = "get_parameters" THEN AtLeast(drive_count, min_num_drives) ELSE dl,
   served |-> "vdisk"]

\* Mutant: the BIOS's count is passed on.
PassedOn_Unchanged(command, bios) == [cf |-> bios.cf, dl |-> bios.dl, served |-> "bios"]

\* The BIOS's answer for another drive, with the number of drives raised.
PassedOn(command, bios) ==
  [cf |-> bios.cf,
   dl |-> IF command = "get_parameters" THEN AtLeast(bios.dl, min_num_drives) ELSE bios.dl,
   served |-> "bios"]

\* The number of drives that a call reports always includes the emulated drive, whatever the
\* BIOS counts at the time and whichever drive is asked: a boot manager that looks at
\* drives 0x80 up to the number reported finds the virtual disk.
DriveIsCounted ==
  params.command = "get_parameters" /\ params.served # "pending" => vdisk_drive < params.dl
=============================================================================
