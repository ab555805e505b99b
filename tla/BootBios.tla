------------------------------ MODULE BootBios ------------------------------
(***************************************************************************)
(* The BIOS build of wimboot (src/src/main.c, src/src/peloader.c,           *)
(* src/src/callback.S): from the command line to the entry of bootmgr.exe,  *)
(* and the calls that bootmgr.exe makes back into wimboot.                  *)
(*                                                                         *)
(* Cmdline, Cpio, Memory and Int13 are the parts; every step of a part      *)
(* leaves the variables of the others alone.  The boot manager and the BIOS *)
(* are external: the boot manager uses all memory below 4GB that is not     *)
(* described to it as in use, and calls in any CPU mode; the BIOS may       *)
(* change its count of drives between two calls.                            *)
(***************************************************************************)
EXTENDS Cmdline, Cpio, Memory, Int13

CONSTANTS
  WimbootLen,    \* cells of wimboot itself, from address 0
  BootmgrLen,    \* cells of bootmgr.exe
  BootmgrAt,     \* the offset of its cells in the initrd, if it is given there
  FileNames,     \* the names that files can have
  WimFiles,      \* the names of the files of wim_paths that are in the WIM
  Buffers        \* addresses of buffers of the boot manager

ASSUME BootAssumption ==
  /\ WimbootLen \in Nat \ {0} /\ BootmgrLen \in Nat \ {0} /\ BootmgrAt \in Nat
  /\ "bootmgr.exe" \in FileNames /\ WimFiles \subseteq FileNames /\ IsFiniteSet(WimFiles)

VARIABLES
  machine,    \* [pae, embedded, in_wim, image, len, calls]: the CPU has PAE; a file
              \* bootmgr has a compressed bootmgr.exe in it; the WIM has one; its
              \* headers; cells of the initrd; the calls that it makes
  pc,
  files,      \* the virtual files: records [name, from, opaque]
  bootmgr, bootwim,  \* indices of files, 0 for NULL
  raw_pe,
  pe,         \* [base, len, loaded]: struct loaded_pe, and the number of sections loaded
  regions,    \* the memory regions that are described to the boot manager
  caller,     \* the control registers when the boot manager made its last call
  cr0,        \* CR0 as call_real pushed it: [pe, pg]
  modes,      \* per buffer: the video mode that was described there is supported
  used        \* the boot manager has used its memory

mainVars == <<machine, pc, files, bootmgr, bootwim, raw_pe, pe, regions, caller, cr0,
              modes, used>>
vars == <<cmdlineVars, cpioVars, memoryVars, int13Vars, mainVars>>

Free == <<"free", 0>>
Zero == <<"zero", 0>>
InUse == <<"os", 0>>

InitrdCells(n) == [k \in 1 .. n |-> <<"initrd", k>>]
BootmgrCells == [k \in 1 .. BootmgrLen |-> <<"bootmgr", k>>]

NoCall == [interrupt |-> 0, command |-> "other", drive |-> 0, buffer |-> 0, esdi |-> 0,
           cf |-> FALSE, dl |-> 0, served |-> "never", data |-> <<>>]

\* The headers of a PE image, and struct loaded_pe before there is one.
Images ==
  [magic : BOOLEAN, base : Nat, header_len : Nat, section_align : Nat \ {0},
   sections : Seq([virtual : Nat, virtual_len : Nat, raw : Nat, raw_len : Nat])]
NoImage == [base |-> 0, len |-> 0, loaded |-> 0]

\* The machine as startup leaves it: protected mode, no paging.
BootInit ==
  /\ CmdlineInit /\ CpioInit
  /\ \A i \in 1 .. Len(archive.items) :
       IsMember(archive.items[i]) =>
         /\ archive.items[i].name \in FileNames \union {CPIO_TRAILER}
         /\ archive.items[i].name = "bootmgr.exe" => BootmgrAt + BootmgrLen <= initrd_len
  /\ initrd \in Nat /\ initrd_len \in Nat /\ (initrd_len = 0 => archive.len = 0)
  /\ initrd + initrd_len <= ADDR_4GB
  /\ machine.len = initrd_len /\ machine.image \in Images
  /\ IsMemoryMap(e820) /\ e820_ebx = 0 /\ region = 0
  /\ ram = Store([a \in 0 .. MemorySize - 1 |-> Free], Identity, initrd, InitrdCells(initrd_len))
  /\ pd = [p \in Pages |-> 0] /\ paging = FALSE
  /\ cpu = [pe |-> TRUE, pg |-> FALSE, pae |-> FALSE, cr3 |-> "other"] /\ saved = cpu
  /\ dest = 0 /\ copied = 0 /\ initrd_phys = 0 /\ memory_pc = "low"
  /\ drive_count \in Drives /\ vdisk_drive = NoDrive /\ params = NoCall
  /\ pc = "process_cmdline"
  /\ files = <<>> /\ bootmgr = 0 /\ bootwim = 0 /\ raw_pe = 0 /\ pe = NoImage
  /\ regions = {} /\ caller = cpu /\ cr0 = [pe |-> TRUE, pg |-> FALSE]
  /\ modes = [b \in Buffers |-> FALSE] /\ used = FALSE

----------------------------------------------------------------------------
(* main: command line, paging, relocation below 2GB *)

Goto(label) == pc' = label

MainUnchanged == UNCHANGED <<machine, files, bootmgr, bootwim, raw_pe, pe, regions, caller,
                             cr0, modes, used>>

ProcessCmdline ==
  /\ pc = "process_cmdline" /\ process_cmdline
  /\ Goto(CASE cmdline_pc' = "done" -> "init_paging"
            [] cmdline_pc' = "dead" -> "dead"
            [] OTHER -> pc)
  /\ MainUnchanged /\ UNCHANGED <<cpioVars, memoryVars, int13Vars>>

InitPaging ==
  /\ pc = "init_paging" /\ init_paging(flags.linear, machine.pae) /\ Goto("enable_paging")
  /\ MainUnchanged /\ UNCHANGED <<cmdlineVars, cpioVars, int13Vars>>

EnablePaging ==
  /\ pc = "enable_paging" /\ enable_paging /\ Goto("relocate_low")
  /\ MainUnchanged /\ UNCHANGED <<cmdlineVars, cpioVars, int13Vars>>

RelocateLow ==
  /\ pc = "relocate_low" /\ relocate_memory_low
  /\ Goto(IF memory_pc' = "placed" THEN "extract" ELSE pc)
  /\ MainUnchanged /\ UNCHANGED <<cmdlineVars, cpioVars, int13Vars>>

----------------------------------------------------------------------------
(* main: the files *)

padded_len(n) == Down(n + PAGE_SIZE - 1, PAGE_SIZE)

File(name, from, opaque) == [name |-> name, from |-> from, opaque |-> opaque]

\* The address of the archive; files prepended to it lie between it and initrd.
ArchiveStart == initrd + initrd_len - machine.len

\* add_bootmgr found a compressed bootmgr.exe: it is prepended to the initrd.
add_bootmgr ==
  /\ initrd' = initrd - padded_len(BootmgrLen)
  /\ initrd_len' = initrd_len + padded_len(BootmgrLen)
  /\ ram' = Store(ram, Tables, initrd', BootmgrCells)
  /\ UNCHANGED <<e820, e820_ebx, region, pd, paging, cpu, saved, dest, copied, initrd_phys,
                 memory_pc>>

HasEmbedded(name) == name = "bootmgr" /\ bootmgr = 0 /\ machine.embedded

\* Mutant: the first bootmgr.exe stays.
add_file_FirstWins(name) ==
  LET file == File(name, "initrd", ArchiveStart + BootmgrAt)
      this == Len(files) + 1
  IN  /\ ExtractMember(name)
      /\ IF HasEmbedded(name)
         THEN /\ add_bootmgr
              /\ files' = files \o <<file, File("bootmgr.exe", "embedded", initrd')>>
         ELSE files' = Append(files, file) /\ UNCHANGED memoryVars
      /\ bootmgr' = CASE name = "bootmgr.exe" /\ bootmgr = 0 -> this
                      [] HasEmbedded(name)    -> this + 1
                      [] OTHER                -> bootmgr
      /\ bootwim' = IF name = "boot.wim" THEN this ELSE bootwim

\* The handler of cpio_extract.
add_file(name) ==
  LET file == File(name, "initrd", ArchiveStart + BootmgrAt)
      this == Len(files) + 1
  IN  /\ ExtractMember(name)
      /\ IF HasEmbedded(name)
         THEN /\ add_bootmgr
              /\ files' = files \o <<file, File("bootmgr.exe", "embedded", initrd')>>
         ELSE files' = Append(files, file) /\ UNCHANGED memoryVars
      /\ bootmgr' = CASE name = "bootmgr.exe" -> this
                      [] HasEmbedded(name)    -> this + 1
                      [] OTHER                -> bootmgr
      /\ bootwim' = IF name = "boot.wim" THEN this ELSE bootwim

AddFile ==
  /\ pc = "extract"
  /\ \E member \in HeadersAt(cpio_data) : add_file(member.name)
  /\ UNCHANGED <<machine, pc, raw_pe, pe, regions, caller, cr0, modes, used>>
  /\ UNCHANGED <<cmdlineVars, int13Vars>>

CpioExtract ==
  /\ pc = "extract"
  /\ SkipPadding \/ EndOfArchive \/ BadOrTruncated \/ Trailer
  /\ Goto(CASE cpio_rc' = 0 -> "wim" [] cpio_rc' = -1 -> "dead" [] OTHER -> pc)
  /\ MainUnchanged /\ UNCHANGED <<cmdlineVars, memoryVars, int13Vars>>

Names(fs) == {fs[i].name : i \in 1 .. Len(fs)}

\* wim_add_file: nothing is added if there is a file of that name.
FromWim(fs, names) == SetToSeq({File(n, "wim", 0) : n \in names \ Names(fs)})

ProcessWim ==
  LET exe == IF bootwim # 0 /\ bootmgr = 0 /\ machine.in_wim
             THEN <<File("bootmgr.exe", "wim", 0)>> ELSE <<>>
      others == IF bootwim # 0 THEN FromWim(files, WimFiles) ELSE <<>>
  IN  /\ pc = "wim" /\ Goto("int13")
      /\ files' = files \o exe \o others
      /\ bootmgr' = IF exe = <<>> THEN bootmgr ELSE Len(files) + 1
      /\ UNCHANGED <<machine, bootwim, raw_pe, pe, regions, caller, cr0, modes, used>>
      /\ UNCHANGED <<cmdlineVars, cpioVars, memoryVars, int13Vars>>

InitialiseInt13 ==
  /\ pc = "int13" /\ initialise_int13
  /\ Goto(IF bootmgr = 0 THEN "dead" ELSE "read_pe")
  /\ MainUnchanged /\ UNCHANGED <<cmdlineVars, cpioVars, memoryVars>>

----------------------------------------------------------------------------
(* main: loading bootmgr.exe *)

ReadPe ==
  /\ pc = "read_pe" /\ Goto("load_pe")
  /\ IF files[bootmgr].from = "wim"
     THEN /\ raw_pe' = initrd - padded_len(BootmgrLen)
          /\ ram' = Store(ram, Tables, raw_pe', BootmgrCells)
     ELSE raw_pe' = files[bootmgr].opaque /\ UNCHANGED ram
  /\ UNCHANGED <<machine, files, bootmgr, bootwim, pe, regions, caller, cr0, modes, used>>
  /\ UNCHANGED <<e820, e820_ebx, region, pd, paging, cpu, saved, initrd, initrd_len, dest,
                 copied, initrd_phys, memory_pc>>
  /\ UNCHANGED <<cmdlineVars, cpioVars, int13Vars>>

Image == machine.image

\* memcpy from the file to an address.
CopyFrom(mem, to, offset, len) ==
  Store(mem, Tables, to, Load(mem, Tables, raw_pe + offset, len))

\* A section is zeroed and then copied, with the lengths of its header.
LoadSection(mem, section) ==
  LET at   == Image.base + section.virtual
      zero == Store(mem, Tables, at, [k \in 1 .. section.virtual_len |-> Zero])
  IN  CopyFrom(zero, at, section.raw, section.raw_len)

\* Mutant: the file's length of a section counts.
SectionsEnd_Raw(end, section) ==
  LET section_end == section.virtual + section.raw_len
  IN  IF end < section_end THEN section_end ELSE end

\* The end of what was loaded, with one more section.
SectionsEnd(end, section) ==
  LET section_end == section.virtual + section.virtual_len
  IN  IF end < section_end THEN section_end ELSE end

loadUnchanged ==
  /\ UNCHANGED <<machine, files, bootmgr, bootwim, raw_pe, regions, caller, cr0, modes, used>>
  /\ UNCHANGED <<e820, e820_ebx, region, pd, paging, cpu, saved, initrd, initrd_len, dest,
                 copied, initrd_phys, memory_pc>>
  /\ UNCHANGED <<cmdlineVars, cpioVars, int13Vars>>

load_pe_header ==
  /\ pc = "load_pe" /\ Image.magic /\ Goto("load_sections")
  /\ ram' = CopyFrom(ram, Image.base, 0, Image.header_len)
  /\ pe' = [base |-> Image.base, len |-> Image.header_len, loaded |-> 0]
  /\ loadUnchanged

\* One iteration of the loop over the sections.
load_pe_section ==
  /\ pc = "load_sections" /\ pe.loaded < Len(Image.sections) /\ Goto(pc)
  /\ LET section == Image.sections[pe.loaded + 1]
     IN  /\ ram' = LoadSection(ram, section)
         /\ pe' = [base |-> pe.base, len |-> SectionsEnd(pe.len, section),
                   loaded |-> pe.loaded + 1]
  /\ loadUnchanged

\* The raw copy of the file stands behind the sections.
RawOffset == Down(pe.len + Image.section_align - 1, Image.section_align)

load_pe_raw ==
  /\ pc = "load_sections" /\ pe.loaded = Len(Image.sections) /\ Goto("relocate_high")
  /\ ram' = CopyFrom(ram, pe.base + RawOffset, 0, BootmgrLen)
  /\ pe' = [base |-> pe.base, len |-> RawOffset + BootmgrLen, loaded |-> pe.loaded]
  /\ loadUnchanged

load_pe == load_pe_header \/ load_pe_section \/ load_pe_raw

load_pe_fails ==
  /\ pc = "load_pe" /\ ~Image.magic /\ Goto("dead")
  /\ MainUnchanged /\ UNCHANGED <<cmdlineVars, cpioVars, memoryVars, int13Vars>>

RelocateHigh ==
  /\ pc = "relocate_high" /\ relocate_memory_high
  /\ Goto(IF memory_pc' = "relocated" THEN "describe" ELSE pc)
  /\ MainUnchanged /\ UNCHANGED <<cmdlineVars, cpioVars, int13Vars>>

----------------------------------------------------------------------------
(* main: the descriptors, and the entry of bootmgr.exe *)

page_start(a) == a \div PAGE_SIZE
page_end(a) == (a + PAGE_SIZE - 1) \div PAGE_SIZE
page_len(a, b) == page_end(b) - page_start(a)

Described(start, pages) == [start_page |-> start, num_pages |-> pages]

WIMBOOT_REGION == Described(page_start(0), page_len(0, WimbootLen))
PE_REGION == Described(page_start(pe.base), page_len(pe.base, pe.base + pe.len))

\* Mutant: the pages are counted from the length alone.
INITRD_REGION_Length ==
  Described(initrd_phys \div PAGE_SIZE, initrd_len \div PAGE_SIZE)

INITRD_REGION ==
  Described(initrd_phys \div PAGE_SIZE, page_len(initrd, initrd + initrd_len))

Describe ==
  /\ pc = "describe" /\ Goto("disable_paging")
  /\ regions' = {WIMBOOT_REGION, PE_REGION}
                \union (IF initrd_phys >= ADDR_4GB THEN {} ELSE {INITRD_REGION})
  /\ UNCHANGED <<machine, files, bootmgr, bootwim, raw_pe, pe, caller, cr0, modes, used>>
  /\ UNCHANGED <<cmdlineVars, cpioVars, memoryVars, int13Vars>>

EnterBootmgr ==
  /\ pc = "disable_paging" /\ disable_paging /\ Goto("bootmgr")
  /\ caller' = saved
  /\ UNCHANGED <<machine, files, bootmgr, bootwim, raw_pe, pe, regions, cr0, modes, used>>
  /\ UNCHANGED <<cmdlineVars, cpioVars, int13Vars>>

----------------------------------------------------------------------------
(* The boot manager and the BIOS (external) *)

PageCells(r) == Cells(r.start_page * PAGE_SIZE, r.num_pages * PAGE_SIZE)

UseMemory ==
  /\ pc = "bootmgr" /\ ~used /\ used' = TRUE
  /\ ram' = [a \in DOMAIN ram |->
               IF a < ADDR_4GB /\ \A r \in regions : a \notin PageCells(r)
               THEN InUse ELSE ram[a]]
  /\ UNCHANGED <<machine, pc, files, bootmgr, bootwim, raw_pe, pe, regions, caller, cr0, modes>>
  /\ UNCHANGED <<e820, e820_ebx, region, pd, paging, cpu, saved, initrd, initrd_len, dest,
                 copied, initrd_phys, memory_pc>>
  /\ UNCHANGED <<cmdlineVars, cpioVars, int13Vars>>

CountDrives ==
  /\ pc = "bootmgr" /\ "get_parameters" \in machine.calls /\ drive_count' \in Drives
  /\ UNCHANGED <<vdisk_drive, params, mainVars, cmdlineVars, cpioVars, memoryVars>>

CallerModes == [pe : {TRUE}, pg : BOOLEAN, pae : {FALSE}, cr3 : {"other"}]

\* A call of the callback function call_interrupt.
Call(interrupt, command, drive, buffer) ==
  /\ pc = "bootmgr" /\ Goto("wrapper")
  /\ params' = [NoCall EXCEPT !.interrupt = interrupt, !.command = command, !.drive = drive,
                              !.dl = drive, !.buffer = buffer, !.esdi = buffer,
                              !.served = "pending"]
  /\ caller' \in CallerModes /\ cpu' = caller'
  /\ UNCHANGED <<machine, files, bootmgr, bootwim, raw_pe, pe, regions, cr0, modes, used>>
  /\ UNCHANGED <<e820, e820_ebx, region, ram, pd, paging, saved, initrd, initrd_len, dest,
                 copied, initrd_phys, memory_pc>>
  /\ UNCHANGED <<drive_count, vdisk_drive, cmdlineVars, cpioVars>>

MakeCall ==
  \/ \E command \in Commands \intersect machine.calls, drive \in {vdisk_drive, vdisk_drive + 1} :
       Call(19, command, drive, 0)
  \/ \E command \in {"mode_info", "other"} \intersect machine.calls, buffer \in Buffers :
       Call(16, command, 0, buffer)

BootmgrReturns ==
  /\ pc = "bootmgr" /\ Goto("dead")
  /\ MainUnchanged /\ UNCHANGED <<cmdlineVars, cpioVars, memoryVars, int13Vars>>

----------------------------------------------------------------------------
(* call_interrupt_wrapper *)

IsInt13 == params.interrupt = 19
HidesMode == params.interrupt = 16 /\ params.command = "mode_info" /\ ~flags.gui

WrapperInt13 ==
  /\ pc = "wrapper" /\ IsInt13 /\ enable_paging /\ Goto("emulate_int13")
  /\ MainUnchanged /\ UNCHANGED <<cmdlineVars, cpioVars, int13Vars>>

\* The emulated drive.  An extended read copies the files as they are seen now.
EmulateInt13 ==
  /\ pc = "emulate_int13" /\ params.drive = vdisk_drive /\ Goto("wrapped")
  /\ LET answer == Emulated(params.command, params.dl)
     IN  params' = [params EXCEPT
           !.cf = answer.cf, !.dl = answer.dl, !.served = answer.served,
           !.data = IF params.command = "extended_read"
                    THEN Load(ram, Tables, initrd, initrd_len) ELSE <<>>]
  /\ MainUnchanged
  /\ UNCHANGED <<drive_count, vdisk_drive, cmdlineVars, cpioVars, memoryVars>>

\* Mutant: the BIOS is called with paging on.
CallReal_Paged ==
  /\ \/ pc = "emulate_int13" /\ params.drive # vdisk_drive
     \/ pc = "wrapper" /\ ~IsInt13
  /\ Goto("real")
  /\ cr0' = [pe |-> cpu.pe, pg |-> cpu.pg]
  /\ cpu' = [cpu EXCEPT !.pe = FALSE]
  /\ UNCHANGED <<machine, files, bootmgr, bootwim, raw_pe, pe, regions, caller, modes, used>>
  /\ UNCHANGED pagingVars /\ UNCHANGED saved
  /\ UNCHANGED <<cmdlineVars, cpioVars, int13Vars>>

\* call_real: the mode bits are pushed and cleared.
CallReal ==
  /\ \/ pc = "emulate_int13" /\ params.drive # vdisk_drive
     \/ pc = "wrapper" /\ ~IsInt13
  /\ Goto("real")
  /\ cr0' = [pe |-> cpu.pe, pg |-> cpu.pg]
  /\ cpu' = [cpu EXCEPT !.pe = FALSE, !.pg = FALSE]
  /\ UNCHANGED <<machine, files, bootmgr, bootwim, raw_pe, pe, regions, caller, modes, used>>
  /\ UNCHANGED pagingVars /\ UNCHANGED saved
  /\ UNCHANGED <<cmdlineVars, cpioVars, int13Vars>>

\* Mutant: the pointer is computed from the registers that the BIOS returns.
HideMode_After(before, after, described) ==
  IF HidesMode THEN [described EXCEPT ![after] = FALSE] ELSE described

\* The mode is marked as unsupported where the caller asked for its description.
HideMode(before, after, described) ==
  IF HidesMode THEN [described EXCEPT ![before] = FALSE] ELSE described

\* The BIOS answers; a video BIOS describes the mode in the buffer and may change the
\* registers.  Then call_real pops CR0, and its caller adjusts the answer.
ReturnFromReal ==
  \E bios \in [cf : BOOLEAN, dl : Drives], supported \in BOOLEAN, esdi \in Buffers \union {0} :
    /\ pc = "real"
    /\ esdi = 0 <=> IsInt13
    /\ IsInt13 => ~supported
    /\ ~IsInt13 => bios = [cf |-> FALSE, dl |-> 0]
    /\ LET answer == IF IsInt13 THEN PassedOn(params.command, bios)
                     ELSE [cf |-> bios.cf, dl |-> bios.dl, served |-> "bios"]
       IN  params' = [params EXCEPT !.cf = answer.cf, !.dl = answer.dl, !.esdi = esdi,
                                    !.served = answer.served]
    /\ modes' = IF params.command = "mode_info"
                THEN HideMode(params.esdi, esdi, [modes EXCEPT ![params.buffer] = supported])
                ELSE modes
    /\ cpu' = [cpu EXCEPT !.pe = cr0.pe, !.pg = cr0.pg]
    /\ Goto(IF IsInt13 THEN "wrapped" ELSE "bootmgr")
    /\ UNCHANGED <<machine, files, bootmgr, bootwim, raw_pe, pe, regions, caller, cr0, used>>
    /\ UNCHANGED pagingVars /\ UNCHANGED saved
    /\ UNCHANGED <<drive_count, vdisk_drive, cmdlineVars, cpioVars>>

WrapperReturns ==
  /\ pc = "wrapped" /\ disable_paging /\ Goto("bootmgr")
  /\ MainUnchanged /\ UNCHANGED <<cmdlineVars, cpioVars, int13Vars>>

----------------------------------------------------------------------------
(* The specification *)

main ==
  \/ ProcessCmdline \/ InitPaging \/ EnablePaging \/ RelocateLow \/ AddFile \/ CpioExtract
  \/ ProcessWim \/ InitialiseInt13 \/ ReadPe \/ load_pe \/ load_pe_fails \/ RelocateHigh
  \/ Describe \/ EnterBootmgr

call_interrupt_wrapper ==
  WrapperInt13 \/ EmulateInt13 \/ CallReal \/ ReturnFromReal \/ WrapperReturns

BootNext ==
  \/ main \/ call_interrupt_wrapper
  \/ UseMemory \/ CountDrives \/ MakeCall \/ BootmgrReturns

\* Nothing can suspend wimboot; the boot manager need not do anything.
BootFairness == WF_vars(main) /\ WF_vars(call_interrupt_wrapper)

BootSpec == BootInit /\ [][BootNext]_vars /\ BootFairness

----------------------------------------------------------------------------
(* Properties *)

Given(name) == {i \in 1 .. Len(extracted) : extracted[i] = name}

\* Where bootmgr.exe has to come from: the last one given, or else the one inside a given
\* bootmgr, or else the one in the WIM.
BootmgrSource ==
  IF Given("bootmgr.exe") # {} THEN "initrd"
  ELSE IF Given("bootmgr") # {} /\ machine.embedded THEN "embedded"
  ELSE IF Given("boot.wim") # {} /\ machine.in_wim THEN "wim" ELSE "none"

\* In whichever order the archive has bootmgr, bootmgr.exe and the WIM, the file that is
\* entered is the one with precedence, and main gives up only if there is none.
BootmgrChosen ==
  /\ pc = "read_pe" => /\ files[bootmgr].name = "bootmgr.exe"
                       /\ files[bootmgr].from = BootmgrSource
  /\ pc = "dead" /\ vdisk_drive # NoDrive /\ bootmgr = 0 => BootmgrSource = "none"

\* What main relies on and does not check: bootmgr.exe and wimboot lie apart from the
\* initrd and from what is put in front of it, and the initrd lies above the copy
\* window if it is moved page by page.
Apart ==
  LET taken == (IF raw_pe < initrd THEN raw_pe ELSE initrd) .. initrd + initrd_len - 1
  IN  /\ taken \intersect (Cells(pe.base, pe.len) \union Cells(0, WimbootLen)) = {}
      /\ paging => initrd >= COPY_WINDOW + PAGE_SIZE_2MB

\* The initrd as it was loaded, behind a bootmgr.exe that was prepended to it.  The cells
\* between the two are padding.
InitrdShown(cells) ==
  /\ SubSeq(cells, Len(cells) - machine.len + 1, Len(cells)) = InitrdCells(machine.len)
  /\ Len(cells) > machine.len => SubSeq(cells, 1, BootmgrLen) = BootmgrCells

\* The offset of the raw copy in the image.
RoomForSections == pe.len - BootmgrLen

\* What a linker guarantees of an image and load_pe does not check: it lies below 4GB,
\* its sections ascend, have their data in the file, and are in the file no longer than
\* the room up to the raw copy.
WellFormedImage ==
  /\ pe.base + pe.len <= ADDR_4GB
  /\ \A i \in 1 .. Len(Image.sections) :
       LET s == Image.sections[i]
       IN  /\ s.virtual + s.raw_len <= RoomForSections
           /\ s.raw + Minimum(s.raw_len, s.virtual_len) <= BootmgrLen
           /\ \A j \in 1 .. i - 1 :
                Image.sections[j].virtual + Image.sections[j].virtual_len <= s.virtual

\* An extended read of the emulated drive returns the files as they were loaded, wherever
\* they were moved, after the boot manager has used all memory that it was not told to
\* leave alone, and in whatever mode it calls.
FilesIntact ==
  params.command = "extended_read" /\ params.served = "vdisk" /\ Apart /\ WellFormedImage =>
    InitrdShown(params.data)

\* The contents of bootmgr.exe.
BootmgrFile ==
  IF files[bootmgr].from = "initrd"
  THEN SubSeq(InitrdCells(machine.len), BootmgrAt + 1, BootmgrAt + BootmgrLen)
  ELSE BootmgrCells

\* While the boot manager runs its image is complete: every section, the zeros behind
\* the section's data and the raw copy of the file, which no region descriptor may miss.
ImageIntact ==
  pc = "bootmgr" /\ Apart /\ WellFormedImage =>
    /\ Load(ram, Identity, pe.base + RoomForSections, BootmgrLen) = BootmgrFile
    /\ \A i \in 1 .. Len(Image.sections) :
         LET s == Image.sections[i]
         IN  Load(ram, Identity, pe.base + s.virtual, s.virtual_len)
               = [k \in 1 .. s.virtual_len |->
                    IF k <= s.raw_len THEN BootmgrFile[s.raw + k] ELSE Zero]

\* The boot manager gets its control registers back from every call, and the BIOS is
\* never entered with paging on.
CallerUndisturbed ==
  /\ pc = "bootmgr" => cpu = caller
  /\ pc = "real" => ~cpu.pe /\ ~cpu.pg

\* A video mode that was described to the boot manager is never marked as supported, unless
\* the command line allows graphics, even if the BIOS changes the registers.
TextModeForced ==
  pc = "bootmgr" /\ ~flags.gui => \A b \in Buffers : ~modes[b]

\* wimboot enters the boot manager or gives up, whatever the memory map, the command line
\* and the archive are, and every call that the boot manager makes returns to it.
BootDecides ==
  /\ <>(pc \in {"bootmgr", "dead"})
  /\ (pc = "wrapper") ~> (pc = "bootmgr")
=============================================================================
