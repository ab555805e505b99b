------------------------------ MODULE BootEfi ------------------------------
(***************************************************************************)
(* The UEFI build of wimboot (src/src/efimain.c, efifile.c, efiblock.c,     *)
(* efiboot.c, efipath.c): the files are taken from the boot device, the     *)
(* disk and its partition are installed, a boot manager is loaded under the *)
(* name that firmware gives to boot loaders, and OpenProtocol is hooked.    *)
(*                                                                         *)
(* The firmware and the boot manager are external.  Firmware calls fail or  *)
(* succeed; firmware events run between any two steps and may open          *)
(* protocols through the same table of boot services as the boot manager.   *)
(***************************************************************************)
EXTENDS Naturals, Sequences, FiniteSets

CONSTANTS
  FileNames,   \* the names that files can have
  BOOTARCH,    \* the name of a boot loader: bootx64.efi, bootaa64.efi, ...
  Directories, \* root directories: sequences of entries [name, subdir]
  WimContents, \* sets of the names of boot managers that a WIM contains
  WimFiles,    \* the files of efi_wim_paths that it contains
  Gops,        \* handles with a graphics output protocol
  MaxRefusals  \* bound: how often a handle may be refused

ASSUME EfiAssumption ==
  /\ MaxRefusals \in Nat
  /\ {BOOTARCH, "bootmgfw.efi", "bootmgfw_EX.efi"} \subseteq FileNames
  /\ BOOTARCH \notin {"bootmgfw.efi", "bootmgfw_EX.efi", "BCD", "boot.wim"}
  /\ Directories \subseteq Seq([name : FileNames, subdir : BOOLEAN])
  /\ WimFiles \in Seq(FileNames \ {BOOTARCH})
  /\ \A d \in Directories : \A i, j \in DOMAIN d : d[i].name = d[j].name => i = j

VARIABLES
  cmdline_gui,
  given,       \* the root directory, as it was at the start
  wim_has,     \* the boot managers in the WIM
  pc,          \* "dead" after die ( )
  dir,         \* the entries of the root directory that have not been read
  paths,       \* the files of efi_wim_paths that have not been looked for
  files,       \* the virtual files: [name, filename, from, patch]
  bootarch, bootmgfw, bootmgfw_ex, wim,  \* indices of files, 0 for NULL
  loading,     \* the file that efi_load works on, or has loaded
  attempts,    \* the files that LoadImage was called for
  pages,       \* the files for which pages are allocated
  installed,   \* the devices whose protocols are installed
  device,      \* DeviceHandle of the loaded image
  OpenProtocol, orig_open_protocol,  \* the table of boot services, and the saved entry
  blocked,     \* the handles with the "blocked once" protocol
  unmarked,    \* history: the handles on which installing it has failed
  refusals,    \* history: how often each handle was refused
  granted      \* history: [agent, handle] that was opened through the table

fileVars == <<given, wim_has, dir, paths, files, bootarch, bootmgfw, bootmgfw_ex, wim>>
loadVars == <<loading, attempts, pages, installed, device>>
hookVars == <<OpenProtocol, orig_open_protocol, blocked, unmarked, refusals, granted>>
vars == <<cmdline_gui, pc, fileVars, loadVars, hookVars>>

Init ==
  /\ cmdline_gui \in BOOLEAN /\ given \in Directories /\ wim_has \in WimContents
  /\ pc = "open_root" /\ dir = given /\ paths = <<>>
  /\ files = <<>> /\ bootarch = 0 /\ bootmgfw = 0 /\ bootmgfw_ex = 0 /\ wim = 0
  /\ loading = 0 /\ attempts = <<>> /\ pages = {} /\ installed = {} /\ device = "none"
  /\ OpenProtocol = "firmware" /\ orig_open_protocol = "null"
  /\ blocked = {} /\ unmarked = {} /\ refusals = [h \in Gops |-> 0] /\ granted = {}

Goto(label) == pc' = label

\* A firmware call that the code cannot do without fails.
Die(labels) ==
  /\ pc \in labels /\ Goto("dead")
  /\ UNCHANGED <<cmdline_gui, fileVars, loadVars, hookVars>>

----------------------------------------------------------------------------
(* efi_extract *)

OpenRoot ==
  /\ pc = "open_root" /\ Goto("read_root")
  /\ UNCHANGED <<cmdline_gui, fileVars, loadVars, hookVars>>

File(name, from, patch) ==
  [name |-> name, filename |-> name, from |-> from, patch |-> patch]

IgnoreSubdirectory ==
  /\ pc = "read_root" /\ dir # <<>> /\ Head(dir).subdir
  /\ dir' = Tail(dir)
  /\ UNCHANGED <<cmdline_gui, pc, given, wim_has, paths, files, bootarch, bootmgfw, bootmgfw_ex>>
  /\ UNCHANGED <<wim, loadVars, hookVars>>

AddFile ==
  LET name == Head(dir).name
      this == Len(files) + 1
      Special(n, old) == IF name = n THEN this ELSE old
  IN  /\ pc = "read_root" /\ dir # <<>> /\ ~Head(dir).subdir
      /\ dir' = Tail(dir)
      /\ files' = Append(files, File(name, "root", IF name = "BCD" THEN "bcd" ELSE "none"))
      /\ bootarch' = Special(BOOTARCH, bootarch)
      /\ bootmgfw' = Special("bootmgfw.efi", bootmgfw)
      /\ bootmgfw_ex' = Special("bootmgfw_EX.efi", bootmgfw_ex)
      /\ wim' = Special("boot.wim", wim)
      /\ UNCHANGED <<cmdline_gui, pc, given, wim_has, paths, loadVars, hookVars>>

\* Mutant: bootmgfw_EX.efi is still tried first.
UseBootarch_KeepEx ==
  /\ pc = "read_root" /\ dir = <<>> /\ Goto("extract")
  /\ bootmgfw' = IF bootarch # 0 THEN bootarch ELSE bootmgfw
  /\ UNCHANGED bootmgfw_ex
  /\ UNCHANGED <<cmdline_gui, given, wim_has, dir, paths, files, bootarch, wim, loadVars>>
  /\ UNCHANGED hookVars

\* A given boot<arch>.efi is the only one used.
UseBootarch ==
  /\ pc = "read_root" /\ dir = <<>> /\ Goto("extract")
  /\ bootmgfw' = IF bootarch # 0 THEN bootarch ELSE bootmgfw
  /\ bootmgfw_ex' = IF bootarch # 0 THEN 0 ELSE bootmgfw_ex
  /\ UNCHANGED <<cmdline_gui, given, wim_has, dir, paths, files, bootarch, wim, loadVars>>
  /\ UNCHANGED hookVars

\* A name, if it is one of those.
Offered(n, names) == IF n \in names THEN <<n>> ELSE <<>>

\* wim_add_file.
WimFile(n) == File(n, "wim", "none")

\* The boot managers come from the WIM if none was given.
ExtractLoaders ==
  LET none == wim # 0 /\ bootmgfw = 0 /\ bootmgfw_ex = 0
      has  == IF none THEN wim_has ELSE {}
      first == Offered("bootmgfw.efi", has)
      names == first \o Offered("bootmgfw_EX.efi", has)
  IN  /\ pc = "extract" /\ Goto("wim")
      /\ files' = files \o [i \in DOMAIN names |-> WimFile(names[i])]
      /\ bootmgfw' = IF "bootmgfw.efi" \in has THEN Len(files) + 1 ELSE bootmgfw
      /\ bootmgfw_ex' = IF "bootmgfw_EX.efi" \in has THEN Len(files) + Len(first) + 1
                        ELSE bootmgfw_ex
      /\ UNCHANGED <<cmdline_gui, given, wim_has, dir, paths, bootarch, wim, loadVars>>
      /\ UNCHANGED hookVars

\* The WIM is patched, and the other files are looked for in it.
PatchWim ==
  /\ pc = "wim" /\ Goto("wim_files")
  /\ files' = IF wim = 0 THEN files ELSE [files EXCEPT ![wim].patch = "wim"]
  /\ paths' = IF wim = 0 THEN <<>> ELSE WimFiles
  /\ UNCHANGED <<cmdline_gui, given, wim_has, dir, bootarch, bootmgfw, bootmgfw_ex, wim>>
  /\ UNCHANGED <<loadVars, hookVars>>

\* Of wim_add_files: a file that is not there yet is added.
AddWimFile ==
  LET name == Head(paths)
  IN  /\ pc = "wim_files" /\ paths # <<>> /\ paths' = Tail(paths)
      /\ files' = IF \E i \in DOMAIN files : files[i].name = name THEN files
                  ELSE Append(files, WimFile(name))
      /\ UNCHANGED <<cmdline_gui, pc, given, wim_has, dir, bootarch, bootmgfw, bootmgfw_ex>>
      /\ UNCHANGED <<wim, loadVars, hookVars>>

\* There must be a boot manager.
CheckLoader ==
  /\ pc = "wim_files" /\ paths = <<>>
  /\ Goto(IF bootmgfw = 0 /\ bootmgfw_ex = 0 THEN "dead" ELSE "install_disk")
  /\ UNCHANGED <<cmdline_gui, fileVars, loadVars, hookVars>>

----------------------------------------------------------------------------
(* efi_install *)

Install(label, dev, next) ==
  /\ pc = label /\ installed' = installed \union {dev} /\ Goto(next)
  /\ UNCHANGED <<cmdline_gui, fileVars, loading, attempts, pages, device, hookVars>>

efi_install ==
  \/ Install("install_disk", "vdisk", "install_partition")
  \/ Install("install_partition", "vpartition", "boot")

----------------------------------------------------------------------------
(* efi_load *)

\* efi_boot tries bootmgfw_EX.efi first and then bootmgfw.efi.
Untried(i) == i # 0 /\ \A k \in 1 .. Len(attempts) : attempts[k] # i
NextLoader ==
  IF Untried(bootmgfw_ex) THEN bootmgfw_ex ELSE IF Untried(bootmgfw) THEN bootmgfw ELSE 0

\* The file is renamed and pages are allocated.
LoadBegin ==
  /\ pc = "boot" /\ NextLoader # 0 /\ Goto("load")
  /\ loading' = NextLoader
  /\ files' = [files EXCEPT ![loading'].filename = BOOTARCH]
  /\ pages' = pages \union {loading'}
  /\ UNCHANGED <<cmdline_gui, given, wim_has, dir, paths, bootarch, bootmgfw, bootmgfw_ex, wim,
                 attempts, installed, device, hookVars>>

LoadSucceeds ==
  /\ pc = "load" /\ Goto("loaded")
  /\ attempts' = Append(attempts, loading)
  /\ device' \in {"vpartition", "other"}
  /\ UNCHANGED <<cmdline_gui, fileVars, loading, pages, installed, hookVars>>

\* Mutant: the name is not put back.
LoadFails_Renamed ==
  /\ pc = "load" /\ Goto("boot")
  /\ attempts' = Append(attempts, loading)
  /\ pages' = pages \ {loading}
  /\ loading' = 0
  /\ UNCHANGED <<cmdline_gui, fileVars, installed, device, hookVars>>

\* Mutant: the pages are not freed.
LoadFails_Leak ==
  /\ pc = "load" /\ Goto("boot")
  /\ attempts' = Append(attempts, loading)
  /\ files' = [files EXCEPT ![loading].filename = files[loading].name]
  /\ loading' = 0
  /\ UNCHANGED <<cmdline_gui, given, wim_has, dir, paths, bootarch, bootmgfw, bootmgfw_ex, wim,
                 pages, installed, device, hookVars>>

LoadFails ==
  /\ pc = "load" /\ Goto("boot")
  /\ attempts' = Append(attempts, loading)
  /\ pages' = pages \ {loading}
  /\ files' = [files EXCEPT ![loading].filename = files[loading].name]
  /\ loading' = 0
  /\ UNCHANGED <<cmdline_gui, given, wim_has, dir, paths, bootarch, bootmgfw, bootmgfw_ex, wim,
                 installed, device, hookVars>>

NothingLoaded ==
  /\ pc = "boot" /\ NextLoader = 0 /\ Goto("dead")
  /\ UNCHANGED <<cmdline_gui, fileVars, loadVars, hookVars>>

----------------------------------------------------------------------------
(* efi_boot, when an image is loaded *)

ForceDevice ==
  /\ pc = "loaded" /\ Goto("save") /\ device' = "vpartition"
  /\ UNCHANGED <<cmdline_gui, fileVars, loading, attempts, pages, installed, hookVars>>

\* The step at a label that assigns one of the two pointers.
SetTable(label, next) ==
  /\ pc = label /\ Goto(next) /\ OpenProtocol' = "wrapper"
  /\ UNCHANGED <<cmdline_gui, fileVars, loadVars, orig_open_protocol, blocked, unmarked,
                 refusals, granted>>

SaveOriginal(label, next) ==
  /\ pc = label /\ Goto(next) /\ orig_open_protocol' = "firmware"
  /\ UNCHANGED <<cmdline_gui, fileVars, loadVars, OpenProtocol, blocked, unmarked, refusals,
                 granted>>

\* Mutant: the table is changed first.
Hook_TableFirst == SetTable("save", "hook") \/ SaveOriginal("hook", "start")

Hook == SaveOriginal("save", "hook") \/ SetTable("hook", "start")

StartImage ==
  /\ pc = "start" /\ Goto("running")
  /\ UNCHANGED <<cmdline_gui, fileVars, loadVars, hookVars>>

\* StartImage fails or returns.
ImageReturns == Die({"start", "running"})

\* The calls that end in die ( ) when they fail.
FirmwareFails ==
  Die({"open_root", "read_root", "install_disk", "install_partition", "load", "loaded"})

----------------------------------------------------------------------------
(* Opening a graphics output protocol through the table of boot services *)

Grant(agent, h) == granted' = granted \union {<<agent, h>>} /\ UNCHANGED refusals
Refuse(h) == refusals' = [refusals EXCEPT ![h] = @ + 1] /\ UNCHANGED granted

\* Mutant: the dummy protocol is not looked at.
efi_open_protocol_wrapper_Always(agent, h) ==
  /\ UNCHANGED <<blocked, unmarked>>
  /\ IF cmdline_gui THEN Grant(agent, h) ELSE Refuse(h)

\* Installing the dummy protocol fails if the handle has it, or for want of memory.
efi_open_protocol_wrapper(agent, h) ==
  \/ /\ h \notin blocked
     /\ blocked' = blocked \union {h}
     /\ IF cmdline_gui THEN Grant(agent, h) ELSE Refuse(h)
     /\ UNCHANGED unmarked
  \/ /\ unmarked' = IF h \in blocked THEN unmarked ELSE unmarked \union {h}
     /\ Grant(agent, h)
     /\ UNCHANGED blocked

OpenGop(agent, h) ==
  /\ refusals[h] < MaxRefusals
  /\ \/ OpenProtocol = "firmware" /\ Grant(agent, h) /\ UNCHANGED <<blocked, unmarked>>
     \/ OpenProtocol = "wrapper" /\ efi_open_protocol_wrapper(agent, h)
  /\ UNCHANGED <<cmdline_gui, pc, fileVars, loadVars, OpenProtocol, orig_open_protocol>>

FirmwareEvent == pc # "dead" /\ \E h \in Gops : OpenGop("event", h)

ManagerOpens(h) == pc = "running" /\ OpenGop("manager", h)

----------------------------------------------------------------------------
(* The specification *)

efi_main ==
  \/ OpenRoot \/ IgnoreSubdirectory \/ AddFile \/ UseBootarch \/ ExtractLoaders \/ PatchWim
  \/ AddWimFile \/ CheckLoader \/ efi_install \/ LoadBegin \/ LoadSucceeds \/ LoadFails \/ NothingLoaded
  \/ ForceDevice \/ Hook \/ StartImage

Next ==
  \/ efi_main \/ FirmwareFails \/ ImageReturns \/ FirmwareEvent
  \/ \E h \in Gops : ManagerOpens(h)

\* wimboot is not suspended, and a boot manager that is refused tries again.
Spec == Init /\ [][Next]_vars /\ WF_vars(efi_main) /\ \A h \in Gops : WF_vars(ManagerOpens(h))

----------------------------------------------------------------------------
(* Properties *)

\* The boot managers in the order of precedence: only a given boot<arch>.efi, or else the
\* given ones, or else those of the WIM; bootmgfw_EX.efi before bootmgfw.efi.
GivenNames == {given[i].name : i \in {j \in DOMAIN given : ~given[j].subdir}}
Order(names) == Offered("bootmgfw_EX.efi", names) \o Offered("bootmgfw.efi", names)
Candidates ==
  IF BOOTARCH \in GivenNames THEN <<BOOTARCH>>
  ELSE IF Order(GivenNames) # <<>> THEN Order(GivenNames)
  ELSE IF "boot.wim" \in GivenNames THEN Order(wim_has) ELSE <<>>

Tried == [i \in DOMAIN attempts |-> files[attempts[i]].name]

\* Boot managers are tried in the order of precedence, each once, and the machine stops
\* for want of one only when all have been refused.
LoadedByPrecedence ==
  /\ Len(Tried) <= Len(Candidates) /\ Tried = SubSeq(Candidates, 1, Len(Tried))
  /\ pc = "boot" /\ NextLoader = 0 => Tried = Candidates

\* From the moment an image is loaded, it is the only file that has the name under which
\* firmware and boot manager look for the boot loader, even if another one was tried
\* before, and every other file has its own name.
OnlyImageRenamed ==
  pc \in {"load", "loaded", "save", "hook", "start", "running"} =>
    /\ {i \in DOMAIN files : files[i].filename = BOOTARCH} = {loading}
    /\ \A i \in DOMAIN files : i # loading => files[i].filename = files[i].name

\* Memory is held for the image that runs and for no other: what a refused image took has
\* been given back.
PagesForImage ==
  /\ pages \subseteq {loading}
  /\ pc = "running" => pages = {loading} /\ installed = {"vdisk", "vpartition"}

\* No call through the table of boot services ever meets a hook that does not know the
\* original function, whenever it comes.
HookComplete == OpenProtocol = "wrapper" => orig_open_protocol = "firmware"

\* A handle is refused at most once, and never with gui; the boot manager is refused first
\* unless a firmware event was, or the handle could not be marked.
BlockedOnce ==
  \A h \in Gops :
    /\ refusals[h] <= 1
    /\ cmdline_gui => refusals[h] = 0
    /\ <<"manager", h>> \in granted /\ ~cmdline_gui /\ h \notin unmarked => refusals[h] = 1

\* A boot manager that keeps trying opens every graphics output, or ends ("we must allow
\* subsequent attempts to succeed, otherwise the OS will fail to boot").
RetrySucceeds ==
  \A h \in Gops : (pc = "running") ~> (<<"manager", h>> \in granted \/ pc = "dead")
=============================================================================
