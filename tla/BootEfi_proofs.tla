--------------------------- MODULE BootEfi_proofs ---------------------------
(***************************************************************************)
(* Proofs about the UEFI boot flow, for every root directory, every WIM and *)
(* every set of graphics outputs.  The invariant has four parts, one for    *)
(* each concern: where the program is, the virtual files and the pointers   *)
(* into them, the attempts to load a boot manager, and the hook.            *)
(***************************************************************************)
EXTENDS BootEfi, SequenceTheorems, TLAPS

Loading == {"load", "loaded", "save", "hook", "start", "running"}
Reading == {"open_root", "read_root"}
Chosen  == {"wim", "wim_files", "install_disk", "install_partition", "boot"} \union Loading
Labels  == Reading \union {"extract", "dead"} \union Chosen

----------------------------------------------------------------------------
(* The hook *)

\* The original is saved before the table changes, and the table is changed before the
\* image starts.
HookInv ==
  /\ OpenProtocol \in {"firmware", "wrapper"}
  /\ OpenProtocol = "wrapper" \/ pc = "hook" => orig_open_protocol = "firmware"
  /\ pc \in {"start", "running"} => OpenProtocol = "wrapper"

\* A handle is refused when it is marked, and only then.
BlockInv ==
  /\ cmdline_gui \in BOOLEAN
  /\ refusals = [h \in Gops |-> IF h \in blocked /\ ~cmdline_gui THEN 1 ELSE 0]
  /\ \A h \in Gops :
       <<"manager", h>> \in granted /\ ~cmdline_gui => h \in blocked \/ h \in unmarked

\* The steps that do not open a protocol leave the marks alone.
LEMMA HookVarsKept ==
  ASSUME [Next]_vars, ~FirmwareEvent, ~\E h \in Gops : ManagerOpens(h)
  PROVE  UNCHANGED <<cmdline_gui, blocked, unmarked, refusals, granted>>
BY DEF Next, vars, hookVars, efi_main, OpenRoot, IgnoreSubdirectory, AddFile, UseBootarch,
       ExtractLoaders, PatchWim, AddWimFile, CheckLoader, efi_install, Install, LoadBegin,
       LoadSucceeds, LoadFails, NothingLoaded, ForceDevice, Hook, SaveOriginal, SetTable,
       StartImage, FirmwareFails, ImageReturns, Die

\* A protocol is opened.
LEMMA OpenGopStep ==
  ASSUME HookInv, BlockInv, NEW agent, NEW h \in Gops, OpenGop(agent, h),
         agent = "manager" => OpenProtocol = "wrapper"
  PROVE  BlockInv'
<1>1. cmdline_gui' = cmdline_gui
  BY DEF OpenGop
<1>2. CASE OpenProtocol = "firmware" /\ Grant(agent, h) /\ UNCHANGED <<blocked, unmarked>>
  BY <1>1, <1>2 DEF BlockInv, Grant
<1>3. CASE efi_open_protocol_wrapper(agent, h)
  <2>1. CASE /\ h \notin blocked /\ blocked' = blocked \union {h} /\ unmarked' = unmarked
             /\ cmdline_gui /\ Grant(agent, h)
    BY <1>1, <2>1 DEF BlockInv, Grant
  <2>2. CASE /\ h \notin blocked /\ blocked' = blocked \union {h} /\ unmarked' = unmarked
             /\ ~cmdline_gui /\ Refuse(h)
    <3>1. refusals[h] = 0 /\ refusals' = [refusals EXCEPT ![h] = 1] /\ granted' = granted
      BY <2>2 DEF BlockInv, Refuse
    <3>2. refusals' = [g \in Gops |-> IF g \in blocked' /\ ~cmdline_gui' THEN 1 ELSE 0]
      BY <1>1, <2>2, <3>1 DEF BlockInv
    <3> QED BY <1>1, <2>2, <3>1, <3>2 DEF BlockInv
  <2>3. CASE /\ unmarked' = IF h \in blocked THEN unmarked ELSE unmarked \union {h}
             /\ Grant(agent, h) /\ blocked' = blocked
    BY <1>1, <2>3 DEF BlockInv, Grant
  <2> QED BY <1>3, <2>1, <2>2, <2>3 DEF efi_open_protocol_wrapper
<1> QED BY <1>2, <1>3 DEF OpenGop

LEMMA HookStep ==
  ASSUME HookInv, BlockInv, [Next]_vars
  PROVE  HookInv' /\ BlockInv'
<1>1. CASE FirmwareEvent
  <2>1. PICK h \in Gops : OpenGop("event", h)
    BY <1>1 DEF FirmwareEvent
  <2>2. UNCHANGED <<pc, OpenProtocol, orig_open_protocol>>
    BY <2>1 DEF OpenGop
  <2>3. BlockInv'
    BY <2>1, OpenGopStep
  <2> QED BY <2>2, <2>3 DEF HookInv
<1>2. CASE \E h \in Gops : ManagerOpens(h)
  <2>1. PICK h \in Gops : pc = "running" /\ OpenGop("manager", h)
    BY <1>2 DEF ManagerOpens
  <2>2. UNCHANGED <<pc, OpenProtocol, orig_open_protocol>>
    BY <2>1 DEF OpenGop
  <2>3. BlockInv'
    BY <2>1, OpenGopStep DEF HookInv
  <2> QED BY <2>2, <2>3 DEF HookInv
<1>3. CASE ~FirmwareEvent /\ ~\E h \in Gops : ManagerOpens(h)
  <2>1. BlockInv'
    BY <1>3, HookVarsKept DEF BlockInv
  <2>2. CASE SaveOriginal("save", "hook") \/ SetTable("hook", "start")
    BY <2>1, <2>2 DEF SaveOriginal, SetTable, HookInv, Goto
  <2>3. CASE StartImage
    <3>1. pc = "start" /\ pc' = "running" /\ UNCHANGED <<OpenProtocol, orig_open_protocol>>
      BY <2>3 DEF StartImage, Goto, hookVars
    <3> QED BY <2>1, <3>1 DEF HookInv
  <2>4. CASE UNCHANGED vars
    BY <2>1, <2>4 DEF vars, hookVars, HookInv
  <2>5. CASE \/ FirmwareFails \/ ImageReturns
             \/ efi_main /\ ~Hook /\ ~StartImage
    <3>1. /\ pc' \notin {"hook", "start", "running"} \/ pc' = pc
          /\ UNCHANGED <<OpenProtocol, orig_open_protocol>>
      BY <2>5
      DEF hookVars, efi_main, OpenRoot, IgnoreSubdirectory, AddFile, UseBootarch, ExtractLoaders,
          PatchWim, AddWimFile, CheckLoader, efi_install, Install, LoadBegin, LoadSucceeds,
          LoadFails, NothingLoaded, ForceDevice, FirmwareFails, ImageReturns, Die, Goto
    <3> QED BY <2>1, <3>1 DEF HookInv
  <2> QED BY <1>3, <2>1, <2>2, <2>3, <2>4, <2>5 DEF Next, efi_main, Hook
<1> QED BY <1>1, <1>2, <1>3

LEMMA HookInvariance == Spec => [](HookInv /\ BlockInv)
<1>1. Init => HookInv /\ BlockInv
  BY DEF Init, HookInv, BlockInv
<1>2. HookInv /\ BlockInv /\ [Next]_vars => HookInv' /\ BlockInv'
  BY HookStep
<1> QED BY <1>1, <1>2, PTL DEF Spec

\* efi_boot saves OpenProtocol before it replaces it: no firmware event, and no call of
\* the boot manager, meets the wrapper without the original.
THEOREM HookIsComplete == Spec => []HookComplete
<1>1. HookInv => HookComplete
  BY DEF HookInv, HookComplete
<1> QED BY <1>1, HookInvariance, PTL

\* efi_open_protocol_wrapper refuses each handle at most once, whoever asks and however
\* often; with gui it refuses none; and without gui a boot manager gets no handle that was
\* not refused before, unless the dummy protocol could not be installed on it.
THEOREM HandlesBlockedOnce == Spec => []BlockedOnce
<1>1. BlockInv => BlockedOnce
  <2> SUFFICES ASSUME BlockInv, NEW h \in Gops
               PROVE  /\ refusals[h] <= 1
                      /\ cmdline_gui => refusals[h] = 0
                      /\ <<"manager", h>> \in granted /\ ~cmdline_gui /\ h \notin unmarked
                           => refusals[h] = 1
    BY DEF BlockedOnce
  <2>1. refusals[h] = IF h \in blocked /\ ~cmdline_gui THEN 1 ELSE 0
    BY DEF BlockInv
  <2>2. <<"manager", h>> \in granted /\ ~cmdline_gui => h \in blocked \/ h \in unmarked
    BY DEF BlockInv
  <2> QED BY <2>1, <2>2
<1> QED BY <1>1, HookInvariance, PTL

----------------------------------------------------------------------------
(* The files and the pointers *)

Entries  == [name : FileNames, subdir : BOOLEAN]
Froms    == {"root", "wim"}
Patches  == {"none", "bcd", "wim"}
Records  == [name : FileNames, filename : FileNames, from : Froms, patch : Patches]
Names    == {files[i].name : i \in DOMAIN files}
DirNames == {dir[i].name : i \in {j \in DOMAIN dir : ~dir[j].subdir}}

\* p points to the file that is called n, and is 0 if there is none.
Points(p, n) == \A i \in DOMAIN files : files[i].name = n <=> i = p

FilesInv ==
  /\ pc \in Labels
  /\ given \in Directories /\ files \in Seq(Records) /\ paths \in Seq(FileNames \ {BOOTARCH})
  /\ bootarch \in 0 .. Len(files) /\ wim \in 0 .. Len(files)
  /\ bootmgfw \in 0 .. Len(files) /\ bootmgfw_ex \in 0 .. Len(files)
  /\ Points(bootarch, BOOTARCH)

\* While the directory is read: what was read and what is left of it make up the whole.
ReadInv ==
  pc \in Reading =>
    /\ dir \in Seq(Entries)
    /\ \A i, j \in DOMAIN dir : dir[i].name = dir[j].name => i = j
    /\ \A i \in DOMAIN files, j \in DOMAIN dir : files[i].name # dir[j].name
    /\ GivenNames = Names \union DirNames
    /\ Points(bootmgfw, "bootmgfw.efi") /\ Points(bootmgfw_ex, "bootmgfw_EX.efi")
    /\ Points(wim, "boot.wim")

\* A given boot<arch>.efi has replaced the boot managers.
ArchInv ==
  pc \in {"extract"} \union Chosen /\ bootarch # 0 =>
    bootmgfw = bootarch /\ bootmgfw_ex = 0

\* Before anything is taken from the WIM, the pointers tell what was given.
ExtractInv ==
  pc = "extract" =>
    /\ bootarch # 0 <=> BOOTARCH \in GivenNames
    /\ wim # 0 <=> "boot.wim" \in GivenNames
    /\ bootarch = 0 =>
         /\ bootmgfw # 0 <=> "bootmgfw.efi" \in GivenNames
         /\ bootmgfw_ex # 0 <=> "bootmgfw_EX.efi" \in GivenNames
         /\ bootmgfw # 0 => files[bootmgfw].name = "bootmgfw.efi"
         /\ bootmgfw_ex # 0 => files[bootmgfw_ex].name = "bootmgfw_EX.efi"

\* The image that is being loaded, or is loaded, and what it holds.
LoadInv ==
  /\ loading \in 0 .. Len(files)
  /\ pc \notin Loading \union {"dead"} => loading = 0
  /\ pc \in Loading => loading # 0 /\ loading \in {bootmgfw, bootmgfw_ex}
  /\ \A i \in DOMAIN files :
       files[i].filename = IF i = loading THEN BOOTARCH ELSE files[i].name
  /\ pages = IF loading = 0 THEN {} ELSE {loading}

InstallInv ==
  /\ pc \in {"boot"} \union Loading => installed = {"vdisk", "vpartition"}
  /\ pc = "install_partition" => installed = {"vdisk"}
  /\ pc \in Labels \ ({"boot", "dead", "install_partition"} \union Loading) => installed = {}

\* The boot managers, in the order in which efi_boot tries them.
Pair(a, b, x, y) ==
  IF a = 0 THEN IF b = 0 THEN <<>> ELSE <<y>> ELSE IF b = 0 THEN <<x>> ELSE <<x, y>>

CandidatesInv ==
  pc \in Chosen \/ attempts # <<>> =>
    /\ bootmgfw = bootmgfw_ex => bootmgfw = 0
    /\ Candidates = Pair(bootmgfw_ex, bootmgfw, files[bootmgfw_ex].name, files[bootmgfw].name)

AttemptsInv ==
  /\ pc \notin {"boot", "dead"} \union Loading => attempts = <<>>
  /\ \/ attempts = <<>>
     \/ attempts = <<bootmgfw_ex>> /\ bootmgfw_ex # 0
     \/ attempts = Pair(bootmgfw_ex, bootmgfw, bootmgfw_ex, bootmgfw)
  /\ pc = "load" => loading = NextLoader

IInv ==
  /\ FilesInv /\ ReadInv /\ ArchInv /\ ExtractInv /\ LoadInv /\ InstallInv
  /\ CandidatesInv /\ AttemptsInv

LEMMA InitIInv == Init => IInv
<1> SUFFICES ASSUME Init PROVE IInv
  OBVIOUS
<1>1. /\ pc = "open_root" /\ dir = given /\ files = <<>> /\ paths = <<>>
      /\ bootarch = 0 /\ bootmgfw = 0 /\ bootmgfw_ex = 0 /\ wim = 0 /\ loading = 0
      /\ attempts = <<>> /\ pages = {} /\ installed = {} /\ given \in Directories
  BY DEF Init
<1>2. DOMAIN files = {} /\ Len(files) = 0 /\ files \in Seq(Records)
  BY <1>1
<1>3. FilesInv
  BY <1>1, <1>2 DEF FilesInv, Labels, Reading, Points
<1>4. ReadInv
  <2>1. /\ dir \in Seq(Entries)
        /\ \A i, j \in DOMAIN dir : dir[i].name = dir[j].name => i = j
    BY <1>1, EfiAssumption DEF Entries
  <2>2. GivenNames = DirNames /\ Names = {}
    BY <1>1, <1>2 DEF GivenNames, DirNames, Names
  <2> QED BY <1>2, <2>1, <2>2 DEF ReadInv, Points
<1>5. ArchInv /\ ExtractInv
  BY <1>1 DEF ArchInv, ExtractInv, Chosen, Loading
<1>6. LoadInv /\ InstallInv
  BY <1>1, <1>2 DEF LoadInv, InstallInv, Loading, Labels, Reading, Chosen
<1>7. CandidatesInv /\ AttemptsInv
  BY <1>1 DEF CandidatesInv, AttemptsInv, Chosen, Loading
<1> QED BY <1>3, <1>4, <1>5, <1>6, <1>7 DEF IInv

\* The steps that leave the files and the attempts alone.
QuietPc ==
  \/ pc' \in {pc, "dead"} /\ installed' = installed
  \/ pc = "open_root" /\ pc' = "read_root" /\ installed' = installed
  \/ pc = "wim_files" /\ pc' = "install_disk" /\ installed' = installed
  \/ pc = "install_disk" /\ pc' = "install_partition" /\ installed' = installed \union {"vdisk"}
  \/ pc = "install_partition" /\ pc' = "boot" /\ installed' = installed \union {"vpartition"}
  \/ pc \in Loading \ {"load"} /\ pc' \in Loading \ {"load"} /\ installed' = installed

LEMMA QuietStep ==
  ASSUME IInv, QuietPc, UNCHANGED fileVars, UNCHANGED <<loading, attempts, pages>>
  PROVE  IInv'
<1> USE DEF fileVars, Loading, Reading, Chosen, Labels
<1>1. FilesInv'
  BY DEF IInv, FilesInv, QuietPc, Points
<1>2. ReadInv'
  <2>1. pc' \in Reading => pc \in Reading
    BY DEF QuietPc
  <2>2. /\ GivenNames' = GivenNames /\ Names' = Names /\ DirNames' = DirNames
    BY DEF GivenNames, Names, DirNames
  <2> QED BY <2>1, <2>2 DEF IInv, ReadInv, Points
<1>3. ArchInv'
  BY DEF IInv, ArchInv, QuietPc
<1>4. ExtractInv'
  BY DEF IInv, ExtractInv, QuietPc, GivenNames
<1>5. LoadInv'
  BY DEF IInv, LoadInv, QuietPc
<1>6. InstallInv'
  BY DEF IInv, InstallInv, QuietPc, FilesInv
<1>7. CandidatesInv'
  BY DEF IInv, CandidatesInv, QuietPc, Candidates, GivenNames
<1>8. AttemptsInv'
  BY DEF IInv, AttemptsInv, QuietPc, NextLoader, Untried
<1> QED BY <1>1, <1>2, <1>3, <1>4, <1>5, <1>6, <1>7, <1>8 DEF IInv

\* What is left of a sequence, and its first element.
LEMMA TailOf ==
  ASSUME NEW S, NEW s \in Seq(S), s # <<>>
  PROVE  /\ Tail(s) \in Seq(S) /\ 1 \in DOMAIN s /\ Head(s) = s[1] /\ Head(s) \in S
         /\ \A i \in DOMAIN Tail(s) : i + 1 \in DOMAIN s /\ i + 1 # 1 /\ Tail(s)[i] = s[i + 1]
         /\ \A j \in DOMAIN s :
              j # 1 => j - 1 \in DOMAIN Tail(s) /\ Tail(s)[j - 1] = s[j]
OBVIOUS

\* A sequence and one element more.
LEMMA AppendTo ==
  ASSUME NEW S, NEW s \in Seq(S), NEW e \in S
  PROVE  /\ Append(s, e) \in Seq(S) /\ Len(Append(s, e)) = Len(s) + 1
         /\ DOMAIN Append(s, e) = DOMAIN s \union {Len(s) + 1}
         /\ Len(s) \in Nat /\ DOMAIN s = 1 .. Len(s) /\ Len(s) + 1 \notin DOMAIN s
         /\ \A i \in DOMAIN s : Append(s, e)[i] = s[i]
         /\ Append(s, e)[Len(s) + 1] = e
OBVIOUS

\* What the next entry of the directory takes from the names that are left.
LEMMA NextEntry ==
  ASSUME ReadInv, pc = "read_root", dir # <<>>, dir' = Tail(dir)
  PROVE  /\ dir' \in Seq(Entries) /\ Head(dir) \in Entries
         /\ \A i, j \in DOMAIN dir' : dir'[i].name = dir'[j].name => i = j
         /\ \A i \in DOMAIN files, j \in DOMAIN dir' : files[i].name # dir'[j].name
         /\ \A i \in DOMAIN files : files[i].name # Head(dir).name
         /\ \A j \in DOMAIN dir' : Head(dir).name # dir'[j].name
         /\ DirNames = DirNames' \union (IF Head(dir).subdir THEN {} ELSE {Head(dir).name})
<1>1. /\ dir \in Seq(Entries)
      /\ \A i, j \in DOMAIN dir : dir[i].name = dir[j].name => i = j
      /\ \A i \in DOMAIN files, j \in DOMAIN dir : files[i].name # dir[j].name
  BY DEF ReadInv, Reading
<1>2. /\ dir' \in Seq(Entries) /\ 1 \in DOMAIN dir /\ Head(dir) = dir[1]
      /\ Head(dir) \in Entries
      /\ \A i \in DOMAIN dir' : i + 1 \in DOMAIN dir /\ i + 1 # 1 /\ dir'[i] = dir[i + 1]
      /\ \A j \in DOMAIN dir : j # 1 => j - 1 \in DOMAIN dir' /\ dir'[j - 1] = dir[j]
  BY <1>1, TailOf, Zenon
<1>3. \A i, j \in DOMAIN dir' : dir'[i].name = dir'[j].name => i = j
  <2>1. ASSUME NEW i \in DOMAIN dir', NEW j \in DOMAIN dir', dir'[i].name = dir'[j].name
        PROVE  i = j
    <3>1. i + 1 = j + 1
      BY <1>1, <1>2, <2>1
    <3>2. i \in Nat /\ j \in Nat
      BY <1>2
    <3> QED BY <3>1, <3>2
  <2> QED BY <2>1
<1>4. DirNames = DirNames' \union (IF Head(dir).subdir THEN {} ELSE {Head(dir).name})
  <2>1. ASSUME NEW n \in DirNames
        PROVE  n \in DirNames' \union (IF Head(dir).subdir THEN {} ELSE {Head(dir).name})
    <3>1. PICK j \in DOMAIN dir : ~dir[j].subdir /\ n = dir[j].name
      BY DEF DirNames
    <3>2. CASE j = 1
      BY <1>2, <3>1, <3>2
    <3>3. CASE j # 1
      <4> DEFINE i == j - 1
      <4>1. i \in DOMAIN dir' /\ ~dir'[i].subdir /\ n = dir'[i].name
        BY <1>2, <3>1, <3>3
      <4> HIDE DEF i
      <4>2. n \in DirNames'
        BY <4>1 DEF DirNames
      <4> QED BY <4>2
    <3> QED BY <3>2, <3>3
  <2>2. ASSUME NEW n \in DirNames' PROVE n \in DirNames
    <3>1. PICK i \in DOMAIN dir' : ~dir'[i].subdir /\ n = dir'[i].name
      BY DEF DirNames
    <3> QED BY <1>2, <3>1 DEF DirNames
  <2>3. ~Head(dir).subdir => Head(dir).name \in DirNames
    BY <1>2 DEF DirNames
  <2> QED BY <2>1, <2>2, <2>3
<1> QED BY <1>1, <1>2, <1>3, <1>4

LEMMA IgnoreSubdirectoryStep ==
  ASSUME IInv, IgnoreSubdirectory
  PROVE  IInv'
<1> USE DEF Loading, Reading, Chosen, Labels
<1>1. /\ pc = "read_root" /\ pc' = pc /\ dir # <<>> /\ Head(dir).subdir /\ dir' = Tail(dir)
      /\ UNCHANGED <<given, wim_has, paths, files, bootarch, bootmgfw, bootmgfw_ex, wim,
                     loading, attempts, pages, installed>>
  BY DEF IgnoreSubdirectory, loadVars
<1>2. FilesInv'
  BY <1>1 DEF IInv, FilesInv, Points
<1>3. ReadInv'
  <2>1. GivenNames' = GivenNames /\ Names' = Names /\ GivenNames = Names \union DirNames
    BY <1>1 DEF IInv, ReadInv, GivenNames, Names
  <2>2. /\ dir' \in Seq(Entries) /\ DirNames = DirNames'
        /\ \A i, j \in DOMAIN dir' : dir'[i].name = dir'[j].name => i = j
        /\ \A i \in DOMAIN files, j \in DOMAIN dir' : files[i].name # dir'[j].name
    BY <1>1, NextEntry DEF IInv
  <2> QED BY <1>1, <2>1, <2>2 DEF IInv, ReadInv, Points
<1>4. ArchInv' /\ ExtractInv' /\ LoadInv' /\ InstallInv'
  BY <1>1 DEF IInv, ArchInv, ExtractInv, LoadInv, InstallInv
<1>5. CandidatesInv' /\ AttemptsInv'
  BY <1>1 DEF IInv, CandidatesInv, AttemptsInv
<1> QED BY <1>2, <1>3, <1>4, <1>5 DEF IInv

\* A file that is appended has its own name, and leaves the others as they are.
LEMMA FileAppended ==
  ASSUME FilesInv, LoadInv, loading = 0, loading' = 0, NEW n \in FileNames,
         NEW from \in Froms, NEW patch \in Patches, files' = Append(files, File(n, from, patch))
  PROVE  /\ files' \in Seq(Records) /\ Len(files) \in Nat /\ Len(files') = Len(files) + 1
         /\ DOMAIN files' = DOMAIN files \union {Len(files) + 1}
         /\ Len(files) + 1 \notin DOMAIN files /\ DOMAIN files = 1 .. Len(files)
         /\ \A i \in DOMAIN files : files'[i] = files[i]
         /\ files'[Len(files) + 1].name = n
         /\ \A i \in DOMAIN files' :
              files'[i].filename = IF i = loading' THEN BOOTARCH ELSE files'[i].name
         /\ Names' = Names \union {n}
<1> DEFINE e == File(n, from, patch)
<1>1. e \in Records /\ e.name = n /\ e.filename = n
  BY DEF File, Records
<1>2. /\ files' \in Seq(Records) /\ Len(files') = Len(files) + 1
      /\ DOMAIN files' = DOMAIN files \union {Len(files) + 1}
      /\ Len(files) \in Nat /\ DOMAIN files = 1 .. Len(files) /\ Len(files) + 1 \notin DOMAIN files
      /\ \A i \in DOMAIN files : files'[i] = files[i]
      /\ files'[Len(files) + 1] = e
  <2> HIDE DEF e
  <2>1. files \in Seq(Records) /\ files' = Append(files, e)
    BY DEF FilesInv, e
  <2>2. Append(files, e) = files'
    BY <2>1
  <2> QED BY <1>1, <2>1, <2>2, AppendTo
<1> HIDE DEF e
<1>3. \A i \in DOMAIN files' : i # 0
  BY <1>2
<1>4. \A i \in DOMAIN files' :
        files'[i].filename = IF i = loading' THEN BOOTARCH ELSE files'[i].name
  BY <1>1, <1>2, <1>3 DEF LoadInv
<1>5. Names' = Names \union {n}
  BY <1>1, <1>2 DEF Names
<1> QED BY <1>1, <1>2, <1>4, <1>5

\* A pointer to the file called m, after a file called n was appended.
LEMMA PointsAppended ==
  ASSUME NEW p, NEW q, NEW m, NEW n, p \in 0 .. Len(files), Points(p, m), Len(files) \in Nat,
         DOMAIN files = 1 .. Len(files), DOMAIN files' = DOMAIN files \union {Len(files) + 1},
         \A i \in DOMAIN files : files'[i] = files[i],
         files'[Len(files) + 1].name = n,
         n = m => \A i \in DOMAIN files : files[i].name # m,
         q = IF n = m THEN Len(files) + 1 ELSE p
  PROVE  /\ q \in 0 .. Len(files) + 1
         /\ \A i \in DOMAIN files' : files'[i].name = m <=> i = q
BY DEF Points

LEMMA AddFileStep ==
  ASSUME IInv, AddFile
  PROVE  IInv'
<1> USE DEF Loading, Reading, Chosen, Labels
<1> DEFINE name == Head(dir).name
           this == Len(files) + 1
           patch == IF name = "BCD" THEN "bcd" ELSE "none"
<1>1. /\ pc = "read_root" /\ pc' = pc /\ dir # <<>> /\ ~Head(dir).subdir /\ dir' = Tail(dir)
      /\ files' = Append(files, File(name, "root", patch))
      /\ bootarch' = IF name = BOOTARCH THEN this ELSE bootarch
      /\ bootmgfw' = IF name = "bootmgfw.efi" THEN this ELSE bootmgfw
      /\ bootmgfw_ex' = IF name = "bootmgfw_EX.efi" THEN this ELSE bootmgfw_ex
      /\ wim' = IF name = "boot.wim" THEN this ELSE wim
      /\ UNCHANGED <<given, wim_has, paths, loading, attempts, pages, installed>>
  BY DEF AddFile, loadVars
<1>2. /\ dir' \in Seq(Entries) /\ name \in FileNames
      /\ \A i, j \in DOMAIN dir' : dir'[i].name = dir'[j].name => i = j
      /\ \A i \in DOMAIN files, j \in DOMAIN dir' : files[i].name # dir'[j].name
      /\ \A i \in DOMAIN files : files[i].name # name
      /\ \A j \in DOMAIN dir' : name # dir'[j].name
      /\ DirNames = DirNames' \union {name}
  <2>1. Head(dir) \in Entries
    BY <1>1, NextEntry DEF IInv
  <2> QED BY <1>1, <2>1, NextEntry DEF IInv, Entries
<1>3. /\ patch \in Patches /\ "root" \in Froms /\ loading = 0 /\ loading' = 0
      /\ FilesInv /\ LoadInv
  <2>1. FilesInv /\ LoadInv
    BY DEF IInv
  <2>2. loading = 0 /\ loading' = 0
    BY <1>1, <2>1 DEF LoadInv
  <2>3. patch \in Patches /\ "root" \in Froms
    BY DEF Patches, Froms
  <2> QED BY <2>1, <2>2, <2>3
<1> HIDE DEF patch, name
<1>4. /\ files' \in Seq(Records) /\ Len(files) \in Nat /\ Len(files') = Len(files) + 1
      /\ DOMAIN files' = DOMAIN files \union {Len(files) + 1}
      /\ DOMAIN files = 1 .. Len(files)
      /\ \A i \in DOMAIN files : files'[i] = files[i]
      /\ files'[Len(files) + 1].name = name
      /\ \A i \in DOMAIN files' :
           files'[i].filename = IF i = loading' THEN BOOTARCH ELSE files'[i].name
      /\ Names' = Names \union {name}
  <2>1. name \in FileNames /\ files' = Append(files, File(name, "root", patch))
    BY <1>1, <1>2
  <2> QED BY <1>3, <2>1, FileAppended
<1>5. /\ bootarch \in 0 .. Len(files) /\ Points(bootarch, BOOTARCH)
      /\ bootmgfw \in 0 .. Len(files) /\ Points(bootmgfw, "bootmgfw.efi")
      /\ bootmgfw_ex \in 0 .. Len(files) /\ Points(bootmgfw_ex, "bootmgfw_EX.efi")
      /\ wim \in 0 .. Len(files) /\ Points(wim, "boot.wim")
  BY <1>1 DEF IInv, FilesInv, ReadInv
<1>6. bootarch' \in 0 .. Len(files') /\ Points(bootarch, BOOTARCH)'
  <2>1. name = BOOTARCH => \A i \in DOMAIN files : files[i].name # BOOTARCH
    BY <1>2
  <2>2. /\ bootarch' \in 0 .. Len(files) + 1
        /\ \A i \in DOMAIN files' : files'[i].name = BOOTARCH <=> i = bootarch'
    BY <1>1, <1>4, <1>5, <2>1, PointsAppended, SMTT(30)
  <2> QED BY <1>4, <2>2 DEF Points
<1>7. bootmgfw' \in 0 .. Len(files') /\ Points(bootmgfw, "bootmgfw.efi")'
  BY <1>1, <1>2, <1>4, <1>5, PointsAppended DEF Points
<1>8. bootmgfw_ex' \in 0 .. Len(files') /\ Points(bootmgfw_ex, "bootmgfw_EX.efi")'
  BY <1>1, <1>2, <1>4, <1>5, PointsAppended DEF Points
<1>9. wim' \in 0 .. Len(files') /\ Points(wim, "boot.wim")'
  BY <1>1, <1>2, <1>4, <1>5, PointsAppended DEF Points
<1>10. FilesInv'
  BY <1>1, <1>3, <1>4, <1>6, <1>7, <1>8, <1>9 DEF FilesInv
<1>11. ReadInv'
  <2>1. GivenNames' = GivenNames /\ GivenNames = Names \union DirNames
    BY <1>1 DEF IInv, ReadInv, GivenNames
  <2>2. GivenNames' = Names' \union DirNames'
    BY <1>2, <1>4, <2>1
  <2>3. \A i \in DOMAIN files', j \in DOMAIN dir' : files'[i].name # dir'[j].name
    BY <1>2, <1>4
  <2> QED BY <1>2, <1>7, <1>8, <1>9, <2>2, <2>3 DEF ReadInv
<1>12. ArchInv' /\ ExtractInv' /\ InstallInv'
  BY <1>1 DEF IInv, ArchInv, ExtractInv, InstallInv
<1>13. LoadInv'
  BY <1>1, <1>3, <1>4 DEF LoadInv
<1>14. CandidatesInv' /\ AttemptsInv'
  BY <1>1 DEF IInv, CandidatesInv, AttemptsInv
<1> QED BY <1>10, <1>11, <1>12, <1>13, <1>14 DEF IInv

LEMMA UseBootarchStep ==
  ASSUME IInv, UseBootarch
  PROVE  IInv'
<1> USE DEF Loading, Reading, Chosen, Labels
<1>1. /\ pc = "read_root" /\ pc' = "extract" /\ dir = <<>>
      /\ bootmgfw' = IF bootarch # 0 THEN bootarch ELSE bootmgfw
      /\ bootmgfw_ex' = IF bootarch # 0 THEN 0 ELSE bootmgfw_ex
      /\ UNCHANGED <<given, wim_has, paths, files, bootarch, wim, loading, attempts, pages,
                     installed>>
  BY DEF UseBootarch, loadVars, Goto
<1>2. /\ files \in Seq(Records) /\ DOMAIN files = 1 .. Len(files) /\ Len(files) \in Nat
      /\ bootarch \in 0 .. Len(files) /\ Points(bootarch, BOOTARCH)
      /\ bootmgfw \in 0 .. Len(files) /\ Points(bootmgfw, "bootmgfw.efi")
      /\ bootmgfw_ex \in 0 .. Len(files) /\ Points(bootmgfw_ex, "bootmgfw_EX.efi")
      /\ wim \in 0 .. Len(files) /\ Points(wim, "boot.wim")
  BY <1>1 DEF IInv, FilesInv, ReadInv
<1>3. FilesInv'
  BY <1>1, <1>2 DEF IInv, FilesInv, Points
<1>4. ExtractInv'
  <2>1. GivenNames' = Names
    <3>1. GivenNames' = GivenNames /\ GivenNames = Names \union DirNames
      BY <1>1 DEF IInv, ReadInv, GivenNames
    <3>2. DirNames = {}
      BY <1>1 DEF DirNames
    <3> QED BY <3>1, <3>2
  <2>2. /\ bootarch # 0 <=> BOOTARCH \in Names
        /\ wim # 0 <=> "boot.wim" \in Names
        /\ bootmgfw # 0 <=> "bootmgfw.efi" \in Names
        /\ bootmgfw_ex # 0 <=> "bootmgfw_EX.efi" \in Names
    BY <1>2 DEF Names, Points
  <2>3. /\ bootmgfw # 0 => files[bootmgfw].name = "bootmgfw.efi"
        /\ bootmgfw_ex # 0 => files[bootmgfw_ex].name = "bootmgfw_EX.efi"
    BY <1>2 DEF Points
  <2> QED BY <1>1, <2>1, <2>2, <2>3 DEF ExtractInv
<1>5. ReadInv' /\ ArchInv'
  BY <1>1 DEF ReadInv, ArchInv
<1>6. LoadInv' /\ InstallInv'
  BY <1>1 DEF IInv, LoadInv, InstallInv
<1>7. CandidatesInv' /\ AttemptsInv'
  BY <1>1 DEF IInv, CandidatesInv, AttemptsInv
<1> QED BY <1>3, <1>4, <1>5, <1>6, <1>7 DEF IInv

\* Sequences of at most one element, one after the other.
LEMMA ShortSequences ==
  ASSUME NEW S, NEW x \in S, NEW y \in S
  PROVE  /\ <<>> \o <<>> = <<>> /\ <<x>> \o <<>> = <<x>>
         /\ <<>> \o <<y>> = <<y>> /\ <<x>> \o <<y>> = <<x, y>>
         /\ <<>> \in Seq(S) /\ <<x>> \in Seq(S) /\ <<y>> \in Seq(S) /\ <<x, y>> \in Seq(S)
<1>1. /\ <<>> \in Seq(S) /\ <<x>> \in Seq(S) /\ <<y>> \in Seq(S) /\ <<x, y>> \in Seq(S)
      /\ Len(<<x>>) = 1 /\ Len(<<y>>) = 1 /\ Len(<<x, y>>) = 2
      /\ <<x>>[1] = x /\ <<y>>[1] = y /\ <<x, y>>[1] = x /\ <<x, y>>[2] = y
  OBVIOUS
<1>2. /\ <<>> \o <<>> = <<>> /\ <<x>> \o <<>> = <<x>> /\ <<>> \o <<y>> = <<y>>
  BY <1>1, ConcatEmptySeq
<1>3. <<x>> \o <<y>> = <<x, y>>
  <2> DEFINE s == <<x>>
             t == <<y>>
             u == <<x, y>>
  <2>1. /\ s \in Seq(S) /\ t \in Seq(S) /\ u \in Seq(S)
        /\ Len(s) = 1 /\ Len(t) = 1 /\ Len(u) = 2
        /\ s[1] = x /\ t[1] = y /\ u[1] = x /\ u[2] = y
    BY <1>1
  <2> HIDE DEF s, t, u
  <2>2. s \o t \in Seq(S) /\ Len(s \o t) = 2 /\ (s \o t)[1] = x /\ (s \o t)[2] = y
    BY <2>1, ConcatProperties
  <2>3. \A i \in 1 .. Len(s \o t) : (s \o t)[i] = u[i]
    <3>1. \A i \in 1 .. 2 : i = 1 \/ i = 2
      OBVIOUS
    <3> QED BY <2>1, <2>2, <3>1
  <2>4. s \o t = u
    BY <2>1, <2>2, <2>3, SeqEqual
  <2> QED BY <2>4 DEF s, t, u
<1> QED BY <1>1, <1>2, <1>3

LEMMA AppendShort ==
  ASSUME NEW S, NEW x \in S, NEW y \in S
  PROVE  Append(<<x>>, y) = <<x, y>> /\ Append(<<>>, x) = <<x>> /\ Append(<<>>, y) = <<y>>
<1> DEFINE s == <<x>>
           t == <<x, y>>
<1>1. s \in Seq(S) /\ t \in Seq(S) /\ Len(s) = 1 /\ s[1] = x /\ Len(t) = 2 /\ t[1] = x /\ t[2] = y
  OBVIOUS
<1> HIDE DEF s, t
<1>2. Append(s, y) \in Seq(S) /\ Len(Append(s, y)) = 2 /\ Append(s, y)[1] = x /\ Append(s, y)[2] = y
  BY <1>1, SMTT(30)
<1>3. \A i \in 1 .. Len(Append(s, y)) : Append(s, y)[i] = t[i]
  <2>1. \A i \in 1 .. 2 : i = 1 \/ i = 2
    OBVIOUS
  <2> QED BY <1>1, <1>2, <2>1
<1>4. Append(s, y) = t
  BY <1>1, <1>2, <1>3, SeqEqual
<1> QED BY <1>4 DEF s, t

LEMMA Ordered ==
  ASSUME NEW N
  PROVE  Order(N) = IF "bootmgfw_EX.efi" \in N
                    THEN IF "bootmgfw.efi" \in N THEN <<"bootmgfw_EX.efi", "bootmgfw.efi">>
                         ELSE <<"bootmgfw_EX.efi">>
                    ELSE IF "bootmgfw.efi" \in N THEN <<"bootmgfw.efi">> ELSE <<>>
<1> DEFINE x == "bootmgfw_EX.efi"
           y == "bootmgfw.efi"
<1>1. x \in FileNames /\ y \in FileNames
  BY EfiAssumption
<1>2. Order(N) = (IF x \in N THEN <<x>> ELSE <<>>) \o (IF y \in N THEN <<y>> ELSE <<>>)
  BY DEF Order, Offered
<1> HIDE DEF x, y
<1>3. /\ <<>> \o <<>> = <<>> /\ <<x>> \o <<>> = <<x>>
      /\ <<>> \o <<y>> = <<y>> /\ <<x>> \o <<y>> = <<x, y>>
  BY <1>1, ShortSequences
<1>4. Order(N) = IF x \in N THEN IF y \in N THEN <<x, y>> ELSE <<x>>
                 ELSE IF y \in N THEN <<y>> ELSE <<>>
  <2>1. CASE x \in N /\ y \in N
    BY <1>2, <1>3, <2>1, Zenon
  <2>2. CASE x \in N /\ y \notin N
    BY <1>2, <1>3, <2>2, Zenon
  <2>3. CASE x \notin N /\ y \in N
    BY <1>2, <1>3, <2>3, Zenon
  <2>4. CASE x \notin N /\ y \notin N
    BY <1>2, <1>3, <2>4, Zenon
  <2> QED BY <2>1, <2>2, <2>3, <2>4
<1> QED BY <1>4 DEF x, y

\* Files from the WIM are appended.
LEMMA WimFilesAppended ==
  ASSUME FilesInv, LoadInv, loading = 0, loading' = 0, NEW names \in Seq(FileNames),
         files' = files \o [i \in DOMAIN names |-> WimFile(names[i])]
  PROVE  /\ files' \in Seq(Records) /\ Len(files) \in Nat /\ Len(names) \in Nat
         /\ Len(files') = Len(files) + Len(names)
         /\ DOMAIN files = 1 .. Len(files) /\ DOMAIN files' = 1 .. Len(files')
         /\ \A i \in DOMAIN files : files'[i] = files[i]
         /\ \A i \in 1 .. Len(names) : files'[Len(files) + i].name = names[i]
         /\ \A i \in DOMAIN files' :
              files'[i].filename = IF i = loading' THEN BOOTARCH ELSE files'[i].name
<1> DEFINE t == [i \in DOMAIN names |-> WimFile(names[i])]
<1>1. \A n \in FileNames : /\ WimFile(n) \in Records
                           /\ WimFile(n).name = n /\ WimFile(n).filename = n
  BY DEF WimFile, File, Records, Froms, Patches
<1>2. /\ files \in Seq(Records) /\ DOMAIN names = 1 .. Len(names) /\ Len(names) \in Nat
      /\ \A i \in 1 .. Len(names) : names[i] \in FileNames
  BY DEF FilesInv
<1>3. t \in Seq(Records) /\ Len(t) = Len(names)
  <2>1. \A i \in 1 .. Len(names) : t[i] \in Records
    BY <1>1, <1>2
  <2>2. t = [i \in 1 .. Len(names) |-> t[i]]
    BY <1>2
  <2> HIDE DEF t
  <2> QED BY <1>2, <2>1, <2>2
<1>4. \A i \in 1 .. Len(names) : t[i].name = names[i] /\ t[i].filename = names[i]
  BY <1>1, <1>2
<1> HIDE DEF t
<1>5. /\ files' \in Seq(Records) /\ Len(files') = Len(files) + Len(t)
      /\ \A i \in 1 .. Len(files) + Len(t) :
           files'[i] = IF i <= Len(files) THEN files[i] ELSE t[i - Len(files)]
  BY <1>2, <1>3, ConcatProperties DEF t
<1>6. /\ Len(files) \in Nat /\ DOMAIN files = 1 .. Len(files) /\ DOMAIN files' = 1 .. Len(files')
      /\ Len(files') = Len(files) + Len(names)
  BY <1>2, <1>3, <1>5
<1>7. \A i \in DOMAIN files : files'[i] = files[i]
  BY <1>2, <1>3, <1>5, <1>6
<1>8. ASSUME NEW i \in 1 .. Len(names)
      PROVE  /\ files'[Len(files) + i].name = names[i]
             /\ files'[Len(files) + i].filename = names[i]
  <2>1. /\ Len(files) + i \in 1 .. Len(files) + Len(t) /\ ~(Len(files) + i <= Len(files))
        /\ Len(files) + i - Len(files) = i
    BY <1>2, <1>3, <1>6
  <2>2. files'[Len(files) + i] = t[i]
    BY <1>5, <2>1
  <2> QED BY <1>4, <2>2
<1>9. ASSUME NEW i \in DOMAIN files'
      PROVE  files'[i].filename = IF i = loading' THEN BOOTARCH ELSE files'[i].name
  <2>1. i # loading'
    BY <1>6
  <2>2. CASE i \in DOMAIN files
    BY <1>7, <2>1, <2>2 DEF LoadInv
  <2>3. CASE i \notin DOMAIN files
    <3> DEFINE k == i - Len(files)
    <3>1. k \in 1 .. Len(names) /\ i = Len(files) + k
      BY <1>2, <1>6, <2>3
    <3> HIDE DEF k
    <3> QED BY <1>8, <2>1, <3>1
  <2> QED BY <2>2, <2>3
<1> QED BY <1>2, <1>5, <1>6, <1>7, <1>8, <1>9

\* At most two names that a WIM offers.
LEMMA Offers ==
  ASSUME NEW N, NEW x \in N, NEW y \in N, NEW has
  PROVE  LET first == Offered(x, has)
             names == first \o Offered(y, has)
         IN  /\ names \in Seq(N) /\ Len(first) = IF x \in has THEN 1 ELSE 0
             /\ Len(names) = Len(first) + (IF y \in has THEN 1 ELSE 0)
             /\ x \in has => names[1] = x
             /\ y \in has => names[Len(first) + 1] = y
<1> DEFINE first == Offered(x, has)
           names == first \o Offered(y, has)
<1>1. /\ <<>> \o <<>> = <<>> /\ <<x>> \o <<>> = <<x>>
      /\ <<>> \o <<y>> = <<y>> /\ <<x>> \o <<y>> = <<x, y>>
  BY ShortSequences
<1>2. /\ <<>> \in Seq(N) /\ <<x>> \in Seq(N) /\ <<y>> \in Seq(N) /\ <<x, y>> \in Seq(N)
      /\ Len(<<>>) = 0 /\ Len(<<x>>) = 1 /\ Len(<<y>>) = 1 /\ Len(<<x, y>>) = 2
      /\ <<x>>[1] = x /\ <<y>>[1] = y /\ <<x, y>>[1] = x /\ <<x, y>>[2] = y
  OBVIOUS
<1> HIDE DEF first, names
<1> SUFFICES /\ names \in Seq(N) /\ Len(first) = IF x \in has THEN 1 ELSE 0
             /\ Len(names) = Len(first) + (IF y \in has THEN 1 ELSE 0)
             /\ x \in has => names[1] = x
             /\ y \in has => names[Len(first) + 1] = y
  BY Zenon DEF first, names
<1>3. CASE x \in has /\ y \in has
  <2>1. names = <<x, y>> /\ first = <<x>>
    BY <1>1, <1>3, Zenon DEF Offered, first, names
  <2>2. names \in Seq(N) /\ Len(names) = 2 /\ names[1] = x /\ names[2] = y /\ Len(first) = 1
    BY <1>2, <2>1, Zenon
  <2> QED BY <1>3, <2>2
<1>4. CASE x \in has /\ y \notin has
  <2>1. names = <<x>> /\ first = <<x>>
    BY <1>1, <1>4, Zenon DEF Offered, first, names
  <2>2. names \in Seq(N) /\ Len(names) = 1 /\ names[1] = x /\ Len(first) = 1
    BY <1>2, <2>1, Zenon
  <2> QED BY <1>4, <2>2
<1>5. CASE x \notin has /\ y \in has
  <2>1. names = <<y>> /\ first = <<>>
    BY <1>1, <1>5, Zenon DEF Offered, first, names
  <2>2. names \in Seq(N) /\ Len(names) = 1 /\ names[1] = y /\ Len(first) = 0
    BY <1>2, <2>1, Zenon
  <2> QED BY <1>5, <2>2
<1>6. CASE x \notin has /\ y \notin has
  <2>1. names = <<>> /\ first = <<>>
    BY <1>1, <1>6, Zenon DEF Offered, first, names
  <2>2. names \in Seq(N) /\ Len(names) = 0 /\ Len(first) = 0
    BY <1>2, <2>1, Zenon
  <2> QED BY <1>6, <2>2
<1> QED BY <1>3, <1>4, <1>5, <1>6

\* The names of the boot managers that a WIM offers, in the order of extraction.
LEMMA LoaderNames ==
  ASSUME NEW has, NEW first, first = Offered("bootmgfw.efi", has),
         NEW names, names = first \o Offered("bootmgfw_EX.efi", has)
  PROVE  /\ names \in Seq(FileNames) /\ \A i \in 1 .. Len(names) : names[i] # BOOTARCH
         /\ Len(first) = IF "bootmgfw.efi" \in has THEN 1 ELSE 0
         /\ Len(names) = Len(first) + (IF "bootmgfw_EX.efi" \in has THEN 1 ELSE 0)
         /\ "bootmgfw.efi" \in has => names[1] = "bootmgfw.efi"
         /\ "bootmgfw_EX.efi" \in has => names[Len(first) + 1] = "bootmgfw_EX.efi"
<1> DEFINE N == FileNames \ {BOOTARCH}
<1>1. "bootmgfw.efi" \in N /\ "bootmgfw_EX.efi" \in N
  BY EfiAssumption
<1> HIDE DEF N
<1>2. /\ names \in Seq(N)
      /\ Len(first) = IF "bootmgfw.efi" \in has THEN 1 ELSE 0
      /\ Len(names) = Len(first) + (IF "bootmgfw_EX.efi" \in has THEN 1 ELSE 0)
      /\ "bootmgfw.efi" \in has => names[1] = "bootmgfw.efi"
      /\ "bootmgfw_EX.efi" \in has => names[Len(first) + 1] = "bootmgfw_EX.efi"
  <2> DEFINE x == "bootmgfw.efi"
             y == "bootmgfw_EX.efi"
  <2>1. /\ x \in N /\ y \in N /\ first = Offered(x, has) /\ names = first \o Offered(y, has)
    BY <1>1
  <2> HIDE DEF x, y
  <2>2. /\ names \in Seq(N) /\ Len(first) = IF x \in has THEN 1 ELSE 0
        /\ Len(names) = Len(first) + (IF y \in has THEN 1 ELSE 0)
        /\ x \in has => names[1] = x
        /\ y \in has => names[Len(first) + 1] = y
    <3>1. LET u == Offered(x, has)
              v == u \o Offered(y, has)
          IN  /\ v \in Seq(N) /\ Len(u) = IF x \in has THEN 1 ELSE 0
              /\ Len(v) = Len(u) + (IF y \in has THEN 1 ELSE 0)
              /\ x \in has => v[1] = x
              /\ y \in has => v[Len(u) + 1] = y
      BY <2>1, Offers, Zenon
    <3>2. Offered(x, has) = first /\ first \o Offered(y, has) = names
      BY <2>1, Zenon
    <3> QED BY <3>1, <3>2
  <2> QED BY <2>2 DEF x, y
<1>3. names \in Seq(FileNames) /\ \A i \in 1 .. Len(names) : names[i] # BOOTARCH
  BY <1>2 DEF N
<1> QED BY <1>2, <1>3

LEMMA ExtractLoadersStep ==
  ASSUME IInv, ExtractLoaders
  PROVE  IInv'
<1> USE DEF Loading, Reading, Chosen, Labels
<1> DEFINE none == wim # 0 /\ bootmgfw = 0 /\ bootmgfw_ex = 0
           has == IF none THEN wim_has ELSE {}
           first == Offered("bootmgfw.efi", has)
           names == first \o Offered("bootmgfw_EX.efi", has)
<1>1. /\ pc = "extract" /\ pc' = "wim"
      /\ files' = files \o [i \in DOMAIN names |-> WimFile(names[i])]
      /\ bootmgfw' = IF "bootmgfw.efi" \in has THEN Len(files) + 1 ELSE bootmgfw
      /\ bootmgfw_ex' = IF "bootmgfw_EX.efi" \in has THEN Len(files) + Len(first) + 1
                        ELSE bootmgfw_ex
      /\ UNCHANGED <<given, wim_has, paths, bootarch, wim, loading, attempts, pages, installed>>
  BY DEF ExtractLoaders, Goto, loadVars
<1>2. FilesInv /\ LoadInv /\ ExtractInv /\ ArchInv
  BY DEF IInv
<1>3. loading = 0 /\ loading' = 0 /\ attempts = <<>> /\ installed = {}
  BY <1>1 DEF IInv, LoadInv, AttemptsInv, InstallInv
<1>4. has = IF wim # 0 /\ bootmgfw = 0 /\ bootmgfw_ex = 0 THEN wim_has ELSE {}
  OBVIOUS
<1> HIDE DEF has
<1>5. /\ names \in Seq(FileNames) /\ \A i \in 1 .. Len(names) : names[i] # BOOTARCH
      /\ Len(first) = IF "bootmgfw.efi" \in has THEN 1 ELSE 0
      /\ Len(names) = Len(first) + (IF "bootmgfw_EX.efi" \in has THEN 1 ELSE 0)
      /\ "bootmgfw.efi" \in has => names[1] = "bootmgfw.efi"
      /\ "bootmgfw_EX.efi" \in has => names[Len(first) + 1] = "bootmgfw_EX.efi"
  BY LoaderNames
<1> HIDE DEF first, names
<1>6. /\ files' \in Seq(Records) /\ Len(files) \in Nat /\ Len(names) \in Nat
      /\ Len(files') = Len(files) + Len(names)
      /\ DOMAIN files = 1 .. Len(files) /\ DOMAIN files' = 1 .. Len(files')
      /\ \A i \in DOMAIN files : files'[i] = files[i]
      /\ \A i \in 1 .. Len(names) : files'[Len(files) + i].name = names[i]
      /\ \A i \in DOMAIN files' :
           files'[i].filename = IF i = loading' THEN BOOTARCH ELSE files'[i].name
  BY <1>1, <1>2, <1>3, <1>5, WimFilesAppended
<1>7. /\ bootarch \in 0 .. Len(files) /\ wim \in 0 .. Len(files)
      /\ bootmgfw \in 0 .. Len(files) /\ bootmgfw_ex \in 0 .. Len(files)
      /\ Points(bootarch, BOOTARCH)
      /\ given \in Directories /\ paths \in Seq(FileNames \ {BOOTARCH})
  BY <1>2 DEF FilesInv
<1>8. FilesInv'
  <2>1. Points(bootarch, BOOTARCH)'
    <3>1. ASSUME NEW i \in DOMAIN files' PROVE files'[i].name = BOOTARCH <=> i = bootarch
      <4>1. CASE i \in DOMAIN files
        BY <1>6, <1>7, <4>1 DEF Points
      <4>2. CASE i \notin DOMAIN files
        <5> DEFINE k == i - Len(files)
        <5>1. k \in 1 .. Len(names) /\ i = Len(files) + k /\ i # bootarch
          BY <1>6, <1>7, <4>2
        <5> HIDE DEF k
        <5> QED BY <1>5, <1>6, <5>1
      <4> QED BY <4>1, <4>2
    <3> QED BY <1>1, <3>1 DEF Points
  <2>2. /\ bootmgfw' \in 0 .. Len(files') /\ bootmgfw_ex' \in 0 .. Len(files')
        /\ bootarch' \in 0 .. Len(files') /\ wim' \in 0 .. Len(files')
    BY <1>1, <1>5, <1>6, <1>7
  <2> QED BY <1>1, <1>6, <1>7, <2>1, <2>2 DEF FilesInv
<1>9. ArchInv'
  BY <1>1, <1>2, <1>4, <1>7 DEF ArchInv
<1>10. LoadInv'
  <2>1. pages' = {}
    BY <1>1, <1>2, <1>3 DEF LoadInv
  <2>2. loading' \in 0 .. Len(files')
    BY <1>3, <1>6
  <2>3. pc' \notin Loading
    BY <1>1
  <2>4. \A i \in DOMAIN files' :
          files'[i].filename = IF i = loading' THEN BOOTARCH ELSE files'[i].name
    BY <1>6
  <2> QED BY <1>3, <2>1, <2>2, <2>3, <2>4 DEF LoadInv
<1>11. ReadInv' /\ ExtractInv' /\ InstallInv' /\ AttemptsInv'
  <2>1. ReadInv' /\ ExtractInv'
    BY <1>1 DEF ReadInv, ExtractInv
  <2>2. InstallInv'
    BY <1>1, <1>3 DEF InstallInv
  <2>3. AttemptsInv'
    BY <1>1, <1>3 DEF AttemptsInv
  <2> QED BY <2>1, <2>2, <2>3
<1>12. Candidates' = Candidates
  BY <1>1 DEF Candidates, GivenNames
<1>13. CandidatesInv'
  <2>1. /\ bootarch # 0 <=> BOOTARCH \in GivenNames
        /\ wim # 0 <=> "boot.wim" \in GivenNames
        /\ bootarch # 0 => bootmgfw = bootarch /\ bootmgfw_ex = 0
        /\ bootarch = 0 =>
             /\ bootmgfw # 0 <=> "bootmgfw.efi" \in GivenNames
             /\ bootmgfw_ex # 0 <=> "bootmgfw_EX.efi" \in GivenNames
             /\ bootmgfw # 0 => files[bootmgfw].name = "bootmgfw.efi"
             /\ bootmgfw_ex # 0 => files[bootmgfw_ex].name = "bootmgfw_EX.efi"
    BY <1>1, <1>2 DEF ExtractInv, ArchInv
  <2>2. /\ bootmgfw # 0 => files'[bootmgfw] = files[bootmgfw]
        /\ bootmgfw_ex # 0 => files'[bootmgfw_ex] = files[bootmgfw_ex]
    BY <1>6, <1>7
  <2>3. CASE bootarch # 0
    <3>1. Candidates = <<BOOTARCH>>
      BY <2>1, <2>3 DEF Candidates
    <3>2. bootmgfw' = bootarch /\ bootmgfw_ex' = 0 /\ files'[bootarch].name = BOOTARCH
      BY <1>1, <1>4, <1>6, <1>7, <2>1, <2>3 DEF Points
    <3> QED BY <1>12, <2>3, <3>1, <3>2 DEF CandidatesInv, Pair
  <2>4. CASE bootarch = 0 /\ ~(bootmgfw = 0 /\ bootmgfw_ex = 0)
    <3>1. has = {} /\ bootmgfw' = bootmgfw /\ bootmgfw_ex' = bootmgfw_ex
      BY <1>1, <1>4, <2>4
    <3>2. Order(GivenNames) = IF bootmgfw_ex # 0
                              THEN IF bootmgfw # 0 THEN <<"bootmgfw_EX.efi", "bootmgfw.efi">>
                                   ELSE <<"bootmgfw_EX.efi">>
                              ELSE IF bootmgfw # 0 THEN <<"bootmgfw.efi">> ELSE <<>>
      BY <2>1, <2>4, Ordered
    <3>3. Candidates = Order(GivenNames)
      <4>1. Order(GivenNames) # <<>>
        BY <2>4, <3>2
      <4> QED BY <2>1, <2>4, <4>1 DEF Candidates
    <3> QED BY <1>12, <2>1, <2>2, <2>4, <3>1, <3>2, <3>3 DEF CandidatesInv, Pair
  <2>5. CASE bootarch = 0 /\ bootmgfw = 0 /\ bootmgfw_ex = 0
    <3>1. Order(GivenNames) = <<>>
      BY <2>1, <2>5, Ordered
    <3>2. CASE wim = 0
      <4>1. Candidates = <<>>
        BY <2>1, <2>5, <3>1, <3>2 DEF Candidates
      <4>2. bootmgfw' = 0 /\ bootmgfw_ex' = 0
        BY <1>1, <1>4, <2>5, <3>2
      <4> QED BY <1>12, <4>1, <4>2 DEF CandidatesInv, Pair
    <3>3. CASE wim # 0
      <4>1. Candidates = Order(wim_has) /\ has = wim_has
        BY <1>4, <2>1, <2>5, <3>1, <3>3 DEF Candidates
      <4>2. /\ "bootmgfw.efi" \in has =>
                 bootmgfw' = Len(files) + 1 /\ files'[bootmgfw'].name = "bootmgfw.efi"
            /\ "bootmgfw.efi" \notin has => bootmgfw' = 0
        BY <1>1, <1>5, <1>6, <2>5
      <4>3. /\ "bootmgfw_EX.efi" \in has =>
                 /\ bootmgfw_ex' = Len(files) + Len(first) + 1
                 /\ files'[bootmgfw_ex'].name = "bootmgfw_EX.efi"
            /\ "bootmgfw_EX.efi" \notin has => bootmgfw_ex' = 0
        <5>1. CASE "bootmgfw_EX.efi" \in has
          <6> DEFINE k == Len(first) + 1
          <6>1. k \in 1 .. Len(names) /\ Len(files) + Len(first) + 1 = Len(files) + k
            BY <1>5, <1>6, <5>1
          <6>2. names[k] = "bootmgfw_EX.efi"
            BY <1>5, <5>1
          <6> HIDE DEF k
          <6>3. files'[Len(files) + k].name = "bootmgfw_EX.efi"
            BY <1>6, <6>1, <6>2
          <6> QED BY <1>1, <5>1, <6>1, <6>3
        <5>2. CASE "bootmgfw_EX.efi" \notin has
          BY <1>1, <2>5, <5>2
        <5> QED BY <5>1, <5>2
      <4>4. bootmgfw' = bootmgfw_ex' => bootmgfw' = 0
        BY <1>5, <1>6, <4>2, <4>3
      <4>5. /\ bootmgfw' # 0 <=> "bootmgfw.efi" \in has
            /\ bootmgfw_ex' # 0 <=> "bootmgfw_EX.efi" \in has
        BY <1>5, <1>6, <4>2, <4>3
      <4>6. Candidates' = Pair(bootmgfw_ex', bootmgfw', files'[bootmgfw_ex'].name,
                               files'[bootmgfw'].name)
        BY <1>12, <4>1, <4>2, <4>3, <4>5, Ordered DEF Pair
      <4> QED BY <4>4, <4>6 DEF CandidatesInv
    <3> QED BY <3>2, <3>3
  <2> QED BY <2>3, <2>4, <2>5
<1> QED BY <1>8, <1>9, <1>10, <1>11, <1>13 DEF IInv

\* The parts of the invariant that look at the names of the files only.
LEMMA SameNames ==
  ASSUME IInv, pc \in Chosen, pc' \in Chosen, files' \in Seq(Records), Len(files) <= Len(files'),
         \A i \in DOMAIN files : files'[i].name = files[i].name,
         \A i \in DOMAIN files' : i \notin DOMAIN files => files'[i].name # BOOTARCH,
         UNCHANGED <<given, wim_has, bootarch, bootmgfw, bootmgfw_ex, wim>>,
         paths' \in Seq(FileNames \ {BOOTARCH})
  PROVE  FilesInv' /\ ReadInv' /\ ArchInv' /\ ExtractInv' /\ CandidatesInv'
<1>1. /\ pc \notin Reading /\ pc' \notin Reading /\ pc # "extract" /\ pc' # "extract"
  BY DEF Chosen, Reading, Loading
<1>2. /\ files \in Seq(Records) /\ Len(files) \in Nat /\ Len(files') \in Nat
      /\ DOMAIN files = 1 .. Len(files) /\ DOMAIN files' = 1 .. Len(files')
      /\ bootarch \in 0 .. Len(files) /\ wim \in 0 .. Len(files)
      /\ bootmgfw \in 0 .. Len(files) /\ bootmgfw_ex \in 0 .. Len(files)
      /\ Points(bootarch, BOOTARCH) /\ given \in Directories
  BY DEF IInv, FilesInv
<1>3. Points(bootarch, BOOTARCH)'
  BY <1>2 DEF Points
<1>4. FilesInv'
  BY <1>2, <1>3 DEF FilesInv, Labels
<1>5. ReadInv' /\ ExtractInv'
  BY <1>1 DEF ReadInv, ExtractInv
<1>6. ArchInv'
  BY DEF IInv, ArchInv
<1>7. CandidatesInv'
  <2>1. Candidates' = Candidates
    BY DEF Candidates, GivenNames
  <2>2. /\ bootmgfw = bootmgfw_ex => bootmgfw = 0
        /\ Candidates = Pair(bootmgfw_ex, bootmgfw, files[bootmgfw_ex].name, files[bootmgfw].name)
    BY DEF IInv, CandidatesInv
  <2>3. /\ bootmgfw # 0 => files'[bootmgfw].name = files[bootmgfw].name
        /\ bootmgfw_ex # 0 => files'[bootmgfw_ex].name = files[bootmgfw_ex].name
    BY <1>2
  <2> QED BY <2>1, <2>2, <2>3 DEF CandidatesInv, Pair
<1> QED BY <1>4, <1>5, <1>6, <1>7

\* One record of a sequence is replaced.
LEMMA Replaced ==
  ASSUME NEW s \in Seq(Records), NEW i \in DOMAIN s, NEW e \in Records, NEW t,
         t = [s EXCEPT ![i] = e]
  PROVE  /\ t \in Seq(Records) /\ Len(t) = Len(s) /\ DOMAIN t = DOMAIN s /\ t[i] = e
         /\ \A j \in DOMAIN s : j # i => t[j] = s[j]
<1>1. i \in 1 .. Len(s) /\ DOMAIN s = 1 .. Len(s)
  OBVIOUS
<1>2. t \in Seq(Records) /\ Len(t) = Len(s)
  BY <1>1, ExceptSeq
<1>3. DOMAIN t = DOMAIN s /\ t[i] = e /\ \A j \in DOMAIN s : j # i => t[j] = s[j]
  OBVIOUS
<1> QED BY <1>2, <1>3

LEMMA PatchWimStep ==
  ASSUME IInv, PatchWim
  PROVE  IInv'
<1>1. /\ pc = "wim" /\ pc' = "wim_files"
      /\ files' = IF wim = 0 THEN files ELSE [files EXCEPT ![wim].patch = "wim"]
      /\ paths' = IF wim = 0 THEN <<>> ELSE WimFiles
      /\ UNCHANGED <<given, wim_has, bootarch, bootmgfw, bootmgfw_ex, wim>>
      /\ UNCHANGED <<loading, attempts, pages, installed>>
  BY DEF PatchWim, Goto, loadVars
<1>2. files \in Seq(Records) /\ wim \in 0 .. Len(files)
  BY DEF IInv, FilesInv
<1>3. /\ files' \in Seq(Records) /\ Len(files') = Len(files) /\ DOMAIN files' = DOMAIN files
      /\ \A i \in DOMAIN files : /\ files'[i].name = files[i].name
                                 /\ files'[i].filename = files[i].filename
  <2>1. CASE wim = 0
    BY <1>1, <1>2, <2>1
  <2>2. CASE wim # 0
    <3> DEFINE e == [files[wim] EXCEPT !.patch = "wim"]
    <3>1. wim \in DOMAIN files /\ files[wim] \in Records
      BY <1>2, <2>2
    <3>2. e \in Records /\ e.name = files[wim].name /\ e.filename = files[wim].filename
      BY <3>1 DEF Records, Patches
    <3>3. files' = [files EXCEPT ![wim] = e]
      BY <1>1, <2>2
    <3> HIDE DEF e
    <3>4. /\ files' \in Seq(Records) /\ Len(files') = Len(files) /\ DOMAIN files' = DOMAIN files
          /\ files'[wim] = e /\ \A j \in DOMAIN files : j # wim => files'[j] = files[j]
      BY <1>2, <3>1, <3>2, <3>3, Replaced
    <3> QED BY <3>2, <3>4
  <2> QED BY <2>1, <2>2
<1>4. paths' \in Seq(FileNames \ {BOOTARCH})
  BY <1>1, EfiAssumption
<1>5. pc \in Chosen /\ pc' \in Chosen /\ Len(files) <= Len(files')
  BY <1>1, <1>2, <1>3 DEF Chosen
<1>6. FilesInv' /\ ReadInv' /\ ArchInv' /\ ExtractInv' /\ CandidatesInv'
  BY <1>1, <1>3, <1>4, <1>5, SameNames
<1>7. LoadInv'
  <2>1. /\ loading = 0 /\ pages = {}
        /\ \A i \in DOMAIN files :
             files[i].filename = IF i = loading THEN BOOTARCH ELSE files[i].name
        /\ loading \in 0 .. Len(files)
    BY <1>1 DEF IInv, LoadInv, Loading
  <2> QED BY <1>1, <1>3, <2>1 DEF LoadInv, Loading
<1>8. InstallInv'
  BY <1>1 DEF IInv, InstallInv, Labels, Chosen, Loading, Reading
<1>9. AttemptsInv'
  BY <1>1 DEF IInv, AttemptsInv, Loading
<1> QED BY <1>6, <1>7, <1>8, <1>9 DEF IInv

LEMMA AddWimFileStep ==
  ASSUME IInv, AddWimFile
  PROVE  IInv'
<1> DEFINE name == Head(paths)
<1>1. /\ pc = "wim_files" /\ pc' = pc /\ paths # <<>> /\ paths' = Tail(paths)
      /\ \/ files' = files
         \/ files' = Append(files, File(name, "wim", "none"))
      /\ UNCHANGED <<given, wim_has, bootarch, bootmgfw, bootmgfw_ex, wim>>
      /\ UNCHANGED <<loading, attempts, pages, installed>>
  BY DEF AddWimFile, loadVars, WimFile
<1>2. name \in FileNames /\ name # BOOTARCH /\ paths' \in Seq(FileNames \ {BOOTARCH})
  <2>1. paths \in Seq(FileNames \ {BOOTARCH})
    BY DEF IInv, FilesInv
  <2>2. name \in FileNames \ {BOOTARCH} /\ paths' \in Seq(FileNames \ {BOOTARCH})
    BY <1>1, <2>1, TailOf
  <2> QED BY <2>2
<1> HIDE DEF name
<1>3. /\ loading = 0 /\ loading' = 0 /\ pages = {}
      /\ \A i \in DOMAIN files :
           files[i].filename = IF i = loading THEN BOOTARCH ELSE files[i].name
      /\ files \in Seq(Records)
  BY <1>1 DEF IInv, LoadInv, Loading, FilesInv
<1>4. /\ files' \in Seq(Records) /\ Len(files) \in Nat /\ Len(files') \in Nat
      /\ Len(files) <= Len(files')
      /\ \A i \in DOMAIN files : files'[i].name = files[i].name
      /\ \A i \in DOMAIN files' : i \notin DOMAIN files => files'[i].name # BOOTARCH
      /\ \A i \in DOMAIN files' :
           files'[i].filename = IF i = loading' THEN BOOTARCH ELSE files'[i].name
  <2>1. CASE files' = files
    BY <1>3, <2>1
  <2>2. CASE files' = Append(files, File(name, "wim", "none"))
    <3>1. /\ "wim" \in Froms /\ "none" \in Patches /\ FilesInv /\ LoadInv
      BY DEF Froms, Patches, IInv
    <3>2. /\ files' \in Seq(Records) /\ Len(files) \in Nat /\ Len(files') = Len(files) + 1
          /\ DOMAIN files' = DOMAIN files \union {Len(files) + 1}
          /\ \A i \in DOMAIN files : files'[i] = files[i]
          /\ files'[Len(files) + 1].name = name
          /\ \A i \in DOMAIN files' :
               files'[i].filename = IF i = loading' THEN BOOTARCH ELSE files'[i].name
      BY <1>2, <1>3, <2>2, <3>1, FileAppended
    <3> QED BY <1>2, <3>2
  <2> QED BY <1>1, <2>1, <2>2
<1>5. pc \in Chosen /\ pc' \in Chosen
  BY <1>1 DEF Chosen
<1>6. FilesInv' /\ ReadInv' /\ ArchInv' /\ ExtractInv' /\ CandidatesInv'
  BY <1>1, <1>2, <1>4, <1>5, SameNames
<1>7. LoadInv'
  <2>1. loading' \in 0 .. Len(files') /\ pages' = {}
    BY <1>1, <1>3, <1>4
  <2> QED BY <1>1, <1>3, <1>4, <2>1 DEF LoadInv, Loading
<1>8. InstallInv'
  BY <1>1 DEF IInv, InstallInv, Labels, Chosen, Loading, Reading
<1>9. AttemptsInv'
  BY <1>1 DEF IInv, AttemptsInv, Loading
<1> QED BY <1>6, <1>7, <1>8, <1>9 DEF IInv

----------------------------------------------------------------------------
(* Loading *)

AttemptsPrefix(a) ==
  \/ a = <<>>
  \/ a = <<bootmgfw_ex>> /\ bootmgfw_ex # 0
  \/ a = Pair(bootmgfw_ex, bootmgfw, bootmgfw_ex, bootmgfw)

\* The next boot manager continues the attempts in the order of precedence, and if there
\* is none all have been tried.
LEMMA NextLoaderFacts ==
  ASSUME IInv, pc \in {"boot"} \union Loading
  PROVE  /\ NextLoader \in {0, bootmgfw, bootmgfw_ex}
         /\ NextLoader # 0 => AttemptsPrefix(Append(attempts, NextLoader))
         /\ NextLoader = 0 => attempts = Pair(bootmgfw_ex, bootmgfw, bootmgfw_ex, bootmgfw)
<1> DEFINE x == bootmgfw_ex
           y == bootmgfw
<1>1. /\ x \in Nat /\ y \in Nat /\ (y = x => y = 0)
  BY DEF IInv, FilesInv, CandidatesInv, Chosen
<1>2. \/ attempts = <<>>
      \/ attempts = <<x>> /\ x # 0
      \/ attempts = Pair(x, y, x, y)
  BY DEF IInv, AttemptsInv
<1>3. NextLoader = IF Untried(x) THEN x ELSE IF Untried(y) THEN y ELSE 0
  BY DEF NextLoader
<1>4. \A i : Untried(i) <=> i # 0 /\ \A k \in 1 .. Len(attempts) : attempts[k] # i
  BY DEF Untried
<1>5. Append(<<x>>, y) = <<x, y>> /\ Append(<<>>, x) = <<x>> /\ Append(<<>>, y) = <<y>>
  BY <1>1, AppendShort
<1> HIDE DEF x, y
<1>6. CASE attempts = <<>>
  <2>1. (Untried(x) <=> x # 0) /\ (Untried(y) <=> y # 0)
    BY <1>4, <1>6
  <2>2. CASE x # 0
    BY <1>3, <1>5, <1>6, <2>1, <2>2 DEF AttemptsPrefix, x, y
  <2>3. CASE x = 0 /\ y # 0
    <3>1. Pair(x, y, x, y) = <<y>> /\ NextLoader = y
      BY <1>3, <2>1, <2>3 DEF Pair
    <3> QED BY <1>5, <1>6, <2>3, <3>1 DEF AttemptsPrefix, x, y
  <2>4. CASE x = 0 /\ y = 0
    <3>1. Pair(x, y, x, y) = <<>> /\ NextLoader = 0
      BY <1>3, <2>1, <2>4 DEF Pair
    <3> QED BY <1>6, <3>1 DEF x, y
  <2> QED BY <2>2, <2>3, <2>4
<1>7. CASE attempts = <<x>> /\ x # 0
  <2>1. ~Untried(x) /\ (Untried(y) <=> y # 0)
    BY <1>1, <1>4, <1>7
  <2>2. CASE y # 0
    <3>1. Pair(x, y, x, y) = <<x, y>> /\ NextLoader = y
      BY <1>3, <1>7, <2>1, <2>2 DEF Pair
    <3> QED BY <1>5, <1>7, <2>2, <3>1 DEF AttemptsPrefix, x, y
  <2>3. CASE y = 0
    <3>1. Pair(x, y, x, y) = <<x>> /\ NextLoader = 0
      BY <1>3, <1>7, <2>1, <2>3 DEF Pair
    <3> QED BY <1>7, <3>1 DEF x, y
  <2> QED BY <2>2, <2>3
<1>8. CASE attempts = Pair(x, y, x, y)
  <2>1. ~Untried(x) /\ ~Untried(y)
    BY <1>1, <1>4, <1>8 DEF Pair
  <2> QED BY <1>3, <1>8, <2>1 DEF x, y
<1> QED BY <1>2, <1>6, <1>7, <1>8

LEMMA LoadBeginStep ==
  ASSUME IInv, LoadBegin
  PROVE  IInv'
<1> DEFINE n == NextLoader
<1>1. /\ pc = "boot" /\ pc' = "load" /\ n # 0 /\ loading' = n
      /\ files' = [files EXCEPT ![n].filename = BOOTARCH] /\ pages' = pages \union {n}
      /\ UNCHANGED <<given, wim_has, paths, bootarch, bootmgfw, bootmgfw_ex, wim>>
      /\ UNCHANGED <<attempts, installed>>
  BY DEF LoadBegin, Goto
<1>2. n \in {bootmgfw, bootmgfw_ex}
  BY <1>1, NextLoaderFacts
<1>3. /\ files \in Seq(Records) /\ bootmgfw \in 0 .. Len(files) /\ bootmgfw_ex \in 0 .. Len(files)
      /\ paths \in Seq(FileNames \ {BOOTARCH})
  BY DEF IInv, FilesInv
<1> HIDE DEF n
<1>4. n \in DOMAIN files /\ n \in 0 .. Len(files)
  BY <1>1, <1>2, <1>3
<1>5. /\ loading = 0 /\ pages = {}
      /\ \A i \in DOMAIN files :
           files[i].filename = IF i = loading THEN BOOTARCH ELSE files[i].name
  BY <1>1 DEF IInv, LoadInv, Loading
<1> DEFINE e == [files[n] EXCEPT !.filename = BOOTARCH]
<1>6. e \in Records /\ e.name = files[n].name /\ e.filename = BOOTARCH
  <2>1. files[n] \in Records /\ BOOTARCH \in FileNames
    BY <1>3, <1>4, EfiAssumption
  <2> QED BY <2>1 DEF Records
<1>7. files' = [files EXCEPT ![n] = e]
  BY <1>1
<1> HIDE DEF e
<1>8. /\ files' \in Seq(Records) /\ Len(files') = Len(files) /\ DOMAIN files' = DOMAIN files
      /\ files'[n] = e /\ \A j \in DOMAIN files : j # n => files'[j] = files[j]
  BY <1>3, <1>4, <1>6, <1>7, Replaced
<1>9. \A i \in DOMAIN files : files'[i].name = files[i].name
  BY <1>6, <1>8
<1>10. \A i \in DOMAIN files' :
         files'[i].filename = IF i = loading' THEN BOOTARCH ELSE files'[i].name
  <2>1. \A i \in DOMAIN files : i # loading
    BY <1>3, <1>5
  <2> QED BY <1>1, <1>5, <1>6, <1>8, <2>1
<1>11. pc \in Chosen /\ pc' \in Chosen /\ Len(files) <= Len(files')
  BY <1>1, <1>3, <1>8 DEF Chosen, Loading
<1>12. FilesInv' /\ ReadInv' /\ ArchInv' /\ ExtractInv' /\ CandidatesInv'
  BY <1>1, <1>3, <1>8, <1>9, <1>11, SameNames
<1>13. LoadInv'
  <2>1. loading' \in 0 .. Len(files') /\ loading' \in {bootmgfw', bootmgfw_ex'} /\ pages' = {n}
    BY <1>1, <1>2, <1>4, <1>5, <1>8
  <2> QED BY <1>1, <1>10, <2>1 DEF LoadInv, Loading
<1>14. InstallInv'
  BY <1>1 DEF IInv, InstallInv, Labels, Chosen, Loading, Reading
<1>15. AttemptsInv'
  BY <1>1 DEF IInv, AttemptsInv, Loading, NextLoader, Untried, n
<1> QED BY <1>12, <1>13, <1>14, <1>15 DEF IInv

LEMMA LoadSucceedsStep ==
  ASSUME IInv, LoadSucceeds
  PROVE  IInv'
<1>1. /\ pc = "load" /\ pc' = "loaded" /\ attempts' = Append(attempts, loading)
      /\ UNCHANGED <<given, wim_has, dir, paths, files, bootarch, bootmgfw, bootmgfw_ex, wim>>
      /\ UNCHANGED <<loading, pages, installed>>
  BY DEF LoadSucceeds, Goto, fileVars
<1>2. pc \in Chosen /\ pc' \in Chosen /\ files \in Seq(Records) /\ Len(files) <= Len(files')
      /\ paths' \in Seq(FileNames \ {BOOTARCH})
  BY <1>1 DEF Chosen, Loading, IInv, FilesInv
<1>3. FilesInv' /\ ReadInv' /\ ArchInv' /\ ExtractInv' /\ CandidatesInv'
  BY <1>1, <1>2, SameNames
<1>4. LoadInv'
  BY <1>1 DEF IInv, LoadInv, Loading
<1>5. InstallInv'
  BY <1>1 DEF IInv, InstallInv, Labels, Chosen, Loading, Reading
<1>6. AttemptsInv'
  <2>1. loading = NextLoader /\ loading # 0
    BY <1>1 DEF IInv, AttemptsInv, LoadInv, Loading
  <2>2. AttemptsPrefix(attempts')
    BY <1>1, <2>1, NextLoaderFacts DEF Loading
  <2> QED BY <1>1, <2>2 DEF AttemptsInv, AttemptsPrefix, Loading
<1> QED BY <1>3, <1>4, <1>5, <1>6 DEF IInv

LEMMA LoadFailsStep ==
  ASSUME IInv, LoadFails
  PROVE  IInv'
<1> DEFINE n == loading
<1>1. /\ pc = "load" /\ pc' = "boot" /\ loading' = 0 /\ attempts' = Append(attempts, n)
      /\ files' = [files EXCEPT ![n].filename = files[n].name] /\ pages' = pages \ {n}
      /\ UNCHANGED <<given, wim_has, paths, bootarch, bootmgfw, bootmgfw_ex, wim>>
      /\ UNCHANGED installed
  BY DEF LoadFails, Goto
<1>2. /\ n \in DOMAIN files /\ n # 0 /\ pages = {n} /\ n = NextLoader
      /\ \A i \in DOMAIN files :
           files[i].filename = IF i = n THEN BOOTARCH ELSE files[i].name
      /\ files \in Seq(Records) /\ paths \in Seq(FileNames \ {BOOTARCH})
  BY <1>1 DEF IInv, LoadInv, Loading, FilesInv, AttemptsInv
<1> HIDE DEF n
<1> DEFINE e == [files[n] EXCEPT !.filename = files[n].name]
<1>3. e \in Records /\ e.name = files[n].name /\ e.filename = files[n].name
  <2>1. files[n] \in Records
    BY <1>2
  <2> QED BY <2>1 DEF Records
<1>4. files' = [files EXCEPT ![n] = e]
  BY <1>1
<1> HIDE DEF e
<1>5. /\ files' \in Seq(Records) /\ Len(files') = Len(files) /\ DOMAIN files' = DOMAIN files
      /\ files'[n] = e /\ \A j \in DOMAIN files : j # n => files'[j] = files[j]
  BY <1>2, <1>3, <1>4, Replaced
<1>6. \A i \in DOMAIN files : files'[i].name = files[i].name
  BY <1>3, <1>5
<1>7. \A i \in DOMAIN files' : files'[i].filename = files'[i].name
  BY <1>2, <1>3, <1>5
<1>8. pc \in Chosen /\ pc' \in Chosen /\ Len(files) <= Len(files')
  BY <1>1, <1>2, <1>5 DEF Chosen, Loading
<1>9. FilesInv' /\ ReadInv' /\ ArchInv' /\ ExtractInv' /\ CandidatesInv'
  BY <1>1, <1>2, <1>5, <1>6, <1>8, SameNames
<1>10. LoadInv'
  <2>1. /\ loading' \in 0 .. Len(files') /\ pages' = {}
        /\ \A i \in DOMAIN files' : i # loading'
    BY <1>1, <1>2, <1>5
  <2> QED BY <1>1, <1>7, <2>1 DEF LoadInv, Loading
<1>11. InstallInv'
  BY <1>1 DEF IInv, InstallInv, Labels, Chosen, Loading, Reading
<1>12. AttemptsInv'
  <2>1. AttemptsPrefix(attempts')
    BY <1>1, <1>2, NextLoaderFacts DEF Loading
  <2> QED BY <1>1, <2>1 DEF AttemptsInv, AttemptsPrefix, Loading
<1> QED BY <1>9, <1>10, <1>11, <1>12 DEF IInv

LEMMA NextIInv == IInv /\ [Next]_vars => IInv'
<1> SUFFICES ASSUME IInv, [Next]_vars PROVE IInv'
  OBVIOUS
<1>1. CASE \/ OpenRoot \/ CheckLoader \/ efi_install \/ NothingLoaded \/ ForceDevice
           \/ Hook \/ StartImage
  <2>1. QuietPc /\ UNCHANGED fileVars /\ UNCHANGED <<loading, attempts, pages>>
    BY <1>1 DEF OpenRoot, CheckLoader, efi_install, Install, NothingLoaded, ForceDevice, Hook,
                SaveOriginal, SetTable, StartImage, Goto, QuietPc, Loading, loadVars
  <2> QED BY <2>1, QuietStep
<1>2. CASE FirmwareFails \/ ImageReturns
  <2>1. QuietPc /\ UNCHANGED fileVars /\ UNCHANGED <<loading, attempts, pages>>
    BY <1>2 DEF FirmwareFails, ImageReturns, Die, Goto, QuietPc, loadVars
  <2> QED BY <2>1, QuietStep
<1>3. CASE FirmwareEvent \/ \E h \in Gops : ManagerOpens(h)
  <2>1. QuietPc /\ UNCHANGED fileVars /\ UNCHANGED <<loading, attempts, pages>>
    BY <1>3 DEF FirmwareEvent, ManagerOpens, OpenGop, QuietPc, loadVars
  <2> QED BY <2>1, QuietStep
<1>4. CASE UNCHANGED vars
  <2>1. QuietPc /\ UNCHANGED fileVars /\ UNCHANGED <<loading, attempts, pages>>
    BY <1>4 DEF vars, QuietPc, loadVars
  <2> QED BY <2>1, QuietStep
<1>5. CASE IgnoreSubdirectory
  BY <1>5, IgnoreSubdirectoryStep
<1>6. CASE AddFile
  BY <1>6, AddFileStep
<1>7. CASE UseBootarch
  BY <1>7, UseBootarchStep
<1>8. CASE ExtractLoaders
  BY <1>8, ExtractLoadersStep
<1>9. CASE PatchWim
  BY <1>9, PatchWimStep
<1>10. CASE AddWimFile
  BY <1>10, AddWimFileStep
<1>11. CASE LoadBegin
  BY <1>11, LoadBeginStep
<1>12. CASE LoadSucceeds
  BY <1>12, LoadSucceedsStep
<1>13. CASE LoadFails
  BY <1>13, LoadFailsStep
<1> QED BY <1>1, <1>2, <1>3, <1>4, <1>5, <1>6, <1>7, <1>8, <1>9, <1>10, <1>11, <1>12, <1>13
        DEF Next, efi_main

LEMMA Invariance == Spec => []IInv
  BY InitIInv, NextIInv, PTL DEF Spec

----------------------------------------------------------------------------
(* The theorems about the boot managers *)

\* efi_load renames the file it loads and no other: when firmware or boot manager looks
\* for boot<arch>.efi on the disk there is exactly one, the image that runs, however many
\* were refused before it, and whichever files were given or extracted.
THEOREM OneBootLoader == Spec => []OnlyImageRenamed
<1>1. IInv => OnlyImageRenamed
  <2> SUFFICES ASSUME IInv, pc \in Loading PROVE OnlyImageRenamed
    BY DEF OnlyImageRenamed, Loading
  <2>1. /\ loading \in 0 .. Len(files) /\ loading # 0 /\ loading \in {bootmgfw, bootmgfw_ex}
        /\ \A i \in DOMAIN files :
             files[i].filename = IF i = loading THEN BOOTARCH ELSE files[i].name
    BY DEF IInv, LoadInv
  <2>2. files \in Seq(Records) /\ Points(bootarch, BOOTARCH)
    BY DEF IInv, FilesInv
  <2>3. loading \in DOMAIN files
    BY <2>1, <2>2
  <2>4. bootarch # 0 => bootmgfw = bootarch /\ bootmgfw_ex = 0
    BY DEF IInv, ArchInv, Chosen
  <2>5. ASSUME NEW i \in DOMAIN files, files[i].filename = BOOTARCH PROVE i = loading
    <3>1. CASE files[i].name = BOOTARCH
      <4>1. i = bootarch /\ i # 0
        BY <2>2, <3>1 DEF Points
      <4> QED BY <2>1, <2>4, <4>1
    <3>2. CASE files[i].name # BOOTARCH
      BY <2>1, <2>5, <3>2
    <3> QED BY <3>1, <3>2
  <2> QED BY <2>1, <2>3, <2>5 DEF OnlyImageRenamed
<1> QED BY <1>1, Invariance, PTL

\* Pages are held for the image that is loaded and for no image that was refused, and both
\* devices are installed when it runs.
THEOREM OnlyImageHasPages == Spec => []PagesForImage
<1>1. IInv => PagesForImage
  BY DEF IInv, LoadInv, InstallInv, Loading, PagesForImage
<1> QED BY <1>1, Invariance, PTL

LEMMA CandidatesLength == Len(Candidates) \in Nat
<1>1. \A N : Len(Order(N)) \in Nat
  <2> SUFFICES ASSUME NEW N PROVE Len(Order(N)) \in Nat
    OBVIOUS
  <2>1. \/ Order(N) = <<"bootmgfw_EX.efi", "bootmgfw.efi">> \/ Order(N) = <<"bootmgfw_EX.efi">>
        \/ Order(N) = <<"bootmgfw.efi">> \/ Order(N) = <<>>
    BY Ordered
  <2> QED BY <2>1
<1>2. \/ Candidates = <<BOOTARCH>> \/ Candidates = Order(GivenNames)
      \/ Candidates = Order(wim_has) \/ Candidates = <<>>
  BY DEF Candidates
<1> QED BY <1>1, <1>2

\* The beginnings of a sequence of two.
LEMMA Beginnings ==
  ASSUME NEW a, NEW b
  PROVE  /\ SubSeq(<<a>>, 1, 1) = <<a>> /\ SubSeq(<<a, b>>, 1, 2) = <<a, b>>
         /\ SubSeq(<<a, b>>, 1, 1) = <<a>>
<1> DEFINE S == {a, b}
<1>1. <<a>> \in Seq(S) /\ <<a, b>> \in Seq(S) /\ Len(<<a>>) = 1 /\ Len(<<a, b>>) = 2
  OBVIOUS
<1>2. SubSeq(<<a>>, 1, 1) = <<a>> /\ SubSeq(<<a, b>>, 1, 2) = <<a, b>>
  <2>1. SubSeq(<<a>>, 1, Len(<<a>>)) = <<a>> /\ SubSeq(<<a, b>>, 1, Len(<<a, b>>)) = <<a, b>>
    <3> HIDE DEF S
    <3> QED BY <1>1, SubSeqFull
  <2> QED BY <1>1, <2>1
<1>3. SubSeq(<<a, b>>, 1, 1) = <<a>>
  <2> DEFINE s == <<a, b>>
             t == <<a>>
             u == SubSeq(s, 1, 1)
  <2>1. s[1] \in S /\ s[1] = a /\ t \in Seq(S) /\ Len(t) = 1 /\ t[1] = a
    OBVIOUS
  <2> HIDE DEF s, S, t
  <2>2. \A i \in 1 .. 1 : s[i] \in S
    BY <2>1
  <2>3. /\ u \in Seq(S) /\ Len(u) = 1 /\ u[1] = s[1]
    BY <2>2, SubSeqProperties
  <2> HIDE DEF u
  <2>4. u = t
    BY <2>1, <2>3, SeqEqual
  <2> QED BY <2>4 DEF u, s, t
<1> QED BY <1>2, <1>3

\* The names of the files F that the indices att name, and of the two files x and y.
NamesOf(F, att) == [i \in DOMAIN att |-> F[att[i]].name]
NamesOfPair(F, x, y) == Pair(x, y, F[x].name, F[y].name)

\* att is a beginning of the pair of x and y.
Begins(att, x, y) ==
  att = <<>> \/ (att = <<x>> /\ x # 0) \/ att = Pair(x, y, x, y)

\* t is a beginning of c.
IsBeginning(t, c) == Len(t) <= Len(c) /\ t = SubSeq(c, 1, Len(t))

\* What was tried is a beginning of the two candidates.
LEMMA TriedPrefix ==
  ASSUME NEW F, NEW x \in Nat, NEW y \in Nat, NEW att, Begins(att, x, y)
  PROVE  /\ IsBeginning(NamesOf(F, att), NamesOfPair(F, x, y))
         /\ att = Pair(x, y, x, y) => NamesOf(F, att) = NamesOfPair(F, x, y)
<1> DEFINE tried == NamesOf(F, att)
           cand == NamesOfPair(F, x, y)
           a == F[x].name
           b == F[y].name
<1> SUFFICES /\ Len(tried) <= Len(cand) /\ tried = SubSeq(cand, 1, Len(tried))
             /\ att = Pair(x, y, x, y) => tried = cand
  BY DEF IsBeginning
<1>0. /\ tried = [i \in DOMAIN att |-> F[att[i]].name]
      /\ cand = Pair(x, y, F[x].name, F[y].name)
      /\ att = <<>> \/ (att = <<x>> /\ x # 0) \/ att = Pair(x, y, x, y)
  BY DEF NamesOf, NamesOfPair, Begins
<1> HIDE DEF tried, cand
<1>1. /\ att = <<>> => tried = <<>>
      /\ att = <<x>> => tried = <<a>>
      /\ att = <<y>> => tried = <<b>>
      /\ att = <<x, y>> => tried = <<a, b>>
  <2>2. ASSUME att = <<x>> PROVE tried = <<a>>
    BY <1>0, <2>2
  <2>3. ASSUME att = <<y>> PROVE tried = <<b>>
    BY <1>0, <2>3
  <2>4. ASSUME att = <<x, y>> PROVE tried = <<a, b>>
    BY <1>0, <2>4
  <2>5. ASSUME att = <<>> PROVE tried = <<>>
    BY <1>0, <2>5
  <2> QED BY <2>2, <2>3, <2>4, <2>5
<1> HIDE DEF a, b
<1>2. /\ Len(<<>>) = 0 /\ Len(<<a>>) = 1 /\ Len(<<b>>) = 1 /\ Len(<<a, b>>) = 2
      /\ SubSeq(<<a>>, 1, 1) = <<a>> /\ SubSeq(<<a, b>>, 1, 2) = <<a, b>>
      /\ SubSeq(<<b>>, 1, 1) = <<b>> /\ SubSeq(<<a, b>>, 1, 1) = <<a>>
      /\ SubSeq(cand, 1, 0) = <<>> /\ SubSeq(<<>>, 1, 0) = <<>>
  <2>1. Len(<<>>) = 0 /\ Len(<<a>>) = 1 /\ Len(<<b>>) = 1 /\ Len(<<a, b>>) = 2
    OBVIOUS
  <2>2. /\ SubSeq(<<a>>, 1, 1) = <<a>> /\ SubSeq(<<a, b>>, 1, 2) = <<a, b>>
        /\ SubSeq(<<b>>, 1, 1) = <<b>> /\ SubSeq(<<a, b>>, 1, 1) = <<a>>
    BY Beginnings, Zenon
  <2>3. SubSeq(cand, 1, 0) = <<>> /\ SubSeq(<<>>, 1, 0) = <<>>
    BY SubSeqEmpty
  <2> QED BY <2>1, <2>2, <2>3, Zenon
<1>3. cand = Pair(x, y, a, b)
  BY <1>0 DEF a, b
<1>4. CASE x = 0 /\ y = 0
  <2>1. cand = <<>> /\ att = <<>> /\ tried = <<>>
    BY <1>0, <1>1, <1>3, <1>4 DEF Pair
  <2> QED BY <1>2, <2>1
<1>5. CASE x = 0 /\ y # 0
  <2>1. cand = <<b>> /\ Pair(x, y, x, y) = <<y>> /\ (tried = <<>> \/ tried = <<b>>)
        /\ (att = <<y>> => tried = <<b>>)
    BY <1>0, <1>1, <1>3, <1>5 DEF Pair
  <2>2. CASE tried = <<>>
    BY <1>2, <2>1, <2>2
  <2>3. CASE tried = <<b>>
    BY <1>2, <2>1, <2>3
  <2> QED BY <2>1, <2>2, <2>3
<1>6. CASE x # 0 /\ y = 0
  <2>1. cand = <<a>> /\ Pair(x, y, x, y) = <<x>> /\ (tried = <<>> \/ tried = <<a>>)
        /\ (att = <<x>> => tried = <<a>>)
    BY <1>0, <1>1, <1>3, <1>6 DEF Pair
  <2>2. CASE tried = <<>>
    BY <1>2, <2>1, <2>2
  <2>3. CASE tried = <<a>>
    BY <1>2, <2>1, <2>3
  <2> QED BY <2>1, <2>2, <2>3
<1>7. CASE x # 0 /\ y # 0
  <2>1. cand = <<a, b>> /\ Pair(x, y, x, y) = <<x, y>>
        /\ (tried = <<>> \/ tried = <<a>> \/ tried = <<a, b>>)
        /\ (att = <<x, y>> => tried = <<a, b>>)
    BY <1>0, <1>1, <1>3, <1>7 DEF Pair
  <2>2. CASE tried = <<>>
    BY <1>2, <2>1, <2>2
  <2>3. CASE tried = <<a>>
    <3>1. Len(tried) = 1 /\ Len(cand) = 2 /\ SubSeq(cand, 1, 1) = tried
      BY <1>2, <2>1, <2>3, Zenon
    <3>2. tried # <<a, b>>
      BY <1>2, <2>3
    <3> QED BY <2>1, <3>1, <3>2
  <2>4. CASE tried = <<a, b>>
    <3>1. Len(tried) = 2 /\ Len(cand) = 2 /\ SubSeq(cand, 1, 2) = tried
      BY <1>2, <2>1, <2>4, Zenon
    <3> QED BY <2>1, <2>4, <3>1
  <2> QED BY <2>1, <2>2, <2>3, <2>4
<1> QED BY <1>4, <1>5, <1>6, <1>7

\* The boot managers that efi_boot hands to LoadImage are, in order, those that the files
\* and the WIM offer by precedence, and wimboot gives up only when it has tried them all.
THEOREM Precedence == Spec => []LoadedByPrecedence
<1>1. IInv => LoadedByPrecedence
  <2> SUFFICES ASSUME IInv PROVE LoadedByPrecedence
    OBVIOUS
  <2> DEFINE x == bootmgfw_ex
             y == bootmgfw
             a == files[bootmgfw_ex].name
             b == files[bootmgfw].name
  <2>1. CASE attempts = <<>> /\ ~(pc = "boot" /\ NextLoader = 0)
    <3>1. Tried = <<>>
      BY <2>1 DEF Tried
    <3>2. Len(Tried) = 0 /\ SubSeq(Candidates, 1, 0) = <<>>
      BY <3>1, SubSeqEmpty
    <3>3. Len(Candidates) \in Nat
      BY CandidatesLength
    <3> QED BY <2>1, <3>1, <3>2, <3>3 DEF LoadedByPrecedence
  <2>2. CASE attempts # <<>> \/ (pc = "boot" /\ NextLoader = 0)
    <3>1. Candidates = Pair(x, y, a, b)
      BY <2>2 DEF IInv, CandidatesInv, Chosen
    <3>2. AttemptsPrefix(attempts)
      BY DEF IInv, AttemptsInv, AttemptsPrefix
    <3>3. pc = "boot" /\ NextLoader = 0 => attempts = Pair(x, y, x, y)
      BY NextLoaderFacts
    <3>4. Tried = NamesOf(files, attempts) /\ Candidates = NamesOfPair(files, x, y)
      BY <3>1 DEF Tried, NamesOf, NamesOfPair
    <3>5. x \in Nat /\ y \in Nat
      BY DEF IInv, FilesInv
    <3>6. Begins(attempts, x, y)
      BY <3>2 DEF AttemptsPrefix, Begins
    <3>7. /\ Len(Tried) <= Len(Candidates) /\ Tried = SubSeq(Candidates, 1, Len(Tried))
          /\ attempts = Pair(x, y, x, y) => Tried = Candidates
      <4> HIDE DEF x, y
      <4>1. /\ IsBeginning(NamesOf(files, attempts), NamesOfPair(files, x, y))
            /\ attempts = Pair(x, y, x, y)
                 => NamesOf(files, attempts) = NamesOfPair(files, x, y)
        BY <3>5, <3>6, TriedPrefix
      <4>2. /\ IsBeginning(Tried, Candidates)
            /\ attempts = Pair(x, y, x, y) => Tried = Candidates
        BY <3>4, <4>1
      <4> QED BY <4>2 DEF IsBeginning
    <3> QED BY <3>3, <3>7 DEF LoadedByPrecedence
  <2> QED BY <2>1, <2>2
<1> QED BY <1>1, Invariance, PTL
=============================================================================
