------------------------------ MODULE WimPatch ------------------------------
(***************************************************************************)
(* Patching the boot WIM (src/src/wimpatch.c) and extracting files from it  *)
(* (src/src/wimfile.c).                                                     *)
(*                                                                         *)
(* The files that were loaded with wimboot are injected into a copy of the  *)
(* selected image of the WIM.  Nothing is stored: patch_wim is called on    *)
(* every window of the file that is read, and a list of regions says which  *)
(* cells of the window it replaces.  The list is made when the patch method *)
(* is recorded, before files are extracted from the WIM, and kept.          *)
(***************************************************************************)
EXTENDS WimFormat, FiniteSetsExt

CONSTANTS
  VDISK_MAX_FILES,  \* entries of the table of files (63)
  WIM_MAX_FILES,    \* entries of the table of extracted files (16)
  Wims,             \* the WIM files: sequences of cells
  Indexes,          \* values of the index= argument (0 if not given)
  LoadedFiles,      \* files that may be loaded: records [name, ext, cells]
  WIM_INJECT_DIR,   \* the path of the directory for injected files
  wim_paths,        \* the paths of the files to extract
  FileAt(_),        \* FileAt(path): [name, ext] of the file at a path
  ImagePaths,       \* paths of files in the images
  Windows           \* the windows read: records [offset, len]

ASSUME PatchAssumption ==
  /\ VDISK_MAX_FILES \in Nat \ {0} /\ WIM_MAX_FILES \in Nat
  /\ \A w \in Wims : IsWim(w)
  /\ \A f \in LoadedFiles : /\ Len(f.cells) \in Nat
                            /\ f.cells = [k \in 1 .. Len(f.cells) |-> f.cells[k]]
  /\ Indexes \subseteq Nat
  /\ Windows \subseteq [offset : Nat, len : Nat]

PatchDirentLen == DirentLen + NameLen

BehindHeader(res) == res.offset >= HeaderLen \/ (res.len = 0 /\ ~res.compressed)

\* The n-th entry of the lookup table files a resource under the hash of what it holds.
IsFiled(image, header, n) ==
  LET entry == LookupEntry(image, header, n)
      res   == ResourceIn(entry[1])
  IN  /\ BehindHeader(res)
      /\ HashIn(entry[2]) # NoHash =>
           /\ wim_readable(image, res, 0, res.len)
           /\ HashIn(entry[2]) = wim_hash(wim_read(image, res, 0, res.len))

\* The directories that the paths lead through.
Parents ==
  UNION {{SubSeq(path, 1, n) : n \in 1 .. Len(path) - 1} :
           path \in ImagePaths \union {WIM_INJECT_DIR}}

\* Those directories form a tree as far as WIM_INJECT_DIR is concerned: no other path
\* leads to its entry, no other entry shares cells with that one, and the entries are as
\* long as what is read of them.
IsTree(image, meta) ==
  LET there   == wim_path(image, meta, WIM_INJECT_DIR)
      subdirs == UNION {{SubdirOf(image, meta, at) : at \in wim_path(image, meta, path)} :
                          path \in Parents}
  IN  /\ \A path \in Parents :
           wim_path(image, meta, path) \intersect there # {} => path = WIM_INJECT_DIR
      /\ \A dir \in {RootDirectory(image, meta)} \union subdirs :
           \A at \in DirEntries(image, meta, dir) :
             /\ DirentLength(image, meta, at) >= PatchDirentLen
             /\ \A y \in there : \/ at = y
                                 \/ at + PatchDirentLen <= y \/ y + PatchDirentLen <= at

\* What a WIM writer (external) promises, also of a file that was cut off: the lookup
\* table consists of whole entries, and no resource lies in the header.
ASSUME WriterAssumption ==
  /\ \A path \in ImagePaths \union {WIM_INJECT_DIR} : path \in Seq(STRING) \ {<<>>}
  /\ \A w \in Wims : \A h \in wim_header(w) :
       /\ h.lookup.len % LookupLen = 0 /\ BehindHeader(h.lookup)
       /\ \A n \in ReadableEntries(w, h) : IsFiled(w, h, n)
       /\ \A index \in Indexes : \A meta \in wim_metadata(w, h, index) :
            /\ BehindHeader(meta)
            /\ wim_readable(w, meta, 0, SecurityLen) => IsTree(w, meta)

VARIABLES
  wim,            \* the contents of the boot WIM
  cmdline_index, cmdline_rawwim,
  vdisk_files,    \* the other files, in the order in which they were added
  wim_file_idx,   \* wim_add_file's static index
  xlen,           \* the length of the patched WIM (file->xlen)
  cached_patch,   \* patch_wim's static patch
  pc,             \* "load", "loaded", "patched", "idle" (the disk is visible),
                  \* "patch" (in the loop over the regions), "dead" after die ( )
  window,         \* the window of the WIM being, or last, read, and the length
                  \* that patch_wim is called with
  region,         \* the loop counter i of patch_wim
  data            \* the buffer of the caller

vars == <<wim, cmdline_index, cmdline_rawwim, vdisk_files, wim_file_idx, xlen,
          cached_patch, pc, window, region, data>>

Given == <<wim, cmdline_index, cmdline_rawwim>>

----------------------------------------------------------------------------
(* The regions of a patched WIM *)

\* A region whose cells are replaced by the method called patch; "unused" regions
\* have no method.  opaque is the index of the file a region is for.
Region(patch, opaque, offset, len) ==
  [patch |-> patch, opaque |-> opaque, offset |-> offset, len |-> len]

Unused == Region("unused", 0, 0, 0)

Indices == 1 .. VDISK_MAX_FILES

\* The names that wim_inject_file passes over.
IgnoredNames == {"wimboot", "bootmgr", "bootmgr.exe", "BCD", "boot.stl"}
IgnoredExtensions == {"wim", "sdi", "efi", "ttf"}

wim_inject_file(f) == f.name \notin IgnoredNames /\ f.ext \notin IgnoredExtensions

\* The files that main and efi_extract extract are bootmgr.exe, BCD, boot.sdi, fonts
\* and boot loaders: none is one to inject.
ASSUME ExtractAssumption == \A path \in wim_paths : ~wim_inject_file(FileAt(path))

\* The indices of the files to inject.
Injected(files) == {i \in 1 .. Len(files) : wim_inject_file(files[i])}

\* Mutant: the next file is not put behind the one before.
CellsBefore_NotAdded(files, i) == 0

\* The number of cells of the injected files before the i-th.
CellsBefore(files, i) ==
  Cardinality(UNION {{j} \X (1 .. Len(files[j].cells)) :
                       j \in {j \in Injected(files) : j < i}})

\* The number of injected files before the i-th.
Rank(files, i) == Cardinality({j \in Injected(files) : j < i})

\* The regions without injection: the header alone.
HeaderRegions ==
  <<Region("header", 0, 0, HeaderLen)>> \o [n \in 1 .. 3 * VDISK_MAX_FILES + 5 |-> Unused]

\* One region for each file, unused unless one is given.
PerFile(given) ==
  [i \in Indices |-> IF i \in DOMAIN given THEN given[i] ELSE Unused]

\* Mutant: the copy of the metadata is applied after the change to it.
MetadataRegions_CopyLast(boot, dir, at) ==
  <<Region("dir.subdir", 0, at.boot + dir.parent + SubdirAt, 1),
    Region("boot.copy", 0, at.boot, boot.len),
    Region("dir.copy", 0, at.copy, dir.len)>>

MetadataRegions(boot, dir, at) ==
  <<Region("boot.copy", 0, at.boot, boot.len),
    Region("dir.subdir", 0, at.boot + dir.parent + SubdirAt, 1),
    Region("dir.copy", 0, at.copy, dir.len)>>

\* The regions in the order of union wim_patch_regions, which is the order in
\* which they are applied.  at holds the offsets of the new lookup table (lookup),
\* the new metadata (boot), the new directory (dir) and, in it, the copy of the
\* original directory (copy).
InjectedRegions(files, lookup, boot, dir, at) ==
  LET injected    == Injected(files)
      file        == [i \in injected |->
                        Region("file", i, Len(wim) + CellsBefore(files, i),
                               Len(files[i].cells))]
      lookup_file == [i \in injected |->
                        Region("lookup.file", i,
                               at.lookup + lookup.len
                                 + (1 + Rank(files, i)) * LookupLen, LookupLen)]
      dir_file    == [i \in injected |->
                        Region("dir.file", i,
                               at.dir + Rank(files, i) * wim_align(PatchDirentLen),
                               PatchDirentLen)]
  IN  <<Region("header", 0, 0, HeaderLen)>>
      \o PerFile(file)
      \o <<Region("lookup.copy", 0, at.lookup, lookup.len),
           Region("lookup.boot", 0, at.lookup + lookup.len, LookupLen)>>
      \o PerFile(lookup_file)
      \o MetadataRegions(boot, dir, at)
      \o PerFile(dir_file)

----------------------------------------------------------------------------
(* wim_construct_patch *)

\* The header and the metadata of the selected image.
Selections(index) ==
  UNION {{[header |-> h, boot |-> b] : b \in wim_metadata(wim, h, index)} :
           h \in wim_header(wim)}

\* The header that selects that image.
SelectingHeader(selection, index) ==
  IF index = 0 THEN selection.header
  ELSE [selection.header EXCEPT !.boot = selection.boot, !.boot_index = index]

\* The directory for injected files: its entry in the parent, its place, its length.
InjectDirs(boot) ==
  UNION {{[parent |-> at, offset |-> SubdirOf(wim, boot, at), len |-> n] :
            n \in wim_dir_len(wim, boot, SubdirOf(wim, boot, at))} :
           at \in wim_path(wim, boot, WIM_INJECT_DIR)}

Patch(header, selection, dir, regions, len) ==
  [header |-> header, lookup |-> selection.header.lookup, boot |-> selection.boot,
   dir |-> dir, regions |-> regions, xlen |-> len]

NoDir == [parent |-> 0, offset |-> 0, len |-> 0, subdir |-> 0]

lookup_offset(files) ==
  wim_align(Len(wim) + CellsBefore(files, VDISK_MAX_FILES + 1))

\* The patch that injects files, of an image of which count were found.
InjectingPatch(files, index, selection, count, dir) ==
  LET n      == Cardinality(Injected(files))
      lookup == selection.header.lookup
      boot   == selection.boot
      lookup_len  == lookup.len + (1 + n) * LookupLen
      boot_offset == wim_align(lookup_offset(files) + lookup_len)
      dir_offset  == wim_align(boot_offset + boot.len)
      copy_offset == dir_offset + n * wim_align(PatchDirentLen)
      end    == copy_offset + dir.len + LengthLen  \* room for the terminator
      at     == [lookup |-> lookup_offset(files), boot |-> boot_offset,
                 dir |-> dir_offset, copy |-> copy_offset]
      header == [SelectingHeader(selection, index) EXCEPT
                   !.images = count + 1, !.boot_index = count + 1,
                   !.lookup = Resource(at.lookup, lookup_len, lookup_len,
                                       FALSE, FALSE),
                   !.boot = Resource(at.boot, end - at.boot, end - at.boot,
                                     FALSE, TRUE)]
  IN  Patch(header, selection,
            [parent |-> dir.parent, offset |-> dir.offset, len |-> dir.len,
             subdir |-> dir_offset - boot_offset],
            InjectedRegions(files, lookup, boot, dir, at), end)

\* The patch of the WIM for these files, or nothing if the WIM cannot be patched.
wim_construct_patch(files, index, inject) ==
  UNION {IF ~inject \/ Injected(files) = {}
           THEN {Patch(SelectingHeader(s, index), s, NoDir, HeaderRegions, Len(wim))}
           ELSE {InjectingPatch(files, index, s, count, dir) :
                   count \in wim_count(wim, s.header), dir \in InjectDirs(s.boot)} :
           s \in Selections(index)}

----------------------------------------------------------------------------
(* The patch methods *)

\* The cells a method that makes a structure takes its window from.
RegionCells(patch, files, r) ==
  LET cells == files[r.opaque].cells
  IN  CASE r.patch = "header"      -> HeaderCells(patch.header)
        [] r.patch = "file"        -> cells
        [] r.patch = "lookup.boot" -> LookupCells(patch.header.boot, NoHash)
        [] r.patch = "lookup.file" ->
             LookupCells(Resource(patch.regions[1 + r.opaque].offset, Len(cells),
                                  Len(cells), FALSE, FALSE), wim_hash(cells))
        [] r.patch = "dir.subdir"  -> <<Number(patch.dir.subdir)>>
        [] r.patch = "dir.file"    ->
             DirentCells(wim_align(PatchDirentLen), 0, wim_hash(cells),
                         files[r.opaque].name)

\* The methods that copy from the WIM: the resource and the offset in it.
Copies == {"lookup.copy", "boot.copy", "dir.copy"}
CopiedFrom(patch, r) == IF r.patch = "lookup.copy" THEN patch.lookup ELSE patch.boot

\* Mutant: directories are copied from the start of the metadata.
CopiedAt_Start(patch, r) == 0

CopiedAt(patch, r) == IF r.patch = "dir.copy" THEN patch.dir.offset ELSE 0

\* region->patch ( patch, region, data, offset, len ): the cells it writes.
Method(patch, files, r, offset, len) ==
  IF r.patch \in Copies
    THEN wim_read(wim, CopiedFrom(patch, r), CopiedAt(patch, r) + offset, len)
    ELSE SubSeq(RegionCells(patch, files, r), offset + 1, offset + len)

MethodFails(patch, r, offset, len) ==
  /\ r.patch \in Copies
  /\ ~wim_readable(wim, CopiedFrom(patch, r), CopiedAt(patch, r) + offset, len)

----------------------------------------------------------------------------
(* Loading, patching and extracting *)

NoPatch == [regions |-> <<>>, xlen |-> 0]

BootWim(cells) == [name |-> "boot.wim", ext |-> "wim", cells |-> cells]

Init ==
  /\ wim \in Wims
  /\ cmdline_index \in Indexes /\ cmdline_rawwim \in BOOLEAN
  /\ vdisk_files = <<BootWim(wim)>> /\ wim_file_idx = 0
  /\ xlen = Len(wim) /\ cached_patch = NoPatch
  /\ pc = "load"
  /\ window = [offset |-> 0, len |-> 0, patch_len |-> 0] /\ region = 1 /\ data = <<>>

LoopVars == <<window, region, data>>

\* add_file, or an iteration of efi_extract's loop.
add_file(f) ==
  /\ pc = "load"
  /\ Len(vdisk_files) < VDISK_MAX_FILES
  /\ vdisk_files' = Append(vdisk_files, f)
  /\ UNCHANGED <<Given, wim_file_idx, xlen, cached_patch, pc, LoopVars>>

\* die ( "Too many files\n" )
add_file_die(f) ==
  /\ pc = "load"
  /\ Len(vdisk_files) >= VDISK_MAX_FILES
  /\ pc' = "dead"
  /\ UNCHANGED <<Given, vdisk_files, wim_file_idx, xlen, cached_patch, LoopVars>>

EndOfFiles ==
  /\ pc = "load"
  /\ pc' = "loaded"
  /\ UNCHANGED <<Given, vdisk_files, wim_file_idx, xlen, cached_patch, LoopVars>>

PatchRequired == cmdline_index # 0 \/ ~cmdline_rawwim

\* patch_wim's cached patch, brought up to date; nothing if that fails.
UpdatedPatch ==
  IF ~PatchRequired \/ cached_patch # NoPatch
    THEN {cached_patch}
    ELSE wim_construct_patch(vdisk_files, cmdline_index, ~cmdline_rawwim)

\* wim_construct_patch sets the file's length.
SetPatch(p) ==
  /\ cached_patch' = p
  /\ xlen' = IF p = NoPatch THEN xlen ELSE p.xlen

\* Mutant: the method is recorded but not called.
vdisk_patch_file_NoCall ==
  /\ pc = "loaded"
  /\ pc' = "patched"
  /\ UNCHANGED <<Given, vdisk_files, wim_file_idx, xlen, cached_patch, LoopVars>>

\* The patch method is recorded and called on an empty window.
vdisk_patch_file ==
  /\ pc = "loaded"
  /\ \E p \in UpdatedPatch : SetPatch(p)
  /\ pc' = "patched"
  /\ UNCHANGED <<Given, vdisk_files, wim_file_idx, LoopVars>>

vdisk_patch_file_die ==
  /\ pc = "loaded"
  /\ UpdatedPatch = {}
  /\ pc' = "dead"
  /\ UNCHANGED <<Given, vdisk_files, wim_file_idx, xlen, cached_patch, LoopVars>>

Names == {vdisk_files[i].name : i \in 1 .. Len(vdisk_files)}

\* The resources of the selected image's file at a path.
ResourcesAt(path) ==
  UNION {wim_file(wim, s.header, s.boot, path) : s \in Selections(cmdline_index)}

\* Mutant: files that were loaded are not looked for.
Extracts_Always(path) == ResourcesAt(path) # {}

Extracts(path) == FileAt(path).name \notin Names /\ ResourcesAt(path) # {}

\* main extracts after patching; efi_extract extracts the boot loader before.  The
\* contents stay in the WIM: wim_read_file reads each cell when it is asked for.
wim_add_file(path) ==
  /\ pc \in {"loaded", "patched"}
  /\ wim_file_idx < WIM_MAX_FILES
  /\ Extracts(path) /\ Len(vdisk_files) < VDISK_MAX_FILES
  /\ wim_file_idx' = wim_file_idx + 1
  /\ \E res \in ResourcesAt(path) :
       vdisk_files' = Append(vdisk_files,
         [name |-> FileAt(path).name, ext |-> FileAt(path).ext,
          cells |-> [k \in 1 .. res.len |-> [from |-> res, at |-> k]]])
  /\ UNCHANGED <<Given, xlen, cached_patch, pc, LoopVars>>

\* Too many files, in the table of extracted ones or in that of all files.
wim_add_file_die(path) ==
  /\ pc \in {"loaded", "patched"}
  /\ \/ wim_file_idx >= WIM_MAX_FILES
     \/ Extracts(path) /\ Len(vdisk_files) >= VDISK_MAX_FILES
  /\ pc' = "dead"
  /\ UNCHANGED <<Given, vdisk_files, wim_file_idx, xlen, cached_patch, LoopVars>>

Install ==
  /\ pc = "patched"
  /\ pc' = "idle"
  /\ UNCHANGED <<Given, vdisk_files, wim_file_idx, xlen, cached_patch, LoopVars>>

----------------------------------------------------------------------------
(* Reading a window of the patched WIM *)

Least(a, b) == IF a < b THEN a ELSE b

\* The cell of the file as it was loaded; zeros behind its end.
OriginalCell(pos) == IF pos < Len(wim) THEN wim[pos + 1] ELSE Zero

\* vdisk_file reads the window and calls patch_wim, with a length of 0 if all of
\* the window is behind xlen.
ReadWindow(w) ==
  /\ pc = "idle"
  /\ window' = [offset |-> w.offset, len |-> w.len,
                patch_len |-> IF w.offset < xlen THEN Least(w.len, xlen - w.offset)
                              ELSE 0]
  /\ data' = [k \in 1 .. w.len |-> OriginalCell(w.offset + k - 1)]
  /\ region' = 1
  /\ pc' = IF PatchRequired THEN "patch" ELSE "idle"
  /\ \E p \in UpdatedPatch : SetPatch(p)
  /\ UNCHANGED <<Given, vdisk_files, wim_file_idx>>

CurrentRegion == cached_patch.regions[region]

\* wim_patch_region: the part of the window before the region, the offset of the
\* rest of the window in the region, and how much of the region that rest covers.
skip(r) == IF r.offset > window.offset THEN r.offset - window.offset ELSE 0

\* Mutant: every window is taken to start with the region.
relative_Zero(r) == 0

relative(r) == window.offset + skip(r) - r.offset

region_len(r) == Least(window.patch_len - skip(r), r.len - relative(r))

Affected(r) ==
  r.patch # "unused" /\ skip(r) < window.patch_len /\ relative(r) < r.len

RegionSkipped ==
  /\ pc = "patch" /\ region <= Len(cached_patch.regions)
  /\ ~Affected(CurrentRegion)
  /\ region' = region + 1
  /\ UNCHANGED <<Given, vdisk_files, wim_file_idx, xlen, cached_patch, pc, window,
                 data>>

RegionPatched ==
  LET r     == CurrentRegion
      cells == Method(cached_patch, vdisk_files, r, relative(r), region_len(r))
  IN  /\ pc = "patch" /\ region <= Len(cached_patch.regions)
      /\ Affected(r) /\ ~MethodFails(cached_patch, r, relative(r), region_len(r))
      /\ data' = [k \in DOMAIN data |->
                    IF k \in skip(r) + 1 .. skip(r) + region_len(r)
                      THEN cells[k - skip(r)] ELSE data[k]]
      /\ region' = region + 1
      /\ UNCHANGED <<Given, vdisk_files, wim_file_idx, xlen, cached_patch, pc,
                     window>>

\* die ( "Could not patch WIM ..." )
RegionFailed ==
  LET r == CurrentRegion
  IN  /\ pc = "patch" /\ region <= Len(cached_patch.regions)
      /\ Affected(r) /\ MethodFails(cached_patch, r, relative(r), region_len(r))
      /\ pc' = "dead"
      /\ UNCHANGED <<Given, vdisk_files, wim_file_idx, xlen, cached_patch, LoopVars>>

PatchReturns ==
  /\ pc = "patch" /\ region > Len(cached_patch.regions)
  /\ pc' = "idle"
  /\ UNCHANGED <<Given, vdisk_files, wim_file_idx, xlen, cached_patch, LoopVars>>

Next ==
  \/ \E f \in LoadedFiles : add_file(f) \/ add_file_die(f)
  \/ EndOfFiles
  \/ vdisk_patch_file
  \/ vdisk_patch_file_die
  \/ \E path \in wim_paths : wim_add_file(path) \/ wim_add_file_die(path)
  \/ Install
  \/ \E w \in Windows : ReadWindow(w)
  \/ RegionSkipped
  \/ RegionPatched
  \/ RegionFailed
  \/ PatchReturns

Spec == Init /\ [][Next]_vars

----------------------------------------------------------------------------
(* Properties *)

Used == {n \in 1 .. Len(cached_patch.regions) :
           cached_patch.regions[n].patch # "unused"}

Covers(r, pos) == r.offset <= pos /\ pos < r.offset + r.len

\* The cell at pos of the patched file: that of the last region that covers it.
PatchedCell(pos) ==
  LET covering == {n \in Used : Covers(cached_patch.regions[n], pos)}
      r        == cached_patch.regions[Max(covering)]
  IN  IF pos >= xlen \/ covering = {} THEN OriginalCell(pos)
      ELSE Method(cached_patch, vdisk_files, r, pos - r.offset, 1)[1]

\* However the boot manager cuts its reads, and wherever a window starts or ends
\* in a region, the windows are windows of one file: each cell has the same value
\* in all of them.
WindowsAgree ==
  pc = "idle" => \A k \in 1 .. window.len :
                   data[k] = PatchedCell(window.offset + k - 1)

\* The regions are apart, within the length that the directory shows and behind
\* the original file, except for the header, and for the changed subdirectory
\* offset, which lies within the copy of the metadata and is applied after it.
RegionsApart ==
  \A n \in Used :
    LET r == cached_patch.regions[n]
    IN  /\ r.offset + r.len <= xlen
        /\ r.patch = "header" \/ r.offset >= Len(wim)
        /\ \A m \in Used : m < n =>
             LET q == cached_patch.regions[m]
             IN  \/ q.offset + q.len <= r.offset \/ r.offset + r.len <= q.offset
                 \/ /\ q.patch = "boot.copy" /\ r.patch = "dir.subdir"
                    /\ q.offset < r.offset
                    /\ r.offset + r.len <= q.offset + q.len

\* Once the disk can be read, the length of the WIM does not change: it is in the
\* directory and the FAT that the boot manager may have read already.
LengthIsFinal == [][(pc \in {"idle", "patch"}) => (xlen' = xlen)]_vars

\* The files that were injected: of several with one name the first.
InjectedFiles ==
  LET injected == {i \in 1 .. Len(vdisk_files) :
                     \E n \in Used : /\ cached_patch.regions[n].patch = "file"
                                     /\ cached_patch.regions[n].opaque = i}
  IN  {i \in injected : \A j \in injected :
         vdisk_files[j].name = vdisk_files[i].name => i <= j}

\* The contents of the file at a path of an image, if there is one.
ContentsAt(image, header, meta, path) ==
  {wim_read(image, res, 0, res.len) :
     res \in {x \in wim_file(image, header, meta, path) :
                wim_readable(image, x, 0, x.len)}}

\* The patched file was read in one window.
ReadWhole == pc = "idle" /\ window.offset = 0 /\ window.len >= xlen
             /\ cached_patch # NoPatch

\* What the boot manager reads is a WIM whose boot image, by its header as well as
\* by its lookup table, contains every injected file, whole, in WIM_INJECT_DIR.
InjectedFilesFound ==
  LET image == SubSeq(data, 1, xlen)
  IN  ReadWhole /\ InjectedFiles # {} =>
        \E h \in wim_header(image) :
          /\ wim_count(image, h) = {h.images}
          /\ wim_metadata(image, h, h.boot_index) = {h.boot}
          /\ \A i \in InjectedFiles :
               ContentsAt(image, h, h.boot, Append(WIM_INJECT_DIR, vdisk_files[i].name))
                 = {vdisk_files[i].cells}

\* The path of an injected file leads to it, or through it.
TakenBy(i, path) ==
  \E n \in 1 .. Len(path) :
    SubSeq(path, 1, n) = Append(WIM_INJECT_DIR, vdisk_files[i].name)

\* And nothing is lost: at every path that no injected file takes, the image has the
\* contents it had, and every image of the WIM keeps its index and metadata.
OriginalFilesKept ==
  LET image == SubSeq(data, 1, xlen)
  IN  ReadWhole =>
        \E h \in wim_header(image) : \E s \in Selections(cmdline_index) :
          /\ \A path \in ImagePaths :
               /\ \A i \in InjectedFiles : ~TakenBy(i, path)
               /\ ContentsAt(wim, s.header, s.boot, path) # {}
               => ContentsAt(image, h, h.boot, path)
                    = ContentsAt(wim, s.header, s.boot, path)
          /\ \A index \in Indexes \ {0} :
               wim_metadata(wim, s.header, index) # {} =>
                 wim_metadata(image, h, index) = wim_metadata(wim, s.header, index)

\* A file loaded with wimboot is not replaced by a file of the same name from the
\* WIM, and no file of the WIM is injected into it again.
LoadedFilesWin ==
  LET loaded == Len(vdisk_files) - wim_file_idx
  IN  /\ \A i \in loaded + 1 .. Len(vdisk_files) : \A j \in 1 .. i - 1 :
           vdisk_files[j].name # vdisk_files[i].name
      /\ \A i \in InjectedFiles : i <= loaded
=============================================================================
