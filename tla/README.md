# A TLA+ model of wimboot

wimboot boots Windows PE from files that a network boot loader has put in
memory. It shows them to Microsoft's boot manager as a FAT32 disk that is
computed sector by sector, and changes a few of them (the boot WIM, the BCD) on
the way. This directory holds TLA+ models of its parts, TLC configurations that
check them on small instances and proofs that TLAPS checks for every instance.

Paths in `PROJECT.json` are relative to the repository's parent: `src/src/vdisk.c`
is `src/vdisk.c` of the repository.

## Inventory

| Component | State it keeps | Operations | What makes it correct |
|---|---|---|---|
| Virtual disk (`vdisk.c`, `vdisk.h`) | `vdisk_files`, the static index of `vdisk_add_file`; within a read the fragment | `vdisk_add_file`, `vdisk_patch_file`, `vdisk_read` | a read is an exact window of one fixed disk however it is cut; the disk is a FAT32 volume that contains the files |
| WIM reader (`wim.c`) | the one-chunk cache: three static keys and a buffer | `wim_header`, `wim_read`, `wim_count`, `wim_metadata`, `wim_path`, `wim_file`, `wim_dir_len` | what a read returns depends on the request only; directory walks end and find what is there |
| WIM patching (`wimpatch.c`) | `cached_patch`: a set of regions computed once per file | `patch_wim` | overlapping windows agree; the patched file is a WIM that holds the injected files |
| Extracted files (`wimfile.c`) | `wim_files`, static index | `wim_add_file` | no file is listed twice, the table does not overflow |
| BIOS boot flow (`main.c`, `peloader.c`, `callback.S`) | the initrd's place, pointers to bootmgr.exe and the WIM, region descriptors, control registers | `main`, `add_file`, `add_bootmgr`, `load_pe`, `call_interrupt_wrapper`, `call_real` | bootmgr.exe of the right origin is entered; the files survive its use of memory; a call leaves it undisturbed |
| INT 13 emulation (`int13.c`) | the drive number, the BIOS drive count | `initialise_int13`, `emulate_int13` | own drive answered, others passed on, the count includes the own drive |
| Memory (`memmap.c`, `paging.c`) | the static E820 continuation, page tables, copy of the control registers | `memmap_next`, `init_paging`, `enable_paging`, `disable_paging`, `relocate_memory_low`, `relocate_memory_high` | the initrd keeps its contents and address and moves to high memory if it can; nothing else moves |
| cpio (`cpio.c`) | two pointers into the archive | `cpio_extract` | every member that is whole is extracted once, in order; no step outside the input |
| Command line (`cmdline.c`) | the text, cut in place; the flags | `process_cmdline` | the flags are those asked for; the text is as before afterwards |
| EFI start-up and files (`efimain.c`, `efifile.c`) | the files and pointers to the boot managers | `efi_main`, `efi_extract`, `efi_patch_bcd` | the right boot manager; the BCD patched on every window |
| EFI block devices (`efiblock.c`) | the installed protocols | `efi_install`, `efi_read_blocks` | disk and partition are two views of one disk |
| EFI boot (`efiboot.c`) | the loaded image, a hooked entry of the boot services | `efi_load`, `efi_boot`, `efi_open_protocol_wrapper` | a refused image leaves nothing behind; graphics refused once, granted on retry |
| Decompressors (`lzx.c`, `xca.c`, `lznt1.c`, `huffman.c`) | a decoder state per call | `*_decompress`, `huffman_alphabet` | the pass without and the pass with a buffer agree, and give back the text |
| SHA-1, C library, start-up assembly, device paths, `elf2efi.c` | - | - | not modelled, see the end |

How they interact. `cpio_extract` calls back `add_file` (or `efi_extract` walks
the boot device), which calls `vdisk_add_file`; `wim_add_file` adds files from
inside the WIM; then `vdisk_patch_file` installs patch methods, which set the
final length. After that the disk is made visible (`initialise_int13`,
`efi_install`) and the program only runs when the boot manager reads: INT 13 or
Block I/O -> `vdisk_read` -> `vdisk_file` -> `file->read` (a memory copy, a
firmware call, or `wim_read` for extracted files) and `file->patch`
(`patch_wim`, which calls `wim_read` again on the same static buffer).

There are no threads. What is hard is arithmetic at boundaries (a disk of almost
2^32 sectors with files in slots of 2^23, computed in 32 or 64 bits; archives, memory
regions and windows that end anywhere), windows (every builder and patch method is called
on arbitrary windows that must agree with one another), static caches, long legal sequences
of reads, and the code that wimboot shares the machine with: the boot manager calls back in
its own CPU mode and uses the memory it was not told to leave alone, a BIOS changes its
data, and firmware events run between any two steps of the UEFI build. The hazards are
listed line by line in `PROJECT.json`.

## Modules

| Module | Models |
|---|---|
| `VdiskLayout` | the macros of `vdisk.h`, under their names; the numbers are constants, with the assumptions under which the layout makes sense |
| `Vdisk` | the table of files, the builders, `vdisk_regions`, and `vdisk_read` with one action per iteration of its loops |
| `BlockDevice` | the abstract device: a disk is a function, a read one step |
| `EfiBlock` | the two block devices of the UEFI build, as requests to `vdisk_read` |
| `FatView` | the FAT32 driver that reads a device (external), and the file system it must find |
| `MCVdisk` | a disk scaled down for TLC |
| `Arithmetic_proofs` | lemmas about division, remainders, least and greatest elements, for the proofs below |
| `Vdisk_proofs` | theorems about reads of the disk, and about the file system on it; the real numbers satisfy the assumptions |
| `WimRead` | `wim_chunk_offset`, `wim_chunk`, `wim_read` and its cache |
| `ResourceReader` | the abstract reader: it has no memory |
| `WimRead_proofs` | theorems about `WimRead` |
| `MCWimRead` | three small WIM files, built as a WIM writer (external) builds them |
| `WimFormat` | the header, the lookup table and the directories of a WIM as cells, and the searches of `wim.c` in them |
| `WimPatch` | `wim_construct_patch`, `patch_wim` and its methods, `wim_add_file`, and the order in which loading, patching and extracting happen |
| `WimPatch_proofs` | theorems about `WimPatch` |
| `MCWimPatch` | WIM files of two images, whole, damaged and cut, the files that are loaded and the windows that are read |
| `Cmdline`, `Cpio`, `Memory`, `Int13` | the parts of the BIOS build, each with its own variables and actions |
| `BootBios` | `main` and the interrupt callback, composed of those parts; the boot manager and the BIOS (external) |
| `Cmdline_proofs`, `BootBios_proofs` | theorems about the command line, and about the whole of the BIOS build |
| `MCBootBios` | command lines, archives, memory maps and machines |
| `BootEfi`, `MCBootEfi` | `efi_main`, `efi_extract`, `efi_install`, `efi_load`, `efi_boot`, the hooked `OpenProtocol` |
| `BootEfi_proofs` | theorems about `BootEfi` |
| `EfiBcd`, `MCEfiBcd` | `efi_patch_bcd` on windows of the BCD |
| `Huffman` | `huffman_alphabet`, `huffman_sym`, and the canonical code they must implement |
| `Decompressor` | what the decompressors share: input, output, the two passes |
| `Lznt1`, `Xca`, `Lzx` | the decompressors, one step per token, header or table |
| `Compressor` | compressors of the three formats (external) |
| `Decompress`, `MCDecompress` | the decompressors on streams that the compressors make |
| `Decompress_proofs` | theorems about Huffman alphabets |

### Vdisk

`vdisk_files`, `index`, `request` (the arguments), `frag_start`, `frag_end`,
`region` (the loop counter), `build` and `data` are the variables of the code;
`pc` says where it is. The file table is filled by `vdisk_add_file`,
`vdisk_add_file_die` (too many files) and `vdisk_patch_file`; `Install` is
`initialise_int13` or `efi_install`. `ReadStart` enters `vdisk_read`;
`FragmentInSlot` and `FragmentInMetadata` are the two branches on `file_idx`;
`ScanPast`, `ScanFound` and `ScanEnd` are one iteration of the scan of
`vdisk_regions`; `BuildFragment` calls the builder and tests the loop's end.

A sector is a record: what kind it is and the fields a reader of it uses. A
sector of a file says which file and offset it shows and how many of its bytes
were read and how many were handed to the patch method; bytes are not modelled.
Unsigned arithmetic keeps its width: `UINT32` and `ULONG` are the number of values
of the types, so the 32-bit build is `ULONG = UINT32`.

### WimRead

A file is a sequence of cells; a chunk table cell holds a number, other cells are
opaque. The decompressor is a parameter: it maps cells to cells or fails. `pc`
is at the `while` ("loop"), between the cache and the copy ("copy"), or outside.
`ChunkCached`, `ChunkRead`, `ChunkFailed` are the three ways through the test of
the cache, `CopyFragment` the rest of the iteration. `Original` holds what the writer of a file was given
for its resources, and `WriterAssumption` says how it stored that (external): the chunks, raw or compressed to fewer cells,
behind a table of their offsets. A chunk may be damaged if that shows (`DamageShows`): its place lies outside the
resource, or what is stored cannot be decompressed to a chunk of the right length; wimboot has no checksum that would reveal
anything else. In `MCWimRead` one file is damaged in each of these ways and cut off.

### WimFormat and WimPatch

A WIM is a sequence of cells, and a cell is a field of a structure (a number, a resource
header, a hash, a name) or one unit of a file's contents. Lengths and offsets count cells, so
that alignment, truncation and a window that cuts a structure in two are kept. A name is
one cell and names are equal if the code's comparison without regard to case finds them
equal; `wim_hash` maps different contents to different hashes; times and attributes are left out.
A search (`wim_metadata`, `wim_path`, `wim_file`, ...) returns the set of its results:
empty stands for the error return, and no search returns more than one. `wim_read` is a
function of the file and the request here; that the code's cache does not show is what
`ImplementsReader` of `WimRead` says. `DirEntries` are the places that a walk over a directory comes
past; `wim_direntry` is the first of them with the name, `wim_dir_len` the place where the walk meets the
terminator. `DirWalk` and `PathWalk` are the walks over a directory and along a path. `IsWim` says what a WIM
writer (external) guarantees of a file and the code does not check:
fields have their types, a compressed resource that lies in the file can be found there, and one that
is not compressed takes as many cells as it is long. `WriterAssumption` says what else it guarantees of the files
in `Wims`, those that were cut off included: the lookup table consists of whole entries, no resource lies in the
header, an entry with a hash names a resource that can be read and has that hash, and the directories are a
tree as far as `WIM_INJECT_DIR` is concerned (`IsTree`: its entry is reached along no other path and shares no cells
with another entry; the code changes a field of that entry in place). TLC evaluates it on every file of `MCWimPatch`.

`cached_patch`, `xlen`, `wim_file_idx` are the code's variables, `region` is the loop counter of
`patch_wim`, `window` its arguments and `data` its buffer. The regions stand in the order of
`union wim_patch_regions`, in which they are applied. `add_file`, `EndOfFiles`,
`vdisk_patch_file`, `wim_add_file` and `Install` are the steps of `main` (and of
`efi_extract`, where one file is extracted before the patch is made); `ReadWindow` enters
`vdisk_file`; `RegionSkipped`, `RegionPatched` and `RegionFailed` are one iteration of the
loop over the regions. Every `die` is an action that leads to the state "dead".

### BootBios and its parts

`BootBios` extends `Cmdline`, `Cpio`, `Memory` and `Int13`. Each part has its variables, its
own program counter and one action per iteration of its loops; an action of `BootBios` is the
step of one part, what `main` does with its result, and UNCHANGED for the other parts. `pc`
goes through `main` in the code's order: command line, paging, relocation below 2GB, the archive
(each member that `cpio_extract` finds is handed to `add_file` in the same step), the WIM,
INT 13, the PE image, relocation to high memory, the region descriptors, the entry of
bootmgr.exe. From then on the external actions are enabled: `UseMemory` (the boot manager
overwrites all memory below 4GB that no descriptor covers), `CountDrives` (the BIOS changes its
count), `MakeCall` (an interrupt, in any of the boot manager's CPU modes) and `BootmgrReturns`.
A call runs through `call_interrupt_wrapper`, and through `call_real` when the BIOS answers it.

Memory is a function from addresses to opaque cells, read and written through the page
directory `pd` when paging is on, so that a copy through the wrong window, or a page that is
mapped away under its user, is seen as lost contents. `load_pe` is a step for the headers, one for
each section and one for the raw copy; nothing interrupts it, so the steps are there only to be reasoned about. A command line is a sequence of tokens (a
word is one token); an archive is a list of members and runs of zeros and a length, the code
sees the headers and zeros at their byte offsets. `FilesIntact` and `ImageIntact` are stated for
layouts in which what the code puts next to each other lies apart (`Apart`) and for images below 4GB whose
sections ascend, fit and have their data in the file (`WellFormedImage`), since `main` relies on both and checks
neither; the runs reach layouts of both kinds.

### BootEfi and EfiBcd

The root directory is read entry by entry (`dir` is what is left of it), and so are the files that are
looked for in the WIM (`paths`), each added only if no file of its name is there; `pc` then follows `efi_extract`, `efi_install`, `efi_boot`.
Every firmware call that the code checks may fail (`FirmwareFails` where it ends in `die`,
`LoadFails` where the code goes on with the next boot manager). The two assignments that hook
`OpenProtocol` are two steps, and `FirmwareEvent` opens a graphics output through the table of boot
services between any two steps of wimboot. `blocked` is the set of handles that carry the
dummy protocol; installing it may also fail for want of memory. `EfiBcd` is the loop of `efi_patch_bcd`, a step per
position, on windows of whole sectors that may be cut by the end of the file.

### Decompressors

A stream is decompressed twice as its callers do, without a buffer and with one; `src`, `out_len`, `out` and `lens`
(what the passes returned) are shared, `dec` has the decoder's own variables: the tables, the
bits read ahead (XCA), the repeated offsets, block type and rest of the block (LZX), the tags and the limits of
the block (LZNT1). The alphabet is built and searched as in `huffman.c`, with its table of shifts, and
compared with the canonical code defined on its own. The size of a byte is a parameter: with 4 bits a
byte the alphabets have 16 literals, and words, nibbles and long lengths keep their relations.

## Runs

| Run | Checks | Size |
|---|---|---|
| `vdisk_read` | `FragmentsCover`, `FragmentIsExact`, `DirentIdxInTable`, `ReadEnds`, `ImplementsBlockDevice`: reads at, before and across every boundary of the disk, 64-bit build | 28 000 states |
| `vdisk_fs` | `TypeOK`, `FilesAreReadable`, `ChainEndsInOwnSlot`: every table up to one file too many, patched or not, seen by a FAT driver, 32-bit build | 1 300 states |
| `vdisk_into_slot`, `vdisk_last_slot`, `vdisk_empty` | three disagreements of the code with its comments, below | - |
| `wim_read` | `CacheIsCoherent`, `LoopCopiesWindow`, `ReadsOriginal`, `ImplementsReader`, `ReadReturns` | 8 000 states |
| `boot_bios` | `CmdlineRestored`, `FlagsAreAsked`, `MembersExtracted`, `HighIfPossible`, `OthersUnmoved`, `DriveIsCounted`, `BootmgrChosen`, `FilesIntact`, `ImageIntact`, `CallerUndisturbed`, `TextModeForced`, `BootDecides` | 71 000 states |
| `boot_efi` | `LoadedByPrecedence`, `OnlyImageRenamed`, `PagesForImage`, `HookComplete`, `BlockedOnce`, `RetrySucceeds` | 109 000 states |
| `efi_bcd`, `lzx_stored` | two more disagreements, below | - |
| `decompress` | `AlphabetIsCanonical`, `TextRecovered`, `LzxTextRecovered`: all tables of 5 lengths up to 5, and streams of every short list of tokens | 31 000 states |
| `wim_patch` | `WindowsAgree`, `RegionsApart`, `InjectedFilesFound`, `OriginalFilesKept`, `LoadedFilesWin`, `LengthIsFinal`: the patched file is one file, a WIM, and holds the injected files and everything it held before | 370 000 states |

Bounds. The scaled disk has 64-byte sectors, clusters of 8 sectors, slots of 512
sectors and 2^15 values for 32-bit numbers. The ratios that matter are those of
`vdisk.h`: a slot holds 2^32 bytes (here 2^15), the disk ends in the last slot below
2^32 sectors, the table has one file fewer than a cluster has sectors, the FAT is a
whole number of clusters and its first sector covers the directories and no file.
Requests touch every boundary with zero or one sector before it and one or three
after it, and four long ones cross many regions. File lengths are below, at and
above a cluster, zero, and a slot filled by the patch. In `wim_read` a chunk has
three cells and resources one to three chunks: a first, a middle and a short last
one; `UINT32 = 8` makes one resource long enough for wide table entries. Requests
start and end in every chunk.

In `wim_patch` alignment is to 3 cells, the table has four files and three can be extracted.
The files include two of one name, one whose name is already in the image, and names that are not
injected. The WIM has two images, either of which (or the one of the header) is selected; in one WIM
the last directory cannot be decompressed, and one is cut short. The windows have 11
cells and start every 7 cells, so that they overlap, start and end inside, before and behind
regions, and cover several; one window covers the whole file, which is what the properties about the
contents are evaluated on.

In `boot_bios` memory has 60 cells: 4KB is 2 cells, 1MB 2, a 2MB page 4, 2GB is cell 32 and 4GB
cell 40. Each boot departs from a plain one in one respect, because the parts are used one
after the other: all command lines of up to three tokens and four longer ones; archives that are joined by zeros and cut at every byte,
and all orders of bootmgr, bootmgr.exe and the WIM; twelve memory maps (regions in and out of order,
with a failure in the middle, of unusable types, that just hold the initrd or just do not, across 4GB), two
addresses and lengths of the initrd, with and without PAE. One boot has every call that a
boot manager makes.

In `boot_efi` the root directory has any of the five names that matter, the WIM any of
its two boot managers; there are two graphics outputs, and a handle could be refused twice
(`MaxRefusals`) if the code let it.

In `decompress` the tokens include both ends of each range of lengths, matches that run into
themselves, all three repeated offsets of LZX and jumps to translate; streams have one or two blocks. Broken streams are
cut or have bad headers. Left out of `TextRecovered` and
`LzxTextRecovered` are stored LZX blocks (`lzx_stored`) and XCA texts whose symbols do not all come
before the last word is read ahead: the loop of `xca.c:63` stops when the last word has been
read, so that up to a word of symbols is decoded only if an end marker stands behind it, a match of
offset 1 and length 3 in that place is taken for the end marker, and a text of exactly
`XCA_BLOCK_SIZE` bytes with an end marker is refused. `wim_chunk` refuses a chunk of another
length than it expects, so such a stream is an error and never wrong contents.

`CHECK_DEADLOCK FALSE` is set where the system really stops: `die` halts the machine (the disk,
`wim_patch`, both boots), a boot manager need not call again, a stream has been returned
(`decompress`); and `vdisk_fs` issues no reads. `wim_read` and `efi_bcd` check deadlock.

Fairness. Weak fairness of wimboot's own steps (`vdisk_read_step`, `wim_read_step`, `main`,
`call_interrupt_wrapper`, `efi_main`): they run on one processor that nothing takes away from
them; interrupts and firmware events return. No BIOS boot manager is assumed to make a call.
`RetrySucceeds` assumes a boot manager that tries again when it is refused (`ManagerOpens`),
which is what the comment in `efi_open_protocol_wrapper` speaks about.

### Findings

* `vdisk_into_slot`: a read that starts in the empty sectors behind the last
  directory and continues past sector `VDISK_FILE_COUNT` returns zeros for the first
  file's sectors, because no entry of `vdisk_regions` stops the fragment there.
* `vdisk_last_slot`: in the 32-bit build `VDISK_FILE_LBA` of the slot after the last
  one below 2^32 sectors is 0; a read there gets a fragment that ends before it starts.
* `vdisk_empty`: in the 64-bit build the end marker of a file of length 0 is stored
  outside the file's slot. (In the 32-bit build the wrapped quotient happens to be the
  last cluster of the slot, so `ChainEndsInOwnSlot` passes in `vdisk_fs`, and that run
  has an empty file in every table of three or more.)

* `efi_bcd`: `efi_patch_bcd` never looks at the last place of its window where the pattern
  fits, so `.exe` and its terminator at the very end of a window are not patched. `OccurrencesPatched` is about
  occurrences wholly inside a window; one that lies across two is never patched either, since each call sees one window.
* `lzx_stored`: an uncompressed LZX block does not move the output's offset, so it adds nothing
  to the length that is returned: for the only stream of the run, one such block of three bytes, both passes return 0,
  though the second one has put the bytes into the buffer.

Noted while modelling and not the subject of a run, since no line of the repository says
otherwise: `lznt1_decompress` does not compare the end of a compressed block with the
input's length; LZNT1 and XCA do not compare a match's offset with the start of the output;
`efi_read_file` does not compare the length that was read with the one asked for
(`efifile.c:87`); `add_bootmgr` subtracts `BOOTMGR_MIN_LEN` from a length that may be smaller
(`main.c:270`). The models' inputs do not reach these.

`Served` names the requests that the first two leave: everything else is checked
and proved. A FAT driver that reads a file or a directory issues only served requests.

## Proofs

`Vdisk_proofs` proves for every geometry that satisfies the assumptions of
`VdiskLayout`, every set of lengths and patch sizes, and every set of requests that are
served and not empty (`AllServed`):

* `TypeCorrectness`: `Spec => []TypeOK`;
* `FragmentsCoverRequest`: the fragments cover the request exactly;
* `FragmentsAreExact`: a builder agrees on every window with itself on single sectors;
* `DirentAssertion`: the assertion of `vdisk_dir_files` holds;
* `Refinement`: `Spec => ImplementsBlockDevice`;
* `SlotOfCluster`: partition start plus sector of `VDISK_FILE_CLUSTER(i)` is the first
  sector of file `i`'s slot, the equation that ties the FAT to the slots.

The inductive invariant is `IInv`, the conjunction of `TypeOK`, `RequestInv` (the request
is one of `Requests`), `FragmentsCover`, `FragmentInv` and `DataInv`. `FragmentsCover` is not
inductive by itself: that a fragment is not empty and ends within the request depends on
where the scan is. `FragmentInv` says that the regions before `region` in the table do not
overlap the fragment (so that a scan that ends without a region has found empty space), that
the fragment does not straddle a region's start, and that a chosen builder covers all of it.
`DataInv` says that what was written equals the disk, sector by sector, which is what the
refinement's `Answer` step needs. Refinement maps the steps inside a read to stuttering and
the last `BuildFragment` to `Answer`.

`AllServed` also leaves out requests of no sectors, for which the body of the `do` loop still
runs once, on a fragment that is empty; TLC checks those, at the start of regions, inside
the FAT and in a slot.

It also proves what a FAT driver finds on the disk:

* `FilesAreAlwaysReadable` (`FilesAreReadable`): each file is in every boot directory, with its name and its final
  length, and its chain of clusters leads through its own sectors and ends there. In the 32-bit build
  without a hypothesis, since no length there is above a slot; in the 64-bit build for files that fit their slots
  (`FilesFitSlots`), which the code does not check.
* `ChainsEndInOwnSlots` (`ChainEndsInOwnSlot`): the same hypotheses and, in the 64-bit build, no empty
  file (`NoFileEmpty`): `vdisk_empty` shows that the second is needed.
* `RealGeometry`: the numbers in `vdisk.h` satisfy all the assumptions of `VdiskLayout`, in both builds, so the theorems hold
  of the real disk that TLC cannot count.

The inductive invariant `TableInv` only says that the table is typed and that a slot has a file exactly if it is
below `index`; the rest is arithmetic about one state. `RegionTable` computes the 19 regions, which are in the order of their
sectors, so that the builder of a sector is the one whose bounds hold it (`RegionIs`). From there the sectors
with the MBR, the boot record, the FAT and the directories are found. `vdisk_fat` writes one marker per file into the sector of
the FAT it builds, wherever the file's last cluster is: `EndMarkers` shows that the marker of
a file is in its own slot or, for an empty file of the 64-bit build, at the end of the slot before, so no other
file's chain is cut, and `OwnMarker` that it is the last cluster the length needs.
`GeometryMapsFiles` is an assumption of its own because the FAT of `vdisk.h` has
entries for `VDISK_CLUSTERS` clusters while clusters are numbered from 2: the last two clusters of the disk have no
entry, and no file may be there.

### WimRead

`CacheCoherence` (`CacheIsCoherent`), `WindowCopied` (`LoopCopiesWindow`) and `ReaderRefinement`
(`ImplementsReader`), for all files, resources, requests and decompressors, chunks of any length and both
widths of table entries. The inductive invariant `IInv` adds to the coherence of the cache what is true while a
call is served (`Serving`): the resource lies in its file, the rest of the window in the resource, the cells
copied so far are those of the resource, and every chunk of that part can be decompressed. The last is
what the refinement needs: the abstract reader fails if *any* chunk of the window does, the code when it comes
to that chunk. Chunk numbers are quotients of positions, so the proof of `CopyFragment` is that a fragment
does not leave its chunk. Assumed: the table holds numbers (`TablesHoldNumbers`) and ascends (`TablesAscend`).

`OriginalIsRead` (`ReadsOriginal`) says that what a call returns with success is what the writer of the WIM was given.
`Answered` (the last call that succeeded returned its window) is inductive together with `IInv`; the rest is about the format.
`EntryIsRead`: an entry of either width is decoded to the number that was encoded; `StartIsFound`: so
`wim_chunk_offset` finds each chunk where the table puts it; `ChunkIsExpected`: `expected_out_len` is the length of the piece the writer
cut, which tells chunks that are stored raw from compressed ones; `ChunkIsOriginal`: so a chunk is read as it was given, or not at all.

### WimPatch

`PatchedOnce` (`LengthIsFinal`), `LoadedFilesAreKept` (`LoadedFilesWin`), `PatchesAreApart` (`RegionsApart`)
and `WindowsAlwaysAgree` (`WindowsAgree`), for any number of files of any lengths, any WIM, index and windows.
`OnceInv` is inductive: the files that were loaded come first and those that were extracted have names of their
own and are not injected (`FilesInv`); the patch, once there is one, is a patch of the injected files, with
regions that are apart (`PatchInv`); and it is there from the moment the method is recorded (`PhaseInv`). That a
new patch has regions that are apart (`PatchMade`) rests on the table's six parts (`RegionTable`), on counting
(`CellsAddUp`, `RanksAscend`: the files before the i-th fill what lies before its region) and on
the subdirectory's entry lying inside the metadata (`InjectDirInside`).

`WindowsAgree` is about the end of a loop. `LoopInv` says that in the loop each cell of the window has the value
that the last region *before the loop counter* gives it (`CellUpTo`). `RegionCovers` proves that `skip`,
`relative` and `region_len` together find exactly the cells of the window that the region covers, and
`MethodCell` that what a method writes to a cell does not depend on where the window starts.

`InjectedFilesAreFound` (`InjectedFilesFound`) and `OriginalFilesAreKept` (`OriginalFilesKept`) are about what is read,
searched by the same walks as the code's, for lookup tables, directories and paths of any length. The argument:

* What was read is what was patched. `AppliedInv`: no region failed, so everything that the patch copies could be read
  (`WholeRead`), and each cell of the file is the one that its last region gives it (`IsImage`). `MadeInv`: the patch is still
  the one that `wim_construct_patch` would make for the files there are now, since those that were extracted in
  the meantime are not injected.
* The parts (`HeaderPart` ... `DirPart`, `KeptPart`): what each part of the file holds, cell by cell, from where
  the regions are (`InjectsPlaces`) and from their being apart.
* The new metadata (`IsNewMetadata`): the old one with one number changed, the entries of the injected files, the
  copy of the directory. `WalkIsSound`, `WalksAgree` and `WalkOver` say where a walk over a directory comes past, `NameFound`
  that two searches find the same entry if all that they come to up to there is the same. So every directory
  but `WIM_INJECT_DIR` is searched with the same result (`DirectorySame`); in that one each injected file is found
  (`InjectedEntryFound`), and every other name where its entry was copied to (`DirectoryCopied`).
* Paths (`PathIsKept`): along a path that no injected file takes, entry by entry, the walk over the new metadata finds the
  entry with the same hash; `InjectedPath` is the walk to an injected file.
* The new lookup table (`IsNewLookup`): the old entries, that of the metadata and those of the files. So the images are
  counted right and keep their numbers (`ImagesCounted`), and the first entry with a hash names the contents that hash had
  (`ContentsKept`) or the injected file's (`ContentsInjected`); if a file of the WIM has the same hash, it has the same contents.
* Without injection only the header changes, and every search is the same (`OnlyHeader`, `PathsSame`, `ContentsSame`).

Both were checked by TLC before as invariants of `wim_patch`; the proofs led to `OriginalFilesKept` saying "takes the path" for a
path that leads *through* the place of an injected file too (`TakenBy`), since a directory of that name would be hidden
as a file of that name is.

Assumed: the WIM is one that a WIM writer makes (`IsWim` in `PatchAssumption`, and `WriterAssumption`, above); and the files that
`main` and `efi_extract` extract are none of those that are injected (`ExtractAssumption`), which their constant paths
satisfy.

### Command line and BIOS boot

`Cmdline_proofs` proves `CmdlineIsRestored` and `CmdlineIsObeyed` of `CmdlineSpec`, for lines of any length. `CInv` says
which cells are cut while an argument is processed (the one behind it and the one behind its key) and that the
pointers tell which; `FlagInv` that the flags are those that the arguments up to `key` ask for and that no argument
between `key` and `tmp` was passed over.

`BootBios_proofs` proves of `BootSpec`, the whole of `main` and the calls of the boot manager:

* `BootRestoresCmdline`, `BootObeysCmdline`: the same theorems, since every other step leaves the parser's variables alone;
* `CallsAreTransparent`, `TextModeIsForced`, `EmulatedDriveIsCounted`, from `CallsInv`: for each label
  of a call, which of the control registers, of the saved ones and of those pushed by `call_real` agree with the caller's;
* `OnlyInitrdIsMapped`, `InitrdIsHighIfPossible`, from `PlacedInv`: a walk over the memory map has seen and refused every region
  before the current one (`WalkInv`), pages copied so far are mapped to their copies and no others are changed (`PageInv`);
* `BootmgrIsChosen`, from `ChoiceInv`: the pointer to bootmgr.exe is set exactly if the members seen so far give one,
  and points to the one with precedence;
* `MembersAreExtracted` (`MembersExtracted`), from `CpioInv`: the read pointer is in the item `p` behind those that were passed, at its
  start if it is a member, and what was extracted are the members before `p` (`ReadUpTo`). Items start at multiples of
  four (`ItemSpan`) and no two hold the same offset (`ItemAt`), so the header at the pointer is that of `p`; and `SoundIs` shows that the comparison of
  `cpio_len` with the rounded length refuses exactly the members that are cut, in their data or in their padding;
* `FilesStayIntact` (`FilesIntact`) and `ImageStaysIntact` (`ImageIntact`), from `ContentInv`, below.

`ContentInv` says what the cells of memory hold while `main` moves things about, phase by phase. Up to the image the
initrd is at `initrd` (`HoldsInitrd`, with what `add_bootmgr` put in front of it). While the image is loaded, the initrd and the
file of bootmgr.exe are still there and the sections loaded so far are complete, if headers and sections are apart from both
(`SectionsFit`, which needs the layout and not the final length, as `Apart` does; `RawStore` shows that `Apart` implies it).
While the initrd is copied above 4GB (`CopyInv`), each of its cells is found where `CopyAt` says, at its new place if it is in a
page already copied and at its old one otherwise, and its address is mapped there; `CopyFragment` shows that one fragment moves
the cells of one page and changes no other, because no page of the initrd is the page of the copy window. From then on it is at
`initrd_phys`, the page tables map its address there, and the image is complete (`ImageInv`). What the boot manager
overwrites is neither, because the region descriptors cover both (`RegionCovers`, on pages that are not aligned; above 4GB nothing
needs to be covered). An emulated read uses wimboot's own page tables exactly if there are any (`CpuInv`), hence sees the initrd.
The invariant uses those of the other theorems: no page is remapped before the copy, the initrd's place is one of RAM, and
bootmgr.exe is a file of which the origin is known.

Assumed: `CmdlineAssumption`, `MemoryAssumption`, `Int13Assumption`, `BootAssumption` (types and the order of the
addresses), and of the machine what `BootInit` says: the BIOS answers with a memory map of which the RAM exists
(`IsMemoryMap`), the initrd is made of items one behind the other and may be cut
(`IsArchive`), an archive of no bytes has no members, the initrd lies below 4GB, its bootmgr.exe lies inside it
and the fields of the image's headers are numbers (`Images`).

### BootEfi

`HookIsComplete`, `HandlesBlockedOnce`, `OneBootLoader`, `OnlyImageHasPages`, `Precedence`, for any root directory
without two entries of one name, any contents of the WIM, any set of graphics outputs and any interleaving of firmware
events and failures. `HookInv` and `BlockInv` are small. The other three share `IInv`: while the directory is read, the
files and the rest of the directory make up the whole (`ReadInv`); the pointers then tell what was given
(`ExtractInv`); from the choice on, the two pointers are `Candidates` in order (`CandidatesInv`), and what was tried is
a prefix of them (`AttemptsInv`); a file has another name than its own exactly while it is the image (`LoadInv`).
Assumed (`EfiAssumption`): `boot<arch>.efi` is none of the other names, and none of the paths extracted from the WIM.

### Huffman alphabets

`Decompress_proofs` proves `AlphabetsAreCanonical` (`AlphabetIsCanonical`) for any number of symbols, any `HUFFMAN_BITS` and any
size of the lookup table; assumed are the numbers' order (`HuffmanAssumption`) and that no length is above `HUFFMAN_BITS`
(`TablesAssumption`), which the formats cannot express. The lemma behind it, `AlphabetsDecode`, is about the operators alone. The canonical code is stated without `huf`
or `cum_freq`: each symbol owns a share of the `HUFFMAN_BITS`-bit numbers, behind those of the symbols before it (`Earlier`). The
proof ties the loop to the shares: normalised, the first code of a length is what the symbols with shorter codes share out
(`CodesUpTo`), so the alphabet is complete exactly when the shares cover every number, and then no length has too many codes (`SoundIsComplete`;
`EmptyIsSound` is the unused alphabet). A number in a symbol's share is not below the start of the symbol's length and is below those of all longer ones
(`ShareIsCode`); its prefix is not below that of the length's start, so the entry of the quick lookup table is at or above the length and the
walk down ends there (`SymIsFound`). Its quotient counts the symbols of the length that come first, and the
symbol is at that place of the raw symbols (`PlaceFacts`, `RawAtPlace`). `Steps` and `Iterates` are the induction over a loop
that the proofs use.

### Only model-checked

* Liveness (`ReadEnds`, `ReadReturns`, `BootDecides`, `RetrySucceeds`): fairness is out of the prover's reach.
* What the decompressors compute (`TextRecovered`, `LzxTextRecovered`): induction over the stream.

## Not modelled

* `src/efi`: headers of the UEFI specification taken over from EDK2, about two thirds of the lines
  under `src/`. They declare types and constants and have nothing to model; they are also why
  the mapped lines are a small share of all lines. Of the C files that make up the program, the
  mapped lines leave out comments before functions, debug output, SHA-1 and the C library.
* `elf2efi.c`, `coverity-model.c`: build tools, not part of the program. `vsprintf`: vendored.
* SHA-1: a digest is right if its test vectors are; there is no state to explore.
* C library functions, the console, the stack cookie.
* `startup.S`, `prefix.S`: the entry, before there is any state of the models. Of
  `callback.S` the mode switches are modelled, not the registers it passes on.
* `efipath.c` and the device paths of `efiblock.c`: constant data.
* Formatting and debug output; short-name checksums, dates and volume labels of the disk.
* cpio sizes near 2^32: the fields have 32 bits, and in the BIOS build the sums that make up `cpio_len` (`cpio.c:111`) wrap. The
  model's do not, so it says nothing of headers that name such sizes.
* A chunk table that does not ascend (excluded by `TablesAscend`), a file longer than its slot.

## Plan

Every invariant of the runs is proved except those listed under *Only model-checked*. What is left needs either induction over
recursive definitions (the decoders) or fairness, so the next step is to widen the runs, not the proofs: a WIM whose lookup table
repeats a hash.
