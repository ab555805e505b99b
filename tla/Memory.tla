------------------------------- MODULE Memory -------------------------------
(***************************************************************************)
(* Memory in the BIOS build: the walk over the system memory map            *)
(* (src/src/memmap.c), the page tables and the relocation of the initrd to  *)
(* high memory (src/src/paging.c), and its relocation below 2GB             *)
(* (relocate_memory_low of src/src/main.c).                                 *)
(*                                                                         *)
(* Memory is measured in cells of opaque contents; PAGE_SIZE and the other  *)
(* sizes keep their relations.  A virtual address is below ADDR_4GB, a      *)
(* physical address is not bounded by it.                                   *)
(***************************************************************************)
EXTENDS Integers, Sequences, FiniteSetsExt

CONSTANTS
  PAGE_SIZE, PAGE_SIZE_2MB, COPY_WINDOW, ADDR_1MB, ADDR_2GB, ADDR_4GB,
  MemorySize   \* bound: the cells of physical memory

ASSUME MemoryAssumption ==
  /\ {PAGE_SIZE, PAGE_SIZE_2MB, COPY_WINDOW, ADDR_1MB, ADDR_2GB, ADDR_4GB, MemorySize}
       \subseteq Nat \ {0}
  /\ PAGE_SIZE_2MB % PAGE_SIZE = 0
  /\ COPY_WINDOW = PAGE_SIZE_2MB /\ ADDR_4GB % PAGE_SIZE_2MB = 0
  /\ ADDR_1MB < COPY_WINDOW /\ COPY_WINDOW < ADDR_2GB
  /\ ADDR_2GB < ADDR_4GB /\ ADDR_4GB < MemorySize

VARIABLES
  e820,        \* the BIOS's answers to INT 15,e820: records [start, len, type, attrs]
               \* and type "error" for a failure; attrs is NoAttrs or a set
  e820_ebx,    \* the continuation value: the number of answers read, 0 at the end
  region,      \* the caller's pointer to the entry: an index of e820, or 0 for NULL
  ram,         \* the contents of physical memory
  pd,          \* the page directory: the physical address of each 2MB page
  paging,      \* paging is available
  cpu, saved,  \* the control registers, and the copy in struct paging_state
  initrd, initrd_len,
  dest, copied,  \* relocate_memory_high's dest at the start, and the cells copied
  initrd_phys,
  memory_pc    \* "low", "low_try", "placed", "high", "high_try", "copy", "relocated"

memoryVars == <<e820, e820_ebx, region, ram, pd, paging, cpu, saved, initrd, initrd_len,
                dest, copied, initrd_phys, memory_pc>>

walkVars == <<e820_ebx, region>>
givenVars == <<e820, paging, saved, cpu>>

----------------------------------------------------------------------------
(* Paging *)

Pages == 0 .. (ADDR_4GB \div PAGE_SIZE_2MB) - 1

\* The control registers that matter: CR0.PE, CR0.PG, CR4.PAE and whose tables CR3 has.
Cpu == [pe : BOOLEAN, pg : BOOLEAN, pae : BOOLEAN, cr3 : {"pdpt", "other"}]

\* The physical address behind a virtual one.  Tables other than wimboot's own are
\* taken to map every page to itself.
Translate(dir, v) == dir[v \div PAGE_SIZE_2MB] + (v % PAGE_SIZE_2MB)
Identity == [p \in Pages |-> p * PAGE_SIZE_2MB]
Tables == IF cpu.pg /\ cpu.cr3 = "pdpt" THEN pd ELSE Identity

\* Reading and writing the cells at a virtual address.
Load(mem, dir, v, n) == [k \in 1 .. n |-> mem[Translate(dir, v + k - 1)]]
Store(mem, dir, v, cells) ==
  [a \in DOMAIN mem |->
     LET at == {k \in 1 .. Len(cells) : Translate(dir, v + k - 1) = a}
     IN  IF at = {} THEN mem[a] ELSE cells[Max(at)]]

map_page(dir, v, paddr) == [dir EXCEPT ![v \div PAGE_SIZE_2MB] = paddr]

\* init_paging maps every page to itself unless the command line or the CPU forbid it.
init_paging(linear, paging_supported) ==
  /\ paging' = (~linear /\ paging_supported)
  /\ pd' = IF paging' THEN Identity ELSE pd
  /\ UNCHANGED <<e820, e820_ebx, region, ram, cpu, saved, initrd, initrd_len, dest,
                 copied, initrd_phys, memory_pc>>

pagingVars == <<e820, e820_ebx, region, ram, pd, paging, initrd, initrd_len, dest, copied,
                initrd_phys, memory_pc>>

enable_paging ==
  /\ saved' = IF paging THEN cpu ELSE saved
  /\ cpu' = IF paging THEN [cpu EXCEPT !.pae = TRUE, !.cr3 = "pdpt", !.pg = TRUE] ELSE cpu
  /\ UNCHANGED pagingVars

\* Mutant: only the paging bit is put back.
disable_paging_Cr0 ==
  /\ cpu' = IF paging THEN [cpu EXCEPT !.pg = saved.pg] ELSE cpu
  /\ UNCHANGED saved
  /\ UNCHANGED pagingVars

disable_paging ==
  /\ cpu' = IF paging THEN saved ELSE cpu
  /\ UNCHANGED saved
  /\ UNCHANGED pagingVars

----------------------------------------------------------------------------
(* The memory map *)

NoAttrs == {"none"}

\* What the BIOS answers; a failure is an answer of type "error".
Entries ==
  [start : Nat, len : Nat, type : {"ram", "reserved", "error"},
   attrs : {NoAttrs} \union SUBSET {"enabled", "nonvolatile"}]

IsRam(entry) ==
  /\ entry.type = "ram"
  /\ entry.attrs # NoAttrs => "enabled" \in entry.attrs /\ "nonvolatile" \notin entry.attrs

\* The BIOS answers at least once, and its RAM is there.
IsMemoryMap(map) ==
  /\ map \in Seq(Entries) /\ Len(map) > 0
  /\ \A i \in 1 .. Len(map) :
       IsRam(map[i]) => map[i].start + map[i].len <= MemorySize

\* The do loop reads answers until one is returned, one fails, or there are no more.
Answer(i) == Min({j \in i + 1 .. Len(e820) :
                    IsRam(e820[j]) \/ e820[j].type = "error" \/ j = Len(e820)})

\* Mutant: the end of the map is not noticed, so the walk starts again.
memmap_next_Restarts ==
  LET i == Answer(IF region = 0 THEN 0 ELSE e820_ebx)
  IN  /\ e820_ebx' = i % Len(e820)
      /\ region' = IF IsRam(e820[i]) THEN i ELSE 0

\* Mutant: the continuation value of the last walk is used.
memmap_next_Stale ==
  LET i == Answer(e820_ebx)
  IN  /\ e820_ebx' = i % Len(e820)
      /\ region' = IF IsRam(e820[i]) THEN i ELSE 0

\* The next region of RAM behind the one at region, or the first.
memmap_next ==
  LET i == Answer(IF region = 0 THEN 0 ELSE e820_ebx)
  IN  IF region # 0 /\ e820_ebx = 0
      THEN region' = 0 /\ UNCHANGED e820_ebx
      ELSE /\ e820_ebx' = i % Len(e820)
           /\ region' = IF IsRam(e820[i]) THEN i ELSE 0

EndOf(entry) == entry.start + entry.len
Minimum(a, b) == IF a < b THEN a ELSE b
Down(n, unit) == unit * (n \div unit)

----------------------------------------------------------------------------
(* Relocation below 2GB *)

NextLow ==
  /\ memory_pc = "low" /\ memmap_next
  /\ memory_pc' = IF region' = 0 THEN "placed" ELSE "low_try"
  /\ UNCHANGED givenVars
  /\ UNCHANGED <<ram, pd, initrd, initrd_len, dest, copied, initrd_phys>>

\* The highest place in a region that ends at a page boundary below 2GB.
LowStart(entry) == Down(Minimum(EndOf(entry), ADDR_2GB) - initrd_len, PAGE_SIZE)

FitsLow(entry) ==
  /\ Minimum(EndOf(entry), ADDR_2GB) >= initrd_len
  /\ LowStart(entry) >= entry.start /\ LowStart(entry) >= ADDR_1MB

TryLow ==
  /\ memory_pc = "low_try"
  /\ IF FitsLow(e820[region])
     THEN /\ initrd' = LowStart(e820[region])
          /\ ram' = Store(ram, Tables, initrd', Load(ram, Tables, initrd, initrd_len))
          /\ region' = 0 /\ memory_pc' = "placed"
     ELSE memory_pc' = "low" /\ UNCHANGED <<initrd, ram, region>>
  /\ UNCHANGED givenVars
  /\ UNCHANGED <<e820_ebx, pd, initrd_len, dest, copied, initrd_phys>>

----------------------------------------------------------------------------
(* Relocation above 4GB *)

StartHigh ==
  /\ memory_pc = "placed" /\ region' = 0
  /\ IF paging THEN memory_pc' = "high" /\ UNCHANGED initrd_phys
               ELSE memory_pc' = "relocated" /\ initrd_phys' = initrd
  /\ UNCHANGED givenVars
  /\ UNCHANGED <<e820_ebx, ram, pd, initrd, initrd_len, dest, copied>>

NextHigh ==
  /\ memory_pc = "high" /\ memmap_next
  /\ IF region' = 0 THEN memory_pc' = "relocated" /\ initrd_phys' = initrd
                    ELSE memory_pc' = "high_try" /\ UNCHANGED initrd_phys
  /\ UNCHANGED givenVars
  /\ UNCHANGED <<ram, pd, initrd, initrd_len, dest, copied>>

\* Mutant: the page's offset is not kept.
HighStart_Unaligned(entry) == EndOf(entry) - initrd_len

\* The highest place in a region with the same offset in its 2MB page.
HighStart(entry) ==
  LET end == initrd + initrd_len
  IN  Down(EndOf(entry) - end, PAGE_SIZE_2MB) + end - initrd_len

FitsHigh(entry) ==
  /\ EndOf(entry) >= ADDR_4GB
  /\ HighStart(entry) >= entry.start /\ HighStart(entry) >= ADDR_4GB

TryHigh ==
  /\ memory_pc = "high_try"
  /\ IF FitsHigh(e820[region])
     THEN dest' = HighStart(e820[region]) /\ copied' = 0 /\ memory_pc' = "copy"
     ELSE memory_pc' = "high" /\ UNCHANGED <<dest, copied>>
  /\ UNCHANGED givenVars /\ UNCHANGED walkVars
  /\ UNCHANGED <<ram, pd, initrd, initrd_len, initrd_phys>>

\* One 2MB page is copied through the window and mapped to its new place.
CopyPage ==
  LET data     == initrd + copied
      offset   == data % PAGE_SIZE_2MB
      frag_len == Minimum(PAGE_SIZE_2MB - offset, initrd_len - copied)
      page     == Down(dest + copied, PAGE_SIZE_2MB)
      window   == map_page(pd, COPY_WINDOW, page)
  IN  /\ memory_pc = "copy" /\ copied < initrd_len
      /\ ram' = Store(ram, window, COPY_WINDOW + offset, Load(ram, window, data, frag_len))
      /\ pd' = map_page(window, data, page)
      /\ copied' = copied + frag_len
      /\ UNCHANGED givenVars /\ UNCHANGED walkVars
      /\ UNCHANGED <<initrd, initrd_len, dest, initrd_phys, memory_pc>>

\* Mutant: the window keeps showing the last page that was copied.
Copied_WindowLeft ==
  /\ memory_pc = "copy" /\ copied = initrd_len
  /\ initrd_phys' = dest /\ memory_pc' = "relocated"
  /\ UNCHANGED givenVars /\ UNCHANGED walkVars
  /\ UNCHANGED <<ram, pd, initrd, initrd_len, dest, copied>>

Copied ==
  /\ memory_pc = "copy" /\ copied = initrd_len
  /\ pd' = map_page(pd, COPY_WINDOW, COPY_WINDOW)
  /\ initrd_phys' = dest /\ memory_pc' = "relocated"
  /\ UNCHANGED givenVars /\ UNCHANGED walkVars
  /\ UNCHANGED <<ram, initrd, initrd_len, dest, copied>>

relocate_memory_low == NextLow \/ TryLow
relocate_memory_high == StartHigh \/ NextHigh \/ TryHigh \/ CopyPage \/ Copied

----------------------------------------------------------------------------
(* What relocation promises *)

\* The regions of RAM that are reported before the first failure.
Reported ==
  {e820[i] : i \in {j \in 1 .. Len(e820) :
                      IsRam(e820[j]) /\ \A k \in 1 .. j : e820[k].type # "error"}}

Cells(start, len) == start .. start + len - 1

\* The initrd lies above 4GB exactly if paging is available and a region of RAM can hold
\* it there, in that region and at the same offset in its 2MB pages, however
\* the walk over the memory map for the relocation below 2GB ended.
HighIfPossible ==
  memory_pc = "relocated" =>
    LET places == {p \in ADDR_4GB .. MemorySize - 1 :
                     /\ (p - initrd) % PAGE_SIZE_2MB = 0
                     /\ \E r \in Reported : Cells(p, initrd_len) \subseteq Cells(r.start, r.len)}
    IN  IF paging /\ places # {} THEN initrd_phys \in places ELSE initrd_phys = initrd

\* The 2MB pages that hold cells of the initrd.
InitrdPages == {v \div PAGE_SIZE_2MB : v \in Cells(initrd, initrd_len)}

\* With paging on, every address outside the pages of the initrd means what it means
\* with paging off: wimboot itself, the boot manager that calls it back, and the copy
\* window.
OthersUnmoved ==
  paging /\ memory_pc = "relocated" =>
    \A p \in Pages \ InitrdPages : pd[p] = p * PAGE_SIZE_2MB
=============================================================================
