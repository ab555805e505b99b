----------------------------- MODULE MCBootBios -----------------------------
(***************************************************************************)
(* A small machine for TLC.  Each boot differs from a plain one in one      *)
(* respect: the command line, the initrd's archive, or the memory.          *)
(***************************************************************************)
EXTENDS BootBios

CONSTANT MaxTokens   \* bound: the length of a command line

----------------------------------------------------------------------------
(* Command lines *)

MCWords == Keywords \union {"one", "junk"}
MCstrtoul == [w \in {"one"} |-> 1]

Tokens == {"gui", "linear", "index", "one", "junk", SPACE, EQUALS}

\* Two words in a row would be one word.
IsLine(s) == \A i \in 1 .. Len(s) - 1 : s[i] \in {SPACE, EQUALS} \/ s[i + 1] \in {SPACE, EQUALS}

Lines ==
  {s \in BoundedSeq(Tokens, MaxTokens) : IsLine(s)}
  \union {<<"junk", SPACE, "rawbcd", SPACE, SPACE, "pause", EQUALS, "quiet">>,
          <<"initrdfile", EQUALS, "junk", EQUALS, "junk", SPACE, "rawwim", SPACE>>,
          <<"index", EQUALS, "one", SPACE, "index", EQUALS>>,
          <<"pause", EQUALS, "quiet", EQUALS, SPACE, "linear">>}

PlainLine == <<"junk">>

----------------------------------------------------------------------------
(* Archives *)

Member(name, namesize, filesize) ==
  [name |-> name, namesize |-> namesize, filesize |-> filesize, magic |-> TRUE]
Bad(member) == [member EXCEPT !.magic = FALSE]
Zeros(n) == [zeros |-> n]
End == Member(CPIO_TRAILER, 11, 0)

Exe == Member("bootmgr.exe", 12, 5)
Mgr == Member("bootmgr", 8, 4)
Wim == Member("boot.wim", 9, 6)
Bcd == Member("BCD", 4, 0)

TotalLen(items) == ItemStart(items, Len(items) + 1)
Uncut(items) == Archive(items, TotalLen(items))

\* Every order of the files that matter.
Orders ==
  {Uncut(s) : s \in {t \in BoundedSeq({Exe, Mgr, Wim}, 3) :
                       \A i, j \in DOMAIN t : i # j => t[i] # t[j]}}

Joined == <<Zeros(4), Exe, Bcd, Zeros(8), Wim, Zeros(4), End, Zeros(4), Mgr>>
Loose == <<Exe, Zeros(4), Wim, Zeros(8)>>

\* Archives that are joined, padded, cut anywhere or damaged.
Archives ==
  {Archive(Joined, n) : n \in 0 .. TotalLen(Joined)}
  \union {Archive(Loose, n) : n \in 0 .. TotalLen(Loose)}
  \union {Uncut(<<Exe, Bad(Bcd), Wim, End>>)}

PlainArchive == Uncut(<<Exe, Wim, End>>)

----------------------------------------------------------------------------
(* Memory: 1MB is 2 cells, a 2MB page 4 cells, 2GB 32, 4GB 40 and there are 60 *)

Ram(start, end) == [start |-> start, len |-> end - start, type |-> "ram", attrs |-> NoAttrs]
With(entry, attrs) == [entry EXCEPT !.attrs = attrs]
Reserved(start, end) == [Ram(start, end) EXCEPT !.type = "reserved"]
Error == [Ram(0, 0) EXCEPT !.type = "error"]

Maps ==
  { \* Regions below 1MB, below 4GB and above it, in and out of order.
    <<Ram(0, 2), Ram(2, 36), Ram(40, 60)>>,
    <<Ram(40, 60), Ram(0, 2), Ram(2, 32), Reserved(36, 40)>>,
    \* No memory above 4GB, and none at all.
    <<Ram(0, 2), Ram(2, 31)>>,
    <<Error>>,
    \* Memory that cannot be used, and a failure in the middle.
    <<Reserved(40, 60), Ram(2, 30), With(Ram(44, 60), {"nonvolatile", "enabled"}),
      With(Ram(44, 60), {}), With(Ram(44, 57), {"enabled"}), Reserved(57, 60)>>,
    <<Ram(2, 30), Error, Ram(40, 60)>>,
    \* High regions that just hold the initrd or just do not, and one across 4GB.
    <<Ram(2, 32), Ram(50, 54), Ram(43, 48)>>,
    <<Ram(2, 32), Ram(50, 56), Ram(41, 50)>>,
    <<Ram(2, 60)>>,
    \* The initrd stays where it is, is moved onto itself, or collides with bootmgr.exe.
    <<Ram(0, 4), Ram(40, 60)>>,
    <<Ram(16, 30), Ram(40, 60)>>,
    <<Ram(2, 14), Ram(40, 60)>> }

PlainMap == <<Ram(0, 2), Ram(2, 32), Ram(40, 60)>>

\* A section that is longer in the file than it says, within its alignment, and one with
\* zeros behind its data.
MCImage ==
  [magic |-> TRUE, base |-> 8, header_len |-> 1, section_align |-> 2,
   sections |-> <<[virtual |-> 2, raw |-> 1, raw_len |-> 2, virtual_len |-> 1],
                  [virtual |-> 4, raw |-> 1, raw_len |-> 1, virtual_len |-> 3]>>]

\* The boot manager makes all calls in one boot, and one or none in the others.
Machine(pae, embedded, in_wim, image, len, calls) ==
  [pae |-> pae, embedded |-> embedded, in_wim |-> in_wim, image |-> image, len |-> len,
   calls |-> calls]

PlainMachine(calls) == Machine(TRUE, TRUE, TRUE, MCImage, 5, calls)

----------------------------------------------------------------------------
(* The boots *)

Boot(line, arc, map, at, mach) ==
  text = line /\ archive = arc /\ e820 = map /\ initrd = at /\ initrd_len = mach.len
  /\ machine = mach

Boots ==
  \/ \E line \in Lines : Boot(line, PlainArchive, PlainMap, 16, PlainMachine({"mode_info"}))
  \/ \E arc \in Archives : Boot(PlainLine, arc, PlainMap, 16, PlainMachine({}))
  \/ \E arc \in Orders, embedded, in_wim \in BOOLEAN :
       Boot(PlainLine, arc, PlainMap, 16, Machine(TRUE, embedded, in_wim, MCImage, 5, {}))
  \/ \E map \in Maps, at \in {19, 24}, pae \in BOOLEAN, n \in {4, 7},
        items \in {<<Exe>>, <<Mgr>>, <<Wim>>} :
       Boot(PlainLine, Uncut(items), map, at,
            Machine(pae, TRUE, TRUE, MCImage, n, {"extended_read"}))
  \/ Boot(PlainLine, PlainArchive, PlainMap, 16,
          Machine(TRUE, TRUE, TRUE, [MCImage EXCEPT !.magic = FALSE], 5, {}))
  \/ Boot(PlainLine, PlainArchive, PlainMap, 16, PlainMachine(Commands \union {"mode_info"}))

MCInit == Boots /\ drive_count = 1 /\ BootInit

MCSpec == MCInit /\ [][BootNext]_vars /\ BootFairness
=============================================================================
