------------------------------ MODULE Cmdline ------------------------------
(***************************************************************************)
(* The command line (src/src/cmdline.c).  process_cmdline cuts the command  *)
(* line into strings where it lies, by writing NULs over spaces and equals  *)
(* signs, and takes each cut back when the argument has been used.          *)
(*                                                                         *)
(* A command line is a sequence of tokens: a word stands for the run of     *)
(* characters that the code steps over one at a time.                       *)
(***************************************************************************)
EXTENDS Naturals, Sequences, FiniteSetsExt

CONSTANTS
  Words,    \* the words, the keywords among them
  strtoul   \* the words that are numbers, mapped to their values

VARIABLES
  text,     \* the command line as it was given, without the final NUL
  cmdline,  \* the command line in memory
  tmp, key, value,  \* the pointers of process_cmdline (NULL is 0)
  chr,
  flags,    \* the variables cmdline_*
  cmdline_pc  \* "head" of the loop, "scan", "process", "undo", "done", "dead"

cmdlineVars == <<text, cmdline, tmp, key, value, chr, flags, cmdline_pc>>

NUL == "nul"
SPACE == "space"
EQUALS == "equals"

\* A word is none of the characters that the code looks for.
ASSUME CmdlineAssumption ==
  /\ {NUL, SPACE, EQUALS} \intersect Words = {}
  /\ DOMAIN strtoul \subseteq Words /\ strtoul \in [DOMAIN strtoul -> Nat]

Keywords == {"rawbcd", "rawwim", "gui", "linear", "quiet", "pause", "index",
             "initrdfile"}

NoFlags == [rawbcd |-> FALSE, rawwim |-> FALSE, gui |-> FALSE, linear |-> FALSE,
            quiet |-> FALSE, pause |-> FALSE, pause_quiet |-> FALSE, index |-> 0]

CmdlineInit ==
  /\ text \in Seq(Words \union {SPACE, EQUALS})
  /\ cmdline = Append(text, NUL)
  /\ tmp = 1 /\ key = 0 /\ value = 0 /\ chr = NUL
  /\ flags = NoFlags
  /\ cmdline_pc = "head"

\* The string at a pointer.
String(p) ==
  SubSeq(cmdline, p, Min({q \in p .. Len(cmdline) : cmdline[q] = NUL}) - 1)

----------------------------------------------------------------------------
(* One iteration of the loop *)

EndOfLine ==
  /\ cmdline_pc = "head" /\ cmdline[tmp] = NUL
  /\ cmdline_pc' = "done"
  /\ UNCHANGED <<text, cmdline, tmp, key, value, chr, flags>>

SkipWhitespace ==
  /\ cmdline_pc = "head" /\ cmdline[tmp] # NUL
  /\ tmp' = Min({p \in tmp .. Len(cmdline) : cmdline[p] # SPACE})
  /\ key' = tmp' /\ value' = 0
  /\ cmdline_pc' = "scan"
  /\ UNCHANGED <<text, cmdline, chr, flags>>

Cut == cmdline' = [cmdline EXCEPT ![tmp] = NUL]

ScanEnd ==
  /\ cmdline[tmp] = NUL
  /\ cmdline_pc' = "process"
  /\ UNCHANGED <<cmdline, tmp, value>>

ScanSpace ==
  /\ cmdline[tmp] = SPACE
  /\ Cut /\ tmp' = tmp + 1
  /\ cmdline_pc' = "process"
  /\ UNCHANGED value

\* Mutant: every equals sign is cut, so that only the last one is put back.
ScanEquals_Every ==
  /\ cmdline[tmp] = EQUALS
  /\ Cut /\ tmp' = tmp + 1 /\ value' = tmp + 1
  /\ UNCHANGED cmdline_pc

ScanEquals ==
  /\ cmdline[tmp] = EQUALS /\ value = 0
  /\ Cut /\ tmp' = tmp + 1 /\ value' = tmp + 1
  /\ UNCHANGED cmdline_pc

ScanWord ==
  /\ cmdline[tmp] \notin {NUL, SPACE}
  /\ ~(cmdline[tmp] = EQUALS /\ value = 0)
  /\ tmp' = tmp + 1
  /\ UNCHANGED <<cmdline, value, cmdline_pc>>

Scan ==
  /\ cmdline_pc = "scan"
  /\ ScanEnd \/ ScanSpace \/ ScanEquals \/ ScanWord
  /\ chr' = cmdline[tmp]
  /\ UNCHANGED <<text, key, flags>>

\* The strings of the argument; NoValue if there was no equals sign.
NoValue == <<NUL>>
Key == String(key)
Value == IF value = 0 THEN NoValue ELSE String(value)

IsNumber(s) == Len(s) = 1 /\ s[1] \in DOMAIN strtoul

\* The flags after an argument that is not refused.  initrdfile and an unknown
\* first argument change nothing.
Apply(f, k, v) ==
  CASE k \in {<<w>> : w \in {"rawbcd", "rawwim", "gui", "linear", "quiet"}} ->
         [f EXCEPT ![k[1]] = TRUE]
    [] k = <<"pause">> ->
         [f EXCEPT !.pause = TRUE,
                   !.pause_quiet = @ \/ v = <<"quiet">>]
    [] k = <<"index">> -> [f EXCEPT !.index = strtoul[v[1]]]
    [] OTHER -> f

\* Mutant: an unknown argument is ignored wherever it stands.
Refused_IndexOnly(p, k, v) == k = <<"index">> /\ ~IsNumber(v)

\* die ( ) is called for an argument that starts at p.
Refused(p, k, v) ==
  \/ k = <<"index">> /\ ~IsNumber(v)
  \/ k \notin {<<w>> : w \in Keywords} /\ p # 1

ProcessArgument ==
  /\ cmdline_pc = "process" /\ ~Refused(key, Key, Value)
  /\ flags' = Apply(flags, Key, Value)
  /\ cmdline_pc' = "undo"
  /\ UNCHANGED <<text, cmdline, tmp, key, value, chr>>

RefuseArgument ==
  /\ cmdline_pc = "process" /\ Refused(key, Key, Value)
  /\ cmdline_pc' = "dead"
  /\ UNCHANGED <<text, cmdline, tmp, key, value, chr, flags>>

UndoModifications ==
  /\ cmdline_pc = "undo"
  /\ cmdline' = [p \in DOMAIN cmdline |->
                   IF value # 0 /\ p = value - 1 THEN EQUALS
                   ELSE IF chr # NUL /\ p = tmp - 1 THEN chr
                   ELSE cmdline[p]]
  /\ cmdline_pc' = "head"
  /\ UNCHANGED <<text, tmp, key, value, chr, flags>>

process_cmdline ==
  \/ EndOfLine \/ SkipWhitespace \/ Scan
  \/ ProcessArgument \/ RefuseArgument \/ UndoModifications

CmdlineSpec == CmdlineInit /\ [][process_cmdline]_cmdlineVars

----------------------------------------------------------------------------
(* What a command line asks for *)

\* The arguments of the command line: where they start, and behind their end.
\* Two spaces at the end, or nothing but spaces, are followed by an empty argument.
Starts ==
  {p \in 1 .. Len(text) : text[p] # SPACE /\ (p = 1 \/ text[p - 1] = SPACE)}
  \union {p \in {Len(text) + 1} : p > 1 /\ text[p - 1] = SPACE
                                  /\ (p = 2 \/ text[p - 2] = SPACE)}

Behind(p) == Min({q \in p .. Len(text) : text[q] = SPACE} \union {Len(text) + 1})

EqualsIn(p) == {q \in p .. Behind(p) - 1 : text[q] = EQUALS}

KeyAt(p) ==
  SubSeq(text, p, (IF EqualsIn(p) = {} THEN Behind(p) ELSE Min(EqualsIn(p))) - 1)

ValueAt(p) ==
  IF EqualsIn(p) = {} THEN NoValue
  ELSE SubSeq(text, Min(EqualsIn(p)) + 1, Behind(p) - 1)

Asks(w) == \E p \in Starts : KeyAt(p) = <<w>>

AsksIndex == {p \in Starts : KeyAt(p) = <<"index">>}

Asked ==
  [rawbcd |-> Asks("rawbcd"), rawwim |-> Asks("rawwim"), gui |-> Asks("gui"),
   linear |-> Asks("linear"), quiet |-> Asks("quiet"), pause |-> Asks("pause"),
   pause_quiet |-> \E p \in Starts : KeyAt(p) = <<"pause">> /\ ValueAt(p) = <<"quiet">>,
   index |-> IF AsksIndex = {} THEN 0 ELSE strtoul[ValueAt(Max(AsksIndex))[1]]]

Acceptable ==
  \A p \in Starts :
    /\ KeyAt(p) = <<"index">> => IsNumber(ValueAt(p))
    /\ p = 1 \/ \E w \in Keywords : KeyAt(p) = <<w>>

\* The command line is cut while an argument is processed; when process_cmdline
\* returns, and before every argument, it is what it was (the code undoes its
\* modifications, and shows the command line afterwards).
CmdlineRestored ==
  cmdline_pc \in {"head", "done"} => cmdline = Append(text, NUL)

\* process_cmdline stops the machine exactly for the command lines with an argument it
\* does not know behind the first position, or an index that is not a number, and
\* otherwise leaves what the arguments ask for, wherever spaces and equals signs stand.
FlagsAreAsked ==
  /\ cmdline_pc = "done" => Acceptable /\ flags = Asked
  /\ cmdline_pc = "dead" => ~Acceptable
=============================================================================
