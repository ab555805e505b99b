--------------------------- MODULE Cmdline_proofs ---------------------------
(***************************************************************************)
(* Proofs about the command line (module Cmdline), for every command line:  *)
(* process_cmdline puts back what it cuts, and it sets what the arguments   *)
(* ask for.                                                                 *)
(***************************************************************************)
EXTENDS Cmdline, Arithmetic_proofs, SequenceTheorems

----------------------------------------------------------------------------
(* The invariant *)

Chars == Words \union {SPACE, EQUALS}

\* The command line as it was given, with its NUL, and the place of the NUL.
Full == Append(text, NUL)
N == Len(text) + 1

Shape ==
  /\ text \in Seq(Chars)
  /\ cmdline \in [1 .. N -> Chars \union {NUL}]
  /\ tmp \in 1 .. N /\ key \in 0 .. N /\ value \in 0 .. N
  /\ cmdline_pc \in {"head", "scan", "process", "undo", "done", "dead"}

InArgument == cmdline_pc \in {"scan", "process", "undo", "dead"}

\* How far the argument at key was scanned: its end once the scan has stopped.
End == IF cmdline_pc = "scan" \/ chr = NUL THEN tmp ELSE tmp - 1

\* Where its key ends.
KeyEnd == IF value = 0 THEN End ELSE value - 1

\* The command line is cut at the first equals sign of the argument, if it has one, and
\* at its end.
CutHere(p) == (value # 0 /\ p = value - 1) \/ (cmdline_pc # "scan" /\ p = End)

ArgInv ==
  InArgument =>
    /\ key \in 1 .. End
    /\ value # 0 => value \in key + 1 .. End /\ Full[value - 1] = EQUALS
    /\ \A q \in 1 .. N : key <= q /\ q < End => Full[q] # SPACE
    /\ \A q \in 1 .. N : key <= q /\ q < KeyEnd => Full[q] # EQUALS
    /\ \A p \in 1 .. N : cmdline[p] = IF CutHere(p) THEN NUL ELSE Full[p]
    /\ cmdline_pc # "scan" => IF chr = NUL THEN End = N
                                           ELSE chr = SPACE /\ Full[End] = SPACE

CInv == Shape /\ ArgInv /\ CmdlineRestored

----------------------------------------------------------------------------
(* The command line ends where its NUL is *)

LEMMA FullLine ==
  ASSUME text \in Seq(Chars)
  PROVE  /\ Full \in [1 .. N -> Chars \union {NUL}]
         /\ N \in Nat \ {0} /\ Full[N] = NUL
         /\ \A p \in 1 .. N : p # N => Full[p] = text[p] /\ Full[p] # NUL
<1>1. Len(text) \in Nat /\ text \in [1 .. Len(text) -> Chars]
  BY LenProperties
<1>2. NUL \notin Chars
  BY CmdlineAssumption DEF Chars, NUL, SPACE, EQUALS
<1>3. /\ Full \in Seq(Chars \union {NUL}) /\ Len(Full) = N
      /\ \A p \in 1 .. Len(text) : Full[p] = text[p]
      /\ Full[N] = NUL
  <2> DEFINE S == Chars \union {NUL}
  <2>1. text \in Seq(S) /\ NUL \in S
    BY <1>1
  <2> HIDE DEF S
  <2>2. /\ Append(text, NUL) \in Seq(S) /\ Len(Append(text, NUL)) = Len(text) + 1
        /\ \A i \in 1 .. Len(text) : Append(text, NUL)[i] = text[i]
        /\ Append(text, NUL)[Len(text) + 1] = NUL
    BY <2>1, AppendProperties
  <2> QED BY <2>2 DEF Full, N, S
<1>4. N \in Nat \ {0} /\ N = Len(text) + 1
  BY <1>1 DEF N
<1>5. Full \in [1 .. N -> Chars \union {NUL}]
  BY <1>3, LenProperties
<1>6. ASSUME NEW p \in 1 .. N, p # N
      PROVE  Full[p] = text[p] /\ Full[p] # NUL
  <2>1. p \in 1 .. Len(text)
    BY <1>1, <1>4, <1>6
  <2> QED BY <1>1, <1>2, <1>3, <2>1
<1> QED BY <1>3, <1>4, <1>5, <1>6

----------------------------------------------------------------------------
(* process_cmdline undoes its modifications *)

LEMMA CInit == CmdlineInit => CInv
<1> SUFFICES ASSUME CmdlineInit PROVE CInv
  OBVIOUS
<1>1. text \in Seq(Chars)
  BY DEF CmdlineInit, Chars
<1>2. Shape
  BY <1>1, FullLine DEF CmdlineInit, Shape, Full
<1> QED BY <1>2 DEF CmdlineInit, CInv, ArgInv, InArgument, CmdlineRestored

\* At the head of the loop, SkipWhitespace comes to the start of an argument.
LEMMA Skip ==
  ASSUME CInv, SkipWhitespace
  PROVE  /\ tmp' \in tmp .. N /\ Full[tmp'] # SPACE
         /\ \A q \in 1 .. N : tmp <= q /\ q < tmp' => Full[q] = SPACE
<1> DEFINE S == {p \in tmp .. Len(cmdline) : cmdline[p] # SPACE}
<1>1. /\ cmdline = Full /\ tmp \in 1 .. N /\ N \in Nat /\ Len(cmdline) = N
      /\ Full[N] = NUL
  BY FullLine, LenProperties DEF CInv, Shape, CmdlineRestored, SkipWhitespace, Full, N
<1>2. S \in SUBSET Nat /\ N \in S
  BY <1>1 DEF NUL, SPACE
<1>3. tmp' = Min(S)
  BY DEF SkipWhitespace
<1> HIDE DEF S
<1>4. Min(S) \in S /\ \A y \in S : Min(S) <= y
  BY <1>2, MinNat
<1>5. tmp' \in tmp .. N /\ Full[tmp'] # SPACE
  BY <1>1, <1>3, <1>4 DEF S
<1>6. ASSUME NEW q \in 1 .. N, tmp <= q, q < tmp' PROVE Full[q] = SPACE
  <2>1. q \in tmp .. N /\ q < tmp' /\ tmp' \in Nat
    BY <1>1, <1>5, <1>6
  <2>2. q \notin S
    BY <1>3, <1>4, <2>1
  <2> QED BY <1>1, <2>1, <2>2 DEF S
<1> QED BY <1>5, <1>6

\* The character at tmp has not been cut.
LEMMA AtTmp ==
  ASSUME CInv, Scan
  PROVE  /\ cmdline_pc = "scan" /\ text \in Seq(Chars) /\ tmp \in 1 .. N /\ N \in Nat \ {0}
         /\ key \in 1 .. tmp /\ value \in 0 .. tmp /\ End = tmp
         /\ cmdline[tmp] = Full[tmp]
         /\ Full[tmp] # NUL => tmp + 1 \in 1 .. N
<1>1. /\ cmdline_pc = "scan" /\ text \in Seq(Chars) /\ tmp \in 1 .. N /\ N \in Nat \ {0}
      /\ End = tmp /\ Full[N] = NUL
  BY FullLine DEF CInv, Shape, Scan, End
<1>2. /\ key \in 1 .. tmp /\ value \in 0 .. N
      /\ value # 0 => value \in key + 1 .. tmp
      /\ cmdline[tmp] = IF CutHere(tmp) THEN NUL ELSE Full[tmp]
  BY <1>1 DEF CInv, Shape, ArgInv, InArgument
<1>3. ~CutHere(tmp)
  BY <1>1, <1>2 DEF CutHere
<1>4. value \in 0 .. tmp
  BY <1>1, <1>2
<1>5. Full[tmp] # NUL => tmp + 1 \in 1 .. N
  BY <1>1
<1> QED BY <1>1, <1>2, <1>3, <1>4, <1>5

\* One step of process_cmdline, or none.
LEMMA CStep == CInv /\ [process_cmdline]_cmdlineVars => CInv'
<1> SUFFICES ASSUME CInv, [process_cmdline]_cmdlineVars PROVE CInv'
  OBVIOUS
<1>0. /\ text \in Seq(Chars) /\ N \in Nat \ {0} /\ Full[N] = NUL
      /\ Full \in [1 .. N -> Chars \union {NUL}]
  BY FullLine DEF CInv, Shape
<1>1. text' = text /\ Full' = Full /\ N' = N
  BY DEF process_cmdline, EndOfLine, SkipWhitespace, Scan, ProcessArgument, RefuseArgument,
         UndoModifications, cmdlineVars, Full, N
<1>2. CASE EndOfLine
  BY <1>1, <1>2 DEF CInv, Shape, ArgInv, InArgument, CmdlineRestored, EndOfLine, Full
<1>3. CASE SkipWhitespace
  <2>1. /\ tmp' \in tmp .. N /\ tmp \in 1 .. N /\ key' = tmp' /\ value' = 0
        /\ cmdline' = cmdline /\ cmdline = Full /\ cmdline_pc' = "scan"
    BY <1>3, Skip DEF CInv, Shape, CmdlineRestored, SkipWhitespace, Full
  <2>2. Shape'
    BY <1>0, <1>1, <2>1 DEF Shape
  <2>3. End' = tmp' /\ KeyEnd' = tmp' /\ \A p : ~CutHere(p)'
    BY <2>1 DEF End, KeyEnd, CutHere
  <2>4. ArgInv'
    BY <1>0, <1>1, <2>1, <2>3 DEF ArgInv
  <2> QED BY <2>1, <2>2, <2>4 DEF CInv, CmdlineRestored
<1>4. CASE Scan
  <2>1. /\ cmdline_pc = "scan" /\ tmp \in 1 .. N /\ key \in 1 .. tmp /\ value \in 0 .. tmp
        /\ End = tmp /\ cmdline[tmp] = Full[tmp]
        /\ Full[tmp] # NUL => tmp + 1 \in 1 .. N
    BY <1>4, AtTmp
  <2>2. /\ value # 0 => value \in key + 1 .. tmp /\ Full[value - 1] = EQUALS
        /\ \A q \in 1 .. N : key <= q /\ q < tmp => Full[q] # SPACE
        /\ \A q \in 1 .. N : key <= q /\ q < KeyEnd => Full[q] # EQUALS
        /\ \A p \in 1 .. N : cmdline[p] = IF value # 0 /\ p = value - 1 THEN NUL ELSE Full[p]
    BY <2>1 DEF CInv, ArgInv, InArgument, CutHere
  <2>3. cmdline \in [1 .. N -> Chars \union {NUL}]
    BY DEF CInv, Shape
  <2>4. key' = key /\ chr' = cmdline[tmp]
    BY <1>4 DEF Scan
  <2>5. CASE ScanEnd
    <3>1. /\ Full[tmp] = NUL /\ cmdline_pc' = "process" /\ cmdline' = cmdline
          /\ tmp' = tmp /\ value' = value /\ chr' = NUL
      BY <2>1, <2>4, <2>5 DEF ScanEnd
    <3>2. tmp = N
      BY <1>0, <2>1, <3>1, FullLine
    <3>3. /\ End' = tmp /\ KeyEnd' = KeyEnd
          /\ \A p : CutHere(p)' <=> (value # 0 /\ p = value - 1) \/ p = tmp
      BY <2>1, <3>1 DEF End, KeyEnd, CutHere
    <3>4. Shape'
      BY <1>0, <1>1, <2>1, <2>3, <2>4, <3>1 DEF Shape
    <3>5. ArgInv'
      BY <1>0, <1>1, <2>1, <2>2, <2>4, <3>1, <3>2, <3>3 DEF ArgInv
    <3> QED BY <3>1, <3>4, <3>5 DEF CInv, CmdlineRestored
  <2>6. CASE ScanSpace
    <3>1. /\ Full[tmp] = SPACE /\ cmdline_pc' = "process" /\ chr' = SPACE
          /\ cmdline' = [cmdline EXCEPT ![tmp] = NUL]
          /\ tmp' = tmp + 1 /\ value' = value /\ SPACE # NUL
      BY <2>1, <2>4, <2>6 DEF ScanSpace, Cut, SPACE, NUL
    <3>2. tmp + 1 \in 1 .. N
      BY <2>1, <3>1
    <3>3. /\ End' = tmp /\ KeyEnd' = KeyEnd
          /\ \A p : CutHere(p)' <=> (value # 0 /\ p = value - 1) \/ p = tmp
      BY <2>1, <3>1 DEF End, KeyEnd, CutHere
    <3>4. Shape'
      BY <1>0, <1>1, <2>1, <2>3, <2>4, <3>1, <3>2 DEF Shape
    <3>5. \A p \in 1 .. N : cmdline'[p] = IF CutHere(p)' THEN NUL ELSE Full[p]
      BY <2>1, <2>2, <2>3, <3>1, <3>3
    <3>6. ArgInv'
      BY <1>0, <1>1, <2>1, <2>2, <2>4, <3>1, <3>3, <3>5 DEF ArgInv
    <3> QED BY <3>1, <3>4, <3>6 DEF CInv, CmdlineRestored
  <2>7. CASE ScanEquals
    <3>1. /\ Full[tmp] = EQUALS /\ value = 0 /\ cmdline_pc' = "scan"
          /\ cmdline' = [cmdline EXCEPT ![tmp] = NUL]
          /\ tmp' = tmp + 1 /\ value' = tmp + 1 /\ EQUALS # NUL /\ EQUALS # SPACE
      BY <2>1, <2>7 DEF ScanEquals, Cut, EQUALS, SPACE, NUL
    <3>2. tmp + 1 \in 1 .. N
      BY <2>1, <3>1
    <3>3. /\ End' = tmp + 1 /\ KeyEnd' = tmp /\ KeyEnd = tmp
          /\ \A p : CutHere(p)' <=> p = tmp
      BY <2>1, <3>1 DEF End, KeyEnd, CutHere
    <3>4. Shape'
      BY <1>0, <1>1, <2>1, <2>3, <2>4, <3>1, <3>2 DEF Shape
    <3>5. \A p \in 1 .. N : cmdline'[p] = IF CutHere(p)' THEN NUL ELSE Full[p]
      BY <2>1, <2>2, <2>3, <3>1, <3>3
    <3>6. ArgInv'
      <4>1. ASSUME NEW q \in 1 .. N, key <= q, q < tmp + 1 PROVE Full[q] # SPACE
        <5>1. q = tmp \/ q < tmp
          BY <1>0, <2>1, <4>1
        <5> QED BY <2>2, <3>1, <4>1, <5>1
      <4> QED BY <1>0, <1>1, <2>1, <2>2, <2>4, <3>1, <3>2, <3>3, <3>5, <4>1 DEF ArgInv
    <3> QED BY <3>1, <3>4, <3>6 DEF CInv, CmdlineRestored
  <2>8. CASE ScanWord
    <3>1. /\ Full[tmp] # NUL /\ Full[tmp] # SPACE /\ ~(Full[tmp] = EQUALS /\ value = 0)
          /\ cmdline_pc' = "scan" /\ cmdline' = cmdline
          /\ tmp' = tmp + 1 /\ value' = value
      BY <2>1, <2>8 DEF ScanWord
    <3>2. tmp + 1 \in 1 .. N
      BY <2>1, <3>1
    <3>3. /\ End' = tmp + 1
          /\ value # 0 => KeyEnd' = KeyEnd
          /\ value = 0 => KeyEnd' = tmp + 1 /\ KeyEnd = tmp
          /\ \A p : CutHere(p)' <=> value # 0 /\ p = value - 1
      BY <2>1, <3>1 DEF End, KeyEnd, CutHere
    <3>4. Shape'
      BY <1>0, <1>1, <2>1, <2>3, <2>4, <3>1, <3>2 DEF Shape
    <3>5. \A q \in 1 .. N : key <= q /\ q < tmp + 1 => q = tmp \/ q < tmp
      BY <2>1
    <3>6. \A q \in 1 .. N : key <= q /\ q < KeyEnd' => Full[q] # EQUALS
      BY <2>2, <3>1, <3>3, <3>5
    <3>7. \A q \in 1 .. N : key <= q /\ q < tmp + 1 => Full[q] # SPACE
      BY <2>2, <3>1, <3>5
    <3>8. ArgInv'
      BY <1>0, <1>1, <2>1, <2>2, <2>4, <3>1, <3>2, <3>3, <3>6, <3>7 DEF ArgInv
    <3> QED BY <3>1, <3>4, <3>8 DEF CInv, CmdlineRestored
  <2> QED BY <1>4, <2>5, <2>6, <2>7, <2>8 DEF Scan
<1>5. CASE ProcessArgument \/ RefuseArgument
  <2>1. /\ cmdline_pc = "process" /\ cmdline_pc' \in {"undo", "dead"}
        /\ UNCHANGED <<cmdline, tmp, key, value, chr>>
    BY <1>5 DEF ProcessArgument, RefuseArgument
  <2>2. End' = End /\ KeyEnd' = KeyEnd /\ \A p : CutHere(p)' = CutHere(p)
    BY <2>1 DEF End, KeyEnd, CutHere
  <2>3. Shape'
    BY <1>1, <2>1 DEF CInv, Shape
  <2>4. ArgInv'
    BY <1>1, <2>1, <2>2 DEF CInv, ArgInv, InArgument
  <2> QED BY <2>1, <2>3, <2>4 DEF CInv, CmdlineRestored
<1>6. CASE UndoModifications
  <2>1. /\ cmdline_pc = "undo" /\ cmdline_pc' = "head" /\ UNCHANGED <<tmp, key, value, chr>>
        /\ cmdline' = [p \in DOMAIN cmdline |->
                         IF value # 0 /\ p = value - 1 THEN EQUALS
                         ELSE IF chr # NUL /\ p = tmp - 1 THEN chr
                         ELSE cmdline[p]]
    BY <1>6 DEF UndoModifications
  <2>2. /\ cmdline \in [1 .. N -> Chars \union {NUL}] /\ tmp \in 1 .. N
        /\ key \in 0 .. N /\ value \in 0 .. N
    BY DEF CInv, Shape
  <2>3. /\ value # 0 => Full[value - 1] = EQUALS
        /\ \A p \in 1 .. N : cmdline[p] = IF CutHere(p) THEN NUL ELSE Full[p]
        /\ IF chr = NUL THEN End = N ELSE chr = SPACE /\ Full[End] = SPACE /\ End = tmp - 1
        /\ \A p : CutHere(p) <=> (value # 0 /\ p = value - 1) \/ p = End
    BY <2>1 DEF CInv, ArgInv, InArgument, CutHere, End
  <2>4. ASSUME NEW p \in 1 .. N PROVE cmdline'[p] = Full[p]
    <3>1. CASE value # 0 /\ p = value - 1
      BY <2>1, <2>2, <2>3, <3>1
    <3>2. CASE ~(value # 0 /\ p = value - 1) /\ p = End
      BY <1>0, <2>1, <2>2, <2>3, <3>2
    <3>3. CASE ~(value # 0 /\ p = value - 1) /\ p # End
      BY <2>1, <2>2, <2>3, <3>3
    <3> QED BY <3>1, <3>2, <3>3
  <2>5. cmdline' = Full
    BY <1>0, <2>1, <2>2, <2>4
  <2>6. Shape'
    BY <1>0, <1>1, <2>1, <2>2, <2>5 DEF Shape
  <2>7. ArgInv'
    BY <2>1 DEF ArgInv, InArgument
  <2>8. CmdlineRestored'
    BY <1>1, <2>5 DEF CmdlineRestored, Full
  <2> QED BY <2>6, <2>7, <2>8 DEF CInv
<1>7. CASE UNCHANGED cmdlineVars
  BY <1>1, <1>7 DEF cmdlineVars, CInv, Shape, ArgInv, InArgument, CmdlineRestored, CutHere, End,
                    KeyEnd
<1> QED BY <1>2, <1>3, <1>4, <1>5, <1>6, <1>7 DEF process_cmdline

\* process_cmdline undoes its cuts: whenever it looks for the next argument, and when it
\* returns, the command line is what was given.
THEOREM CmdlineIsRestored == CmdlineSpec => []CmdlineRestored
<1>1. CInv => CmdlineRestored
  BY DEF CInv
<1> QED BY CInit, CStep, <1>1, PTL DEF CmdlineSpec

----------------------------------------------------------------------------
(* What the arguments ask for *)

\* What the arguments that start at the places of D ask for, the last index counting.
AsksBy(D, w) == \E p \in D : KeyAt(p) = <<w>>
IndicesBy(D) == {p \in D : KeyAt(p) = <<"index">>}
QuietBy(D) == \E p \in D : KeyAt(p) = <<"pause">> /\ ValueAt(p) = <<"quiet">>
IndexBy(D) == IF IndicesBy(D) = {} THEN 0 ELSE strtoul[ValueAt(Max(IndicesBy(D)))[1]]
AskedBy(D) ==
  [rawbcd |-> AsksBy(D, "rawbcd"), rawwim |-> AsksBy(D, "rawwim"), gui |-> AsksBy(D, "gui"),
   linear |-> AsksBy(D, "linear"), quiet |-> AsksBy(D, "quiet"), pause |-> AsksBy(D, "pause"),
   pause_quiet |-> QuietBy(D), index |-> IndexBy(D)]

\* The argument at p is one that process_cmdline knows.
Known(p) ==
  /\ KeyAt(p) = <<"index">> => IsNumber(ValueAt(p))
  /\ p = 1 \/ \E w \in Keywords : KeyAt(p) = <<w>>

UpTo(k) == {q \in Starts : q <= k}
Under(k) == {q \in Starts : q < k}

\* The arguments before the one that is being processed have been done, and there is
\* none that the loop has passed over.
FlagInv ==
  /\ cmdline_pc \in {"head", "done", "undo"} =>
       flags = AskedBy(UpTo(key)) /\ \A q \in UpTo(key) : Known(q)
  /\ cmdline_pc \in {"scan", "process"} =>
       flags = AskedBy(Under(key)) /\ \A q \in Under(key) : Known(q)
  /\ InArgument => key \in Starts
  /\ cmdline_pc = "dead" => ~Known(key)
  /\ cmdline_pc = "head" =>
       /\ tmp = N \/ (key < tmp /\ (tmp = 1 \/ Full[tmp - 1] = SPACE))
       /\ \A q \in Starts : key < q => tmp <= q
       /\ tmp = N => \A q \in Starts : q <= key
  /\ cmdline_pc = "done" => \A q \in Starts : q <= key

LEMMA StartsAre ==
  ASSUME text \in Seq(Chars), NEW q
  PROVE  q \in Starts <=>
           /\ q \in 1 .. N
           /\ q # N => Full[q] # SPACE /\ (q = 1 \/ Full[q - 1] = SPACE)
           /\ q = N => /\ q > 1 /\ Full[q - 1] = SPACE
                       /\ q = 2 \/ Full[q - 2] = SPACE
<1>1. /\ N \in Nat \ {0} /\ N = Len(text) + 1 /\ Len(text) \in Nat
      /\ \A p \in 1 .. N : p # N => Full[p] = text[p]
  BY FullLine, LenProperties DEF N
<1>2. CASE q \in 1 .. Len(text)
  <2>1. q \in 1 .. N /\ q # N /\ Full[q] = text[q]
    BY <1>1, <1>2
  <2>2. q # 1 => Full[q - 1] = text[q - 1]
    BY <1>1, <1>2
  <2> QED BY <1>1, <1>2, <2>1, <2>2 DEF Starts
<1>3. CASE q = N
  <2>1. q > 1 => Full[q - 1] = text[q - 1]
    BY <1>1, <1>3
  <2>2. q > 2 => Full[q - 2] = text[q - 2]
    BY <1>1, <1>3
  <2>3. q \in Starts <=> q > 1 /\ text[q - 1] = SPACE /\ (q = 2 \/ text[q - 2] = SPACE)
    BY <1>1, <1>3 DEF Starts
  <2> QED BY <1>1, <1>3, <2>1, <2>2, <2>3
<1>4. CASE q \notin 1 .. Len(text) /\ q # N
  BY <1>1, <1>4 DEF Starts
<1> QED BY <1>2, <1>3, <1>4

LEMMA SubSeqSame ==
  ASSUME NEW s, NEW t, NEW a \in Nat \ {0}, NEW b \in Nat,
         \A i \in a .. b : s[i] = t[i]
  PROVE  SubSeq(s, a, b) = SubSeq(t, a, b)
OBVIOUS

\* The string at p in the command line that is cut at e for the first time behind p.
LEMMA StringIs ==
  ASSUME Shape, NEW p \in 1 .. N, NEW e \in 1 .. N, p <= e, cmdline[e] = NUL,
         \A q \in 1 .. N : p <= q /\ q < e => cmdline[q] # NUL /\ cmdline[q] = Full[q]
  PROVE  String(p) = SubSeq(text, p, e - 1)
<1> DEFINE S == {q \in p .. Len(cmdline) : cmdline[q] = NUL}
<1>1. N \in Nat \ {0} /\ \A q \in 1 .. N : q # N => Full[q] = text[q]
  BY FullLine DEF Shape
<1>2. cmdline \in [1 .. N -> Chars \union {NUL}] /\ Len(cmdline) = N
  BY <1>1 DEF Shape
<1>3. S \in SUBSET Nat /\ e \in S
  BY <1>1, <1>2
<1>4. ASSUME NEW y \in S PROVE e <= y
  <2>1. y \in 1 .. N /\ p <= y /\ cmdline[y] = NUL
    BY <1>1, <1>2
  <2> QED BY <1>1, <2>1
<1> HIDE DEF S
<1>5. Min(S) = e
  BY <1>3, <1>4, MinIs
<1>6. ASSUME NEW i \in p .. e - 1 PROVE cmdline[i] = text[i]
  <2>1. i \in 1 .. N /\ p <= i /\ i < e /\ i # N
    BY <1>1
  <2> QED BY <1>1, <2>1
<1>7. SubSeq(cmdline, p, e - 1) = SubSeq(text, p, e - 1)
  BY <1>6, <1>1, SubSeqSame
<1> QED BY <1>5, <1>7 DEF String, S

\* When the scan has stopped, the strings that the cuts leave are the argument's key and
\* value, up to the first equals sign and behind it.
LEMMA Argument ==
  ASSUME CInv, cmdline_pc \in {"process", "undo", "dead"}
  PROVE  Key = KeyAt(key) /\ Value = ValueAt(key)
<1>1. /\ text \in Seq(Chars) /\ N \in Nat \ {0} /\ Full[N] = NUL /\ N = Len(text) + 1
      /\ Len(text) \in Nat
      /\ \A p \in 1 .. N : p # N => Full[p] = text[p] /\ Full[p] # NUL
  BY FullLine, LenProperties DEF CInv, Shape, N
<1>2. Shape /\ tmp \in 1 .. N /\ value \in 0 .. N
  BY DEF CInv, Shape
<1>3. /\ key \in 1 .. End
      /\ value # 0 => value \in key + 1 .. End /\ Full[value - 1] = EQUALS
      /\ \A q \in 1 .. N : key <= q /\ q < End => Full[q] # SPACE
      /\ \A q \in 1 .. N : key <= q /\ q < KeyEnd => Full[q] # EQUALS
      /\ \A p \in 1 .. N : cmdline[p] = IF CutHere(p) THEN NUL ELSE Full[p]
      /\ IF chr = NUL THEN End = N ELSE chr = SPACE /\ Full[End] = SPACE
      /\ \A p : CutHere(p) <=> (value # 0 /\ p = value - 1) \/ p = End
  BY DEF CInv, ArgInv, InArgument, CutHere
<1>4. End \in 1 .. N /\ key \in 1 .. N
  <2>1. End = tmp \/ End = tmp - 1
    BY DEF End
  <2> QED BY <1>1, <1>2, <1>3, <2>1
<1> HIDE DEF End
<1>5. Behind(key) = End
  <2> DEFINE S == {q \in key .. Len(text) : text[q] = SPACE} \union {Len(text) + 1}
  <2>1. S \in SUBSET Nat
    BY <1>1, <1>4
  <2>2. End \in S
    <3>1. CASE chr = NUL
      BY <1>1, <1>3, <3>1
    <3>2. CASE chr # NUL
      <4>1. Full[End] = SPACE /\ End # N
        BY <1>1, <1>3, <3>2 DEF SPACE, NUL
      <4> QED BY <1>1, <1>3, <1>4, <4>1
    <3> QED BY <3>1, <3>2
  <2>3. ASSUME NEW y \in S PROVE End <= y
    <3>1. y \in 1 .. N /\ (y # N => key <= y /\ Full[y] = SPACE)
      BY <1>1, <1>4
    <3> QED BY <1>1, <1>3, <1>4, <3>1
  <2> HIDE DEF S
  <2>4. Min(S) = End
    BY <2>1, <2>2, <2>3, MinIs
  <2> QED BY <2>4 DEF Behind, S
<1>6. EqualsIn(key) = {q \in key .. End - 1 : text[q] = EQUALS}
  BY <1>5 DEF EqualsIn
<1>7. CASE value = 0
  <2>1. KeyEnd = End
    BY <1>7 DEF KeyEnd
  <2>2. EqualsIn(key) = {}
    <3>1. ASSUME NEW q \in key .. End - 1 PROVE text[q] # EQUALS
      <4>1. q \in 1 .. N /\ key <= q /\ q < End /\ q # N
        BY <1>1, <1>4
      <4> QED BY <1>1, <1>3, <2>1, <4>1
    <3> QED BY <1>6, <3>1
  <2>3. String(key) = SubSeq(text, key, End - 1)
    <3>1. key <= End /\ cmdline[End] = NUL
      BY <1>3, <1>4
    <3>2. ASSUME NEW q \in 1 .. N, key <= q, q < End
          PROVE  cmdline[q] # NUL /\ cmdline[q] = Full[q]
      <4>1. q # N /\ ~CutHere(q)
        BY <1>1, <1>3, <1>4, <1>7, <3>2
      <4> QED BY <1>1, <1>3, <4>1
    <3> QED BY <1>2, <1>4, <3>1, <3>2, StringIs
  <2> QED BY <1>5, <1>7, <2>2, <2>3 DEF Key, KeyAt, Value, ValueAt
<1>8. CASE value # 0
  <2>1. /\ KeyEnd = value - 1 /\ value - 1 \in 1 .. N /\ key <= value - 1 /\ value - 1 < End
        /\ Full[value - 1] = EQUALS /\ value \in 1 .. N
    BY <1>1, <1>2, <1>3, <1>4, <1>8 DEF KeyEnd
  <2>2. EqualsIn(key) # {} /\ Min(EqualsIn(key)) = value - 1
    <3>1. EqualsIn(key) \in SUBSET Nat
      BY <1>4, <1>6
    <3>2. value - 1 \in EqualsIn(key)
      BY <1>1, <1>4, <1>6, <2>1
    <3>3. ASSUME NEW y \in EqualsIn(key) PROVE value - 1 <= y
      <4>1. y \in 1 .. N /\ key <= y /\ y # N /\ text[y] = EQUALS
        BY <1>1, <1>4, <1>6
      <4> QED BY <1>1, <1>3, <2>1, <4>1
    <3> QED BY <3>1, <3>2, <3>3, MinIs
  <2>3. String(key) = SubSeq(text, key, value - 1 - 1)
    <3>1. cmdline[value - 1] = NUL
      BY <1>3, <1>8, <2>1
    <3>2. ASSUME NEW q \in 1 .. N, key <= q, q < value - 1
          PROVE  cmdline[q] # NUL /\ cmdline[q] = Full[q]
      <4>1. q # N /\ ~CutHere(q)
        BY <1>1, <1>2, <1>3, <1>4, <2>1, <3>2
      <4> QED BY <1>1, <1>3, <4>1
    <3> DEFINE e == value - 1
    <3>3. e \in 1 .. N /\ key <= e /\ cmdline[e] = NUL
      BY <2>1, <3>1
    <3>4. \A q \in 1 .. N : key <= q /\ q < e => cmdline[q] # NUL /\ cmdline[q] = Full[q]
      BY <3>2
    <3> HIDE DEF e
    <3>5. String(key) = SubSeq(text, key, e - 1)
      BY <1>2, <1>4, <3>3, <3>4, StringIs
    <3> QED BY <3>5 DEF e
  <2>4. String(value) = SubSeq(text, value, End - 1)
    <3>1. value <= End /\ cmdline[End] = NUL
      BY <1>2, <1>3, <1>4, <1>8, <2>1
    <3>2. ASSUME NEW q \in 1 .. N, value <= q, q < End
          PROVE  cmdline[q] # NUL /\ cmdline[q] = Full[q]
      <4>1. q # N /\ ~CutHere(q)
        BY <1>1, <1>2, <1>3, <1>4, <2>1, <3>2
      <4> QED BY <1>1, <1>3, <4>1
    <3> QED BY <1>2, <1>4, <2>1, <3>1, <3>2, StringIs
  <2>5. value - 1 + 1 = value
    BY <1>2
  <2> QED BY <1>5, <1>8, <2>2, <2>3, <2>4, <2>5 DEF Key, KeyAt, Value, ValueAt
<1> QED BY <1>7, <1>8

\* Apply adds what the next argument asks for.
LEMMA ApplyAsks ==
  ASSUME NEW D \in SUBSET Nat, NEW k \in Nat, \A q \in D : q < k
  PROVE  Apply(AskedBy(D), KeyAt(k), ValueAt(k)) = AskedBy(D \union {k})
<1> DEFINE E == D \union {k}
           f == AskedBy(D)
           g == AskedBy(E)
           a == KeyAt(k)
           v == ValueAt(k)
           yes == TRUE
<1>1. \A w : IF a = <<w>> THEN AsksBy(E, w) = TRUE ELSE AsksBy(E, w) = AsksBy(D, w)
  BY DEF AsksBy
<1>2. /\ a # <<"pause">> => QuietBy(E) = QuietBy(D)
      /\ QuietBy(E) = (QuietBy(D) \/ (a = <<"pause">> /\ v = <<"quiet">>))
  BY DEF QuietBy
<1>3. a # <<"index">> => IndexBy(E) = IndexBy(D)
  <2> HAVE a # <<"index">>
  <2>1. IndicesBy(E) = IndicesBy(D)
    BY DEF IndicesBy
  <2> QED BY <2>1 DEF IndexBy
<1>4. a = <<"index">> => IndexBy(E) = strtoul[v[1]]
  <2> HAVE a = <<"index">>
  <2>1. IndicesBy(E) \in SUBSET Nat /\ k \in IndicesBy(E)
    BY DEF IndicesBy
  <2>2. ASSUME NEW y \in IndicesBy(E) PROVE y <= k
    BY DEF IndicesBy
  <2>3. Max(IndicesBy(E)) = k
    BY <2>1, <2>2, MaxIs
  <2> QED BY <2>1, <2>3 DEF IndexBy
<1> DEFINE plain == {"rawbcd", "rawwim", "gui", "linear", "quiet"}
<1>5. CASE \E w \in plain : a = <<w>>
  <2>1. PICK w \in plain : a = <<w>>
    BY <1>5
  <2>2. a[1] = w /\ a # <<"index">> /\ a # <<"pause">>
    BY <2>1
  <2>3. Apply(f, a, v) = [f EXCEPT ![w] = yes]
    BY <2>1, <2>2 DEF Apply
  <2>4. AsksBy(E, w) = yes /\ \A u : u # w => AsksBy(E, u) = AsksBy(D, u)
    BY <1>1, <2>1
  <2> HIDE DEF E, a, v, yes
  <2>5. g = [f EXCEPT ![w] = yes]
    <3>1. CASE w = "rawbcd"
      BY <1>2, <1>3, <2>2, <2>4, <3>1 DEF AskedBy
    <3>2. CASE w = "rawwim"
      BY <1>2, <1>3, <2>2, <2>4, <3>2 DEF AskedBy
    <3>3. CASE w = "gui"
      BY <1>2, <1>3, <2>2, <2>4, <3>3 DEF AskedBy
    <3>4. CASE w = "linear"
      BY <1>2, <1>3, <2>2, <2>4, <3>4 DEF AskedBy
    <3>5. CASE w = "quiet"
      BY <1>2, <1>3, <2>2, <2>4, <3>5 DEF AskedBy
    <3> QED BY <3>1, <3>2, <3>3, <3>4, <3>5
  <2> QED BY <2>3, <2>5 DEF a, v, E
<1>6. CASE a = <<"pause">>
  <2>1. a # <<"index">> /\ a \notin {<<w>> : w \in plain}
    BY <1>6
  <2>2. Apply(f, a, v) = [f EXCEPT !.pause = TRUE, !.pause_quiet = @ \/ v = <<"quiet">>]
    BY <1>6, <2>1 DEF Apply
  <2>3. AsksBy(E, "pause") = yes /\ \A u : u # "pause" => AsksBy(E, u) = AsksBy(D, u)
    BY <1>1, <1>6
  <2> DEFINE quiet == f.pause_quiet \/ v = <<"quiet">>
  <2>4. QuietBy(E) = quiet
    <3>1. f.pause_quiet = QuietBy(D)
      BY DEF AskedBy
    <3>2. QuietBy(E) = (QuietBy(D) \/ v = <<"quiet">>)
      BY <1>2, <1>6
    <3> QED BY <3>1, <3>2
  <2>5. Apply(f, a, v) = [f EXCEPT !.pause = yes, !.pause_quiet = quiet]
    BY <2>2
  <2> HIDE DEF E, a, v, yes, quiet
  <2>6. g = [f EXCEPT !.pause = yes, !.pause_quiet = quiet]
    <3>1. IndexBy(E) = IndexBy(D)
      BY <1>3, <2>1
    <3>2. \A u \in plain : AsksBy(E, u) = AsksBy(D, u)
      BY <2>3
    <3> HIDE DEF plain
    <3> DEFINE f1 == [f EXCEPT !.pause = yes]
               f2 == [f1 EXCEPT !.pause_quiet = quiet]
    <3>3. f1 = [rawbcd |-> AsksBy(D, "rawbcd"), rawwim |-> AsksBy(D, "rawwim"),
                gui |-> AsksBy(D, "gui"), linear |-> AsksBy(D, "linear"),
                quiet |-> AsksBy(D, "quiet"), pause |-> yes,
                pause_quiet |-> QuietBy(D), index |-> IndexBy(D)]
      BY DEF AskedBy
    <3> HIDE DEF f1
    <3>4. f2 = [rawbcd |-> AsksBy(D, "rawbcd"), rawwim |-> AsksBy(D, "rawwim"),
                gui |-> AsksBy(D, "gui"), linear |-> AsksBy(D, "linear"),
                quiet |-> AsksBy(D, "quiet"), pause |-> yes,
                pause_quiet |-> quiet, index |-> IndexBy(D)]
      BY <3>3
    <3>5. g = f2
      BY <2>3, <2>4, <3>1, <3>2, <3>4 DEF AskedBy, plain
    <3> QED BY <3>5 DEF f1
  <2> QED BY <2>5, <2>6 DEF a, v, E
<1>7. CASE a = <<"index">>
  <2>1. a # <<"pause">> /\ a \notin {<<w>> : w \in plain}
    BY <1>7
  <2>2. Apply(f, a, v) = [f EXCEPT !.index = strtoul[v[1]]]
    BY <1>7, <2>1 DEF Apply
  <2>3. \A u \in plain \union {"pause"} : AsksBy(E, u) = AsksBy(D, u)
    BY <1>1, <1>7
  <2> HIDE DEF E, a
  <2>4. g = [f EXCEPT !.index = strtoul[v[1]]]
    BY <1>2, <1>4, <1>7, <2>1, <2>3 DEF AskedBy
  <2> QED BY <2>2, <2>4 DEF a, E
<1>8. CASE a # <<"index">> /\ a # <<"pause">> /\ \A w \in plain : a # <<w>>
  <2>1. Apply(f, a, v) = f
    BY <1>8 DEF Apply
  <2>2. \A u \in plain \union {"pause"} : AsksBy(E, u) = AsksBy(D, u)
    BY <1>1, <1>8
  <2> HIDE DEF E, a
  <2>3. g = f
    BY <1>2, <1>3, <1>8, <2>2 DEF AskedBy
  <2> QED BY <2>1, <2>3 DEF a, E
<1> QED BY <1>5, <1>6, <1>7, <1>8

\* The command line as it was given does not change, nor what it asks for.
LEMMA Frozen ==
  ASSUME text' = text
  PROVE  /\ Full' = Full /\ N' = N /\ Starts' = Starts
         /\ UpTo(key)' = UpTo(key') /\ Under(key)' = Under(key')
         /\ \A D : AskedBy(D)' = AskedBy(D)
         /\ \A p : Known(p)' <=> Known(p)
<1>1. Full' = Full /\ N' = N /\ Starts' = Starts
  BY DEF Full, N, Starts
<1>2. UpTo(key)' = UpTo(key') /\ Under(key)' = Under(key')
  BY <1>1 DEF UpTo, Under
<1>3. \A p : Behind(p)' = Behind(p)
  BY DEF Behind
<1>4. \A p : EqualsIn(p)' = EqualsIn(p)
  BY <1>3 DEF EqualsIn
<1>5. \A p : KeyAt(p)' = KeyAt(p) /\ ValueAt(p)' = ValueAt(p)
  BY <1>3, <1>4 DEF KeyAt, ValueAt
<1>6. \A p : Known(p)' <=> Known(p)
  BY <1>5 DEF Known
<1>7. ASSUME NEW D PROVE AskedBy(D)' = AskedBy(D)
  <2>1. \A w : AsksBy(D, w)' = AsksBy(D, w)
    BY <1>5 DEF AsksBy
  <2>2. QuietBy(D)' = QuietBy(D)
    BY <1>5 DEF QuietBy
  <2>3. IndicesBy(D)' = IndicesBy(D)
    BY <1>5 DEF IndicesBy
  <2>4. IndexBy(D)' = IndexBy(D)
    BY <1>5, <2>3 DEF IndexBy
  <2> QED BY <2>1, <2>2, <2>4 DEF AskedBy
<1> QED BY <1>1, <1>2, <1>6, <1>7

LEMMA FlagInit == CmdlineInit => FlagInv
<1> SUFFICES ASSUME CmdlineInit PROVE FlagInv
  OBVIOUS
<1>1. text \in Seq(Chars) /\ N \in Nat \ {0}
  BY FullLine DEF CmdlineInit, Chars
<1>2. \A q \in Starts : q \in 1 .. N /\ (q = N => q > 1)
  BY <1>1, StartsAre
<1>3. key = 0 /\ tmp = 1 /\ cmdline_pc = "head"
  BY DEF CmdlineInit
<1>4. UpTo(key) = {}
  BY <1>2, <1>3 DEF UpTo
<1>5. AskedBy({}) = NoFlags
  BY DEF AskedBy, AsksBy, QuietBy, IndexBy, IndicesBy, NoFlags
<1>6. flags = NoFlags
  BY DEF CmdlineInit
<1>7. \A q \in Starts : tmp <= q /\ (tmp = N => q <= key)
  BY <1>1, <1>2, <1>3
<1>8. flags = AskedBy(UpTo(key)) /\ \A q \in UpTo(key) : Known(q)
  BY <1>4, <1>5, <1>6
<1> QED BY <1>3, <1>7, <1>8 DEF FlagInv, InArgument

\* SkipWhitespace stops at the next start of an argument.
LEMMA SkipToStart ==
  ASSUME CInv, FlagInv, SkipWhitespace
  PROVE  tmp' \in Starts /\ \A q \in Starts : q < tmp' <=> q <= key
<1>1. /\ text \in Seq(Chars) /\ N \in Nat \ {0} /\ tmp \in 1 .. N /\ Full[N] = NUL
      /\ key \in 0 .. N /\ cmdline = Full /\ cmdline_pc = "head"
  BY FullLine DEF CInv, Shape, CmdlineRestored, SkipWhitespace, Full
<1>2. /\ tmp' \in tmp .. N /\ Full[tmp'] # SPACE
      /\ \A q \in 1 .. N : tmp <= q /\ q < tmp' => Full[q] = SPACE
  BY Skip
<1>3. Full[tmp] # NUL
  BY <1>1 DEF SkipWhitespace
<1>4. /\ tmp = 1 \/ Full[tmp - 1] = SPACE
      /\ key < tmp
      /\ \A q \in Starts : key < q => tmp <= q
  BY <1>1, <1>3 DEF FlagInv
<1> DEFINE t == tmp'
<1>0. t \in Nat /\ tmp \in Nat \ {0} /\ N \in Nat /\ key \in Nat /\ tmp <= t /\ t <= N
  BY <1>1, <1>2
<1>5. /\ Full[t] # SPACE
      /\ \A q \in 1 .. N : tmp <= q /\ q < t => Full[q] = SPACE
  BY <1>2
<1> HIDE DEF t
<1>6. t \in Starts
  <2>1. t \in 1 .. N
    BY <1>0
  <2>2. CASE t = tmp
    <3>1. t # N
      BY <1>1, <1>3, <2>2
    <3> QED BY <1>1, <1>4, <1>5, <2>1, <2>2, <3>1, StartsAre
  <2>3. CASE t # tmp
    <3>1. t - 1 \in 1 .. N /\ tmp <= t - 1 /\ t - 1 < t /\ t > 1
      BY <1>0, <2>3
    <3>2. Full[t - 1] = SPACE
      BY <1>5, <3>1
    <3>3. t = 2 \/ Full[t - 2] = SPACE
      <4>1. CASE tmp = t - 1
        <5>1. t - 2 = tmp - 1 /\ (tmp = 1 => t = 2)
          BY <1>0, <4>1
        <5> QED BY <1>4, <5>1
      <4>2. CASE tmp # t - 1
        <5>1. t - 2 \in 1 .. N /\ tmp <= t - 2 /\ t - 2 < t
          BY <1>0, <3>1, <4>2
        <5> QED BY <1>5, <5>1
      <4> QED BY <4>1, <4>2
    <3> QED BY <1>1, <1>5, <2>1, <3>1, <3>2, <3>3, StartsAre
  <2> QED BY <2>2, <2>3
<1>7. ASSUME NEW q \in Starts PROVE q < t <=> q <= key
  <2>1. q \in 1 .. N /\ (q # N => Full[q] # SPACE)
    BY <1>1, StartsAre
  <2>2. ASSUME q < t, ~(q <= key) PROVE FALSE
    <3>1. tmp <= q
      BY <1>0, <1>4, <2>1, <2>2
    <3>2. q # N
      BY <1>0, <2>1, <2>2
    <3> QED BY <1>5, <2>1, <2>2, <3>1, <3>2
  <2>3. ASSUME q <= key PROVE q < t
    BY <1>0, <1>4, <2>1, <2>3
  <2> QED BY <2>2, <2>3
<1> QED BY <1>6, <1>7 DEF t

\* Behind an argument no other starts before the scan goes on, and none at all if it has
\* come to the NUL.
LEMMA NoneSkipped ==
  ASSUME CInv, FlagInv, UndoModifications
  PROVE  /\ tmp = N \/ (key < tmp /\ Full[tmp - 1] = SPACE)
         /\ \A q \in Starts : key < q => tmp <= q
         /\ tmp = N => \A q \in Starts : q <= key
<1>1. /\ text \in Seq(Chars) /\ N \in Nat \ {0} /\ Full[N] = NUL
      /\ tmp \in 1 .. N /\ cmdline_pc = "undo"
  BY FullLine DEF CInv, Shape, UndoModifications
<1>2. /\ key \in 1 .. End
      /\ \A q \in 1 .. N : key <= q /\ q < End => Full[q] # SPACE
      /\ IF chr = NUL THEN End = N /\ End = tmp
                      ELSE Full[End] = SPACE /\ End = tmp - 1
      /\ key \in Starts
  BY <1>1 DEF CInv, FlagInv, ArgInv, InArgument, End
<1>3. End \in Nat /\ tmp \in Nat \ {0} /\ N \in Nat /\ key \in Nat \ {0} /\ End <= tmp /\ tmp <= N
  BY <1>1, <1>2
<1> HIDE DEF End
<1>4. Full[key] # SPACE
  <2>1. key \in 1 .. N /\ (key # N => Full[key] # SPACE)
    BY <1>1, <1>2, StartsAre
  <2> QED BY <1>1, <2>1 DEF NUL, SPACE
<1>5. ASSUME NEW q \in Starts, key < q PROVE End < q
  <2>1. /\ q \in 1 .. N /\ q > 1
        /\ Full[q - 1] = SPACE
    <3>1. /\ q \in 1 .. N
          /\ q # N => q = 1 \/ Full[q - 1] = SPACE
          /\ q = N => Full[q - 1] = SPACE
      BY <1>1, StartsAre
    <3> QED BY <1>3, <1>5, <3>1
  <2>2. q - 1 \in 1 .. N /\ key <= q - 1
    BY <1>3, <1>5, <2>1
  <2>3. ~(q - 1 < End)
    BY <1>2, <2>1, <2>2
  <2>4. q - 1 # End \/ End < q
    BY <1>3, <2>1
  <2> QED BY <1>3, <2>1, <2>3
<1>6. CASE chr = NUL
  <2>1. \A q \in Starts : q \in 1 .. N
    BY <1>1, StartsAre
  <2>2. \A q \in Starts : ~(key < q)
    BY <1>2, <1>3, <1>5, <1>6, <2>1
  <2> QED BY <1>2, <1>3, <1>6, <2>1, <2>2
<1>7. CASE chr # NUL
  <2>1. End = tmp - 1 /\ Full[tmp - 1] = SPACE /\ key < tmp
    BY <1>2, <1>3, <1>7
  <2>2. ASSUME NEW q \in Starts, key < q PROVE tmp <= q
    <3>1. q \in 1 .. N /\ End < q
      BY <1>1, <1>5, <2>2, StartsAre
    <3> QED BY <1>3, <2>1, <3>1
  <2>3. ASSUME tmp = N, NEW q \in Starts, key < q PROVE FALSE
    <3>1. q = N
      <4>1. q \in 1 .. N /\ tmp <= q
        BY <1>1, <2>2, <2>3, StartsAre
      <4> QED BY <1>3, <2>3, <4>1
    <3>2. q = 2 \/ Full[q - 2] = SPACE
      BY <1>1, <3>1, StartsAre
    <3>3. q - 2 = End - 1 /\ q - 1 = End
      BY <1>3, <2>1, <2>3, <3>1
    <3>4. key # End
      BY <1>2, <1>4, <1>7
    <3>5. End - 1 \in 1 .. N /\ key <= End - 1 /\ End - 1 < End /\ q # 2
      BY <1>2, <1>3, <3>1, <3>3, <3>4
    <3> QED BY <1>2, <3>2, <3>3, <3>5
  <2>4. \A q \in Starts : q \in 1 .. N
    BY <1>1, StartsAre
  <2> QED BY <1>3, <2>1, <2>2, <2>3, <2>4
<1> QED BY <1>6, <1>7

\* One step of process_cmdline, or none.
LEMMA FlagStep == CInv /\ FlagInv /\ [process_cmdline]_cmdlineVars => FlagInv'
<1> SUFFICES ASSUME CInv, FlagInv, [process_cmdline]_cmdlineVars PROVE FlagInv'
  OBVIOUS
<1>1. text' = text
  BY DEF process_cmdline, EndOfLine, SkipWhitespace, Scan, ProcessArgument, RefuseArgument,
         UndoModifications, cmdlineVars
<1>2. /\ Full' = Full /\ N' = N /\ Starts' = Starts
      /\ UpTo(key)' = UpTo(key') /\ Under(key)' = Under(key')
      /\ \A D : AskedBy(D)' = AskedBy(D)
      /\ \A p : Known(p)' <=> Known(p)
  BY <1>1, Frozen
<1>3. AskedBy(UpTo(key))' = AskedBy(UpTo(key')) /\ AskedBy(Under(key))' = AskedBy(Under(key'))
  BY <1>2
<1>4. /\ (\A q \in UpTo(key) : Known(q))' <=> \A q \in UpTo(key') : Known(q)
      /\ (\A q \in Under(key) : Known(q))' <=> \A q \in Under(key') : Known(q)
  BY <1>2
<1>5. Known(key)' <=> Known(key')
  BY <1>2
<1>6. CASE EndOfLine
  <2>1. /\ cmdline_pc = "head" /\ cmdline_pc' = "done" /\ UNCHANGED <<key, flags>>
        /\ cmdline = Full /\ cmdline[tmp] = NUL
    BY <1>6 DEF EndOfLine, CInv, CmdlineRestored, Full
  <2>2. tmp = N
    BY <2>1, FullLine DEF CInv, Shape
  <2> QED BY <1>2, <1>3, <1>4, <2>1, <2>2 DEF FlagInv, InArgument
<1>7. CASE SkipWhitespace
  <2>1. /\ cmdline_pc = "head" /\ cmdline_pc' = "scan" /\ key' = tmp' /\ flags' = flags
    BY <1>7 DEF SkipWhitespace
  <2>2. key' \in Starts /\ Under(key') = UpTo(key)
    BY <1>7, <2>1, SkipToStart DEF Under, UpTo
  <2>3. flags = AskedBy(UpTo(key)) /\ \A q \in UpTo(key) : Known(q)
    BY <2>1 DEF FlagInv
  <2>4. flags' = AskedBy(Under(key')) /\ \A q \in Under(key') : Known(q)
    BY <2>1, <2>2, <2>3
  <2> QED BY <1>2, <1>3, <1>4, <2>1, <2>2, <2>4 DEF FlagInv, InArgument
<1>8. CASE Scan
  <2>1. /\ cmdline_pc = "scan" /\ cmdline_pc' \in {"scan", "process"} /\ UNCHANGED <<key, flags>>
    BY <1>8 DEF Scan, ScanEnd, ScanSpace, ScanEquals, ScanWord
  <2> QED BY <1>2, <1>3, <1>4, <2>1 DEF FlagInv, InArgument
<1>9. CASE ProcessArgument
  <2>1. /\ cmdline_pc = "process" /\ cmdline_pc' = "undo" /\ key' = key
        /\ flags' = Apply(flags, KeyAt(key), ValueAt(key))
        /\ ~Refused(key, KeyAt(key), ValueAt(key))
    BY <1>9, Argument DEF ProcessArgument
  <2>2. Known(key)
    BY <2>1 DEF Refused, Known
  <2>3. /\ flags = AskedBy(Under(key)) /\ \A q \in Under(key) : Known(q)
        /\ key \in Starts
    BY <2>1 DEF FlagInv, InArgument
  <2>4. /\ Starts \subseteq Nat /\ key \in Nat
    <3>1. text \in Seq(Chars) /\ N \in Nat
      BY FullLine DEF CInv, Shape
    <3> QED BY <2>3, <3>1, StartsAre
  <2>5. UpTo(key) = Under(key) \union {key}
    <3>1. ASSUME NEW q \in Starts PROVE q <= key <=> q < key \/ q = key
      <4>1. q \in Nat
        BY <2>4
      <4> QED BY <2>4, <4>1
    <3> QED BY <2>3, <3>1 DEF UpTo, Under
  <2>6. /\ Under(key) \in SUBSET Nat
        /\ \A q \in Under(key) : q < key
    BY <2>4 DEF Under
  <2>7. Apply(AskedBy(Under(key)), KeyAt(key), ValueAt(key)) = AskedBy(Under(key) \union {key})
    BY <2>4, <2>6, ApplyAsks
  <2>8. flags' = AskedBy(UpTo(key')) /\ \A q \in UpTo(key') : Known(q)
    BY <2>1, <2>2, <2>3, <2>5, <2>7
  <2> QED BY <1>2, <1>3, <1>4, <2>1, <2>3, <2>8 DEF FlagInv, InArgument
<1>10. CASE RefuseArgument
  <2>1. /\ cmdline_pc = "process" /\ cmdline_pc' = "dead" /\ key' = key /\ key \in Starts
        /\ Refused(key, KeyAt(key), ValueAt(key))
    BY <1>10, Argument DEF RefuseArgument, FlagInv, InArgument
  <2>2. ~Known(key)
    BY <2>1 DEF Refused, Known
  <2> QED BY <1>2, <1>5, <2>1, <2>2 DEF FlagInv, InArgument
<1>11. CASE UndoModifications
  <2>1. /\ cmdline_pc = "undo" /\ cmdline_pc' = "head" /\ UNCHANGED <<tmp, key, flags>>
    BY <1>11 DEF UndoModifications
  <2>2. /\ tmp = N \/ (key < tmp /\ Full[tmp - 1] = SPACE)
        /\ \A q \in Starts : key < q => tmp <= q
        /\ tmp = N => \A q \in Starts : q <= key
    BY <1>11, NoneSkipped
  <2>3. flags' = AskedBy(UpTo(key')) /\ \A q \in UpTo(key') : Known(q)
    BY <2>1 DEF FlagInv
  <2> QED BY <1>2, <1>3, <1>4, <2>1, <2>2, <2>3 DEF FlagInv, InArgument
<1>12. CASE UNCHANGED cmdlineVars
  <2>1. UNCHANGED <<tmp, key, flags, cmdline_pc>>
    BY <1>12 DEF cmdlineVars
  <2> QED BY <1>2, <1>3, <1>4, <1>5, <2>1 DEF FlagInv, InArgument
<1> QED BY <1>6, <1>7, <1>8, <1>9, <1>10, <1>11, <1>12 DEF process_cmdline

LEMMA FlagsFollow == CInv /\ FlagInv => FlagsAreAsked
<1> SUFFICES ASSUME CInv, FlagInv PROVE FlagsAreAsked
  OBVIOUS
<1>1. Asked = AskedBy(Starts)
  <2>1. \A w : Asks(w) = AsksBy(Starts, w)
    BY DEF Asks, AsksBy
  <2>2. AsksIndex = IndicesBy(Starts)
    BY DEF AsksIndex, IndicesBy
  <2>3. (\E p \in Starts : KeyAt(p) = <<"pause">> /\ ValueAt(p) = <<"quiet">>) = QuietBy(Starts)
    BY DEF QuietBy
  <2> QED BY <2>1, <2>2, <2>3 DEF Asked, AskedBy, IndexBy
<1>2. Acceptable <=> \A p \in Starts : Known(p)
  BY DEF Acceptable, Known
<1>3. ASSUME cmdline_pc = "done" PROVE Acceptable /\ flags = Asked
  <2>1. UpTo(key) = Starts
    BY <1>3 DEF FlagInv, UpTo
  <2> QED BY <1>1, <1>2, <1>3, <2>1 DEF FlagInv
<1>4. ASSUME cmdline_pc = "dead" PROVE ~Acceptable
  BY <1>2, <1>4 DEF FlagInv, InArgument
<1> QED BY <1>3, <1>4 DEF FlagsAreAsked

\* process_cmdline stops the machine exactly for the command lines that it must not
\* accept, and otherwise leaves what their arguments ask for.
THEOREM CmdlineIsObeyed == CmdlineSpec => []FlagsAreAsked
<1>1. CmdlineInit => CInv /\ FlagInv
  BY CInit, FlagInit
<1>2. (CInv /\ FlagInv) /\ [process_cmdline]_cmdlineVars => (CInv /\ FlagInv)'
  BY CStep, FlagStep
<1> QED BY <1>1, <1>2, FlagsFollow, PTL DEF CmdlineSpec
=============================================================================
