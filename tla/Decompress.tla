----------------------------- MODULE Decompress -----------------------------
(***************************************************************************)
(* The decompressors on the streams that compressors make, and Huffman      *)
(* alphabets on tables of lengths.  A stream has the tokens' text (plain),  *)
(* whether it is whole, and whether it has blocks that are merely stored.   *)
(***************************************************************************)
EXTENDS Lznt1, Lzx, Xca

\* The tables of lengths that the formats can express: no code is too long.
ASSUME TablesAssumption ==
  \A s \in Streams : s.format = "alphabet" => s.data \in Seq(0 .. HUFFMAN_BITS)

Init ==
  /\ stream \in Streams
  /\ buf = FALSE /\ src = 0 /\ out_len = 0 /\ out = <<>> /\ lens = <<>>
  /\ dec = CASE stream.format = "lznt1" -> lznt1_init
             [] stream.format = "lzx" -> lzx_init
             [] stream.format = "xca" -> xca_init
             [] stream.format = "alphabet" -> <<>>

\* A decompressor builds the alphabet of a table.
BuildAlphabet ==
  /\ stream.format = "alphabet" /\ lens = <<>>
  /\ dec' = huffman_alphabet(data)
  /\ lens' = <<dec'.rc>>
  /\ UNCHANGED <<stream, buf, src, out_len, out>>

Next == BuildAlphabet \/ lznt1_decompress \/ lzx_decompress \/ xca_decompress

Spec == Init /\ [][Next]_decompressVars

----------------------------------------------------------------------------

\* The translation of jumps that precedes compression: a target relative to the jump becomes
\* an absolute one when both are inside the file.
Absolute(n, offset) ==
  CASE n >= -offset /\ n < LZX_WIM_MAGIC_FILESIZE - offset -> n + offset
    [] n >= LZX_WIM_MAGIC_FILESIZE - offset /\ n < LZX_WIM_MAGIC_FILESIZE -> n - LZX_WIM_MAGIC_FILESIZE
    [] OTHER -> n

LzxPlain(text, plain) ==
  /\ Len(text) = Len(plain)
  /\ LET Step(s, offset) ==
           IF offset < s.next \/ plain[offset + 1] # E8 THEN s
           ELSE [text |-> WithTarget(s.text, offset + 1, Absolute(Target(s.text, offset + 1), offset)),
                 next |-> offset + 5]
     IN  text = Fold(Step, [text |-> plain, next |-> 0], Scanned(plain)).text

\* huffman_alphabet accepts exactly the tables that are unused or complete, and decodes any
\* input by the canonical code that the table stands for.
AlphabetIsCanonical ==
  stream.format = "alphabet" /\ lens # <<>> => HuffmanDecodes(data, dec)

\* What a caller of lznt1_decompress or xca_decompress gets: the length that the first pass
\* returns is the text's, the second pass returns it again and has filled the buffer with
\* the text; a stream with a broken block is refused by the first pass.
TextRecovered ==
  Returned /\ stream.format \in {"lznt1", "xca"} =>
    IF stream.whole THEN Exactly(stream.plain) ELSE Refused

\* What a caller of lzx_decompress gets from blocks that are all compressed: both passes
\* return the length, and the buffer holds the text whose jumps, translated, give the text
\* of the tokens, whatever repeated offsets the blocks share and however the tables are sent.
LzxTextRecovered ==
  Returned /\ stream.format = "lzx" /\ ~stream.stored =>
    IF stream.whole
    THEN lens = <<Len(stream.plain), Len(stream.plain)>> /\ LzxPlain(stream.plain, out)
    ELSE Refused

\* "@ret out_len  Length of decompressed data, or negative error" (src/src/lzx.c:611): the
\* first pass tells the caller how long the text is.
LengthReturned == Returned /\ stream.whole => lens[1] = Len(stream.plain)
=============================================================================
