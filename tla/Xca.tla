-------------------------------- MODULE Xca --------------------------------
(***************************************************************************)
(* XCA (Xpress Huffman) decompression (src/src/xca.c, src/src/xca.h): a     *)
(* table of code lengths for each XCA_BLOCK_SIZE bytes of output, then a    *)
(* stream of words, read ahead of the symbols, with the long match lengths  *)
(* as bytes between them.                                                   *)
(***************************************************************************)
EXTENDS Decompressor, Huffman

CONSTANTS
  XCA_BLOCK_SIZE   \* the output that a table is good for: 65536

NIBBLE == BYTE \div 2
XCA_END_MARKER == 2 ^ BYTE
XCA_CODES == 2 * XCA_END_MARKER

xca_huf_len(offset, symbol) ==
  (ByteAt(offset + symbol \div 2) \div 2 ^ (NIBBLE * (symbol % 2))) % 2 ^ NIBBLE

\* dec: the valid bits of the accumulator (extra_bits more than a word), the output length
\* at which the next table is due, the alphabet, and whether its table has just been read.
xca_init ==
  [accum |-> <<>>, threshold |-> 0, alphabet |-> huffman_alphabet(<<>>), begun |-> FALSE]

XcaRuns == stream.format = "xca" /\ Running

\* The head of the loop, where a table is due or is not.
XcaLoop == XcaRuns /\ ~dec.begun /\ src < Len(data)
TableDue == XcaLoop /\ out_len >= dec.threshold
SymbolDue == XcaRuns /\ (dec.begun \/ (XcaLoop /\ ~TableDue))

xca_table ==
  /\ TableDue
  /\ LET words == src + XCA_CODES \div 2
         alphabet == huffman_alphabet([i \in 1 .. XCA_CODES |-> xca_huf_len(src, i - 1)])
     IN  IF words > Len(data) \/ alphabet.rc # 0 THEN Fail
         ELSE /\ src' = words + 4
              /\ dec' = [accum |-> Bits(WordAt(words), WORD) \o Bits(WordAt(words + 2), WORD),
                         alphabet |-> alphabet, threshold |-> out_len + XCA_BLOCK_SIZE,
                         begun |-> TRUE]
              /\ UNCHANGED <<stream, buf, out_len, out, lens>>

\* Mutant: another word is fetched as soon as the word ahead is used up.
Used_Early(s, n) ==
  LET rest == Drop(s.accum, n)
  IN  IF Len(rest) <= WORD
      THEN [s EXCEPT !.src = @ + 2, !.accum = rest \o Bits(WordAt(s.src), WORD)]
      ELSE [s EXCEPT !.accum = rest]

\* n bits taken from the accumulator, which is topped up when less than a word is left.
Used(s, n) ==
  LET rest == Drop(s.accum, n)
  IN  IF Len(rest) < WORD
      THEN [s EXCEPT !.src = @ + 2, !.accum = rest \o Bits(WordAt(s.src), WORD)]
      ELSE [s EXCEPT !.accum = rest]

\* The next symbol, and the variables behind it.
XcaState == [src |-> src, accum |-> dec.accum]
Huf == Number(SubSeq(dec.accum, 1, HUFFMAN_BITS))
Raw == huffman_raw(dec.alphabet, huffman_sym(dec.alphabet, Huf), Huf)
BehindSymbol == Used(XcaState, huffman_sym(dec.alphabet, Huf))

\* The length of a match, less 3, and how many bytes it takes from the input.
MatchLen(raw, at) ==
  LET short == raw % 2 ^ NIBBLE
      byte == ByteAt(at)
      most == 2 ^ NIBBLE - 1
  IN  IF short < most THEN [len |-> short, bytes |-> 0]
      ELSE IF byte < 2 ^ BYTE - 1 THEN [len |-> byte + most, bytes |-> 1]
      ELSE [len |-> WordAt(at + 1), bytes |-> 3]

Keep(s) ==
  /\ src' = s.src
  /\ dec' = [dec EXCEPT !.accum = s.accum, !.begun = FALSE]
  /\ UNCHANGED <<stream, buf, lens>>

xca_literal ==
  /\ SymbolDue /\ Raw < XCA_END_MARKER
  /\ Put(<<Raw>>)
  /\ Keep(BehindSymbol)

\* The end marker is a match of 3 bytes, 1 byte back, unless the input has been read.
AtEnd == Raw = XCA_END_MARKER /\ BehindSymbol.src >= Len(data) - 1

xca_end ==
  /\ SymbolDue /\ AtEnd
  /\ Return(out_len) /\ UNCHANGED out

xca_match ==
  /\ SymbolDue /\ Raw >= XCA_END_MARKER /\ ~AtEnd
  /\ LET s == BehindSymbol
         raw == Raw - XCA_END_MARKER
         match_len == MatchLen(raw, s.src)
         match_offset_bits == raw \div 2 ^ NIBBLE
         match_offset == Number(SubSeq(s.accum, 1, match_offset_bits)) + 2 ^ match_offset_bits
     IN  /\ PutMatch(match_offset, match_len.len + 3)
         /\ Keep(Used([s EXCEPT !.src = @ + match_len.bytes], match_offset_bits))

\* The input has been read, with no end marker seen.
xca_return ==
  /\ XcaRuns /\ ~dec.begun /\ src >= Len(data)
  /\ Return(IF src = Len(data) THEN out_len ELSE -1) /\ UNCHANGED out

xca_decompress ==
  \/ xca_table \/ xca_literal \/ xca_end \/ xca_match \/ xca_return
  \/ (stream.format = "xca" /\ Fill(xca_init))
=============================================================================
