-------------------------------- MODULE Lzx --------------------------------
(***************************************************************************)
(* LZX decompression (src/src/lzx.c, src/src/lzx.h): a stream of bits in    *)
(* words, in blocks with alphabets of their own, whose code lengths are     *)
(* sent as differences to those of the block before; three repeated match   *)
(* offsets; and a last pass over the output that undoes the translation of  *)
(* jump addresses.                                                          *)
(***************************************************************************)
EXTENDS Decompressor, Huffman

CONSTANTS
  LZX_PRETREE_BITS,        \* the bits of a pretree code's length: 4
  LZX_POSITION_SLOTS,      \* 30
  LZX_LENGTH_CODES,        \* 249
  LZX_DEFAULT_BLOCK_LEN,   \* 32768
  LZX_WIM_MAGIC_FILESIZE,  \* 12000000
  E8                       \* the opcode of a jump: 0xe8

ASSUME LzxAssumption == HUFFMAN_BITS = WORD

LZX_ALIGNOFFSET_CODES == 8
LZX_ALIGNOFFSET_BITS == 3
LZX_PRETREE_CODES == HUFFMAN_BITS + 4
LZX_MAIN_LIT_CODES == 2 ^ BYTE
LZX_BLOCK_TYPE_BITS == 3
LZX_REPEATED_OFFSETS == 3
LZX_BLOCK_VERBATIM == 1
LZX_BLOCK_ALIGNOFFSET == 2
LZX_BLOCK_UNCOMPRESSED == 3

lzx_footer_bits(slot) == CASE slot < 2 -> 0
                           [] slot \in 2 .. 37 -> slot \div 2 - 1
                           [] OTHER -> 17

lzx_position_base[slot \in 0 .. LZX_POSITION_SLOTS - 1] ==
  IF slot = 0 THEN 0 ELSE lzx_position_base[slot - 1] + 2 ^ lzx_footer_bits(slot - 1)

Zeros(n) == [i \in 1 .. n |-> 0]

\* dec: the accumulated bits, where the loops are, and the variables of struct lzx.
lzx_init ==
  [acc |-> <<>>, at |-> "header", threshold |-> 0, block_type |-> 0,
   repeated |-> [i \in 0 .. LZX_REPEATED_OFFSETS - 1 |-> 1],
   literals |-> Zeros(LZX_MAIN_LIT_CODES), remainder |-> Zeros(8 * LZX_POSITION_SLOTS),
   lengths |-> Zeros(LZX_LENGTH_CODES),
   main |-> huffman_alphabet(<<>>), length |-> huffman_alphabet(<<>>),
   alignoffset |-> huffman_alphabet(<<>>)]

----------------------------------------------------------------------------
(* Reading: [src, acc, rc, value], where a failure stays *)

Reader == [src |-> src, acc |-> dec.acc, rc |-> 0, value |-> 0]

lzx_accumulate(r, bits) ==
  IF Len(r.acc) < bits /\ r.src < Len(data)
  THEN [r EXCEPT !.src = @ + 2, !.acc = @ \o Bits(WordAt(r.src), WORD)]
  ELSE r

\* The accumulator's upper word: missing bits are zeros.
NormValue(r) == Number([i \in 1 .. WORD |-> IF i <= Len(r.acc) THEN r.acc[i] ELSE 0])

lzx_consume(r, bits) ==
  IF Len(r.acc) < bits THEN [r EXCEPT !.rc = -1] ELSE [r EXCEPT !.acc = Drop(@, bits)]

lzx_getbits(r, bits) ==
  LET more == lzx_accumulate(r, bits)
  IN  IF r.rc # 0 THEN r
      ELSE [lzx_consume(more, bits) EXCEPT !.value = NormValue(more) \div 2 ^ (WORD - bits)]

lzx_align(r, bits) ==
  LET padded == lzx_getbits(r, bits) IN IF padded.rc # 0 THEN padded
                                       ELSE [padded EXCEPT !.acc = <<>>]

lzx_decode(r, alphabet) ==
  LET more == lzx_accumulate(r, HUFFMAN_BITS)
      sym == huffman_sym(alphabet, NormValue(more))
  IN  IF r.rc # 0 THEN r
      ELSE [lzx_consume(more, sym) EXCEPT !.value = huffman_raw(alphabet, sym, NormValue(more))]

\* A step of several has failed, or has not.
After(r, alphabet) == IF r.rc # 0 THEN r ELSE [r EXCEPT !.rc = alphabet.rc]

lzx_raw_alphabet(r, count, bits) ==
  LET read == Fold(LAMBDA s, i : LET next == lzx_getbits(s.r, bits)
                                     IN  [r |-> next, lengths |-> Append(s.lengths, next.value)],
                       [r |-> r, lengths |-> <<>>], Zeros(count))
      alphabet == huffman_alphabet(read.lengths)
  IN  [r |-> After(read.r, alphabet), alphabet |-> alphabet]

\* Mutant: the difference has the wrong sign.
Delta_Negated(length, code) == (code - length + HUFFMAN_BITS + 1) % (HUFFMAN_BITS + 1)

\* A length is sent as its difference to the one in the block before.
Delta(length, code) == (length - code + HUFFMAN_BITS + 1) % (HUFFMAN_BITS + 1)

\* One code of the pretree: the length at i and how often it is repeated behind i.
PretreeCode(code, pretree, length) ==
  LET Plain(r, dup) == [r |-> r, length |-> 0, dup |-> dup]
      Short(r) == Plain(r, r.value + 3)
      Long(r) == Plain(r, r.value + 19)
      Again(same, r) == [r |-> r, length |-> Delta(length, r.value), dup |-> same.value + 3]
      Same(r) == Again(r, lzx_decode(r, pretree))
  IN  CASE code.value <= HUFFMAN_BITS -> [r |-> code, length |-> Delta(length, code.value), dup |-> 0]
        [] code.value = HUFFMAN_BITS + 1 -> Short(lzx_getbits(code, 4))
        [] code.value = HUFFMAN_BITS + 2 -> Long(lzx_getbits(code, 5))
        [] OTHER -> Same(lzx_getbits(code, 1))

\* The lengths from i on change by one code, or by one repetition.
PretreeStep(s, pretree, i) ==
  LET Sent(code) == [r |-> code.r, lengths |-> [s.lengths EXCEPT ![i] = code.length],
                     dup |-> code.dup]
  IN  CASE s.r.rc # 0 -> s
        [] s.r.rc = 0 /\ s.dup > 0 ->
             [s EXCEPT !.lengths[i] = s.lengths[i - 1], !.dup = @ - 1]
        [] OTHER -> Sent(PretreeCode(lzx_decode(s.r, pretree), pretree, s.lengths[i]))

lzx_pretree(r, lengths) ==
  LET Read(pretree) == Fold(LAMBDA s, i : PretreeStep(s, pretree.alphabet, i),
                            [r |-> pretree.r, lengths |-> lengths, dup |-> 0],
                            [i \in DOMAIN lengths |-> i])
      Checked(read) == [r |-> IF read.dup > 0 THEN [read.r EXCEPT !.rc = -1] ELSE read.r,
                        lengths |-> read.lengths]
  IN  Checked(Read(lzx_raw_alphabet(r, LZX_PRETREE_CODES, LZX_PRETREE_BITS)))

----------------------------------------------------------------------------
(* Blocks *)

\* The type and the length of a block.
BlockStart ==
  LET type == lzx_getbits(Reader, LZX_BLOCK_TYPE_BITS)
      default_len == lzx_getbits(type, 1)
      len_high == lzx_getbits(default_len, BYTE)
      len_low == lzx_getbits(len_high, BYTE)
  IN  IF default_len.value = 1
      THEN [type |-> type.value, len |-> LZX_DEFAULT_BLOCK_LEN, r |-> default_len]
      ELSE [type |-> type.value, len |-> 2 ^ BYTE * len_high.value + len_low.value, r |-> len_low]

LzxRuns == stream.format = "lzx" /\ Running

BetweenBlocks ==
  LzxRuns /\ (dec.at = "header" \/ (dec.at = "tokens" /\ out_len >= dec.threshold))

lzx_odd == LzxRuns /\ Len(data) % 2 = 1 /\ Fail

HeaderDue == BetweenBlocks /\ Len(data) % 2 = 0 /\ src < Len(data)

\* The pass goes on behind what r has read, or fails with it.
Continue(r, next) ==
  IF r.rc # 0 THEN Fail
  ELSE /\ src' = r.src /\ dec' = [next EXCEPT !.acc = r.acc]
       /\ UNCHANGED <<stream, buf, out_len, out, lens>>

\* The tables of a compressed block follow, one after the other.
lzx_compressed_header ==
  /\ HeaderDue
  /\ \E block \in {BlockStart} :
       /\ block.r.rc = 0 /\ block.type \in {LZX_BLOCK_VERBATIM, LZX_BLOCK_ALIGNOFFSET}
       /\ Continue(block.r,
            [dec EXCEPT !.at = IF block.type = LZX_BLOCK_ALIGNOFFSET THEN "alignoffset" ELSE "literals",
                        !.block_type = block.type, !.threshold = out_len + block.len])

LzxTableDue(at) == LzxRuns /\ dec.at = at

lzx_alignoffset_alphabet ==
  /\ LzxTableDue("alignoffset")
  /\ \E table \in {lzx_raw_alphabet(Reader, LZX_ALIGNOFFSET_CODES, LZX_ALIGNOFFSET_BITS)} :
       Continue(table.r, [dec EXCEPT !.at = "literals", !.alignoffset = table.alphabet])

lzx_main_literals ==
  /\ LzxTableDue("literals")
  /\ \E table \in {lzx_pretree(Reader, dec.literals)} :
       Continue(table.r, [dec EXCEPT !.at = "remainder", !.literals = table.lengths])

lzx_main_alphabet ==
  /\ LzxTableDue("remainder")
  /\ \E table \in {lzx_pretree(Reader, dec.remainder)} :
     \E main \in {huffman_alphabet(dec.literals \o table.lengths)} :
       Continue(After(table.r, main),
                [dec EXCEPT !.at = "lengths", !.remainder = table.lengths, !.main = main])

lzx_length_alphabet ==
  /\ LzxTableDue("lengths")
  /\ \E table \in {lzx_pretree(Reader, dec.lengths)} :
     \E length \in {huffman_alphabet(table.lengths)} :
       Continue(After(table.r, length),
                [dec EXCEPT !.at = "tokens", !.lengths = table.lengths, !.length = length])

\* A repeated offset, four bytes of an uncompressed block's header.
Offset(at, i) ==
  WordAt(at + 4 * i) + 2 ^ WORD * WordAt(at + 4 * i + 2)

lzx_uncompressed_header ==
  /\ HeaderDue
  /\ \E block \in {BlockStart} : \E aligned \in {lzx_align(block.r, 1)} :
       /\ block.r.rc = 0 /\ block.type = LZX_BLOCK_UNCOMPRESSED
       /\ LET end == aligned.src + 4 * LZX_REPEATED_OFFSETS
          IN  IF end > Len(data) THEN Fail
              ELSE Continue([aligned EXCEPT !.src = end],
                     [dec EXCEPT !.at = "uncompressed", !.block_type = block.type,
                                 !.threshold = out_len + block.len,
                                 !.repeated = [i \in DOMAIN @ |-> Offset(aligned.src, i)]])

lzx_bad_header ==
  /\ HeaderDue
  /\ \E block \in {BlockStart} :
       block.r.rc # 0
       \/ block.type \notin {LZX_BLOCK_VERBATIM, LZX_BLOCK_ALIGNOFFSET, LZX_BLOCK_UNCOMPRESSED}
  /\ Fail

\* The bytes are copied and the input is aligned; the output's offset stays where it is.
lzx_uncompressed ==
  /\ LzxRuns /\ dec.at = "uncompressed"
  /\ LET len == dec.threshold - out_len
     IN  IF src + len > Len(data) THEN Fail
         ELSE /\ out' = IF buf THEN Written(SubSeq(data, src + 1, src + len)) ELSE out
              /\ src' = src + len + (len % 2)
              /\ dec' = [dec EXCEPT !.at = "header"]
              /\ UNCHANGED <<stream, buf, out_len, lens>>

----------------------------------------------------------------------------
(* Tokens *)

\* The offset of a match at a position slot that is sent in full.
SentOffset(r, slot) ==
  LET offset_bits == lzx_footer_bits(slot)
      verbatim == lzx_getbits(r, offset_bits)
      upper == lzx_getbits(r, offset_bits - 3)
      aligned == lzx_decode(upper, dec.alignoffset)
  IN  IF dec.block_type = LZX_BLOCK_ALIGNOFFSET /\ offset_bits >= 3
      THEN [r |-> aligned, offset |-> lzx_position_base[slot] + 8 * upper.value + aligned.value - 2]
      ELSE [r |-> verbatim, offset |-> lzx_position_base[slot] + verbatim.value - 2]

\* A repeated offset changes places with the first one; a new one moves the others back.
Repeated(repeated, slot) ==
  [repeated EXCEPT ![slot] = repeated[0], ![0] = repeated[slot]]
Pushed(repeated, offset) ==
  [i \in DOMAIN repeated |-> IF i = 0 THEN offset ELSE repeated[i - 1]]

\* A match: its length, its offset and the repeated offsets behind it.
Match(r, main) ==
  LET long == lzx_decode(r, dec.length)
      withLength == IF main % 8 = 7 THEN long ELSE r
      match_length == (main % 8) + 2 + (IF main % 8 = 7 THEN long.value ELSE 0)
      slot == main \div 8
      sent == SentOffset(withLength, slot)
  IN  IF slot < LZX_REPEATED_OFFSETS
      THEN [r |-> withLength, length |-> match_length, offset |-> dec.repeated[slot],
            repeated |-> Repeated(dec.repeated, slot)]
      ELSE [r |-> sent.r, length |-> match_length, offset |-> sent.offset,
            repeated |-> Pushed(dec.repeated, sent.offset)]

TokenDue == LzxRuns /\ dec.at = "tokens" /\ out_len < dec.threshold

lzx_literal ==
  /\ TokenDue
  /\ \E main \in {lzx_decode(Reader, dec.main)} :
       /\ main.rc = 0 /\ main.value < LZX_MAIN_LIT_CODES
       /\ Put(<<main.value>>)
       /\ src' = main.src
       /\ dec' = [dec EXCEPT !.acc = main.acc]
  /\ UNCHANGED <<stream, buf, lens>>

lzx_match ==
  /\ TokenDue
  /\ \E main \in {lzx_decode(Reader, dec.main)} :
       /\ main.rc = 0 /\ main.value >= LZX_MAIN_LIT_CODES
       /\ \E match \in {Match(main, main.value - LZX_MAIN_LIT_CODES)} :
            /\ match.r.rc = 0 /\ match.offset <= out_len
            /\ PutMatch(match.offset, match.length)
            /\ src' = match.r.src
            /\ dec' = [dec EXCEPT !.acc = match.r.acc, !.repeated = match.repeated]
  /\ UNCHANGED <<stream, buf, lens>>

\* The input ends inside a token, or a match starts before the output.
lzx_bad_token ==
  /\ TokenDue
  /\ \E main \in {lzx_decode(Reader, dec.main)} :
       \/ main.rc # 0
       \/ /\ main.value >= LZX_MAIN_LIT_CODES
          /\ \E match \in {Match(main, main.value - LZX_MAIN_LIT_CODES)} :
               match.r.rc # 0 \/ match.offset > out_len
  /\ Fail

----------------------------------------------------------------------------
(* Jumps *)

\* A jump target, four bytes taken as a signed number.
Target(text, at) ==
  LET n == Number(Bits(text[at + 4], BYTE) \o Bits(text[at + 3], BYTE)
                  \o Bits(text[at + 2], BYTE) \o Bits(text[at + 1], BYTE))
  IN  IF n >= 2 ^ (4 * BYTE - 1) THEN n - 2 ^ (4 * BYTE) ELSE n

WithTarget(text, at, n) ==
  [i \in DOMAIN text |-> IF i \in at + 1 .. at + 4
                         THEN ((n % 2 ^ (4 * BYTE)) \div 2 ^ (BYTE * (i - at - 1))) % 2 ^ BYTE
                         ELSE text[i]]

Relative(n, offset) ==
  CASE n >= 0 /\ n < LZX_WIM_MAGIC_FILESIZE -> n - offset
    [] n < 0 /\ n >= -offset -> n + LZX_WIM_MAGIC_FILESIZE
    [] OTHER -> n

\* The offsets that are scanned: jumps in the last ten bytes are left alone.
Scanned(text) == IF Len(text) < 10 THEN <<>> ELSE [i \in 1 .. Len(text) - 10 |-> i - 1]

\* The scan skips a jump's target.
lzx_translate_jumps(text) ==
  LET Step(s, offset) ==
        IF offset < s.next \/ text[offset + 1] # E8 THEN s
        ELSE [text |-> WithTarget(s.text, offset + 1, Relative(Target(s.text, offset + 1), offset)),
              next |-> offset + 5]
  IN  Fold(Step, [text |-> text, next |-> 0], Scanned(text)).text

\* The jumps are translated up to the output's offset; the buffer may hold more.
lzx_return ==
  /\ BetweenBlocks /\ Len(data) % 2 = 0 /\ src >= Len(data)
  /\ Return(out_len)
  /\ out' = IF buf THEN lzx_translate_jumps(SubSeq(out, 1, out_len)) \o Drop(out, out_len)
            ELSE out

lzx_decompress ==
  \/ lzx_odd \/ lzx_compressed_header \/ lzx_alignoffset_alphabet \/ lzx_main_literals
  \/ lzx_main_alphabet \/ lzx_length_alphabet \/ lzx_uncompressed_header \/ lzx_bad_header
  \/ lzx_uncompressed \/ lzx_literal \/ lzx_match \/ lzx_bad_token \/ lzx_return
  \/ (stream.format = "lzx" /\ Fill(lzx_init))
=============================================================================
