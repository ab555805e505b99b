------------------------------- MODULE Lznt1 -------------------------------
(***************************************************************************)
(* LZNT1 decompression (src/src/lznt1.c, src/src/lznt1.h): blocks with a    *)
(* header each; in a compressed block, groups of values behind a byte of    *)
(* tag bits, and pairs of an offset and a length whose split of a word      *)
(* moves as the block's output grows.                                       *)
(***************************************************************************)
EXTENDS Decompressor

CONSTANTS
  LZNT1_SPLIT,     \* the length bits of a pair at the start of a block: 12
  LZNT1_LEN_BITS   \* the bits of a header that hold the block's length: 12

LZNT1_BLOCK_LEN(header) == (header % 2 ^ LZNT1_LEN_BITS) + 1
LZNT1_BLOCK_COMPRESSED(header) == header \div 2 ^ (WORD - 1) = 1
LZNT1_VALUE_LEN(tuple, split) == (tuple % 2 ^ split) + 3
LZNT1_VALUE_OFFSET(tuple, split) == (tuple \div 2 ^ split) + 1

\* dec: whether a compressed block is being read, its end in the input, where its output
\* starts, and the variables of lznt1_block.
lznt1_init ==
  [inBlock |-> FALSE, limit |-> 0, start |-> 0, split |-> LZNT1_SPLIT, tag_bit |-> 0, tag |-> 0]

EndMarker == src + 1 = Len(data) /\ ByteAt(src) = 0

Lznt1Between == stream.format = "lznt1" /\ Running /\ ~dec.inBlock

lznt1_return ==
  /\ Lznt1Between
  /\ src = Len(data) \/ EndMarker
  /\ Return(out_len) /\ UNCHANGED out

BlockBegins == Lznt1Between /\ src # Len(data) /\ ~EndMarker

lznt1_compressed ==
  /\ BlockBegins /\ src + 2 <= Len(data)
  /\ LZNT1_BLOCK_COMPRESSED(WordAt(src))
  /\ src' = src + 2
  /\ dec' = [lznt1_init EXCEPT !.inBlock = TRUE, !.start = out_len,
                               !.limit = src + 2 + LZNT1_BLOCK_LEN(WordAt(src))]
  /\ UNCHANGED <<stream, buf, out_len, out, lens>>

lznt1_uncompressed ==
  /\ BlockBegins /\ src + 2 <= Len(data)
  /\ ~LZNT1_BLOCK_COMPRESSED(WordAt(src))
  /\ LET end == src + 2 + LZNT1_BLOCK_LEN(WordAt(src))
     IN  /\ end <= Len(data)
         /\ Put(SubSeq(data, src + 3, end))
         /\ src' = end
  /\ UNCHANGED <<stream, buf, dec, lens>>

\* A header or an uncompressed block that does not fit.
lznt1_overrun ==
  /\ BlockBegins
  /\ \/ src + 2 > Len(data)
     \/ /\ ~LZNT1_BLOCK_COMPRESSED(WordAt(src))
        /\ src + 2 + LZNT1_BLOCK_LEN(WordAt(src)) > Len(data)
  /\ Fail

InBlock == stream.format = "lznt1" /\ Running /\ dec.inBlock

\* The end of a block, also when it ends in a tag byte.
lznt1_block_end ==
  /\ InBlock
  /\ src = dec.limit \/ (dec.tag_bit = 0 /\ src + 1 = dec.limit)
  /\ src' = dec.limit
  /\ dec' = [dec EXCEPT !.inBlock = FALSE]
  /\ UNCHANGED <<stream, buf, out_len, out, lens>>

\* Where the next value is, behind a tag byte if one is due, and the tag bits for it.
ValueAt == IF dec.tag_bit = 0 THEN src + 1 ELSE src
Tag == IF dec.tag_bit = 0 THEN ByteAt(src) ELSE dec.tag

ValueDue == InBlock /\ src # dec.limit /\ ValueAt # dec.limit

\* The split moves while the block's output is longer than next_threshold, which starts at
\* 16 and doubles with every move: it is always the largest offset the split can hold.
Moves(len, split) == len > 2 ^ (WORD - split)

NewSplit(len, split) ==
  CHOOSE s \in 0 .. split : ~Moves(len, s) /\ \A more \in s + 1 .. split : Moves(len, more)

NextValue ==
  dec' = [dec EXCEPT !.split = NewSplit(out_len' - dec.start, @),
                     !.tag = Tag \div 2, !.tag_bit = (@ + 1) % BYTE]

lznt1_literal ==
  /\ ValueDue /\ Tag % 2 = 0
  /\ Put(<<ByteAt(ValueAt)>>)
  /\ src' = ValueAt + 1
  /\ NextValue
  /\ UNCHANGED <<stream, buf, lens>>

lznt1_pair ==
  /\ ValueDue /\ Tag % 2 = 1 /\ ValueAt + 2 <= dec.limit
  /\ LET tuple == WordAt(ValueAt)
     IN  PutMatch(LZNT1_VALUE_OFFSET(tuple, dec.split), LZNT1_VALUE_LEN(tuple, dec.split))
  /\ src' = ValueAt + 2
  /\ NextValue
  /\ UNCHANGED <<stream, buf, lens>>

lznt1_pair_overrun ==
  /\ ValueDue /\ Tag % 2 = 1 /\ ValueAt + 2 > dec.limit
  /\ Fail

lznt1_decompress ==
  \/ lznt1_return \/ lznt1_compressed \/ lznt1_uncompressed \/ lznt1_overrun
  \/ lznt1_block_end \/ lznt1_literal \/ lznt1_pair \/ lznt1_pair_overrun
  \/ (stream.format = "lznt1" /\ Fill(lznt1_init))
=============================================================================
