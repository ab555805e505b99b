---------------------------- MODULE Decompressor ----------------------------
(***************************************************************************)
(* What the three decompressors share: a compressed stream, and the two     *)
(* passes over it that a caller (add_bootmgr of src/src/main.c, wim_chunk   *)
(* of src/src/wim.c) makes, one without a buffer to learn the length and    *)
(* one that fills the buffer.                                               *)
(*                                                                         *)
(* A byte has BYTE bits, and what the formats derive from the size of a     *)
(* byte (words, nibbles, the number of literals) scales with it.            *)
(***************************************************************************)
EXTENDS Integers, Sequences

CONSTANTS
  BYTE,     \* the number of bits of a byte: 8
  Streams   \* the streams to decompress, [format, data, plain, ...]: plain is what was
            \* compressed

ASSUME DecompressorAssumption == BYTE \in Nat \ {0}

VARIABLES
  stream,   \* the stream
  buf,      \* whether this pass has a buffer
  src,      \* how many bytes of the input have been read
  out_len,  \* the length of the output
  out,      \* the contents of the buffer
  dec,      \* the decompressor's other variables
  lens      \* the values returned by the passes

decompressVars == <<stream, buf, src, out_len, out, dec, lens>>

WORD == 2 * BYTE

data == stream.data

\* The byte, and the little-endian word, at an offset; zeros stand behind the stream.
ByteAt(offset) == IF offset < Len(data) THEN data[offset + 1] ELSE 0
WordAt(offset) == ByteAt(offset) + 2 ^ BYTE * ByteAt(offset + 1)

\* A fold from the left, by a recursive function.  The base and each step are taken from
\* singleton sets, so that TLC evaluates them before what is built on them.
Fold(Step(_, _), base, s) ==
  LET From(b) ==
        LET upTo[i \in 0 .. Len(s)] ==
              IF i = 0 THEN b
              ELSE CHOOSE step \in {Step(before, s[i]) : before \in {upTo[i - 1]}} : TRUE
        IN  upTo[Len(s)]
  IN  CHOOSE result \in {From(b) : b \in {base}} : TRUE

\* Bit strings, the most significant bit first.
Bits(n, width) == [i \in 1 .. width |-> (n \div 2 ^ (width - i)) % 2]
Number(bits) == Fold(LAMBDA n, bit : 2 * n + bit, 0, bits)
Drop(s, n) == SubSeq(s, n + 1, Len(s))

\* Bytes put into the buffer at the output's end, which may be inside what it holds.
Written(bytes) == SubSeq(out, 1, out_len) \o bytes \o Drop(out, out_len + Len(bytes))

\* What a copy of len bytes from offset bytes back yields, byte by byte: it repeats when it
\* runs into itself.
Copied(offset, len) == [i \in 1 .. len |-> out[out_len - offset + 1 + ((i - 1) % offset)]]

Put(bytes) ==
  /\ out_len' = out_len + Len(bytes)
  /\ out' = IF buf THEN Written(bytes) ELSE out

PutMatch(offset, len) ==
  /\ out_len' = out_len + len
  /\ out' = IF buf THEN Written(Copied(offset, len)) ELSE out

\* Passes that have returned: none while the length is sought, one while the buffer is filled.
Running == Len(lens) = IF buf THEN 1 ELSE 0

Return(rc) ==
  /\ lens' = Append(lens, rc)
  /\ UNCHANGED <<stream, buf, src, out_len, dec>>

Fail == Return(-1) /\ UNCHANGED out

\* The caller goes on to the second pass when it has learned a length.
Fill(init) ==
  /\ ~buf /\ lens # <<>> /\ lens[1] >= 0
  /\ buf' = TRUE /\ src' = 0 /\ out_len' = 0 /\ dec' = init
  /\ UNCHANGED <<stream, out, lens>>

Returned == Len(lens) = 2 \/ (Len(lens) = 1 /\ lens[1] < 0)

\* Both passes return the length of what was compressed, and the buffer holds it.
Exactly(text) == lens = <<Len(text), Len(text)>> /\ out = text
Refused == lens = <<-1>>
=============================================================================
