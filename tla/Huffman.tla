------------------------------ MODULE Huffman ------------------------------
(***************************************************************************)
(* Huffman alphabets (src/src/huffman.c, src/src/huffman.h), which the LZX  *)
(* and the XCA decompressors use.  An alphabet is built from the lengths of *)
(* its symbols' codes alone; a symbol is looked up by the next HUFFMAN_BITS *)
(* bits of the input.                                                       *)
(***************************************************************************)
EXTENDS Integers, Sequences, FiniteSets, FiniteSetsExt

CONSTANTS
  HUFFMAN_BITS,     \* the longest code: 16
  HUFFMAN_QL_BITS   \* the bits that index the quick lookup table: 7

ASSUME HuffmanAssumption ==
  HUFFMAN_BITS \in Nat /\ HUFFMAN_QL_BITS \in 1 .. HUFFMAN_BITS

HUFFMAN_QL_SHIFT == HUFFMAN_BITS - HUFFMAN_QL_BITS

CodeBits == 1 .. HUFFMAN_BITS

\* Powers of two.
Power[n \in 0 .. HUFFMAN_BITS + 1] == IF n = 0 THEN 1 ELSE 2 * Power[n - 1]

\* lengths is the sequence of the symbols' lengths; the first symbol is 0.
WithLength(lengths, bits) == {i \in DOMAIN lengths : lengths[i] = bits}

\* The symbols that have a code.
Coded(lengths) == {i \in DOMAIN lengths : lengths[i] > 0}

\* An unused alphabet has two codes of one bit.
Frequencies(lengths) ==
  IF Coded(lengths) = {}
  THEN [bits \in CodeBits |-> IF bits = 1 THEN 2 ELSE 0]
  ELSE [bits \in CodeBits |-> Cardinality(WithLength(lengths, bits))]

\* What the loop over bits carries along: at the head of the loop, and behind it.
Carried(freq, factor) ==
  LET total[bits \in 1 .. HUFFMAN_BITS + 1] ==
        IF bits = 1 THEN 0 ELSE factor * (total[bits - 1] + freq[bits - 1])
  IN  total

\* The first code of each length, not normalised: huf.
FirstCodes(freq) == Carried(freq, 2)

\* How many symbols have shorter codes: cum_freq.
CumulativeFreq(freq) == Carried(freq, 1)

Start(huf, bits) == huf[bits] * Power[HUFFMAN_BITS - bits]

\* Mutant: the lookup table has a length only behind the prefix where its codes start.
Lookup_Behind(huf) ==
  [prefix \in 0 .. Power[HUFFMAN_QL_BITS] - 1 |->
     Max({1} \union {bits \in CodeBits : Start(huf, bits) \div Power[HUFFMAN_QL_SHIFT] < prefix})]

\* The longest length with a code that can begin with prefix: each length overwrites the
\* entries from its own start on.
Lookup(huf) ==
  [prefix \in 0 .. Power[HUFFMAN_QL_BITS] - 1 |->
     Max({bits \in CodeBits : Start(huf, bits) \div Power[HUFFMAN_QL_SHIFT] <= prefix})]

\* Where a raw symbol is put: behind those with shorter codes, in the order of the values.
Place(lengths, cum, i) ==
  cum[lengths[i]] + Cardinality({j \in WithLength(lengths, lengths[i]) : j < i}) + 1

RawSymbols(lengths, cum) ==
  [place \in 1 .. Cardinality(Coded(lengths)) |->
     (CHOOSE i \in Coded(lengths) : Place(lengths, cum, i) = place) - 1]

\* rc is -1 when there are too many codes of some length or when the code is incomplete.
\* first[bits] is where the raw symbols of a length are, less the first code of that length,
\* so that a code of the length indexes them.
huffman_alphabet(lengths) ==
  LET freq == Frequencies(lengths)
      huf == FirstCodes(freq)
      cum == CumulativeFreq(freq)
      sound == /\ \A bits \in CodeBits : huf[bits] + freq[bits] <= Power[bits]
               /\ huf[HUFFMAN_BITS + 1] = Power[HUFFMAN_BITS + 1]
  IN  [rc |-> IF sound THEN 0 ELSE -1,
       start |-> [bits \in CodeBits |-> Start(huf, bits)],
       first |-> [bits \in CodeBits |-> cum[bits] - huf[bits]],
       raw |-> RawSymbols(lengths, cum),
       lookup |-> Lookup(huf)]

\* The length of the code that huf begins with: a walk down from the lookup table's entry.
huffman_sym(alphabet, huf) ==
  Max({bits \in 1 .. alphabet.lookup[huf \div Power[HUFFMAN_QL_SHIFT]] :
         alphabet.start[bits] <= huf})

\* An unused alphabet has no raw symbols: its two codes index the end of the lookup table,
\* which precedes them and holds lengths less one, here 0 throughout.
huffman_raw(alphabet, bits, huf) ==
  LET i == alphabet.first[bits] + huf \div Power[HUFFMAN_BITS - bits]
  IN  IF alphabet.raw = <<>> THEN 0 ELSE alphabet.raw[i + 1]

----------------------------------------------------------------------------
(* The canonical code, by its definition: the symbols in the order of their  *)
(* lengths and values share out the HUFFMAN_BITS-bit numbers.                *)

Share(lengths, i) == Power[HUFFMAN_BITS - lengths[i]]
Earlier(lengths, i) ==
  {j \in Coded(lengths) : lengths[j] < lengths[i] \/ (lengths[j] = lengths[i] /\ j < i)}

\* How many numbers the shares of some symbols contain.
Shares(lengths, S) == Cardinality(UNION {{i} \X (1 .. Share(lengths, i)) : i \in S})
CanonicalStart(lengths, i) == Shares(lengths, Earlier(lengths, i))

\* An alphabet is accepted exactly when it is unused or its codes cover every input, and then
\* any input yields the symbol whose canonical code it begins with and that code's length:
\* the lookup table never starts the walk below the right length.
HuffmanDecodes(lengths, alphabet) ==
  /\ alphabet.rc = 0 <=>
       Coded(lengths) = {} \/ Shares(lengths, Coded(lengths)) = Power[HUFFMAN_BITS]
  /\ alphabet.rc = 0 =>
       \A i \in Coded(lengths) :
         LET start == CanonicalStart(lengths, i) IN
         \A huf \in start .. start + Share(lengths, i) - 1 :
           /\ huffman_sym(alphabet, huf) = lengths[i]
           /\ huffman_raw(alphabet, lengths[i], huf) = i - 1
=============================================================================
