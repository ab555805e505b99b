----------------------------- MODULE Compressor -----------------------------
(***************************************************************************)
(* Compressors for the three formats (external: they made the files that    *)
(* wimboot reads), from which the streams to decompress are taken.  A text  *)
(* is compressed as a list of tokens, literals [byte] and matches           *)
(* [offset, len], which says what it is.                                    *)
(***************************************************************************)
EXTENDS Lznt1, Lzx, Xca, SequencesExt

IsLiteral(token) == "byte" \in DOMAIN token
Lit(b) == [byte |-> b]
Rep(offset, len) == [offset |-> offset, len |-> len]

TokenLen(token) == IF IsLiteral(token) THEN 1 ELSE token.len
Extent(tokens) == Fold(LAMBDA n, t : n + TokenLen(t), 0, tokens)

\* The text that tokens stand for; every match lies within the text before it.
Text(tokens) ==
  Fold(LAMBDA text, t :
             IF IsLiteral(t) THEN Append(text, t.byte)
             ELSE text \o [i \in 1 .. t.len |-> text[Len(text) - t.offset + 1 + ((i - 1) % t.offset)]],
           <<>>, tokens)
Sensible(tokens) ==
  \A i \in DOMAIN tokens :
    ~IsLiteral(tokens[i]) => tokens[i].offset <= Extent(SubSeq(tokens, 1, i - 1))

\* What a fold over tokens sees: each with the length of the text before it.
Placed(tokens) ==
  [i \in DOMAIN tokens |-> [token |-> tokens[i], at |-> Extent(SubSeq(tokens, 1, i - 1))]]

WordBytes(n) == <<n % 2 ^ BYTE, n \div 2 ^ BYTE>>

\* A bit string in words, and in bytes.
PaddedBits(bits) == bits \o Zeros((WORD - (Len(bits) % WORD)) % WORD)
WordBits(bits, i) == SubSeq(PaddedBits(bits), WORD * (i - 1) + 1, WORD * i)
Pack(bits) ==
  FlattenSeq([i \in 1 .. Len(PaddedBits(bits)) \div WORD |-> WordBytes(Number(WordBits(bits, i)))])

\* Code lengths for n symbols: equal for a power of two of used symbols, else ascending.
LengthsFor(used, n) ==
  LET padded == IF Cardinality(used) > 1 THEN used
                ELSE used \union {CHOOSE s \in 0 .. 1 : s \notin used}
      k == Cardinality(padded)
      Rank(s) == Cardinality({t \in padded : t <= s})
      Length(s) == IF k \in {2, 4, 8} THEN CHOOSE b \in 1 .. 3 : 2 ^ b = k
                   ELSE IF Rank(s) < k THEN Rank(s) ELSE k - 1
      lengths == [i \in 1 .. n |-> IF used # {} /\ i - 1 \in padded THEN Length(i - 1) ELSE 0]
  IN  SubSeq(lengths, 1, n)   \* so that TLC evaluates it once

CodeOf(lengths, symbol) ==
  Bits(CanonicalStart(lengths, symbol + 1) \div Share(lengths, symbol + 1), lengths[symbol + 1])

----------------------------------------------------------------------------
(* LZNT1 *)

\* The offset bits of a pair: enough for any offset into the block's output so far.
OffsetBits(at) ==
  CHOOSE b \in WORD - LZNT1_SPLIT .. WORD :
    /\ at <= 2 ^ b
    /\ b = WORD - LZNT1_SPLIT \/ at > 2 ^ (b - 1)

Lznt1Fits(tokens) ==
  \A i \in DOMAIN tokens :
    LET p == Placed(tokens)[i]
    IN  ~IsLiteral(p.token) => p.token.len - 3 \in 0 .. 2 ^ (WORD - OffsetBits(p.at)) - 1

Lznt1Value(p) ==
  IF IsLiteral(p.token) THEN <<p.token.byte>>
  ELSE WordBytes((p.token.offset - 1) * 2 ^ (WORD - OffsetBits(p.at)) + p.token.len - 3)

\* A group of values behind its tags, the first value's tag lowest.
Lznt1Group(group) ==
  <<Number(Reverse([i \in DOMAIN group |-> IF IsLiteral(group[i].token) THEN 0 ELSE 1]))>>
  \o FlattenSeq([i \in DOMAIN group |-> Lznt1Value(group[i])])

Lznt1Body(tokens) ==
  LET placed == Placed(tokens)
  IN  FlattenSeq([g \in 1 .. (Len(tokens) + BYTE - 1) \div BYTE |->
        Lznt1Group(SubSeq(placed, BYTE * (g - 1) + 1, IF BYTE * g < Len(placed) THEN BYTE * g
                                                      ELSE Len(placed)))])

Lznt1Compressed(tokens) ==
  WordBytes(2 ^ (WORD - 1) + Len(Lznt1Body(tokens)) - 1) \o Lznt1Body(tokens)
Lznt1Stored(bytes) == WordBytes(Len(bytes) - 1) \o bytes

----------------------------------------------------------------------------
(* XCA *)

Log2(n) == CHOOSE b \in 0 .. n : 2 ^ b <= n /\ n < 2 ^ (b + 1)

XcaSymbol(token) ==
  IF IsLiteral(token) THEN token.byte
  ELSE XCA_END_MARKER + 2 ^ NIBBLE * Log2(token.offset)
         + (IF token.len - 3 < 2 ^ NIBBLE - 1 THEN token.len - 3 ELSE 2 ^ NIBBLE - 1)

\* The bytes of a long length, and the bits of an offset below its highest.
XcaLenBytes(token) ==
  LET most == 2 ^ NIBBLE - 1
      rest == token.len - 3 - most
  IN  IF IsLiteral(token) \/ rest < 0 THEN <<>>
      ELSE IF rest < 2 ^ BYTE - 1 THEN <<rest>>
      ELSE <<2 ^ BYTE - 1>> \o WordBytes(token.len - 3)
XcaOffset(token) ==
  IF IsLiteral(token) THEN <<>>
  ELSE Bits(token.offset - 2 ^ Log2(token.offset), Log2(token.offset))

\* A block: for each token its code, bytes and offset bits; the words are where a reader
\* that stays one word ahead fetches them, the bytes where it has come to by then.
XcaBlock(tokens, ended) ==
  LET marker == Lit(XCA_END_MARKER)
      all == IF ended THEN Append(tokens, marker) ELSE tokens
      lengths == LengthsFor({XcaSymbol(all[i]) : i \in DOMAIN all}, XCA_CODES)
      Code(t) == CodeOf(lengths, XcaSymbol(t))
      bits == FlattenSeq([i \in DOMAIN all |-> Code(all[i]) \o XcaOffset(all[i])])
      Fetched(c) == IF c = 0 THEN 2 ELSE 1 + (c + WORD - 1) \div WORD
      Words(from, to) == FlattenSeq([i \in 1 .. to - from |->
                                       WordBytes(Number(WordBits(bits \o Zeros(2 * WORD), from + i)))])
      Step(s, t) ==
        LET coded == s.used + Len(Code(t))
            done == coded + Len(XcaOffset(t))
            symbol == s.bytes \o Words(Fetched(s.used), Fetched(coded))
            whole == symbol \o XcaLenBytes(t) \o Words(Fetched(coded), Fetched(done))
        IN  [used |-> done, bytes |-> whole,
             read |-> Append(s.read, [symbol |-> Len(symbol), whole |-> Len(whole)])]
      table == [i \in 1 .. XCA_CODES \div 2 |-> lengths[2 * i - 1] + 2 ^ NIBBLE * lengths[2 * i]]
      body == Fold(Step, [used |-> 0, bytes |-> Words(0, 2), read |-> <<>>], all)
  IN  [bytes |-> table \o body.bytes,
       \* The block is not too long, the last word is read with the last literal or match, no
       \* earlier, and a match of 3 bytes from 1 back is not taken for the end marker.
       readable |->
         /\ \A i \in DOMAIN lengths : lengths[i] < 2 ^ NIBBLE
         /\ IF ended THEN Extent(tokens) < XCA_BLOCK_SIZE ELSE Extent(tokens) <= XCA_BLOCK_SIZE
         /\ \A i \in 1 .. Len(tokens) - 1 : body.read[i].whole < Len(body.bytes)
         /\ \A i \in DOMAIN tokens : XcaSymbol(tokens[i]) = XCA_END_MARKER =>
                                       body.read[i].symbol < Len(body.bytes) - 1]

----------------------------------------------------------------------------
(* LZX *)

\* The position slot of an offset that is sent in full.
SlotOf(offset) ==
  CHOOSE s \in LZX_REPEATED_OFFSETS .. LZX_POSITION_SLOTS - 1 :
    /\ lzx_position_base[s] <= offset + 2
    /\ offset + 2 < lzx_position_base[s] + 2 ^ lzx_footer_bits(s)

\* Each token with its main symbol, given the repeated offsets before it; a recent offset
\* is sent as a repeated one and then stands first, the first one taking its place.
LzxSymbols(tokens, recent) ==
  LET Step(s, t) ==
        LET hits == {i \in DOMAIN s.recent : s.recent[i] = t.offset}
            slot == IF hits # {} THEN Min(hits) ELSE SlotOf(t.offset)
            header == IF t.len - 2 < 7 THEN t.len - 2 ELSE 7
            swapped == [i \in DOMAIN s.recent |->
                          IF i = 0 THEN t.offset
                          ELSE IF hits = {} THEN s.recent[i - 1]
                          ELSE IF i = slot THEN s.recent[0] ELSE s.recent[i]]
        IN  IF IsLiteral(t)
            THEN [s EXCEPT !.symbols = Append(@, [main |-> t.byte, token |-> t, slot |-> 0])]
            ELSE [recent |-> swapped,
                  symbols |-> Append(s.symbols, [main |-> LZX_MAIN_LIT_CODES + 8 * slot + header,
                                                 token |-> t, slot |-> slot])]
  IN  Fold(Step, [symbols |-> <<>>, recent |-> recent], tokens)

\* The length symbol of a long match.
LongLen(sym) == sym.token.len - 9
IsLong(sym) == ~IsLiteral(sym.token) /\ LongLen(sym) >= 0
SentBits(sym) ==
  IF IsLiteral(sym.token) \/ sym.slot < LZX_REPEATED_OFFSETS THEN <<>>
  ELSE Bits(sym.token.offset + 2 - lzx_position_base[sym.slot], lzx_footer_bits(sym.slot))

\* The codes for a table of lengths, with runs of zeros and of equal lengths as one code.
PretreeCodes(old, new) ==
  LET Run[i \in DOMAIN new] ==
        IF i = Len(new) \/ new[i + 1] # new[i] THEN 1 ELSE 1 + Run[i + 1]
      AtMost(n, most) == IF n < most THEN n ELSE most
      Differ(i) == (old[i] - new[i] + HUFFMAN_BITS + 1) % (HUFFMAN_BITS + 1)
      Step(s, i) ==
        IF i < s.next THEN s
        ELSE IF new[i] = 0 /\ Run[i] >= 20
        THEN LET n == AtMost(Run[i], 51)
             IN  [next |-> i + n, codes |-> Append(s.codes, <<HUFFMAN_BITS + 2, n - 20, 5>>)]
        ELSE IF new[i] = 0 /\ Run[i] >= 4
        THEN LET n == AtMost(Run[i], 19)
             IN  [next |-> i + n, codes |-> Append(s.codes, <<HUFFMAN_BITS + 1, n - 4, 4>>)]
        ELSE IF Run[i] >= 4
        THEN LET n == AtMost(Run[i], 5)
             IN  [next |-> i + n,
                  codes |-> s.codes \o <<<<HUFFMAN_BITS + 3, n - 4, 1>>, <<Differ(i), 0, 0>>>>]
        ELSE [next |-> i + 1, codes |-> Append(s.codes, <<Differ(i), 0, 0>>)]
  IN  Fold(Step, [next |-> 1, codes |-> <<>>], [i \in DOMAIN new |-> i]).codes

TableBits(old, new) ==
  LET codes == PretreeCodes(old, new)
      lengths == LengthsFor({codes[i][1] : i \in DOMAIN codes}, LZX_PRETREE_CODES)
  IN  FlattenSeq([i \in DOMAIN lengths |-> Bits(lengths[i], LZX_PRETREE_BITS)])
      \o FlattenSeq([i \in DOMAIN codes |->
                       CodeOf(lengths, codes[i][1]) \o Bits(codes[i][2], codes[i][3])])

SymbolBits(sym, aligned, tables) ==
  LET sent == SentBits(sym)
      low == Drop(sent, Len(sent) - 3)
  IN  CodeOf(tables.main, sym.main)
      \o (IF IsLong(sym) THEN CodeOf(tables.length, LongLen(sym)) ELSE <<>>)
      \o (IF aligned /\ Len(sent) >= 3
          THEN SubSeq(sent, 1, Len(sent) - 3) \o CodeOf(tables.align, Number(low)) ELSE sent)

LenBits(len) ==
  IF len = LZX_DEFAULT_BLOCK_LEN THEN <<1>> ELSE <<0>> \o Bits(len, WORD)

\* A block behind others: s has the bits so far, the lengths of the tables and the offsets.
LzxBlock(s, block) ==
  LET coded == LzxSymbols(block.tokens, s.recent)
      symbols == coded.symbols
      aligned == block.type = LZX_BLOCK_ALIGNOFFSET
      tables == [main |-> LengthsFor({symbols[i].main : i \in DOMAIN symbols},
                                     LZX_MAIN_LIT_CODES + 8 * LZX_POSITION_SLOTS),
                 length |-> LengthsFor({LongLen(symbols[i]) : i \in {j \in DOMAIN symbols :
                                                                      IsLong(symbols[j])}},
                                       LZX_LENGTH_CODES),
                 align |-> <<1, 7, 7, 6, 5, 4, 3, 2>>]
      Literals(main) == SubSeq(main, 1, LZX_MAIN_LIT_CODES)
      Remainder(main) == Drop(main, LZX_MAIN_LIT_CODES)
  IN  [bits |-> s.bits \o Bits(block.type, LZX_BLOCK_TYPE_BITS) \o LenBits(Extent(block.tokens))
                \o (IF aligned THEN FlattenSeq([i \in 1 .. LZX_ALIGNOFFSET_CODES |->
                                      Bits(tables.align[i], LZX_ALIGNOFFSET_BITS)])
                    ELSE <<>>)
                \o TableBits(Literals(s.main), Literals(tables.main))
                \o TableBits(Remainder(s.main), Remainder(tables.main))
                \o TableBits(s.length, tables.length)
                \o FlattenSeq([i \in DOMAIN symbols |-> SymbolBits(symbols[i], aligned, tables)]),
       main |-> tables.main, length |-> tables.length, recent |-> coded.recent]

LzxStart ==
  [bits |-> <<>>, main |-> Zeros(LZX_MAIN_LIT_CODES + 8 * LZX_POSITION_SLOTS),
   length |-> Zeros(LZX_LENGTH_CODES), recent |-> [i \in 0 .. LZX_REPEATED_OFFSETS - 1 |-> 1]]

LzxBlocks(blocks) == Pack(Fold(LzxBlock, LzxStart, blocks).bits)

\* A stored block: the header, padding to a word, the offsets, the bytes and a byte to align.
LzxStored(bytes) ==
  Pack(Bits(LZX_BLOCK_UNCOMPRESSED, LZX_BLOCK_TYPE_BITS) \o LenBits(Len(bytes)) \o <<0>>)
  \o FlattenSeq([i \in 1 .. LZX_REPEATED_OFFSETS |-> <<1, 0, 0, 0>>])
  \o bytes \o Zeros(Len(bytes) % 2)

=============================================================================
