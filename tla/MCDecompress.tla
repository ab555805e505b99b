---------------------------- MODULE MCDecompress ----------------------------
(***************************************************************************)
(* Streams for TLC: every short list of some tokens, in one block or two,   *)
(* and every small table of lengths.                                        *)
(***************************************************************************)
EXTENDS Decompress, Compressor

Stream(format, bytes, plain, whole, stored) ==
  [format |-> format, data |-> bytes, plain |-> plain, whole |-> whole, stored |-> stored]

Texts(tokens, n) == {t \in UNION {[1 .. k -> tokens] : k \in 1 .. n} : Sensible(t)}

----------------------------------------------------------------------------

Tables == {Stream("alphabet", t, <<>>, TRUE, FALSE) : t \in [1 .. 5 -> 0 .. 5]}

----------------------------------------------------------------------------

Lznt1Tokens == {Lit(5), Lit(9), Rep(1, 3), Rep(2, 4), Rep(4, 3), Rep(5, 18)}
Lznt1Texts == {t \in Texts(Lznt1Tokens, 4) : Lznt1Fits(t)}

Lznt1Whole(bytes, plain) == Stream("lznt1", bytes, plain, TRUE, FALSE)
Lznt1Broken(bytes) == Stream("lznt1", bytes, <<>>, FALSE, FALSE)

Lznt1Streams ==
  {Lznt1Whole(Lznt1Compressed(t), Text(t)) : t \in Lznt1Texts}
  \union {Lznt1Whole(Lznt1Stored(<<5>>) \o Lznt1Compressed(t) \o <<0>>, <<5>> \o Text(t)) :
            t \in {u \in Lznt1Texts : Len(u) = 4}}
  \union {Lznt1Broken(Lznt1Compressed(<<Lit(5)>>) \o <<3>>),
          Lznt1Broken(Front(Lznt1Stored(<<5, 9>>))),
          Lznt1Broken(WordBytes(2 ^ (WORD - 1) + 2) \o <<2, 5, 0>>)}

----------------------------------------------------------------------------

XcaTokens == {Lit(1), Lit(15), Rep(1, 3), Rep(2, 4), Rep(3, 8), Rep(1, 23)}
XcaTexts == Texts(XcaTokens, 3) \union Texts({Lit(1), Lit(15), Rep(2, 4)}, 5)

XcaCoded ==
  {c \in {[tokens |-> t, ended |-> ended, block |-> XcaBlock(t, ended)] :
            t \in XcaTexts, ended \in BOOLEAN} : c.block.readable}

\* A block that the table of the next one follows.
FullBlock == <<Lit(7), Rep(1, XCA_BLOCK_SIZE - 1)>>
FullBytes == XcaBlock(FullBlock, FALSE).bytes

XcaStreams ==
  {Stream("xca", c.block.bytes, Text(c.tokens), TRUE, FALSE) : c \in XcaCoded}
  \union {Stream("xca", FullBytes \o c.block.bytes, Text(FullBlock \o c.tokens), TRUE, FALSE) :
            c \in {d \in XcaCoded : d.ended}}
  \union {Stream("xca", Zeros(XCA_CODES \div 2 - 1), <<>>, FALSE, FALSE),
          Stream("xca", <<1>> \o Zeros(XCA_CODES), <<>>, FALSE, FALSE)}

----------------------------------------------------------------------------

LzxTokens == {Lit(0), Lit(15), Lit(E8), Rep(1, 2), Rep(2, 9), Rep(3, 5), Rep(16, 3)}
LzxFirst == {<<Lit(0), Lit(E8), Rep(1, 14)>>, <<Lit(E8), Lit(15), Lit(3), Lit(0)>>,
             <<Lit(1), Lit(E8), Lit(15), Rep(3, 5), Rep(2, 9), Rep(1, 2)>>}

Block(type, tokens) == [type |-> type, tokens |-> tokens]

Stored(bytes) == Stream("lzx", LzxStored(bytes), bytes, TRUE, TRUE)
Cut(blocks) == Stream("lzx", SubSeq(LzxBlocks(blocks), 1, Len(LzxBlocks(blocks)) - 2), <<>>,
                      FALSE, FALSE)

Behind(first, n) ==
  {t \in UNION {[1 .. k -> LzxTokens] : k \in 1 .. n} : Sensible(first \o t)}

\* The streams of a first block and a second one of up to n tokens.
Pairs(n, type, next) ==
  UNION {UNION {{Stream("lzx", Pack(LzxBlock(s, Block(next, t)).bits), Text(first \o t), TRUE, FALSE) :
                   t \in Behind(first, n)} : s \in {LzxBlock(LzxStart, Block(type, first))}} :
           first \in LzxFirst}

LzxStreams ==
  Pairs(2, LZX_BLOCK_VERBATIM, LZX_BLOCK_ALIGNOFFSET)
  \union Pairs(1, LZX_BLOCK_ALIGNOFFSET, LZX_BLOCK_VERBATIM)
  \union {Cut(<<Block(LZX_BLOCK_VERBATIM, first)>>) : first \in LzxFirst}
  \union {Stream("lzx", Pack(bits), <<>>, FALSE, FALSE) :
            bits \in {<<0, 0, 0, 1>>, Bits(LZX_BLOCK_VERBATIM, 3) \o <<1>>}}
  \union {Stream("lzx", Append(LzxBlocks(<<Block(LZX_BLOCK_VERBATIM, first)>>), 0), <<>>,
                 FALSE, FALSE) : first \in LzxFirst}

\* One stored block of three bytes, and one of a single byte.
ThreeStored == {Stored(<<5, E8, 5>>)}
StoredStreams == ThreeStored \union {Stored(<<5>>)}

MCStreams == Tables \union Lznt1Streams \union XcaStreams \union LzxStreams \union StoredStreams
=============================================================================
