------------------------------ MODULE Chunking ------------------------------
(***************************************************************************)
(* From the blocks of a document to the passages that are embedded         *)
(* (rag/chunker.py and the fitting of rag/embedder.py).                    *)
(*                                                                         *)
(* A block is [name, kind, level, parts]: its parts are the sentences of a *)
(* text, the rows of a table or the title of a heading, each a sequence of *)
(* words.  A word is one token; the code estimates them from characters.   *)
(***************************************************************************)
EXTENDS Naturals, Sequences, SequencesExt

CONSTANTS
    Kinds,          \* the blocks an extractor may yield, without their names
    ParentTokens,
    ChildTokens,
    OverlapTokens,
    WindowTokens,   \* what the embedder lets through
    MaxBlocks       \* bound: blocks of a document

ASSUME ChunkAssumption ==
    /\ {ParentTokens, ChildTokens, OverlapTokens, WindowTokens} \subseteq Nat \ {0}
    /\ ChildTokens <= ParentTokens

VARIABLES
    blocks,         \* the document so far
    chunks          \* [words, section, embedded, parent], parents before their
                    \* children; parent is the text it leads to, if it is a child

chunkVars == <<blocks, chunks>>

ChunkInit == blocks = <<>> /\ chunks = <<>>

-----------------------------------------------------------------------------
Words(bs) == FlattenSeq([i \in DOMAIN bs |-> FlattenSeq(bs[i].parts)])

Size(bs) == Len(Words(bs))

(***************************************************************************)
(* _sections: the contents under each heading, with the headings above;    *)
(* when there are none, the headings themselves.                           *)
(***************************************************************************)

\* A heading is content too, where it is not taken for a heading first.
IsContent(b) == b.kind # "footer"

\* A heading takes the place of those of its level and below.
Stacked(stack, b) == Append(SelectSeq(stack, LAMBDA h : h.level < b.level), b)

Sections(document) ==
    LET Flushed_(acc) == IF acc.current = <<>> THEN acc.done
                         ELSE Append(acc.done, [path |-> acc.stack, contents |-> acc.current])
        Next_(acc, b) ==
            IF b.kind = "heading"
            THEN [done |-> Flushed_(acc), stack |-> Stacked(acc.stack, b), current |-> <<>>]
            ELSE IF IsContent(b) THEN [acc EXCEPT !.current = Append(@, b)] ELSE acc
        sections == Flushed_(FoldLeft(Next_, [done |-> <<>>, stack |-> <<>>, current |-> <<>>], document))
    IN  IF sections # <<>> THEN sections
        ELSE <<[path |-> <<>>, contents |-> SelectSeq(document, IsContent)]>>

-----------------------------------------------------------------------------
(***************************************************************************)
(* A block larger than the budget.                                         *)
(***************************************************************************)

\* Parts gathered as long as they fit next to what every piece begins with.
Gathered(parts, before, budget) ==
    LET Add(acc, part) ==
            IF acc # <<>> /\ before + Len(FlattenSeq(Last(acc))) + Len(part) <= budget
            THEN [acc EXCEPT ![Len(acc)] = Append(@, part)]
            ELSE Append(acc, <<part>>)
    IN  FoldLeft(Add, <<>>, parts)

\* A fault: the rows that follow are cut off from their header.
SplitTableBare(b, budget) ==
    LET pieces == Gathered(Tail(b.parts), Len(Head(b.parts)), budget)
    IN  [i \in DOMAIN pieces |-> [b EXCEPT !.parts = pieces[i]]]

\* _split_table: by rows, with the header on every piece; a single row stays.
SplitTable(b, budget) ==
    IF Len(b.parts) <= 1 THEN <<b>>
    ELSE LET pieces == Gathered(Tail(b.parts), Len(Head(b.parts)), budget)
         IN  [i \in DOMAIN pieces |-> [b EXCEPT !.parts = <<Head(b.parts)>> \o pieces[i]]]

\* _hard_split, for a sentence that is too long.
HardSplit(part, budget) ==
    [n \in 1..((Len(part) + budget - 1) \div budget) |->
        SubSeq(part, (n - 1) * budget + 1, IF n * budget < Len(part) THEN n * budget ELSE Len(part))]

\* _split_prose: by sentences.  The words of a long one stand alone.
SplitProse(b, budget) ==
    LET pieces(acc, part) ==
            IF Len(part) > budget
            THEN [done |-> acc.done \o Gathered(acc.current, 0, budget)
                              \o [n \in DOMAIN HardSplit(part, budget) |-> <<HardSplit(part, budget)[n]>>],
                  current |-> <<>>]
            ELSE [acc EXCEPT !.current = Append(@, part)]
        all == FoldLeft(pieces, [done |-> <<>>, current |-> <<>>], b.parts)
        split == all.done \o Gathered(all.current, 0, budget)
    IN  [i \in DOMAIN split |-> [b EXCEPT !.parts = split[i]]]

SplitOversized(b, budget) ==
    IF b.kind = "table" THEN SplitTable(b, budget) ELSE SplitProse(b, budget)

-----------------------------------------------------------------------------
(***************************************************************************)
(* _pack: runs of blocks that fit the budget.                              *)
(***************************************************************************)

\* The longest end of a group that may be carried into the next.
Overlap(group) ==
    LET ends == {n \in 1..(Len(group) + 1) : Size(SubSeq(group, n, Len(group))) <= OverlapTokens}
    IN  SubSeq(group, CHOOSE n \in ends : \A m \in ends : n <= m, Len(group))

Pack(bs, budget) ==
    LET Closed(acc) == IF acc.current = <<>> THEN acc.done ELSE Append(acc.done, acc.current)
        Add(acc, b) ==
            IF Size(<<b>>) > budget
            THEN LET pieces == SplitOversized(b, budget)
                 IN  [done |-> Closed(acc) \o [i \in DOMAIN pieces |-> <<pieces[i]>>],
                      current |-> <<>>]
            ELSE IF acc.current # <<>> /\ Size(acc.current) + Size(<<b>>) > budget
            THEN [done |-> Closed(acc), current |-> Append(Overlap(acc.current), b)]
            ELSE [acc EXCEPT !.current = Append(@, b)]
    IN  Closed(FoldLeft(Add, [done |-> <<>>, current |-> <<>>], bs))

\* chunk: a parent that fits where a child would is embedded itself.
ChunksOf(section) ==
    LET Made(group, embedded, parent) ==
            [words |-> Words(group), section |-> Words(section.path),
             embedded |-> embedded, parent |-> parent]
        Family(parent) ==
            LET children == Pack(parent, ChildTokens)
            IN  IF Len(children) = 1 /\ Size(parent) <= ChildTokens THEN <<Made(parent, TRUE, <<>>)>>
                ELSE <<Made(parent, FALSE, <<>>)>>
                       \o [i \in DOMAIN children |-> Made(children[i], TRUE, Words(parent))]
        parents == Pack(section.contents, ParentTokens)
    IN  FlattenSeq([i \in DOMAIN parents |-> Family(parents[i])])

Chunked(document) ==
    LET sections == Sections(document)
    IN  FlattenSeq([i \in DOMAIN sections |-> ChunksOf(sections[i])])

\* contextualised_text and _fit: under its headings, cut to the model's window.
EmbeddedText(c) ==
    LET whole == c.section \o c.words
    IN  SubSeq(whole, 1, IF Len(whole) < WindowTokens THEN Len(whole) ELSE WindowTokens)

-----------------------------------------------------------------------------
\* The extractor yields a block.
Yields(kind) ==
    /\ chunks = <<>> /\ Len(blocks) < MaxBlocks
    /\ LET n == Len(blocks) + 1
       IN  blocks' = Append(blocks,
               [name |-> n, kind |-> kind.kind, level |-> kind.level,
                parts |-> [p \in DOMAIN kind.parts |-> [w \in 1..kind.parts[p] |-> <<n, p, w>>]]])
    /\ UNCHANGED chunks

ChunkDocument ==
    /\ chunks = <<>> /\ blocks # <<>>
    /\ chunks' = Chunked(blocks)
    /\ UNCHANGED blocks

ChunkNext == (\E kind \in Kinds : Yields(kind)) \/ ChunkDocument

-----------------------------------------------------------------------------
(***************************************************************************)
(* Properties.                                                             *)
(***************************************************************************)

\* The titles a block stands under: of the headings before it, each one that no later
\* one of its level or above has replaced.
Above(n) ==
    LET standing == {h \in 1..(n - 1) :
            /\ blocks[h].kind = "heading"
            /\ \A k \in (h + 1)..(n - 1) :
                 blocks[k].kind = "heading" => blocks[k].level > blocks[h].level}
        order == SetToSortSeq(standing, LAMBDA i, j : i < j)
    IN  Words([i \in DOMAIN order |-> blocks[order[i]]])

\* The passage has these words.
Holds(c, wanted) == \A i \in DOMAIN wanted : Contains(c.words, wanted[i])

Contents == {n \in DOMAIN blocks : IsContent(blocks[n]) /\ blocks[n].kind # "heading"}
Headings == {n \in DOMAIN blocks : blocks[n].kind = "heading"}

Findable(word) == \E i \in DOMAIN chunks : chunks[i].embedded /\ Contains(EmbeddedText(chunks[i]), word)

\* Every word of the contents can be found: it is in what is embedded of some passage,
\* under exactly the headings it stands under, and no passage mixes sections.  A row
\* of a table is there whole and with its header.
\* Exception: what a row makes longer than the model's window (chunk, _fit).
ContentsAreFindable ==
    \A n \in Contents : \A p \in DOMAIN blocks[n].parts :
        \/ \A w \in DOMAIN blocks[n].parts[p] :
             \E i \in DOMAIN chunks :
                /\ chunks[i].embedded /\ chunks[i].section = Above(n)
                /\ Contains(EmbeddedText(chunks[i]), blocks[n].parts[p][w])
                /\ blocks[n].kind = "table" =>
                      /\ Holds(chunks[i], blocks[n].parts[p])
                      /\ Holds(chunks[i], blocks[n].parts[1])
        \/ blocks[n].kind = "table"
           /\ Len(Above(n)) + Len(blocks[n].parts[1]) + Len(blocks[n].parts[p]) > WindowTokens

\* A heading can be found by its own title when something stands under it, and in a
\* document of nothing but headings.  Exception: in any other document a heading with
\* nothing under it is in no passage at all (_sections).
HeadingsAreFindable ==
    \A h \in Headings :
        Contents = {} \/ (\E n \in Contents : Contains(Above(n), blocks[h].parts[1][1]))
          => Findable(blocks[h].parts[1][1])

\* A child leads to a passage before it, of its own section, that holds its text and is
\* itself not embedded; and what is embedded with no parent fits where a child would.
ChildrenLeadToParents ==
    \A i \in DOMAIN chunks : chunks[i].embedded =>
        IF chunks[i].parent = <<>> THEN Len(chunks[i].words) <= ChildTokens
        ELSE \E j \in 1..(i - 1) :
               /\ ~chunks[j].embedded /\ chunks[j].words = chunks[i].parent
               /\ chunks[j].section = chunks[i].section
               /\ Holds(chunks[j], chunks[i].words)

\* Searches reach everything the document says, and what they find leads to its context.
EverythingIsFindable ==
    chunks # <<>> =>
        /\ ContentsAreFindable
        /\ HeadingsAreFindable
        /\ Contents # {} =>
             \A i \in DOMAIN chunks : \A k \in DOMAIN chunks[i].words :
                chunks[i].section = Above(chunks[i].words[k][1])
        /\ ChildrenLeadToParents
=============================================================================
