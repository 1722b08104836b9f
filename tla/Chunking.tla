------------------------------ MODULE Chunking ------------------------------
(***************************************************************************)
(* How a parsed document is cut into the pieces that are indexed and cited: *)
(* by the engine (pipeline/chunker.py), by the financial runtime, which     *)
(* keeps tables apart (ingestion.py, live_chunker.py), by the corpus tool   *)
(* (corpus.py) and by the workspace (core/rag.py).  Of a block its kind, its *)
(* length and where it may be cut are kept, of a piece what it was cut from *)
(* and the page it is cited by.  The engine and the corpus tool take a table *)
(* as text, the financial runtime and the workspace by its rows.            *)
(* The document grows block by block; each state is one input.              *)
(***************************************************************************)
EXTENDS Integers, SequencesExt, FiniteSetsExt

CONSTANTS
  Blocks,      \* blocks a document may have: [kind, n, every, head, width]; a table
               \* has n rows under head lines, each of width characters
  MaxBlocks,   \* bound of the model
  MIN_CHARS, MAX_CHARS,   \* of the engine
  RowsPerPiece,           \* 8
  Window, Step,           \* characters of a piece, and from one to the next
  TableChars,             \* of a live piece of a table: 360
  PlainChars, LongLine,   \* 600 and 900, of the workspace
  FirstCut,               \* a line is cut no earlier: 200
  PageChars, PerPage      \* 360, of the corpus tool; blocks on a page

VARIABLE blocks
vars == <<blocks>>

Init == blocks = <<>>
Append1 == \E b \in Blocks : Len(blocks) < MaxBlocks /\ blocks' = Append(blocks, b)
Next == Append1
-----------------------------------------------------------------------------
Sum(f) == FoldFunction(+, 0, f)
Length(spans) == Sum([k \in DOMAIN spans |-> spans[k].to - spans[k].from])
Span(i, from, to) == [block |-> i, from |-> from, to |-> to]

\* TextCleaner.clean: page numbers and running titles are dropped.
Kept(i) == blocks[i].kind # "noise"
IsHeading(i) == blocks[i].kind = "heading"
Tables == {i \in DOMAIN blocks : blocks[i].kind = "table"}
Body == {i \in DOMAIN blocks : Kept(i) /\ ~IsHeading(i)}

\* The characters of a block.
Size(i) == IF i \in Tables THEN (blocks[i].head + blocks[i].n) * blocks[i].width ELSE blocks[i].n

\* Only a PDF has pages; 0 stands for none.  The parser of the runtime finds the
\* tables of a PDF and puts each under two lines; those of the engine and of the
\* corpus tool find none in it.
PageOf ==
  [i \in DOMAIN blocks |->
     IF \A t \in Tables : blocks[t].head = 2 THEN (i + PerPage - 1) \div PerPage ELSE 0]
TextPage == [i \in DOMAIN blocks |-> IF Tables = {} THEN PageOf[i] ELSE 0]

\* Characters, or rows, first to last.
Covers(spans, i, n) ==
  LET of == SelectSeq(spans, LAMBDA s : s.block = i)
  IN  /\ n > 0 => of # <<>> /\ of[1].from = 0 /\ of[Len(of)].to = n
      /\ \A k \in 1 .. Len(of) - 1 : of[k].to = of[k + 1].from
InOrder(spans) == \A j, k \in DOMAIN spans : j < k => spans[j].block <= spans[k].block
-----------------------------------------------------------------------------
(* Chunker._build_sections: the stack of headings, as the blocks come.      *)
Pushed(stack, level, i) ==
  LET kept == SubSeq(stack, 1, IF level - 1 < Len(stack) THEN level - 1 ELSE Len(stack))
  IN  kept \o [k \in 1 .. level - 1 - Len(kept) |-> 0] \o <<i>>

Sections ==
  FoldLeft(
    LAMBDA s, i :
      IF ~Kept(i) THEN s
      ELSE IF IsHeading(i)
      THEN Append(s, [path |-> Pushed(IF s = <<>> THEN <<>> ELSE Last(s).path,
                                      blocks[i].n, i), body |-> <<>>])
      ELSE IF s = <<>> THEN <<[path |-> <<>>, body |-> <<i>>]>>
      ELSE [s EXCEPT ![Len(s)].body = Append(@, i)],
    <<>>, [i \in DOMAIN blocks |-> i])

\* Cut after the first end of a sentence, or of a line of a table, from MIN_CHARS
\* on, and so forth.
Sentences(i) ==
  LET n == Size(i)
      stops == {q \in 1 .. n : \E e \in {blocks[i].every, blocks[i].width} : e > 0 /\ q % e = 0}
      after[p \in 0 .. n] ==
        LET far == {q \in stops : q - p >= MIN_CHARS}
        IN  IF p = n THEN <<>>
            ELSE IF far = {} THEN <<Span(i, p, n)>>
            ELSE <<Span(i, p, Min(far))>> \o after[Min(far)]
  IN  after[0]

\* Mutant: of what is too long for a piece, the rest is forgotten.
CutOnce(s) == <<Span(s.block, s.from, IF s.to < s.from + MAX_CHARS THEN s.to ELSE s.from + MAX_CHARS)>>

\* What still is too long is cut at MAX_CHARS.
Cut(s) ==
  [k \in 1 .. (s.to - s.from + MAX_CHARS - 1) \div MAX_CHARS |->
     Span(s.block, s.from + (k - 1) * MAX_CHARS,
          IF s.to < s.from + k * MAX_CHARS THEN s.to ELSE s.from + k * MAX_CHARS)]

HardSplit(i) ==
  IF Size(i) <= MAX_CHARS THEN <<Span(i, 0, Size(i))>>
  ELSE FlattenSeq(LET parts == Sentences(i) IN [k \in DOMAIN parts |-> Cut(parts[k])])

\* A piece is closed when the next one does not fit and it is long enough.
Packed(spans) ==
  LET fold == FoldLeft(
        LAMBDA s, span :
          IF Length(s.open) + (span.to - span.from) > MAX_CHARS /\ Length(s.open) >= MIN_CHARS
          THEN [done |-> Append(s.done, s.open), open |-> <<span>>]
          ELSE [s EXCEPT !.open = Append(@, span)],
        [done |-> <<>>, open |-> <<>>], spans)
  IN  IF fold.open = <<>> THEN fold.done ELSE Append(fold.done, fold.open)

\* The line ends between its spans count.
Short(piece) == Length(piece) + Len(piece) - 1 < MIN_CHARS

Merged(pieces) ==
  FoldLeft(
    LAMBDA out, piece :
      IF out # <<>> /\ (Short(piece) \/ Short(Last(out)))
      THEN [out EXCEPT ![Len(out)] = @ \o piece]
      ELSE Append(out, piece),
    <<>>, pieces)

\* The page is noted once, at the first line, and every piece has it.
Narrative(body, pages) ==
  LET pieces == Merged(Packed(FlattenSeq([k \in DOMAIN body |-> HardSplit(body[k])])))
  IN  [k \in DOMAIN pieces |-> [page |-> pages[body[1]], spans |-> pieces[k]]]

Under(path, pieces) ==
  [k \in DOMAIN pieces |-> [path |-> path, page |-> pieces[k].page, spans |-> pieces[k].spans]]

\* Chunker.chunk
EnginePieces ==
  LET sections == Sections
      Of(k) == Narrative(sections[k].body, TextPage)
  IN  FlattenSeq([k \in DOMAIN sections |-> Under(sections[k].path, Of(k))])
-----------------------------------------------------------------------------
(* TableAwareChunker: a table by its rows, its header with every piece; a   *)
(* header without rows is left out.                                        *)
Rows(i, per) ==
  [k \in 1 .. (blocks[i].n + per - 1) \div per |->
     <<Span(i, (k - 1) * per, IF blocks[i].n < k * per THEN blocks[i].n ELSE k * per)>>]

TableRows(i) ==
  LET pieces == Rows(i, RowsPerPiece)
  IN  [k \in DOMAIN pieces |-> [page |-> PageOf[i], spans |-> pieces[k]]]

TableAware(body) ==
  LET fold == FoldLeft(
        LAMBDA s, i :
          IF i \in Tables
          THEN [done |-> s.done \o Narrative(s.plain, PageOf) \o TableRows(i), plain |-> <<>>]
          ELSE [s EXCEPT !.plain = Append(@, i)],
        [done |-> <<>>, plain |-> <<>>], body)
  IN  fold.done \o Narrative(fold.plain, PageOf)

FinancePieces ==
  LET sections == Sections
  IN  FlattenSeq([k \in DOMAIN sections |-> Under(sections[k].path, TableAware(sections[k].body))])

\* The starts of the windows over a text of a length, of LiveChunker and the corpus
\* tool alike; the last reaches its end.
Starts(length) ==
  {p \in 0 .. length - 1 : p % Step = 0 /\ (p = 0 \/ p - Step + Window < length)}

\* The lines of a piece of a table: 0 for each of its header, then its rows.
Lines(span) ==
  [k \in 1 .. blocks[span.block].head |-> 0] \o [k \in 1 .. span.to - span.from |-> span.from + k]

\* Mutant: only the first piece has the header.
LiveHeadless(span) ==
  LET lines == Lines(span)
      per == TableChars \div blocks[span.block].width
  IN  [k \in 1 .. (Len(lines) + per) \div (per + 1) |->
         SubSeq(lines, (k - 1) * (per + 1) + 1, Min({Len(lines), k * (per + 1)}))]

\* LiveChunker: as many lines as fit, and one at least, under the first two.
LiveRows(span) ==
  LET lines == Lines(span)
      top == SubSeq(lines, 1, 2)
      fold == FoldLeft(
        LAMBDA s, line :
          IF (Len(s.open) + 1) * blocks[span.block].width > TableChars /\ Len(s.open) > 2
          THEN [done |-> Append(s.done, s.open), open |-> Append(top, line)]
          ELSE [s EXCEPT !.open = Append(@, line)],
        [done |-> <<>>, open |-> top], SubSeq(lines, 3, Len(lines)))
  IN  IF Len(lines) = 2 THEN <<lines>> ELSE Append(fold.done, fold.open)
-----------------------------------------------------------------------------
(* chunk_text of core/rag.py, line by line: a heading, a clause (a section   *)
(* of its own, its title being short) and a table close what is open, a line *)
(* that no longer fits does, and a long one is cut.                         *)
LineCuts(i) ==
  LET n == blocks[i].n
      stop == IF blocks[i].every = 0 THEN 0
              ELSE PlainChars - (PlainChars % blocks[i].every)
      at == IF stop > FirstCut THEN stop ELSE PlainChars
      after[p \in 0 .. n] ==
        IF n - p <= LongLine THEN <<Span(i, p, n)>>
        ELSE <<Span(i, p, p + at)>> \o after[p + at]
  IN  after[0]

Closed(s) == IF s.open = <<>> THEN s
             ELSE [s EXCEPT !.done = Append(@, [section |-> s.section, spans |-> s.open]),
                            !.open = <<>>]

Line(s, i) ==
  LET fits == IF Length(s.open) + blocks[i].n > PlainChars THEN Closed(s) ELSE s
      cuts == LineCuts(i)
      whole == [k \in 1 .. Len(cuts) - 1 |-> [section |-> s.section, spans |-> <<cuts[k]>>]]
  IN  [fits EXCEPT !.done = @ \o whole, !.open = Append(@, Last(cuts))]

Table(s, i) ==
  LET pieces == IF blocks[i].n = 0 THEN <<<<Span(i, 0, 0)>>>> ELSE Rows(i, RowsPerPiece)
  IN  [Closed(s) EXCEPT !.done = @ \o
         [k \in DOMAIN pieces |-> [section |-> s.section, spans |-> pieces[k]]]]

WorkspacePieces ==
  Closed(FoldLeft(
    LAMBDA s, i :
      CASE blocks[i].kind = "heading" -> [Closed(s) EXCEPT !.section = i]
        [] blocks[i].kind = "clause"  -> Line([Closed(s) EXCEPT !.section = i], i)
        [] blocks[i].kind = "table"   -> Table(s, i)
        [] OTHER                      -> Line(s, i),
    [done |-> <<>>, open |-> <<>>, section |-> 0],
    [i \in DOMAIN blocks |-> i])).done
-----------------------------------------------------------------------------
(* bounded_chunks of corpus.py: blocks of one page, whatever they are, as    *)
(* long as they fit; then windows over their text.                          *)
Chars(group) == Sum([k \in DOMAIN group |-> Size(group[k])])

Flushed(s) == IF s.open = <<>> THEN s ELSE [done |-> Append(s.done, s.open), open |-> <<>>]

Gathered(s, i) ==
  LET fits == s.open # <<>> /\ TextPage[Last(s.open)] = TextPage[i]
                            /\ Chars(s.open) + Size(i) <= PageChars
      with == [(IF fits THEN s ELSE Flushed(s)) EXCEPT !.open = Append(@, i)]
  IN  IF Chars(with.open) >= PageChars THEN Flushed(with) ELSE with

CorpusGroups ==
  Flushed(FoldLeft(
    LAMBDA s, i : IF Size(i) = 0 THEN s ELSE Gathered(s, i),
    [done |-> <<>>, open |-> <<>>], [i \in DOMAIN blocks |-> i])).done
-----------------------------------------------------------------------------
AllSpans(pieces) == FlattenSeq(pieces)
SpansOf(pieces) == [k \in DOMAIN pieces |-> pieces[k].spans]

\* The headings over block i, by levels, as a reader sees them.
Above(i) == {h \in 1 .. i - 1 : IsHeading(h)}
HeadingsOver(i) ==
  IF Above(i) = {} THEN <<>>
  ELSE [l \in 1 .. blocks[Max(Above(i))].n |->
          LET of == {h \in Above(i) : /\ blocks[h].n = l
                                      /\ \A g \in Above(i) : g > h => blocks[g].n > l}
          IN  IF of = {} THEN 0 ELSE Max(of)]

\* What is under the same headings, up to block i; and of this, what no table
\* divides from it.
Before == [i \in Body |-> {b \in Body : b <= i /\ Above(b) = Above(i)}]
Joined == [i \in Body |-> {b \in Before[i] : b = i \/ Tables \cap b .. i = {}}]

\* A piece under its headings, cited by the page of the first of them, which is
\* not always its own.
Placed(piece, pages, ahead) ==
  \A j \in DOMAIN piece.spans :
    LET i == piece.spans[j].block
    IN  piece.path = HeadingsOver(i) /\ piece.page = pages[Min(ahead[i])]

EngineIsWhole ==
  LET pieces == EnginePieces
      spans == AllSpans(SpansOf(pieces))
  IN  /\ InOrder(spans)
      /\ \A i \in Body : Covers(spans, i, Size(i))
      /\ \A k \in DOMAIN pieces :
           /\ Length(pieces[k].spans) <= MAX_CHARS + 2 * MIN_CHARS - 2
           /\ Placed(pieces[k], TextPage, Before)

\* A piece of a table, cut again: each row is under the header, in order and once;
\* only the first follows a header of one line into every piece.
LiveIsWhole(rows) ==
  LET live == LiveRows(rows)
      head == blocks[rows.block].head
      In(j) == Range(live[j]) \ {0}
  IN  /\ UNION {In(j) : j \in DOMAIN live} = rows.from + 1 .. rows.to
      /\ \A j \in DOMAIN live :
           /\ \A l \in DOMAIN live[j] : IF l <= head THEN live[j][l] = 0 ELSE live[j][l - 1] < live[j][l]
           /\ Len(live[j]) * blocks[rows.block].width <= TableChars \/ Len(live[j]) <= 3
           /\ \A k \in 1 .. j - 1 :
                /\ In(j) \cap In(k) \subseteq (IF head = 1 THEN {rows.from + 1} ELSE {})
                /\ Last(live[k]) < Last(live[j])

\* The windows over a text leave no character out.
WindowsCover(length) ==
  0 .. length - 1 =
    UNION {p .. (IF p + Window < length THEN p + Window ELSE length) - 1 : p \in Starts(length)}

FinanceIsWhole ==
  LET pieces == FinancePieces
      spans == AllSpans(SpansOf(pieces))
  IN  /\ InOrder(spans)
      /\ \A i \in Body : Covers(spans, i, blocks[i].n)
      /\ \A k \in DOMAIN pieces :
           LET piece == pieces[k].spans
           IN  /\ Placed(pieces[k], PageOf, Joined)
               /\ IF piece[1].block \in Tables
                  THEN Length(piece) <= RowsPerPiece /\ LiveIsWhole(piece[1])
                  ELSE Length(piece) <= MAX_CHARS + 2 * MIN_CHARS - 2 /\ WindowsCover(Length(piece))

WorkspaceIsWhole ==
  LET pieces == WorkspacePieces
      spans == AllSpans(SpansOf(pieces))
  IN  /\ InOrder(spans)
      /\ \A i \in {h \in DOMAIN blocks : ~IsHeading(h)} : Covers(spans, i, blocks[i].n)
      /\ \A k \in DOMAIN pieces :
           LET piece == pieces[k]
           IN  /\ piece.spans[1].block \in Tables => Length(piece.spans) <= RowsPerPiece
               /\ Length(piece.spans) <= LongLine
               /\ \A j \in DOMAIN piece.spans :
                    piece.section = Max({0} \cup {h \in 1 .. piece.spans[j].block :
                                           blocks[h].kind \in {"heading", "clause"}})

CorpusIsWhole ==
  LET groups == CorpusGroups
  IN  /\ FlattenSeq(groups) = SelectSeq([i \in DOMAIN blocks |-> i], LAMBDA i : Size(i) > 0)
      /\ \A k \in DOMAIN groups :
           /\ \A j \in DOMAIN groups[k] : TextPage[groups[k][j]] = TextPage[groups[k][1]]
           /\ Len(groups[k]) > 1 => Chars(groups[k]) <= PageChars
           /\ WindowsCover(Chars(groups[k]))

(* Whoever cuts it, nothing of a document is lost, doubled or moved: read in *)
(* order, its pieces are its text and the rows of its tables (in the         *)
(* financial runtime a table that is all header has none, and goes).  Each   *)
(* piece stays below the size its index is made for and carries the headings *)
(* over all of it.  The runtime and the workspace never cut a row, and of a  *)
(* table cut again each row is under its header; the engine and the corpus   *)
(* tool cut a table as text, inside its rows.  The page a piece is cited by  *)
(* is its own only in the corpus tool and for tables; the engine and the     *)
(* runtime cite the page on which the text of its section begins, or begins  *)
(* again after a table.                                                      *)
PiecesAreWhole == EngineIsWhole /\ FinanceIsWhole /\ WorkspaceIsWhole /\ CorpusIsWhole
=============================================================================
