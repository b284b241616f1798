------------------------------ MODULE DocumentText ------------------------------
(***************************************************************************)
(* From the text of a document to the chunks that are searched, and from   *)
(* the hits of a search to the prompt: the pure functions of               *)
(* backend/knowledge/parsers.py, chunking.py, and of context.py.           *)
(*                                                                         *)
(* A text is a sequence of characters, which are Chinese, a full stop, a   *)
(* space or a line end; a line or a cell is one value.  What the libraries *)
(* read from a PDF, a Word, PowerPoint or Excel file is the input.         *)
(***************************************************************************)
EXTENDS Naturals, Sequences, FiniteSets, FiniteSetsExt, SequencesExt

CONSTANTS
  ChunkMax,      \* CHUNK_MAX, 1000 characters
  ChunkMin,      \* CHUNK_MIN, 600
  ChunkOverlap,  \* CHUNK_OVERLAP, 120
  MaxBlocks,     \* max_blocks of ParserLimits
  PromptLimit,   \* _PROMPT_LIMIT without the header and the footer
  TooLarge,      \* KNOWLEDGE_PARSE_LIMIT_EXCEEDED instead of blocks
  MaxItems,      \* hits that are rendered, 8
  Texts,         \* bound: the texts that are split
  Cells,         \* bound: the texts of pages, slides and rows
  MaxLevel,      \* bound: levels of headings
  MaxLines,      \* bound: lines of a document
  MaxSize        \* bound: prefixes and texts of hits

ASSUME TextAssumption ==
  /\ ChunkMax \in Nat /\ ChunkMin \in Nat /\ ChunkOverlap \in Nat
  /\ ChunkOverlap < ChunkMin /\ ChunkMin < ChunkMax
  /\ MaxBlocks \in Nat /\ PromptLimit \in Nat /\ MaxItems \in Nat

VARIABLE input   \* what is read: a text, a document, an outline or the hits of a search

Blanks == {" ", "/"}       \* what strip() removes; "/" is the line end
Breaks == {".", "/"}       \* _BREAK_CHARACTERS

\* The span of a text without the blanks at its ends, or none: strip().
Stripped(t, from, to) ==
  LET ink == {i \in from..to : t[i] \notin Blanks}
  IN IF ink = {} THEN <<>> ELSE <<[from |-> Min(ink), to |-> Max(ink)]>>

Cut(t, span) == SubSeq(t, span.from, span.to)
Strip(t) ==
  LET whole == Stripped(t, 1, Len(t)) IN IF whole = <<>> THEN <<>> ELSE Cut(t, whole[1])

-----------------------------------------------------------------------------
(***************************************************************************)
(* chunking.py                                                             *)
(***************************************************************************)
\* The last sentence end between the smallest and the largest piece, or the largest.
Boundary(t, start) ==
  LET ends == {i \in (start + ChunkMin)..(start + ChunkMax - 1) : t[i] \in Breaks}
  IN IF ends = {} THEN start + ChunkMax - 1 ELSE Max(ends)

\* NextStart, if pieces only touched.
NextStart_Touches(start, boundary) == boundary + 1
\* The next piece repeats the end of this one.
NextStart(start, boundary) == Max({boundary - ChunkOverlap + 1, start + 1})

\* _split_text: the pieces of a text, as spans of it.
SplitText(t) ==
  LET whole == Stripped(t, 1, Len(t))
      last  == whole[1].to
      pieces[start \in whole[1].from..last] ==
        IF last - start + 1 <= ChunkMax THEN Stripped(t, start, last)
        ELSE Stripped(t, start, Boundary(t, start))
             \o pieces[NextStart(start, Boundary(t, start))]
  IN IF whole = <<>> THEN <<>> ELSE pieces[whole[1].from]

\* cjk_search_tokens: the characters and the pairs of every run of Chinese.
Tokens(t) ==
  {<<t[i]>> : i \in {k \in DOMAIN t : t[k] \notin Blanks \cup Breaks}}
  \cup {SubSeq(t, i, i + 1) :
          i \in {k \in 1..(Len(t) - 1) : {t[k], t[k + 1]} \cap (Blanks \cup Breaks) = {}}}

\* A block of parsers.py.
StructuredBlock(text, heading, kind, at, sheet) ==
  [text |-> text, heading |-> heading, kind |-> kind, start |-> at, end |-> at,
   sheet |-> sheet]

\* Compatible, if the sheet and the headings were enough.
Compatible_AnyPlace(left, right) ==
  /\ left.kind = right.kind /\ left.sheet = right.sheet /\ left.heading = right.heading
Compatible(left, right) ==
  /\ left.kind = right.kind /\ left.sheet = right.sheet /\ left.heading = right.heading
  /\ left.kind = "page" => left.start = right.start /\ left.end = right.end
  /\ right.start <= left.end + 1

\* _expanded: every piece has the place of its block.
Expanded(blocks) ==
  FlattenSeq([i \in DOMAIN blocks |->
    LET spans == SplitText(blocks[i].text)
    IN [k \in DOMAIN spans |-> [blocks[i] EXCEPT !.text = Cut(@, spans[k])]]])

Combined(left, right) == left \o <<"/", "/">> \o right

\* _merge_blocks: a piece joins the one before it while there is room.
Merge(merged, block) ==
  IF merged = <<>> THEN <<block>>
  ELSE LET previous == Last(merged)
           combined == Combined(previous.text, block.text)
       IN IF Compatible(previous, block) /\ Len(combined) <= ChunkMax
          THEN Append(Front(merged),
                      [previous EXCEPT !.text = combined,
                                       !.end = Max({@, block.end})])
          ELSE Append(merged, block)
MergeBlocks(blocks) == FoldLeft(Merge, <<>>, blocks)

ChunkBlocks(blocks) == MergeBlocks(Expanded(blocks))

-----------------------------------------------------------------------------
(***************************************************************************)
(* parsers.py                                                              *)
(***************************************************************************)
\* _BlockCollector.add: a block without text is dropped, the others are stripped.
KeptBlock(block) ==
  LET text == Strip(block.text)
  IN IF text = <<>> THEN <<>> ELSE <<[block EXCEPT !.text = text]>>
Collected(blocks) ==
  LET kept == FlattenSeq([i \in DOMAIN blocks |-> KeptBlock(blocks[i])])
  IN IF Len(kept) > MaxBlocks THEN TooLarge ELSE kept

\* One block per page, slide or row of a sheet, numbered from 1 with the empty ones.
\* (The heading of a row is the name of its sheet.)
ParsePdf(pages) ==
  Collected([i \in DOMAIN pages |-> StructuredBlock(pages[i], <<>>, "page", i, 0)])
ParsePptx(slides) ==
  Collected([i \in DOMAIN slides |->
    LET title == Strip(slides[i].title)
    IN StructuredBlock(title \o <<"/">> \o slides[i].text,
             IF title = <<>> THEN <<>> ELSE <<title>>, "slide", i, 0)])
ParseXlsx(sheets) ==
  Collected(FlattenSeq([s \in DOMAIN sheets |->
    [i \in DOMAIN sheets[s] |-> StructuredBlock(sheets[s][i], <<>>, "sheet_rows", i, s)]]))
ParseCsv(rows) == ParseXlsx(<<rows>>)

\* A line of Markdown, or a paragraph of Word: a heading of some level, or text.
Line(level, text) == [level |-> level, text |-> text]
IsHeading(line)   == line.level > 0

Shortened(headings, n) == SubSeq(headings, 1, Min({n, Len(headings)}))
\* UnderHeading, if the heading of the same level stayed.
UnderHeading_Keeps(headings, line, i) == Append(Shortened(headings, line.level), i)
\* headings[:level - 1] and the new one; a heading is the number of its line.
UnderHeading(headings, line, i) == Append(Shortened(headings, line.level - 1), i)

Reading == [headings |-> <<>>, lines |-> <<>>, blocks |-> <<>>, count |-> 0]

\* flush: the lines since the last blank one make a paragraph.
Flush(r, lines) ==
  LET text == Strip(FlattenSeq([k \in DOMAIN r.lines |-> Append(lines[r.lines[k]].text, "/")]))
  IN IF text = <<>> THEN [r EXCEPT !.lines = <<>>]
     ELSE [r EXCEPT !.lines = <<>>, !.count = @ + 1,
             !.blocks = Append(@, StructuredBlock(text, r.headings, "paragraph", r.count + 1, 0))]

\* _parse_markdown; _parse_text is the same for lines of which none is a heading.
ReadLine(r, lines, i) ==
  IF IsHeading(lines[i])
  THEN LET f == Flush(r, lines) IN [f EXCEPT !.headings = UnderHeading(@, lines[i], i)]
  ELSE IF Strip(lines[i].text) # <<>> THEN [r EXCEPT !.lines = Append(@, i)]
  ELSE Flush(r, lines)
ParseMarkdown(lines) ==
  Collected(Flush(FoldLeft(LAMBDA r, i : ReadLine(r, lines, i), Reading,
                           [i \in DOMAIN lines |-> i]), lines).blocks)
ParseText(texts) == ParseMarkdown([i \in DOMAIN texts |-> Line(0, texts[i])])

\* _parse_docx: every paragraph is a block, the tables come after the last of them.
ReadParagraph(r, paragraphs, i) ==
  LET text == Strip(paragraphs[i].text)
  IN IF text = <<>> THEN r
     ELSE IF IsHeading(paragraphs[i])
     THEN [r EXCEPT !.headings = UnderHeading(@, paragraphs[i], i)]
     ELSE [r EXCEPT !.count = @ + 1,
             !.blocks = Append(@, StructuredBlock(text, r.headings, "paragraph", r.count + 1, 0))]
ReadTable(table) == IF Strip(table) = <<>> THEN <<>> ELSE <<table>>
ParseDocx(paragraphs, tables) ==
  LET r == FoldLeft(LAMBDA a, i : ReadParagraph(a, paragraphs, i), Reading,
                    [i \in DOMAIN paragraphs |-> i])
      full == FlattenSeq([k \in DOMAIN tables |-> ReadTable(tables[k])])
  IN Collected(r.blocks \o [k \in DOMAIN full |->
                 StructuredBlock(full[k], r.headings, "paragraph", r.count + k, 0)])

\* parse_document chooses by the extension; Word and Markdown have outlines.
ParseDocument(in) ==
  CASE in.kind = "pdf"     -> ParsePdf(in.of)
    [] in.kind = "pptx"    -> ParsePptx(in.of)
    [] in.kind = "xlsx"    -> ParseXlsx(in.of)
    [] in.kind = "csv"     -> ParseCsv(in.of)
    [] in.kind = "text"    -> ParseText(in.of)
    [] in.kind = "outline" -> ParseMarkdown(in.of)

-----------------------------------------------------------------------------
(***************************************************************************)
(* render_untrusted_context: an item is the length of its prefix and text  *)
(***************************************************************************)
Separator(sections) == IF sections = <<>> THEN 0 ELSE 2

\* Available, if the first separator were forgotten for all.
Available_NoSeparator(remaining, sections, item) == remaining - item.prefix
Available(remaining, sections, item) ==
  IF remaining < Separator(sections) + item.prefix THEN 0
  ELSE remaining - Separator(sections) - item.prefix

Render(items) ==
  LET bounded == SubSeq(items, 1, Min({MaxItems, Len(items)}))
      sections[i \in 0..Len(bounded)] ==
        IF i = 0 THEN [done |-> FALSE, texts |-> <<>>, remaining |-> PromptLimit]
        ELSE LET s == sections[i - 1]
                 room == Available(s.remaining, s.texts, bounded[i])
                 size == bounded[i].prefix + Min({room, bounded[i].text})
             IN IF s.done \/ room = 0 THEN [s EXCEPT !.done = TRUE]
                ELSE [s EXCEPT !.texts = Append(@, size),
                               !.remaining = @ - Separator(s.texts) - size]
  IN sections[Len(bounded)].texts

-----------------------------------------------------------------------------
(***************************************************************************)
(* The inputs an instance enumerates                                       *)
(***************************************************************************)
NoInput == [kind |-> "none"]

Outlines == SeqOf([level : 0..MaxLevel, text : {<<"x">>}] \cup {Line(0, <<>>)}, MaxLines)
Items    == SeqOf([prefix : 1..MaxSize, text : 1..MaxSize], MaxItems + 1)

AnyInput ==
  \/ input \in [kind : {"block"}, of : Texts]
  \/ input \in [kind : {"pdf", "csv", "text"}, of : SeqOf(Cells, 3)]
  \/ input \in [kind : {"pptx"}, of : SeqOf([title : {<<>>, <<"x">>}, text : Cells], 3)]
  \/ input \in [kind : {"xlsx"}, of : SeqOf(SeqOf(Cells, 2), 2)]
  \/ input \in [kind : {"outline"}, of : Outlines]
  \/ input \in [kind : {"hits"}, of : Items]

-----------------------------------------------------------------------------
(***************************************************************************)
(* Properties                                                              *)
(***************************************************************************)
\* A phrase that is at most one character longer than the overlap is in one piece of its
\* text, wherever _split_text cuts it, and the piece has all tokens that a search for the
\* phrase asks for.  Pieces are never empty nor longer than CHUNK_MAX.
PhraseIsInOnePiece ==
  input.kind = "block" =>
    LET t == input.of
        pieces == SplitText(t)
        Within(a, b) == {k \in DOMAIN pieces : pieces[k].from <= a /\ b <= pieces[k].to}
    IN /\ \A k \in DOMAIN pieces : Len(Cut(t, pieces[k])) \in 1..ChunkMax
       /\ \A a, b \in DOMAIN t :
            /\ a <= b /\ b <= a + ChunkOverlap
            /\ t[a] \notin Blanks /\ t[b] \notin Blanks
            => \E k \in Within(a, b) :
                 Tokens(SubSeq(t, a, b)) \subseteq Tokens(Cut(t, pieces[k]))

\* The chunks of a document are its pieces in groups: nothing is lost or moved; a chunk
\* has pieces of one heading, sheet and page, and every page, slide, row or paragraph
\* from its first place to its last has text in it; a piece starts a chunk only if it
\* could not join the one before.
Ascending(S) ==
  [i \in 1..Cardinality(S) |-> CHOOSE x \in S : Cardinality({y \in S : y <= x}) = i]
Joined(pieces) ==
  FoldLeft(LAMBDA t, p : IF t = <<>> THEN p.text ELSE Combined(t, p.text), <<>>, pieces)
KeepsPlace(chunk, pieces) ==
  /\ chunk.text = Joined(pieces) /\ Len(chunk.text) <= ChunkMax
  /\ \A p \in ToSet(pieces) :
       /\ p.heading = chunk.heading /\ p.sheet = chunk.sheet /\ p.kind = chunk.kind
       /\ p.kind = "page" => chunk.start = chunk.end
  /\ {p.start : p \in ToSet(pieces)} = chunk.start..chunk.end
GroupedAs(pieces, chunks, ends) ==
  LET cut == <<0>> \o Ascending(ends)
      Group(i) == SubSeq(pieces, cut[i] + 1, cut[i + 1])
      MustStart(left, right) ==
        ~Compatible(left, right) \/ Len(Combined(left.text, right.text)) > ChunkMax
  IN /\ Last(cut) = Len(pieces) /\ Cardinality(ends) = Len(chunks)
     /\ \A i \in DOMAIN chunks :
          /\ KeepsPlace(chunks[i], Group(i))
          /\ i > 1 => MustStart(chunks[i - 1], Head(Group(i)))

ChunksKeepTheirPlace ==
  input.kind \in {"pdf", "pptx", "xlsx", "csv", "text", "outline"} =>
    LET blocks == ParseDocument(input)
        pieces == Expanded(blocks)
    IN \/ blocks = TooLarge
       \/ \E ends \in SUBSET DOMAIN pieces : GroupedAs(pieces, MergeBlocks(pieces), ends)

\* In a document that skips no heading level, a paragraph has the headings it is under:
\* those before it with no heading of the same or a higher rank in between.  A paragraph
\* of Markdown is a whole run of lines of text, one of Word is a line; none is left out.
Over(lines, i) ==
  {j \in 1..(i - 1) :
     IsHeading(lines[j])
     /\ \A k \in (j + 1)..(i - 1) : IsHeading(lines[k]) => lines[k].level > lines[j].level}
SkipsNoLevel(lines) ==
  \A i \in DOMAIN lines :
    IsHeading(lines[i]) =>
      lines[i].level <= 1 + Max({0} \cup {lines[j].level : j \in Over(lines, i)})
TextLines(lines) ==
  {i \in DOMAIN lines : ~IsHeading(lines[i]) /\ Strip(lines[i].text) # <<>>}
RunOfLines(lines, from, to) ==
  Strip(FlattenSeq([k \in 1..(to - from + 1) |-> Append(lines[from + k - 1].text, "/")]))
HeadingsAreAbove ==
  input.kind = "outline" /\ SkipsNoLevel(input.of) =>
    LET lines == input.of
        texts == TextLines(lines)
        first == Ascending({i \in texts : i - 1 \notin texts})
        final == Ascending({i \in texts : i + 1 \notin texts})
        every == Ascending(texts)
        Under(blocks, starts) ==
          /\ Len(blocks) = Len(starts)
          /\ \A k \in DOMAIN blocks : ToSet(blocks[k].heading) = Over(lines, starts[k])
        markdown == ParseMarkdown(lines)
        docx     == ParseDocx(lines, <<>>)
    IN /\ \/ markdown = TooLarge
          \/ /\ Under(markdown, first)
             /\ \A k \in DOMAIN markdown : markdown[k].text = RunOfLines(lines, first[k], final[k])
       /\ \/ docx = TooLarge
          \/ /\ Under(docx, every)
             /\ \A k \in DOMAIN docx : docx[k].text = Strip(lines[every[k]].text)

\* The prompt is never longer than its limit; the hits it quotes are the first ones, each
\* with some text, so that a citation has a source to show; and it stops only before a
\* hit that has no room.
PromptFits ==
  input.kind = "hits" =>
    LET items == input.of
        sections == Render(items)
        total == FoldLeft(+, 0, sections) + 2 * Len(sections)
    IN sections # <<>> =>
         /\ total - 2 <= PromptLimit
         /\ Len(sections) <= MaxItems
         /\ \A k \in DOMAIN sections : sections[k] > items[k].prefix
         /\ Len(sections) < Min({MaxItems, Len(items)})
              => total + items[Len(sections) + 1].prefix >= PromptLimit

=============================================================================
