------------------------------ MODULE Artifacts ------------------------------
(***************************************************************************)
(* The documents a run produces: what the model asked for (DocxInput,      *)
(* PptxInput, XlsxInput), what tools/artifacts.py makes of it, and what    *)
(* the builders under artifacts/ write, with the provenance every document *)
(* carries (artifacts/provenance.py).                                      *)
(*                                                                         *)
(* A text is what it says and the source numbers marked in it.  Layout,    *)
(* fonts and wording are left out; a slide is its title and what it shows, *)
(* a workbook the contents of its cells.                                   *)
(***************************************************************************)
EXTENDS Integers, Sequences, SequencesExt, FiniteSets, FiniteSetsExt, Lists

CONSTANTS
    Passages,           \* what the run retrieved: [doc, confidence], confidence in 1/10000
    Reports,            \* arguments of artifact.docx: sequences of sections
    Decks,              \* arguments of artifact.pptx: sequences of entries
    Books,              \* arguments of artifact.xlsx
    MaxBullets,         \* MAX_BULLETS_PER_SLIDE
    TableRows,          \* rows of a table a slide shows, the first its header
    SourcesPerSlide

\* A text and a section of a report, as they are parsed.  A mark is a number in brackets.
Wordings == [says : STRING, marks : Seq(Nat)]
LeakedTables == [header : Seq(Wordings), rows : Seq(Seq(Wordings))]
BodyLines == [item : BOOLEAN, text : Wordings]
ReportSections ==
    [heading : Wordings, sources : SUBSET Int, body : Seq(BodyLines), bullets : Seq(Wordings),
     header : Seq(Wordings), rows : Seq(Seq(Wordings)), leak : LeakedTables]

ASSUME PassagesAreNumbered ==
    /\ Passages \in Seq([doc : {c.doc : c \in ToSet(Passages)}, confidence : Nat])
    /\ {MaxBullets, TableRows, SourcesPerSlide} \subseteq Nat \ {0}

ASSUME CallsAreParsed ==
    /\ \A input \in Reports :
         input \in Seq(ReportSections) /\ \A s \in ToSet(input) : IsFiniteSet(s.sources)
    /\ \A input \in Decks :
         /\ input \in Seq(ToSet(input))
         /\ \A e \in ToSet(input) : e.bullets \in Seq(ToSet(e.bullets)) /\ e.rows \in Seq(ToSet(e.rows))
    /\ \A b \in Books :
         /\ b.headers \in Seq(STRING) /\ b.chart \in Seq(STRING) /\ b.notes \in Seq(ToSet(b.notes))
         /\ b.formulas \in Seq(STRING \X SUBSET Nat)
         /\ b.rows \in Seq(ToSet(b.rows)) /\ \A row \in ToSet(b.rows) : row \in Seq(ToSet(row))

VARIABLES
    order,              \* what was asked for, and whether an approval carried it over
    document            \* what was delivered

artifactVars == <<order, document>>

NoOrder == [kind |-> "none", input |-> <<>>, deferred |-> FALSE]
NoDocument == [kind |-> "none"]

ArtifactInit == order = NoOrder /\ document = NoDocument

-----------------------------------------------------------------------------
(***************************************************************************)
(* Provenance.  _run_context numbers every retrieved passage; an approval  *)
(* stores its citations with their confidence rounded to three places.     *)
(***************************************************************************)

Threshold == 8500

Storable(confidence, deferred) ==
    IF deferred THEN ((confidence + 5) \div 10) * 10 ELSE confidence

Cites(deferred) ==
    [n \in DOMAIN Passages |-> [Passages[n] EXCEPT !.confidence = Storable(@, deferred)]]

\* Provenance.sources: one entry per document, in the order they were first met.
Counted(docs, c) ==
    IF \E i \in DOMAIN docs : docs[i].doc = c.doc
    THEN [i \in DOMAIN docs |-> IF docs[i].doc = c.doc /\ c.confidence < docs[i].confidence
                               THEN c ELSE docs[i]]
    ELSE Append(docs, c)

SourceDocs(citations) ==
    LET F[n \in 0..Len(citations)] == IF n = 0 THEN <<>> ELSE Counted(F[n - 1], citations[n])
    IN  F[Len(citations)]

\* has_uncertain_sources
Uncertain(citations) == \E i \in DOMAIN SourceDocs(citations) :
                            SourceDocs(citations)[i].confidence < Threshold

\* source_lines, for the decks and the workbooks.
SourceLines(citations) ==
    [i \in DOMAIN SourceDocs(citations) |->
        [doc |-> SourceDocs(citations)[i].doc,
         warned |-> SourceDocs(citations)[i].confidence < Threshold]]

-----------------------------------------------------------------------------
(***************************************************************************)
(* Word reports.  A section: heading, sources, body (lines, item or not),  *)
(* bullets, header and rows of its table, and what a body that swallowed   *)
(* JSON holds of a table: [header, rows].                                  *)
(***************************************************************************)

ReservedHeadings == {"provenance", "sources", "source", "references", "citations"}

\* _safe_heading, numbering and case aside: a title is what it begins with and what
\* is put after it.
SafeHeading(heading) ==
    <<heading>> \o IF heading \in ReservedHeadings THEN <<"as stated in the answer">> ELSE <<>>

\* A heading that carries a mark is not taken for a reserved one.
TitleOf(heading) == IF heading.marks = <<>> THEN SafeHeading(heading.says) ELSE <<heading.says>>

NoLeak == [header |-> <<>>, rows |-> <<>>]

\* salvage_section: a table written into the body, where the section has none.
Salvaged(s) ==
    [s EXCEPT !.header = IF @ = <<>> THEN s.leak.header ELSE @,
              !.rows = IF @ = <<>> THEN s.leak.rows ELSE @]

\* What the builder and _section_trail take for a mark has two digits at most.
Matched == 0..99

RowTexts(s) == FlattenSeq(s.rows)
SectionTexts(s) == [i \in DOMAIN s.body |-> s.body[i].text] \o s.bullets \o RowTexts(s)
MarksIn(texts) == FlattenSeq([i \in DOMAIN texts |-> texts[i].marks])

\* sorted
Sorted(S) ==
    [k \in 1..Cardinality(S) |-> InPlace(k, S, {p \in S \X S : p[1] <= p[2]})]

\* _section_trail: what the section declares, however large the numbers are, unless
\* something in it is marked.
Trail(s) ==
    IF Kept(MarksIn(SectionTexts(s)), Matched) # <<>> THEN <<>>
    ELSE Sorted({n \in s.sources : n > 0})

Paragraphs(kind, texts) == [kind |-> kind, heading |-> <<>>, texts |-> texts, caption |-> <<>>]

\* _body_blocks: the list items that follow each other are one list.
WithLine(blocks, line) ==
    IF line.item /\ blocks # <<>> /\ Last(blocks).kind = "bullets"
    THEN [blocks EXCEPT ![Len(blocks)].texts = Append(@, line.text)]
    ELSE Append(blocks, Paragraphs(IF line.item THEN "bullets" ELSE "paragraph", <<line.text>>))

BodyBlocks(body) ==
    LET F[n \in 0..Len(body)] == IF n = 0 THEN <<>> ELSE WithLine(F[n - 1], body[n])
    IN  F[Len(body)]

Signed(texts, trail) ==
    IF texts = <<>> THEN texts ELSE [texts EXCEPT ![Len(texts)].marks = @ \o trail]

\* _to_docx_spec: the trail goes to the last thing of the section that a reader sees.
SectionBlocks(raw) ==
    LET s == Salvaged(raw)
        trail == Trail(s)
        hasTable == s.header # <<>> /\ s.rows # <<>>
        body == BodyBlocks(s.body)
        signed == IF hasTable \/ s.bullets # <<>> \/ body = <<>> THEN body
                  ELSE [body EXCEPT ![Len(body)].texts = Signed(@, trail)]
        bullets == IF s.bullets = <<>> THEN <<>>
                   ELSE <<Paragraphs("bullets", IF hasTable THEN s.bullets
                                                ELSE Signed(s.bullets, trail))>>
        table == IF ~hasTable THEN <<>>
                 ELSE <<[Paragraphs("table", s.header \o RowTexts(s)) EXCEPT !.caption = trail]>>
        heading == [Paragraphs("heading", <<s.heading>>) EXCEPT !.heading = TitleOf(s.heading)]
    IN  <<heading>> \o signed \o bullets \o table

\* The marks that refer to a source of the run.
Leading == 1..Len(Passages)

\* What stays in a text: the marks that lead to a source, and the numbers that are not
\* taken for marks.
Staying == Leading \cup (Nat \ Matched)

\* _validate_markers: marks that refer to nothing go.  A caption is not looked at.
TextChecked(t) == [t EXCEPT !.marks = Kept(@, Staying)]

MarksChecked(blocks) ==
    [b \in DOMAIN blocks |->
        [blocks[b] EXCEPT !.texts = [i \in DOMAIN @ |-> TextChecked(@[i])]]]

TextsOf(blocks) == FlattenSeq([b \in DOMAIN blocks |-> blocks[b].texts])
BlockMarks(blocks) == MarksIn(TextsOf(blocks))

\* DocxTool.run, DocxBuilder.build, _provenance_page.  Without sources nothing is said
\* of the marks that were removed.
ReportOf(input, deferred) ==
    LET blocks == FlattenSeq([k \in DOMAIN input |-> SectionBlocks(input[k])])
        marks == BlockMarks(blocks)
        cited == ToSet(marks) \cap Leading \cap Matched
        citations == Cites(deferred)
    IN  [kind |-> "docx", blocks |-> MarksChecked(blocks),
         removed |-> IF citations = <<>> THEN 0 ELSE Len(Kept(marks, ToSet(marks) \ Staying)),
         warned |-> Uncertain(citations),
         sources |-> [n \in DOMAIN citations |->
             [doc |-> citations[n].doc, notCited |-> n \notin cited,
              warned |-> citations[n].confidence < Threshold]]]

-----------------------------------------------------------------------------
(***************************************************************************)
(* Decks.  An entry: heading, bullets, rows (header and all) and footnote. *)
(***************************************************************************)

\* A slide as it is shown; every one of them goes through _stamp.
Slide(title, shows, foot, omitted) ==
    [title |-> title, shows |-> shows, foot |-> foot, omitted |-> omitted]

\* What is shown at most n at a time.
Pages(items, n) ==
    [p \in {p \in 1..Len(items) : (p - 1) * n < Len(items)} |->
        SubSeq(items, (p - 1) * n + 1, Min({p * n, Len(items)}))]

\* A fault: bullets beyond the first slide are cut.
FirstBullets(e) ==
    <<Slide(SafeHeading(e.heading), SubSeq(e.bullets, 1, Min({MaxBullets, Len(e.bullets)})),
            e.footnote, 0)>>

\* _bullets: what does not fit goes on to further slides; the last has the footnote.
BulletSlides(e) ==
    LET pages == Pages(e.bullets, MaxBullets)
        title == SafeHeading(e.heading)
    IN  [p \in DOMAIN pages |->
            Slide(IF p = 1 THEN title ELSE title \o <<"cont.">>, pages[p],
                  IF p = Len(pages) THEN e.footnote ELSE "", 0)]

\* _table: cut, and said so.
TableSlide(e) ==
    LET title == SafeHeading(e.heading) IN
    Slide(IF e.bullets = <<>> THEN title ELSE title \o <<"data">>,
          SubSeq(e.rows, 1, Min({TableRows, Len(e.rows)})), e.footnote,
          Len(e.rows) - Min({TableRows, Len(e.rows)}))

\* _to_pptx_spec: an entry with bullets and a table is two slides, an empty one a title.
EntrySlides(e) ==
    (IF e.bullets = <<>> THEN <<>> ELSE BulletSlides(e))
    \o (IF e.rows = <<>> THEN <<>> ELSE <<TableSlide(e)>>)
    \o (IF e.bullets = <<>> /\ e.rows = <<>>
        THEN <<Slide(SafeHeading(e.heading), <<>>, e.footnote, 0)>> ELSE <<>>)

\* PptxTool.run, PptxBuilder.build, _provenance_slides.
DeckOf(input, deferred) ==
    LET lines == SourceLines(Cites(deferred))
    IN  [kind |-> "pptx",
         slides |-> [k \in DOMAIN input |-> EntrySlides(input[k])],
         warned |-> Uncertain(Cites(deferred)),
         sources |-> Pages(lines, SourcesPerSlide)]

-----------------------------------------------------------------------------
(***************************************************************************)
(* Workbooks: headers, rows, formulas as <<header, terms>>, where a term   *)
(* is a column of the row it is in, chart (headers) and notes.             *)
(***************************************************************************)

\* excel_row: the row of the sheet, below the header.
ExcelRow(offset) == offset + 2

\* _to_xlsx_spec: every row gets the expressions, after what it has.
Extended(row, formulas) ==
    [i \in DOMAIN row |-> <<"value", row[i]>>]
    \o [f \in DOMAIN formulas |-> <<"formula", formulas[f][2]>>]

\* XlsxTool.run, XlsxBuilder.build: {row} is replaced in a formula column only.  There
\* is no warning as in the other two, but a source that was read badly is marked.
BookOf(b, deferred) ==
    LET columns == b.headers \o [f \in DOMAIN b.formulas |-> b.formulas[f][1]]
        rows == [r \in DOMAIN b.rows |-> Extended(b.rows[r], b.formulas)]
        Content(r, c) ==
            IF c \notin DOMAIN rows[r] THEN <<"empty">>
            ELSE IF c > Len(b.headers) /\ rows[r][c][1] = "formula"
            THEN <<"formula", {<<column, ExcelRow(r - 1)>> : column \in rows[r][c][2]}>>
            ELSE rows[r][c]
        last == Len(rows) + 1
    IN  [kind |-> "xlsx",
         columns |-> columns,
         cells |-> [at \in {<<ExcelRow(r - 1), c>> : r \in DOMAIN rows, c \in DOMAIN columns} |->
                       Content(at[1] - ExcelRow(0) + 1, at[2])],
         \* The first column of that name; a chart of nothing is not drawn.
         chart |-> [i \in {i \in DOMAIN b.chart : Contains(columns, b.chart[i]) /\ rows # <<>>} |->
                       [column |-> Min({c \in DOMAIN columns : columns[c] = b.chart[i]}),
                        first |-> 2, last |-> last]],
         notes |-> [n \in DOMAIN b.notes |-> Len(rows) + 2 + n],
         sources |-> SourceLines(Cites(deferred))]

-----------------------------------------------------------------------------
Ordered(kind, input, deferred) ==
    order = NoOrder /\ order' = [kind |-> kind, input |-> input, deferred |-> deferred]

MakeReport(input, deferred) ==
    Ordered("docx", input, deferred) /\ document' = ReportOf(input, deferred)

MakeDeck(input, deferred) ==
    Ordered("pptx", input, deferred) /\ document' = DeckOf(input, deferred)

MakeBook(input, deferred) ==
    Ordered("xlsx", input, deferred) /\ document' = BookOf(input, deferred)

ArtifactNext ==
    \E deferred \in BOOLEAN :
        \/ \E input \in Reports : MakeReport(input, deferred)
        \/ \E input \in Decks : MakeDeck(input, deferred)
        \/ \E input \in Books : MakeBook(input, deferred)

ArtifactSpec == ArtifactInit /\ [][ArtifactNext]_artifactVars

-----------------------------------------------------------------------------
(***************************************************************************)
(* Properties.                                                             *)
(***************************************************************************)

\* A source is warned of when its own confidence is low.  Exception: one within a
\* rounding of the threshold, in a document an approval carried over.
WarnedOf(doc) ==
    \E n \in DOMAIN Passages : Passages[n].doc = doc /\ Storable(Passages[n].confidence, order.deferred) < Threshold

\* What a section has to say below its heading, in its order.  Of a table a header
\* without rows and rows without a header are left out.
Substance(s) ==
    [i \in DOMAIN s.body |-> s.body[i].text] \o s.bullets
    \o IF s.header # <<>> /\ s.rows # <<>> THEN s.header \o RowTexts(s) ELSE <<>>

Promised(s) == <<s.heading>> \o Substance(s)

Says(texts) == [i \in DOMAIN texts |-> texts[i].says]

Rises(marks) == \A i, j \in DOMAIN marks : i < j => marks[i] < marks[j]

\* The report says what the sections say, and no more; a mark in its text leads to a
\* numbered source, and the sources no mark leads to are those marked "not cited";
\* where there are sources, what was removed is counted; a section that names sources
\* of the run and marks nothing itself ends in those; and no heading without a mark
\* passes for one of the builder's own.
\* Exceptions, all of the code: a caption is not looked at, so the sources it names
\* may be missing, or be marked "not cited"; numbers of three digits in the text are
\* left as they stand; a heading whose mark is removed may be left a reserved one;
\* and the marks of rows under no header keep the sources of the section from being
\* named, though they are not written (_section_trail).
ReportHolds ==
    LET marks == BlockMarks(document.blocks)
        sections == [k \in DOMAIN order.input |-> Salvaged(order.input[k])]
        promised == FlattenSeq([k \in DOMAIN sections |-> Promised(sections[k])])
        Ends(b) == {b.caption, IF b.texts = <<>> THEN <<>> ELSE Last(b.texts).marks}
    IN  /\ Says(TextsOf(document.blocks)) = Says(promised)
        /\ ToSet(marks) \cap Matched \subseteq DOMAIN document.sources
        /\ \A n \in DOMAIN document.sources :
              /\ document.sources[n].notCited <=> n \notin ToSet(marks) \cap Matched
              /\ document.sources[n].warned <=> Storable(Passages[n].confidence, order.deferred) < Threshold
        /\ Passages # <<>> /\ (\A k \in DOMAIN sections : Trail(sections[k]) = <<>>) =>
              Len(marks) + document.removed = Len(MarksIn(promised))
        /\ (\A k \in DOMAIN sections : sections[k].heading.marks = <<>>) =>
              \A b \in DOMAIN document.blocks : \A h \in ReservedHeadings : document.blocks[b].heading # <<h>>
        /\ \A k \in DOMAIN sections :
              MarksIn(SectionTexts(sections[k])) = <<>> /\ Substance(sections[k]) # <<>> =>
                \E end \in Ends(Last(MarksChecked(SectionBlocks(order.input[k])))) :
                    /\ ToSet(Kept(end, Leading)) = sections[k].sources \cap Leading
                    /\ Rises(end)

\* Every document the run retrieved from is listed once, and marked if it was read badly.
SourcesListed(lines) ==
    /\ {lines[i].doc : i \in DOMAIN lines} = {Passages[n].doc : n \in DOMAIN Passages}
    /\ \A i, j \in DOMAIN lines : lines[i].doc = lines[j].doc => i = j
    /\ \A i \in DOMAIN lines : lines[i].warned <=> WarnedOf(lines[i].doc)

\* Every bullet is on one slide, in order, no more than fit, the footnote with the
\* last; the rows that are not shown are counted on the slide; and every document
\* the run retrieved from is on a sources slide once.
DeckHolds ==
    /\ \A k \in DOMAIN order.input :
          LET e == order.input[k]
              own == document.slides[k]
              lists == SubSeq(own, 1, Len(own) - (IF e.rows = <<>> THEN 0 ELSE 1))
          IN  /\ FlattenSeq([p \in DOMAIN lists |-> lists[p].shows]) = e.bullets
              /\ \A p \in DOMAIN lists : Len(lists[p].shows) <= MaxBullets
              /\ own # <<>> /\ Last(own).foot = e.footnote
              /\ e.rows # <<>> =>
                    /\ Last(own).shows = SubSeq(e.rows, 1, Len(Last(own).shows))
                    /\ Len(Last(own).shows) + Last(own).omitted = Len(e.rows)
    /\ SourcesListed(FlattenSeq(document.sources))
    /\ \A p \in DOMAIN document.sources : Len(document.sources[p]) <= SourcesPerSlide

\* A reading is in the column of its header and a formula in its own, over the
\* readings of its own row, wherever the rows fit the headers; no note is over a
\* reading; a chart covers the readings of the columns it names; and the sources are
\* listed.
BookHolds ==
    LET b == order.input
        width == Len(b.headers)
    IN  /\ \A r \in DOMAIN b.rows : Len(b.rows[r]) = width =>
              /\ \A c \in 1..width : document.cells[<<r + 1, c>>] = <<"value", b.rows[r][c]>>
              /\ \A f \in DOMAIN b.formulas :
                    document.cells[<<r + 1, width + f>>] =
                        <<"formula", {<<column, r + 1>> : column \in b.formulas[f][2]}>>
        /\ \A n \in DOMAIN document.notes : \A at \in DOMAIN document.cells :
              document.notes[n] > at[1]
        /\ \A i \in DOMAIN document.chart :
              /\ document.columns[document.chart[i].column] = b.chart[i]
              /\ {at[1] : at \in DOMAIN document.cells} = document.chart[i].first..document.chart[i].last
        /\ SourcesListed(document.sources)

\* A document can be checked by the person it is passed on to: it holds what was asked
\* to be in it, the marks in its text lead to the sources listed in it, and what was
\* left out or read badly is said in it; a report and a deck warn of what was read
\* badly before all else (_to_docx_spec, _validate_markers, _provenance_page, _bullets,
\* _table, _provenance_slides, XlsxBuilder.build).  ReportHolds says where not.
DocumentsCanBeChecked ==
    /\ document.kind = order.kind
    /\ document.kind \in {"docx", "pptx"} => (document.warned <=>
          \E n \in DOMAIN Passages : WarnedOf(Passages[n].doc))
    /\ document.kind = "docx" => ReportHolds
    /\ document.kind = "pptx" => DeckHolds
    /\ document.kind = "xlsx" => BookHolds
=============================================================================
