----------------------------- MODULE PageReading -----------------------------
(***************************************************************************)
(* Reading one uploaded file: what it is taken for (ingest/sniff.py), what *)
(* the extractors find in it (ingest/extractors/), which pages are         *)
(* recognised and which of those are read again by the vision model        *)
(* (ingest/pipeline.py, ingest/ocr/quality.py, ingest/vision/reader.py).   *)
(*                                                                         *)
(* A file is [kind, hint, late, pages]: what it is, what its name suggests, *)
(* whether the entry that tells an Office format lies past the part that   *)
(* is looked at, and per page [layer, picture, ink]: the blocks of its     *)
(* text layer, whether a picture covers most of it, and whether the        *)
(* picture has anything to read.  A block is [type, words, y] in the file, *)
(* and gains a source, a confidence in percent and an order.  OCR lines    *)
(* and the paragraphs of the vision model are blocks too: what either may  *)
(* answer is a constant.  Both are there and switched on: without a vision *)
(* model the gate is not asked, and nothing is said of it.                 *)
(***************************************************************************)
EXTENDS Integers, Sequences, SequencesExt, FiniteSets, FiniteSetsExt, Lists

CONSTANTS
    UploadedFiles,
    Recognitions,       \* [lines, garbled]: lines of [words, confidence, y]
    Transcripts,        \* sequences of paragraphs, [words, illegible]
    MinNative,          \* MIN_WORDS_FOR_NATIVE
    MinWords,           \* min_words_per_page
    SampleRows,         \* SAMPLE_ROWS of a sheet
    MaxPages            \* max_pages

ASSUME FilesAreRead ==
    \A u \in UploadedFiles :
        /\ u.pages \in Seq(ToSet(u.pages))
        /\ u.kind \in {"word", "csv", "text", "email"} => u.pages # <<>>
        /\ \A p \in ToSet(u.pages) :
             /\ p.layer \in Seq(ToSet(p.layer))
             /\ \A b \in ToSet(p.layer) :
                  /\ b = [type |-> b.type, words |-> b.words, y |-> b.y]
                  /\ b.words \in Nat /\ b.y \in Int

ASSUME ReadingsAreRead ==
    /\ \A r \in Recognitions :
        /\ r.lines \in Seq(ToSet(r.lines))
        /\ \A l \in ToSet(r.lines) : l.words \in Nat /\ l.confidence \in Nat /\ l.y \in Int
    \* A paragraph without text is dropped.
    /\ \A t \in Transcripts :
        t \in Seq(ToSet(t)) /\ \A p \in ToSet(t) : p.words \in Nat \ {0}
    /\ SampleRows \in Nat /\ MinWords \in Nat \ {0}

VARIABLES
    progress,              \* "new", "extract", "ocr", "vision", "finish", "done", "refused", "failed"
    upload,
    pages,              \* per page, its blocks
    recognised,         \* page -> OCR result, for the pages that have one
    reread,             \* pages to which the vision model has added
    visited,            \* pages the running stage has been through
    warnings,
    report              \* what is recorded of the extraction

readVars == <<progress, upload, pages, recognised, reread, visited, warnings, report>>

NoFile == [kind |-> "none", hint |-> "none", late |-> FALSE, pages |-> <<>>]
NoReport == [ocr |-> 0, vlm |-> 0, degraded |-> FALSE]

ReadInit ==
    /\ progress = "new" /\ upload = NoFile /\ pages = <<>> /\ recognised = <<>>
    /\ reread = {} /\ visited = {} /\ warnings = {} /\ report = NoReport

-----------------------------------------------------------------------------
(***************************************************************************)
(* Identifying and extracting.                                             *)
(***************************************************************************)

AllowedKinds == {"pdf", "image", "word", "slides", "sheet", "csv", "text", "email"}

\* sniff: the signature decides, and of an archive the names of its entries, as far
\* as they are in the first 64 KB.  Text has none, and the name may choose its kind.
Detected(u) ==
    CASE u.kind \in {"csv", "text", "email"} -> IF u.hint \in {"csv", "email"} THEN u.hint ELSE "text"
      [] u.kind \in {"word", "slides", "sheet"} /\ u.late -> "zip"
      [] OTHER -> u.kind

Identify(u) ==
    /\ progress = "new"
    /\ upload' = u
    /\ IF Detected(u) \in AllowedKinds
       THEN /\ progress' = "extract"
            /\ warnings' = IF u.hint \notin {"none", Detected(u)} THEN {"mismatch"} ELSE {}
       ELSE progress' = "refused" /\ UNCHANGED warnings
    /\ UNCHANGED <<pages, recognised, reread, visited, report>>

\* Blocks taken from a file, in the order they are taken.
Taken(blocks, source) ==
    [i \in DOMAIN blocks |-> [type |-> blocks[i].type, words |-> blocks[i].words,
        y |-> blocks[i].y, source |-> source, confidence |-> 100, order |-> i]]

WordsOf(blocks) == Summed([i \in DOMAIN blocks |-> blocks[i].words])

\* Those that hold a text, and those of one type.
Filled(blocks) == Kept(blocks, {b \in ToSet(blocks) : b.words > 0})

OfType(blocks, type) == Kept(blocks, {b \in ToSet(blocks) : b.type = type})

AllBut(blocks, type) == Kept(blocks, {b \in ToSet(blocks) : b.type # type})

\* PdfExtractor._text_blocks: a page is native if it has words enough and is not a
\* picture; of any other nothing is kept.
PdfPage(p) ==
    IF WordsOf(p.layer) >= MinNative /\ ~p.picture
    THEN Taken(Filled(p.layer), "native") ELSE <<>>

\* Blocks that have no place on their page take all of it.
Unplaced(blocks) == [i \in DOMAIN blocks |-> [blocks[i] EXCEPT !.y = 0]]

\* DocxExtractor: one page, the paragraphs and then the tables.
WordPage(p) ==
    LET kept == Filled(p.layer)
    IN  Taken(Unplaced(AllBut(kept, "table") \o OfType(kept, "table")), "office")

\* PptxExtractor: shapes where they are, and the speaker's notes without a place.
SlidePage(p) ==
    LET kept == Filled(p.layer)
    IN  Taken(AllBut(kept, "notes") \o Unplaced(OfType(kept, "notes")), "office")

\* SpreadsheetExtractor: a sample of the rows, and a note that it is one.
SheetPage(p) ==
    LET rows == Len(p.layer)
        sample == SubSeq(p.layer, 1, Min({SampleRows, rows}))
        Part(type, words) == [type |-> type, words |-> words, y |-> 0]
    IN  Taken(<<Part("heading", 1), Part("table", WordsOf(sample) + 1)>>
              \o (IF rows > SampleRows THEN <<Part("sampled", 1)>> ELSE <<>>), "office")

\* TextExtractor.  An email is not taken apart: a stored file has no suffix to tell
\* it by.
TextPage(p) == Taken(Unplaced(Filled(p.layer)), "native")

\* _extractor_for
Extracted(u) ==
    LET kind == Detected(u) IN
    CASE kind = "pdf" -> [i \in DOMAIN u.pages |-> PdfPage(u.pages[i])]
      [] kind = "image" -> <<(<<>>)>>
      [] kind = "word" -> <<WordPage(u.pages[1])>>
      [] kind = "slides" -> [i \in DOMAIN u.pages |-> SlidePage(u.pages[i])]
      [] kind \in {"sheet", "csv"} ->
            LET filled == Kept(u.pages, {p \in ToSet(u.pages) : p.layer # <<>>})
            IN  [i \in DOMAIN filled |-> SheetPage(filled[i])]
      [] OTHER -> <<TextPage(u.pages[1])>>

\* The name decides how a sheet is read: a workbook named .csv cannot be.
Readable(u) == ~(Detected(u) = "sheet" /\ u.hint = "csv")

Extract ==
    /\ progress = "extract"
    /\ LET found == Extracted(upload) IN
       \/ /\ Readable(upload) /\ Len(found) <= MaxPages
          /\ pages' = found
          /\ progress' = IF found = <<>> THEN "finish" ELSE "ocr"
       \* The file is damaged, mislabelled or too long.
       \/ progress' = "failed" /\ UNCHANGED pages
    /\ UNCHANGED <<upload, recognised, reread, visited, warnings, report>>

-----------------------------------------------------------------------------
(***************************************************************************)
(* Recognition (_run_ocr), page by page.                                   *)
(***************************************************************************)

\* page_needs_ocr
NeedsOcr(i) == WordsOf(pages[i]) = 0

\* _page_image: only PDFs and images can be pictured.
Pictured == Detected(upload) \in {"pdf", "image"}

PageNow == Min(DOMAIN pages \ visited)

\* On to the next page, or to the next stage.
PageDone(next) ==
    IF visited \cup {PageNow} = DOMAIN pages
    THEN visited' = {} /\ progress' = next
    ELSE visited' = visited \cup {PageNow} /\ UNCHANGED progress

\* The lines of the engine, each with its confidence.
LineBlocks(result) ==
    [k \in DOMAIN result.lines |->
        [type |-> "paragraph", words |-> result.lines[k].words, y |-> result.lines[k].y,
         source |-> "ocr", confidence |-> result.lines[k].confidence, order |-> k]]

Recognise ==
    /\ progress = "ocr" /\ NeedsOcr(PageNow) /\ Pictured
    /\ \E result \in Recognitions :
          /\ recognised' = [k \in DOMAIN recognised \cup {PageNow} |->
                               IF k = PageNow THEN result ELSE recognised[k]]
          /\ pages' = [pages EXCEPT ![PageNow] = LineBlocks(result)]
    /\ PageDone("vision")
    /\ UNCHANGED <<upload, reread, warnings, report>>

\* The page has text, or it cannot be pictured, or something on the way raises.
PassOver ==
    /\ progress = "ocr"
    /\ PageDone("vision")
    /\ UNCHANGED <<upload, pages, recognised, reread, warnings, report>>

-----------------------------------------------------------------------------
(***************************************************************************)
(* The quality gate and the second reading (_run_vision).                  *)
(***************************************************************************)

NoResultYet == [lines |-> <<>>, garbled |-> FALSE]

\* Word-weighted; compared without dividing.
Surer(blocks, percent) ==
    Summed([i \in DOMAIN blocks |-> blocks[i].words * blocks[i].confidence])
        >= percent * WordsOf(blocks)

\* assess: a page nothing was read from is blank unless it was recognised as empty.
Rejected(i) ==
    LET result == IF i \in DOMAIN recognised THEN recognised[i] ELSE NoResultYet
        blank == WordsOf(pages[i]) = 0 /\ i \notin DOMAIN recognised
        words == WordsOf(result.lines)
    IN  /\ ~(blank /\ words = 0)
        /\ words < MinWords \/ ~Surer(result.lines, 72) \/ result.garbled

\* A fault: a page with a text layer, for which there is no result, is judged too.
EscalatesUnrecognised(i) == Rejected(i)

\* A page with a text layer was never recognised and is not judged.
Escalates(i) == (i \in DOMAIN recognised \/ WordsOf(pages[i]) = 0) /\ Rejected(i)

\* transcribe_page: never taken for exact, and less so where it says so itself.
Transcribed(paragraphs) ==
    [k \in DOMAIN paragraphs |->
        [type |-> "paragraph", words |-> paragraphs[k].words, y |-> 0, source |-> "vlm",
         confidence |-> IF paragraphs[k].illegible THEN 52 ELSE 75, order |-> k]]

\* Added to what was recognised, whose lines say where on the page they are.
MergedWith(blocks, added) ==
    IF WordsOf(blocks) = 0 THEN added
    ELSE blocks \o [k \in DOMAIN added |-> [added[k] EXCEPT !.order = Len(blocks) + k]]

Reread ==
    /\ progress = "vision" /\ Escalates(PageNow)
    /\ \E paragraphs \in Transcripts \ {<<>>} :
          pages' = [pages EXCEPT ![PageNow] = MergedWith(@, Transcribed(paragraphs))]
    /\ reread' = reread \cup {PageNow}
    /\ PageDone("finish")
    /\ UNCHANGED <<upload, recognised, warnings, report>>

\* The model cannot be reached, or answers nothing.
RereadFails ==
    /\ progress = "vision" /\ Escalates(PageNow)
    /\ warnings' = warnings \cup {"vision"}
    /\ PageDone("finish")
    /\ UNCHANGED <<upload, pages, recognised, reread, report>>

\* The page cannot be pictured again: this one is not caught.
PictureFails ==
    /\ progress = "vision" /\ Escalates(PageNow)
    /\ progress' = "failed"
    /\ UNCHANGED <<upload, pages, recognised, reread, visited, warnings, report>>

Accepted ==
    /\ progress = "vision" /\ ~Escalates(PageNow)
    /\ PageDone("finish")
    /\ UNCHANGED <<upload, pages, recognised, reread, warnings, report>>

-----------------------------------------------------------------------------
Precedes(a, b) == a.y < b.y \/ (a.y = b.y /\ a.order < b.order)

\* _normalise: empty blocks go, and the others are put in reading order.
Normalised(blocks) ==
    LET kept == Filled(blocks)
        AtMost == {p \in (DOMAIN kept) \X (DOMAIN kept) :
            \/ Precedes(kept[p[1]], kept[p[2]])
            \/ ~Precedes(kept[p[2]], kept[p[1]]) /\ p[1] <= p[2]}
    IN  [n \in DOMAIN kept |-> [kept[InPlace(n, DOMAIN kept, AtMost)] EXCEPT !.order = n]]

\* The rest of run: what the report says.
Finish ==
    /\ progress = "finish"
    /\ pages' = [i \in DOMAIN pages |-> Normalised(pages[i])]
    /\ report' = [ocr |-> Cardinality(DOMAIN recognised), vlm |-> Cardinality(reread),
                  degraded |-> \/ warnings # {}
                               \/ ~Surer(FlattenSeq([i \in DOMAIN pages |-> pages'[i]]), 60)]
    /\ progress' = "done"
    /\ UNCHANGED <<upload, recognised, reread, visited, warnings>>

ReadNext ==
    \/ \E u \in UploadedFiles : Identify(u)
    \/ Extract \/ Recognise \/ PassOver
    \/ Reread \/ RereadFails \/ PictureFails \/ Accepted \/ Finish

ReadSpec == ReadInit /\ [][ReadNext]_readVars

-----------------------------------------------------------------------------
(***************************************************************************)
(* Properties.                                                             *)
(***************************************************************************)

\* What a file holds as text, page by page, in its own order; of a sheet a sample.
TextLayer(i) == Normalised(Extracted(upload)[i])

From(i, source) == Kept(pages[i], {b \in ToSet(pages[i]) : b.source = source})
Plain(blocks) == [k \in DOMAIN blocks |-> <<blocks[k].words, blocks[k].y, blocks[k].confidence>>]

\* On any of the gate's grounds: nothing was read, or too little, or it is not sure, or
\* it is no text.
Suspect(result) ==
    \/ WordsOf(result.lines) = 0 \/ WordsOf(result.lines) < MinWords
    \/ ~Surer(result.lines, 72) \/ result.garbled

\* However a page was read, its text says where it came from and how surely it was
\* read.  A text layer is kept as it is, and nobody reads that page again; a page
\* read again still has every line that was recognised on it, with its place; no
\* text of a vision model passes for exact; a page that was recognised, on whichever of
\* the gate's grounds its result is suspect, was read again or the report says that
\* the document is degraded, and no other page is read again; and the report counts
\* the pages that were (_text_blocks, _run_ocr, _run_vision, assess, _normalise).
\* That holds of a page that really is blank too: assess means it to be left alone
\* (quality.py:64), and _run_vision says of no page that was recognised that it is
\* blank, so it is read again.
PagesSayHowTheyWereRead ==
    progress = "done" => \A i \in DOMAIN pages :
        /\ TextLayer(i) # <<>> => pages[i] = TextLayer(i) /\ i \notin DOMAIN recognised \cup reread
        /\ TextLayer(i) = <<>> => \A k \in DOMAIN pages[i] : pages[i][k].source \in {"ocr", "vlm"}
        /\ i \in DOMAIN recognised =>
              /\ ToSet(Plain(From(i, "ocr"))) =
                    ToSet(Plain(Filled(LineBlocks(recognised[i]))))
              /\ (i \in reread) <=> From(i, "vlm") # <<>>
              /\ Suspect(recognised[i]) => i \in reread \/ report.degraded
        /\ i \in reread => i \in DOMAIN recognised /\ Suspect(recognised[i])
        /\ \A k \in DOMAIN pages[i] :
              /\ pages[i][k].source = "vlm" => pages[i][k].confidence <= 75
              /\ pages[i][k].order = k
              /\ k > 1 => pages[i][k - 1].y <= pages[i][k].y
        /\ report.ocr = Cardinality({j \in DOMAIN pages : j \in DOMAIN recognised})
        /\ report.vlm = Cardinality({j \in DOMAIN pages : From(j, "vlm") # <<>>})

\* A document with a page that has something to read, and of which nothing was read,
\* is reported as degraded: ExtractionReport.degraded is "set when the pipeline
\* finished but the result is not trustworthy" (core/ir.py).
UnreadIsReported ==
    progress = "done" /\ Detected(upload) \in {"pdf", "image", "slides"} =>
        \A i \in DOMAIN pages :
            upload.pages[i].ink /\ pages[i] = <<>> => report.degraded
=============================================================================
