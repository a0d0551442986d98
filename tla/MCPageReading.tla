---------------------------- MODULE MCPageReading ----------------------------
(* Files of up to four pages, one past the limit, with text layers, scans, blank
   pages and pictures, one or more of each kind the sniffer tells apart. *)
EXTENDS PageReading

Part(type, words, y) == [type |-> type, words |-> words, y |-> y]
Leaf(layer, picture, ink) == [layer |-> layer, picture |-> picture, ink |-> ink]

Native == Leaf(<<Part("paragraph", 9, 5), Part("paragraph", 0, 2), Part("heading", 4, 1)>>, FALSE, FALSE)
Stamped == Leaf(<<Part("paragraph", 3, 1)>>, FALSE, TRUE)
Scan == Leaf(<<Part("paragraph", 14, 1)>>, TRUE, TRUE)
Blank == Leaf(<<>>, FALSE, FALSE)
Picture == Leaf(<<>>, TRUE, TRUE)
Speech == Leaf(<<Part("heading", 2, 1), Part("paragraph", 5, 3), Part("notes", 6, 9)>>, FALSE, FALSE)
Prose == Leaf(<<Part("heading", 2, 1), Part("table", 8, 2), Part("paragraph", 7, 3)>>, FALSE, FALSE)
RowsOf(n) == Leaf([k \in 1..n |-> Part("row", 3, k)], FALSE, FALSE)

File(kind, hint, late, leaves) == [kind |-> kind, hint |-> hint, late |-> late, pages |-> leaves]
TheFiles == {
    File("pdf", "pdf", FALSE, <<Native, Scan, Stamped>>), File("pdf", "pdf", FALSE, <<Blank, Scan>>),
    File("pdf", "image", FALSE, <<Native>>), File("pdf", "pdf", FALSE, <<Native, Native, Native, Native>>),
    File("image", "image", FALSE, <<Picture>>),
    File("slides", "slides", FALSE, <<Speech, Picture>>), File("slides", "slides", TRUE, <<Speech>>),
    File("word", "word", FALSE, <<Prose>>), File("word", "word", FALSE, <<Blank>>),
    File("sheet", "sheet", FALSE, <<RowsOf(1), RowsOf(0), RowsOf(3)>>), File("sheet", "csv", FALSE, <<RowsOf(2)>>),
    File("sheet", "sheet", FALSE, <<RowsOf(0)>>), File("csv", "csv", FALSE, <<RowsOf(3)>>),
    File("csv", "none", FALSE, <<Prose>>), File("email", "email", FALSE, <<Prose>>), File("zip", "pdf", FALSE, <<>>)}

Spoken(words, confidence, y) == [words |-> words, confidence |-> confidence, y |-> y]
TheRecognitions == {
    [lines |-> <<>>, garbled |-> FALSE],
    [lines |-> <<Spoken(20, 90, 4), Spoken(15, 80, 2)>>, garbled |-> FALSE],
    [lines |-> <<Spoken(1, 99, 1), Spoken(34, 50, 3)>>, garbled |-> FALSE],
    [lines |-> <<Spoken(40, 95, 1)>>, garbled |-> TRUE],
    [lines |-> <<Spoken(5, 95, 1)>>, garbled |-> FALSE]}
TheTranscripts == {<<>>, <<[words |-> 12, illegible |-> FALSE], [words |-> 8, illegible |-> TRUE]>>}
=============================================================================
