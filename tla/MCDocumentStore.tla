--------------------------- MODULE MCDocumentStore ---------------------------
(* Instances of DocumentStore: three uploads of two files and two deletions.
   Uploads are interchangeable, and so are files and deletions, but symmetry is
   left out because the run checks a liveness property. *)
EXTENDS DocumentStore

CONSTANTS u1, u2, u3, d1, d2, f, g

MCUploads == {u1, u2, u3}
MCDeletes == {d1, d2}
MCFiles == {f, g}
=============================================================================
