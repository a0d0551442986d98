----------------------------- MODULE MCRunStream -----------------------------
(* Bounds for RunStream are given in the .cfg files: a queue of two frames, so
   that it fills, and a few frames more than fit in it. *)
EXTENDS RunStream
=============================================================================
