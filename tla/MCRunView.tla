----------------------------- MODULE MCRunView -----------------------------
(* Bounds for RunView: a run with what a run may show, and one that breaks. *)
EXTENDS RunView

CONSTANTS run1, run2

TheRuns == {run1, run2}

Happens(kind, what) == [kind |-> kind, what |-> what]

Full == <<Happens("started", "x"), Happens("approval", "pending"), Happens("token", "x"),
          Happens("answer", {[passage |-> "c", within |-> "section"]}), Happens("finished", "succeeded")>>

BrokenOff == <<Happens("started", "x"), Happens("broken", "x")>>

TheScripts == [r \in Runs |-> IF r = run1 THEN {Full} ELSE {BrokenOff}]
=============================================================================
