------------------------------ MODULE MCImporter ------------------------------
(* Instances of Importer for TLC.                                          *)
EXTENDS Importer

MCAsks == {0, 1}
MCNoAsks == {0}
MCNoVersion(req) == {0}
MCUnit == {1}
MCTalk == {"prompt", "assistant", "result"}
MCReal == {FALSE}
\* Bounds: a failure or a restart, not both (a start whose positions cannot be read is
\* neither); and, where three rows are read, no failure but that of a turn or a call.
OneTrouble == failures + panics + crashes <= 1
RefusedRows == /\ failures = Cardinality(db.refused)
               /\ \A t \in db.refused : t.what \in {"turn", "tool"}
=============================================================================
