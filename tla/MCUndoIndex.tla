----------------------------- MODULE MCUndoIndex -----------------------------
(* A table with three ids, two keys and two values, three nested sessions.  *)
EXTENDS UndoIndex
=============================================================================
