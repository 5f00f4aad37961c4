--------------------------- MODULE MCEventBacklog ---------------------------
(* Two edits and a new case; a batch takes two events and the worker looks at
   the two newest records, so that batches overlap, come back and leave an
   event behind. *)
EXTENDS EventBacklog

CONSTANTS e1, e2, e3

MCEdits == {e1, e2}
MCEvents == {e1, e2, e3}
=============================================================================
