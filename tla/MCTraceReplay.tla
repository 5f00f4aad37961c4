--------------------------- MODULE MCTraceReplay ---------------------------
(* Two sessions of two turns in the same rows: long enough for a second      *)
(* session to overwrite a turn of the first, and for a turn of two calls.    *)
EXTENDS TraceReplay
=============================================================================
