--------------------------- MODULE MCRuntimeModes ---------------------------
(* The run-mode controller as config/app.ini ships it: full, ingest_only     *)
(* after the end of the day.                                                 *)
EXTENDS RuntimeModes
=============================================================================
