--------------------------- MODULE MCHistoryIndex ---------------------------
(* Nothing but the module: its constants are numbers. *)
EXTENDS HistoryIndex
=============================================================================
