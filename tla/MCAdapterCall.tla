--------------------------- MODULE MCAdapterCall ---------------------------
(* An instance of AdapterCall for TLC: every adapter and mode.             *)
EXTENDS AdapterCall

AllAdapters == {"openclaw", "pass", "fail", "timeout", "lost_response"}
=============================================================================
