---------------------------- MODULE MCLspPrewarm ----------------------------
(* Two processes or server tasks share one domain of the cache. *)
EXTENDS LspPrewarm
=============================================================================
