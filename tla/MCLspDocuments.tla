--------------------------- MODULE MCLspDocuments ---------------------------
(* Two documents that may import each other, and two handlers at a time. *)
EXTENDS LspDocuments
=============================================================================
