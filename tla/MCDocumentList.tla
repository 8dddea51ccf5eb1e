--------------------------- MODULE MCDocumentList ---------------------------
EXTENDS DocumentList

(* The list of documents alone. *)
ListAlone == route = "documents" /\ ListSpec
=============================================================================
