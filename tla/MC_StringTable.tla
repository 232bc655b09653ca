--------------------------- MODULE MC_StringTable ---------------------------
(* Model-checking instance of StringTable: three strings callers intern. *)
EXTENDS StringTable

MCStrings == {"", "a", "b"}
=============================================================================
