--------------------------- MODULE MCSourceIndex ----------------------------
(* Finite instances of SourceIndex for TLC.                                *)
EXTENDS SourceIndex

Files == <<"a", "x", "b">>

\* File a may change between two attempts; both files share their passages.
FileTexts == [f \in {"a", "x", "b"} |->
  CASE f = "a" -> {<<1, 2>>, <<2, 1>>} [] f = "b" -> {<<2, 3>>} [] OTHER -> {}]
=============================================================================
