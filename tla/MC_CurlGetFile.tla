--------------------------- MODULE MC_CurlGetFile ---------------------------
(* Model-checking instance of CurlGetFile: three terminal widths, a      *)
(* three-byte artifact, two resizes and a 16-bit size_t.                 *)
EXTENDS CurlGetFile

MC_Widths == {8, 12, 20}
=============================================================================
