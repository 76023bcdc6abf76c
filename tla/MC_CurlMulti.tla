--------------------------- MODULE MC_CurlMulti ---------------------------
(* Model-checking instance of CurlMulti: three jobs, every environment    *)
(* failure enabled or disabled per configuration.                         *)
EXTENDS CurlMulti
=============================================================================
