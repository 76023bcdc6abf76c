------------------------- MODULE MC_UnicodeDriver -------------------------
(* One SRPM: the spec file, a source tarball and a text source. *)
EXTENDS UnicodeDriver
CONSTANTS spec, tar, txt
MC_SourceList == <<tar, txt>>
MC_TextSources == {txt}
=============================================================================
