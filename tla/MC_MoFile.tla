------------------------------ MODULE MC_MoFile ------------------------------
(* Model-checking instance of MoFile: bytes of base 4, catalogues of up to *)
(* two string pairs in either byte order, cut short by 0 to 30 bytes.     *)
EXTENDS MoFile

MC_Strings == {<<>>, <<1>>, <<2, 3>>}

MC_Pairs == UNION {[1..n -> MC_Strings] : n \in 0..2}

(* Catalogues a host reads: both byte orders, whole or cut short. *)
MC_Catalogs ==
    {[order |-> o, orig |-> p[1], trans |-> p[2], cut |-> c, lie |-> FALSE] :
        o \in {"LE", "BE"},
        p \in {q \in MC_Pairs \X MC_Pairs : Len(q[1]) = Len(q[2])},
        c \in {0, 1, 3, 30}}

(* A catalogue whose first entry claims a length of 2^32 - 1. *)
MC_Crafted ==
    {[order |-> "LE", orig |-> <<<<1>>>>, trans |-> <<<<2, 3>>>>, cut |-> 0,
      lie |-> TRUE]}
=============================================================================
