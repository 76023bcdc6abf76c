---------------------------- MODULE MC_UnicodeScan ----------------------------
(* Code points for the model runs of UnicodeScan. *)
EXTENDS UnicodeScan

X == 120        \* 'x', an ordinary character
NUL == 0
VT == 11        \* LINE TABULATION
RLO == 8238     \* U+202E RIGHT-TO-LEFT OVERRIDE
LRI == 8294     \* U+2066 LEFT-TO-RIGHT ISOLATE
EMOJI == 128512 \* U+1F600, stored as the UChar 0xF600
TAGRLO == 73774 \* U+1202E, stored as the UChar 0x202E

(* Line ends of the spec and ordinary characters, one outside the BMP. *)
MC_Clean == {X, RLO, LRI, LF, CR, NEL, LS, EMOJI}
(* With VERTICAL TAB, which end_of_line() also takes for a line end. *)
MC_WithVT == {X, RLO, VT, LF}
(* With NUL, which ends the string u_strchr() searches. *)
MC_WithNUL == {X, RLO, NUL}
(* With a supplementary code point whose low 16 bits are U+202E. *)
MC_WithSupplementary == {X, RLO, TAGRLO}
MC_Forbidden == <<Hex(RLO), TooLarge, Hex(LRI)>>
MC_ForbiddenRLO == <<Hex(RLO)>>
=============================================================================
