----------------------------- MODULE UnicodeScan -----------------------------

(***************************************************************************)
(* The reading loop of validate_file() (src/lib/inspect_unicode.c 520-684) *)
(* on one text file: u_fgetcx() delivers code points, each stored into the *)
(* UChar buffer 'line' until a line end; a CR eats a following LF and      *)
(* otherwise puts the character back with u_fungetc(); the NUL-terminated  *)
(* line is then searched with u_strchr() for each forbidden value.         *)
(*                                                                         *)
(* The file is a sequence of code points.  'buf' is ICU's read buffer: it *)
(* starts as the file and u_fungetc() writes the pushed-back character    *)
(* into the cell before the read position, as ICU does.                   *)
(***************************************************************************)
EXTENDS Integers, Sequences, SequencesExt

CONSTANTS
    Alphabet,             \* the code points a file may contain
    MaxLen,               \* bound on the length of the file
    ForbiddenCodepoints,  \* unicode_forbidden_codepoints, in configuration order:
                          \* each entry is a hex string, or has no hex digits,
                          \* or is out of the range of unsigned long
    BufSize,              \* the initial buffer size (BUFSIZ)
    ReallocMayFail        \* reallocarray() may fail

ASSUME MaxLen \in Nat /\ BufSize \in Nat \ {0} /\ ReallocMayFail \in BOOLEAN

LF == 10
CR == 13
NEL == 133
LS == 8232
PS == 8233
U_EOF == 65535

(* A UChar32 stored into a UChar keeps its low 16 bits. *)
ToUChar(c) == c % 65536

(* end_of_line() (390-397): LF, VT, FF, CR, NEL, LS and PS. *)
EndOfLine(u) == (u >= 10 /\ u <= 13) \/ u \in {NEL, LS, PS}

(* A configuration entry: its hex value, no hex digits, or too large. *)
Hex(n) == [kind |-> "hex", val |-> n]
NoDigits == [kind |-> "nodigits", val |-> 0]
TooLarge == [kind |-> "toolarge", val |-> 0]

(* strtoul(s, NULL, 16) (811-812): no digits give 0 and leave errno 0;   *)
(* only an overflow sets ERANGE, and the entry is then skipped (814-818). *)
Strtoul(e) == IF e.kind = "hex" THEN e.val ELSE 0
StrtoulFails(e) == e.kind = "toolarge"

(* The forbidden list as inspect_unicode() builds it (801-821): each      *)
(* converted value, stored as a UChar.                                    *)
Forbidden ==
    LET kept == SelectSeq(ForbiddenCodepoints, LAMBDA e : ~StrtoulFails(e)) IN
    [n \in DOMAIN kept |-> ToUChar(Strtoul(kept[n]))]

VARIABLES
    text,      \* the file
    buf,       \* ICU's buffer over the file
    pos,       \* the read position in buf
    line,      \* line[0..i]: the UChars stored for the current line
    i,
    sz,        \* the allocated size of 'line', in UChars
    linenum,
    findings,  \* the results reported, in order
    pc

vars == <<text, buf, pos, line, i, sz, linenum, findings, pc>>

Finding == [line : Nat, col : Nat, cp : Nat]

TypeOK ==
    /\ text \in Seq(Alphabet) /\ buf \in Seq(Nat)
    /\ pos \in 1..(Len(buf) + 1)
    /\ line \in Seq(0..65535) /\ Len(line) \in {i, i + 1}
    /\ sz \in {BufSize * 2^k : k \in 0..MaxLen}
    /\ linenum \in 1..(MaxLen + 2)
    /\ findings \in Seq(Finding)
    /\ pc \in {"read", "body", "eol", "done", "failed"}

Init ==
    /\ text \in SeqOf(Alphabet, MaxLen)
    /\ buf = text /\ pos = 1
    /\ line = <<>> /\ i = 0 /\ sz = BufSize
    /\ linenum = 1 /\ findings = <<>>
    /\ pc = "read"

-----------------------------------------------------------------------------
(* u_fgetcx(): the next code point, or U_EOF at the end of the file. *)
Fgetcx == IF pos <= Len(buf) THEN buf[pos] ELSE U_EOF
AfterFgetcx == IF pos <= Len(buf) THEN pos + 1 ELSE pos

(* u_strchr() on the NUL-terminated string s: the 0-based index of the   *)
(* first u, the index of the terminator for u = 0, or -1.                 *)
UStrlen(s) == LET z == SelectInSeq(s, LAMBDA x : x = 0) IN
              IF z = 0 THEN Len(s) ELSE z - 1
UStrchr(s, u) ==
    IF u = 0 THEN UStrlen(s)
    ELSE SelectInSubSeq(s, 1, UStrlen(s), LAMBDA x : x = u) - 1

(* The results for line s, one per forbidden value it holds (558-675). *)
LineFindings(s, n) ==
    LET hits == SelectSeq(Forbidden, LAMBDA u : UStrchr(s, u) >= 0) IN
    [k \in 1..Len(hits) |-> [line |-> n, col |-> UStrchr(s, hits[k]),
                             cp |-> hits[k]]]

(* Mutant: the code point is stored without narrowing to a UChar. *)
ReadUnitUntruncated ==
    /\ pc = "read"
    /\ line' = Append(line, Fgetcx)
    /\ pc' = IF Fgetcx = U_EOF \/ EndOfLine(Fgetcx) THEN "eol" ELSE "body"
    /\ pos' = AfterFgetcx
    /\ UNCHANGED <<text, buf, i, sz, linenum, findings>>

(***************************************************************************)
(* The condition of the inner for loop (526): the character is stored at *)
(* line[i] before anything checks i against sz.                           *)
(***************************************************************************)
ReadUnit ==
    /\ pc = "read"
    /\ LET u == ToUChar(Fgetcx) IN
         /\ line' = Append(line, u)
         /\ pc' = IF u = U_EOF \/ EndOfLine(u) THEN "eol" ELSE "body"
    /\ pos' = AfterFgetcx
    /\ UNCHANGED <<text, buf, i, sz, linenum, findings>>

(* The loop body (527-546) and the i++. *)
Grow ==
    /\ pc = "body"
    /\ IF i >= sz
          THEN \/ sz' = sz * 2 /\ i' = i + 1 /\ pc' = "read"
               \/ ReallocMayFail /\ pc' = "failed" /\ UNCHANGED <<sz, i>>
          ELSE sz' = sz /\ i' = i + 1 /\ pc' = "read"
    /\ UNCHANGED <<text, buf, pos, line, linenum, findings>>

(* Mutant: a CR never eats the LF after it. *)
EndLineNoCRLF ==
    /\ pc = "eol"
    /\ findings' = findings \o LineFindings(SubSeq(line, 1, i), linenum)
    /\ pc' = IF pos > Len(buf) THEN "done" ELSE "read"
    /\ linenum' = linenum + 1
    /\ line' = <<>> /\ i' = 0
    /\ UNCHANGED <<text, sz, buf, pos>>
(* Mutant: the line counter is not advanced after a line. *)
EndLineNoLinenum ==
    /\ pc = "eol"
    /\ LET eatCR == line[i + 1] = CR
           c     == ToUChar(Fgetcx)
           p1    == AfterFgetcx
           unget == eatCR /\ c # LF
           pos2  == IF ~eatCR THEN pos ELSE IF unget THEN p1 - 1 ELSE p1
           buf2  == IF unget THEN [buf EXCEPT ![p1 - 1] = c] ELSE buf
       IN /\ buf' = buf2 /\ pos' = pos2
          /\ findings' = findings \o LineFindings(SubSeq(line, 1, i), linenum)
          /\ pc' = IF pos2 > Len(buf2) THEN "done" ELSE "read"
    /\ line' = <<>> /\ i' = 0
    /\ UNCHANGED <<text, sz, linenum>>

(***************************************************************************)
(* The end of one line (549-679) and the test of the while loop (524): a *)
(* CR reads one more character and pushes it back unless it is LF; the    *)
(* line is cut at i and searched; the loop goes on unless u_feof().       *)
(***************************************************************************)
EndLine ==
    /\ pc = "eol"
    /\ LET eatCR == line[i + 1] = CR
           c     == ToUChar(Fgetcx)
           p1    == AfterFgetcx
           unget == eatCR /\ c # LF
           pos2  == IF ~eatCR THEN pos ELSE IF unget THEN p1 - 1 ELSE p1
           buf2  == IF unget THEN [buf EXCEPT ![p1 - 1] = c] ELSE buf
       IN /\ buf' = buf2 /\ pos' = pos2
          /\ findings' = findings \o LineFindings(SubSeq(line, 1, i), linenum)
          /\ pc' = IF pos2 > Len(buf2) THEN "done" ELSE "read"
    /\ linenum' = linenum + 1
    /\ line' = <<>> /\ i' = 0
    /\ UNCHANGED <<text, sz>>

(* validate_file() has returned. *)
Returned ==
    /\ pc \in {"done", "failed"}
    /\ UNCHANGED vars

Next == ReadUnit \/ Grow \/ EndLine \/ Returned

Spec == Init /\ [][Next]_vars /\ WF_vars(Next)

-----------------------------------------------------------------------------
(* The configured code points: the entries that are hex values. *)
SpecCodepoints ==
    LET valid == SelectSeq(ForbiddenCodepoints, LAMBDA e : e.kind = "hex") IN
    [m \in DOMAIN valid |-> valid[m].val]

(* The spec's line splitting and search (4.4), from LineScanner. *)
Ref == INSTANCE LineScanner
         WITH Codepoints <- SpecCodepoints, n <- 0, failed <- FALSE
SpecFindings(t) == Ref!AllFindings(t)

(***************************************************************************)
(* The spec's scanner seen through the reading loop: a line is reported  *)
(* when EndLine searches it; the empty line the loop makes of a pushed-  *)
(* back U_EOF after a final CR reports nothing and is not counted; a     *)
(* failed reallocarray() is the scan giving up.                          *)
(***************************************************************************)
LinesReported ==
    LET total == Len(Ref!Lines(text)) IN
    IF linenum - 1 > total THEN total ELSE linenum - 1

Scanner == INSTANCE LineScanner
             WITH Codepoints <- SpecCodepoints, n <- LinesReported,
                  failed <- (pc = "failed")

(***************************************************************************)
(* validate_file() implements the safety part of the spec's scanner:     *)
(* findings change only when a whole line has been read, by exactly that *)
(* line's findings and with the next line number; the scan stops early  *)
(* only by a failed reallocation, and never once it has failed.          *)
(***************************************************************************)
LineScannerSpec == Scanner!SafetySpec

(***************************************************************************)
(* The findings validate_file() reports are, at every point, a prefix of *)
(* those the spec's line splitting and search give for the file, and all *)
(* of them once the whole file has been read: same lines, columns and    *)
(* order.                                                                 *)
(***************************************************************************)
FindingsFollowSpec ==
    IF pc = "done" THEN findings = SpecFindings(text)
    ELSE IsPrefix(findings, SpecFindings(text))

(***************************************************************************)
(* Every store into line[i] (526) is inside the allocated buffer: the    *)
(* loop never reads a character with i >= sz.                            *)
(***************************************************************************)
NoBufferOverrun == pc = "read" => i < sz

=============================================================================
