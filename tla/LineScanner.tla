----------------------------- MODULE LineScanner -----------------------------
(***************************************************************************)
(* What the forbidden-code-point scanner promises (spec 4.4), with no     *)
(* ICU, buffers or look-ahead in it: the file is a sequence of scalar    *)
(* values split into lines at LF, CR LF, CR, NEL, LS and PS; the lines   *)
(* are reported one at a time, in order, each with one finding per       *)
(* configured value it holds, at the 0-based offset of its first         *)
(* occurrence.  The scan may give up (memory exhaustion) before a line   *)
(* is reported, and otherwise goes on until every line is.  UnicodeScan  *)
(* is shown to implement this specification.                             *)
(***************************************************************************)
EXTENDS Integers, Sequences, SequencesExt

CONSTANTS
    Alphabet,    \* the scalar values a file may contain
    MaxLen,      \* bound on the length of the file
    Codepoints   \* the configured forbidden values, in configuration order

VARIABLES
    text,        \* the file
    n,           \* the lines reported so far
    findings,    \* the findings reported, in order
    failed       \* the scan gave up

vars == <<text, n, findings, failed>>

LineEnds == {10, 13, 133, 8232, 8233}

(* The lines of t; cur is the line being collected. *)
RECURSIVE SplitLines(_, _)
SplitLines(t, cur) ==
    IF t = <<>> THEN IF cur = <<>> THEN <<>> ELSE <<cur>>
    ELSE IF Head(t) = 13 /\ Len(t) > 1 /\ t[2] = 10
            THEN <<cur>> \o SplitLines(Tail(Tail(t)), <<>>)
    ELSE IF Head(t) \in LineEnds
            THEN <<cur>> \o SplitLines(Tail(t), <<>>)
    ELSE SplitLines(Tail(t), Append(cur, Head(t)))

Lines(t) == SplitLines(t, <<>>)

(* The 0-based offset of the first u in s, or -1. *)
Offset(s, u) == SelectInSeq(s, LAMBDA x : x = u) - 1

(* The findings of line s, the m-th of the file. *)
LineFindings(s, m) ==
    LET hits == SelectSeq(Codepoints, LAMBDA u : Offset(s, u) >= 0) IN
    [j \in 1..Len(hits) |-> [line |-> m, col |-> Offset(s, hits[j]), cp |-> hits[j]]]

(* The findings of the whole file t. *)
AllFindings(t) ==
    LET ls == Lines(t) IN
    FlattenSeq([m \in 1..Len(ls) |-> LineFindings(ls[m], m)])

Init ==
    /\ text \in SeqOf(Alphabet, MaxLen)
    /\ n = 0 /\ findings = <<>> /\ failed = FALSE

(* The next line is reported. *)
ReportLine ==
    /\ ~failed /\ n < Len(Lines(text))
    /\ findings' = findings \o LineFindings(Lines(text)[n + 1], n + 1)
    /\ n' = n + 1
    /\ UNCHANGED <<text, failed>>

(* The scan gives up while a line is still to be reported. *)
GiveUp ==
    /\ ~failed /\ n < Len(Lines(text))
    /\ failed' = TRUE
    /\ UNCHANGED <<text, n, findings>>

Next == ReportLine \/ GiveUp

(* The order and content of what is reported. *)
SafetySpec == Init /\ [][Next]_vars

(* Unless it gives up, the scan reports every line. *)
Spec == SafetySpec /\ WF_vars(Next)

=============================================================================
