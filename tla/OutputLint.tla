------------------------------ MODULE OutputLint ------------------------------
(***************************************************************************)
(* output_lint() (src/lib/output_lint.c): the rpmlint-style rendering of  *)
(* the results, one TAILQ_FOREACH iteration per step.  Lines 36-57 are     *)
(* Python text left inside the loop body, which no compiler accepts; the   *)
(* model is of the C statements around them (18-32, 61-159).              *)
(*                                                                         *)
(* What is written is kept as a sequence of items: a blank separator      *)
(* line, a section header (its dashes are layout), and one entry per      *)
(* result shown, with the number printed before its message (0 for a      *)
(* result without a message, which gets no number).  Wrapping, the       *)
(* "Result:", waiver, details and remedy lines are layout of the entry.   *)
(***************************************************************************)
EXTENDS Integers, Sequences, SequencesExt

CONSTANTS
    Headers,           \* the inspection names a result may carry
    NAME_DIAGNOSTICS,  \* the diagnostics header, shown whatever the threshold
    FlushMayFail,      \* whether fflush() or fclose() of the output may fail
    MaxResults         \* bound on the results of a call

Severities == {"ok", "info", "verify", "bad"}
Rank == [ok |-> 1, info |-> 2, verify |-> 3, bad |-> 4]

(* A results_entry_t: its header, its severity and whether msg is set. *)
Result == [header : Headers, sev : Severities, msg : BOOLEAN]

NoHeader == "none"   \* header == NULL
Blank == [item |-> "blank"]
Hdr(hd) == [item |-> "header", header |-> hd]
Entry(n, num) == [item |-> "entry", result |-> n, num |-> num]

VARIABLES
    results,    \* the results_t passed in, left alone
    suppress,   \* the suppress threshold passed in
    dest,       \* "stdout" when dest is NULL, else "file"
    li,         \* the result the TAILQ_FOREACH is at
    header, displayed, count, first,   \* the locals of 20-28
    fp,         \* "none" while fp is NULL, else "stdout" or "file"
    out,        \* what has been written to fp
    lpc         \* "idle", "loop", then "done", "warned" or "aborted"

lvars == <<results, suppress, dest, li, header, displayed, count, first, fp, out, lpc>>

TypeOK ==
    /\ results \in Seq(Result) /\ suppress \in Severities
    /\ dest \in {"stdout", "file"} /\ li \in 1..(Len(results) + 1)
    /\ header \in Headers \cup {NoHeader} /\ displayed \in BOOLEAN
    /\ count \in 0..(Len(results) + 1) /\ first \in BOOLEAN
    /\ fp \in {"none", "stdout", "file"}
    /\ lpc \in {"idle", "loop", "done", "warned", "aborted"}

Init ==
    /\ results \in UNION {[1..m -> Result] : m \in 0..MaxResults}
    /\ suppress = "ok" /\ dest = "stdout"
    /\ li = 1 /\ header = NoHeader /\ displayed = FALSE /\ count = 0
    /\ first = TRUE /\ fp = "none" /\ out = <<>> /\ lpc = "idle"

-----------------------------------------------------------------------------
(* The call, with its threshold and destination (18-29). *)
Call ==
    /\ lpc = "idle"
    /\ \E s \in Severities, d \in {"stdout", "file"} : suppress' = s /\ dest' = d
    /\ li' = 1 /\ header' = NoHeader /\ displayed' = FALSE /\ count' = 0
    /\ first' = TRUE /\ fp' = "none" /\ out' = <<>> /\ lpc' = "loop"
    /\ UNCHANGED results

(***************************************************************************)
(* suppressed_results() is not in this repository; it is taken from spec  *)
(* 3 and 6: a section is suppressed when none of its results reaches the  *)
(* threshold.                                                             *)
(***************************************************************************)
SuppressedResults(hd) ==
    \A n \in DOMAIN results : results[n].header = hd => Rank[results[n].sev] < Rank[suppress]

(* The test of 107: diagnostics, or a severity at or above the threshold. *)
Shown(r) == r.header = NAME_DIAGNOSTICS \/ Rank[r.sev] >= Rank[suppress]

(* Mutant: the strcmp() of 62 is dropped; only the first result opens a section. *)
NewSectionOnce == header = NoHeader

(* The section header test of 62-66, for the result at li. *)
NewSection == header = NoHeader \/ header # results[li].header

(* count after 62-66, and whether the section's header is already written. *)
SecCount == IF NewSection THEN 1 ELSE count

SecShown == ~NewSection /\ displayed

(***************************************************************************)
(* One result whose section is not suppressed, fp open or opened (74-86):  *)
(* the section header the first time (89-105), after a blank line unless  *)
(* it is the first; then the entry when 107 holds, numbered when it has a *)
(* message (108-119).                                                     *)
(***************************************************************************)
LintResult ==
    /\ lpc = "loop" /\ li <= Len(results)
    /\ ~SuppressedResults(results[li].header)
    /\ fp' = IF fp = "none" THEN dest ELSE fp
    /\ LET r == results[li]
           heading == IF SecShown THEN <<>>
                      ELSE (IF first THEN <<>> ELSE <<Blank>>) \o <<Hdr(r.header)>>
           entry == IF ~Shown(r) THEN <<>>
                    ELSE <<Entry(li, IF r.msg THEN SecCount ELSE 0)>>
       IN /\ out' = out \o heading \o entry
          /\ count' = IF Shown(r) /\ r.msg THEN SecCount + 1 ELSE SecCount
          /\ first' = (first /\ SecShown)
    /\ header' = results[li].header /\ displayed' = TRUE /\ li' = li + 1
    /\ UNCHANGED <<results, suppress, dest, lpc>>

(* A result of a suppressed section: only the section test runs (62-71). *)
LintSkip ==
    /\ lpc = "loop" /\ li <= Len(results)
    /\ SuppressedResults(results[li].header)
    /\ header' = results[li].header /\ displayed' = SecShown
    /\ count' = SecCount /\ li' = li + 1
    /\ UNCHANGED <<results, suppress, dest, first, fp, out, lpc>>

(* fopen(dest, "w") fails: a warning, and the function returns (79-84). *)
LintOpenFails ==
    /\ lpc = "loop" /\ li <= Len(results)
    /\ ~SuppressedResults(results[li].header)
    /\ fp = "none" /\ dest = "file"
    /\ lpc' = "warned"
    /\ UNCHANGED <<results, suppress, dest, li, header, displayed, count, first, fp, out>>

(***************************************************************************)
(* The loop has ended (147-158): an opened fp is flushed and, for a file, *)
(* closed; a failure of either trips the assert and aborts.               *)
(***************************************************************************)
LintTidy ==
    /\ lpc = "loop" /\ li > Len(results)
    /\ \/ lpc' = "done"
       \/ FlushMayFail /\ fp # "none" /\ lpc' = "aborted"
    /\ UNCHANGED <<results, suppress, dest, li, header, displayed, count, first, fp, out>>

LintNext == Call \/ LintResult \/ LintSkip \/ LintOpenFails \/ LintTidy

Spec == Init /\ [][LintNext]_lvars

-----------------------------------------------------------------------------
(***************************************************************************)
(* The reference rendering, from spec 6: the results fall into sections,  *)
(* the maximal runs of one header; each section that is not suppressed is *)
(* written as its header, after a blank line unless it is the first one   *)
(* written, then its results at or above the threshold (all of them for   *)
(* diagnostics), in order, the messages numbered from 1 in each section.  *)
(***************************************************************************)
RECURSIVE Sections(_)
Sections(ns) ==
    IF ns = <<>> THEN <<>>
    ELSE LET rest == Sections(Tail(ns)) IN
         IF rest # <<>> /\ results[Head(rest)[1]].header = results[Head(ns)].header
            THEN <<<<Head(ns)>> \o Head(rest)>> \o Tail(rest)
            ELSE <<<<Head(ns)>>>> \o rest

Numbered(ns) ==
    [j \in 1..Len(ns) |->
        Entry(ns[j], IF results[ns[j]].msg
                        THEN Len(SelectSeq(SubSeq(ns, 1, j), LAMBDA n : results[n].msg))
                        ELSE 0)]

SectionOut(sec, isFirst) ==
    (IF isFirst THEN <<>> ELSE <<Blank>>) \o <<Hdr(results[sec[1]].header)>>
    \o Numbered(SelectSeq(sec, LAMBDA n : Shown(results[n])))

ExpectedLint ==
    LET shown == SelectSeq(Sections([n \in 1..Len(results) |-> n]),
                           LAMBDA sec : ~SuppressedResults(results[sec[1]].header))
    IN FlattenSeq([j \in 1..Len(shown) |-> SectionOut(shown[j], j = 1)])

=============================================================================
