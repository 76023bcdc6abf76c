--------------------------- MODULE ScriptletsReport ---------------------------
(***************************************************************************)
(* The scriptlets inspection, then the triggers inspection, adding their  *)
(* results to the one results list, which output_lint() then renders     *)
(* (spec 6: the renderer receives the finished result sequence).  The     *)
(* scriptlets results carry the header "scriptlets", the triggers result  *)
(* "triggers"; output_lint() is instantiated as Lint on that list.        *)
(***************************************************************************)
EXTENDS ScriptletsDriver

VARIABLES
    later,      \* the results the triggers inspection added
    stage,      \* "scriptlets", then "render" once triggers has run
    suppress, dest, li, header, displayed, count, first, fp, out, lpc

render == <<suppress, dest, li, header, displayed, count, first, fp, out, lpc>>
allvars == <<vars, later, stage, render>>

(* ri->results: the scriptlets results, then the triggers result. *)
AllResults ==
    [n \in 1..Len(report) |->
        [header |-> "scriptlets", sev |-> report[n].sev, msg |-> report[n].kind # "ok"]]
    \o later

Lint == INSTANCE OutputLint WITH
    results <- AllResults, Headers <- {"scriptlets", "triggers"},
    NAME_DIAGNOSTICS <- "diagnostics", FlushMayFail <- TRUE,
    MaxResults <- NumPeers * Len(Hooks) * 4 + 2

FullInit ==
    /\ Init
    /\ later = <<>> /\ stage = "scriptlets"
    /\ suppress = "ok" /\ dest = "stdout" /\ li = 1 /\ header = Lint!NoHeader
    /\ displayed = FALSE /\ count = 0 /\ first = TRUE /\ fp = "none"
    /\ out = <<>> /\ lpc = "idle"

(***************************************************************************)
(* inspect_triggers() (src/lib/inspect_triggers.c 79-105): the peer loop  *)
(* reads three tags of each before header and keeps nothing, and the      *)
(* static 'reported' is never set, so the inspection adds its OK result   *)
(* and returns TRUE.                                                      *)
(***************************************************************************)
InspectTriggers ==
    /\ pc = "done" /\ stage = "scriptlets"
    /\ later' = <<[header |-> "triggers", sev |-> "ok", msg |-> FALSE]>>
    /\ stage' = "render"
    /\ UNCHANGED <<vars, render>>

DriverStep ==
    /\ NextPeer \/ HookStep \/ CheckStep \/ CheckReturn \/ Finish
    /\ UNCHANGED <<later, stage, render>>

RenderStep ==
    /\ stage = "render"
    /\ UNCHANGED <<vars, later, stage>>
    /\ Lint!Call \/ Lint!LintResult \/ Lint!LintSkip \/ Lint!LintOpenFails \/ Lint!LintTidy

(* output_lint() has returned or aborted: nothing more happens. *)
Rendered == lpc \in {"done", "warned", "aborted"} /\ UNCHANGED allvars

FullNext == DriverStep \/ InspectTriggers \/ RenderStep \/ Rendered

FullSpec == FullInit /\ [][FullNext]_allvars

(***************************************************************************)
(* Once the triggers inspection has run, no step reads or changes the    *)
(* driver's state again, and the renderer reads only the results list:   *)
(* render states that agree on the list and on the renderer's locals have *)
(* the same futures, and the driver's properties were checked on the     *)
(* state the rendering started from.                                     *)
(***************************************************************************)
RenderView == IF stage = "render" THEN <<stage, AllResults, render>> ELSE allvars

-----------------------------------------------------------------------------
(***************************************************************************)
(* When output_lint() returns normally, it has written the sections of    *)
(* both inspections as the spec's renderer does: each section not         *)
(* suppressed once, its header after a blank line unless it comes first, *)
(* then its results at or above the threshold in order, the messages     *)
(* numbered from 1 within the section.                                   *)
(***************************************************************************)
LintRendersSections == lpc = "done" => out = Lint!ExpectedLint

(***************************************************************************)
(* A report written to a file replaces what the file held: once           *)
(* output_lint() returns normally with a destination file, that file was *)
(* opened for writing (79), so it holds this run's report and not an    *)
(* earlier one.                                                           *)
(***************************************************************************)
DestRewritten == (lpc = "done" /\ dest = "file") => fp = "file"

=============================================================================
