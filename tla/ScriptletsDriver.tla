--------------------------- MODULE ScriptletsDriver ---------------------------
(***************************************************************************)
(* inspect_scriptlets(), scriptlets_driver() and get_scriptlet()           *)
(* (src/lib/inspect_scriptlets.c 53-77, 321-419) composed with            *)
(* check_useradd(): every peer, and for a binary package every scriptlet  *)
(* hook in scriptlet_types[] order, has its after scriptlet checked by    *)
(* the UseraddCheck machine, instantiated as U.  'result' and 'reported'  *)
(* are file statics; the flags of check_useradd() are locals of one call. *)
(*                                                                         *)
(* check_useradd() sets 'result' and 'reported' and adds its results as  *)
(* it goes; nothing else reads them while the call runs, so the driver   *)
(* takes the call's results, tagged with the peer and hook, when it      *)
(* returns.                                                               *)
(***************************************************************************)
EXTENDS Integers, Sequences, SequencesExt

CONSTANTS
    NumPeers,     \* the peers, 1..NumPeers in list order
    Hooks,        \* scriptlet_types[], a sequence of hook names
    Bodies,       \* the scriptlet bodies a header may hold
    MaxLines,     \* bound on the lines of a body
    UidWords, UidValue, UidBoundary, UidMod, LongMax, AllowedUids,
    Rebase        \* is_rebase(ri)

Peers == 1..NumPeers
HookSet == ToSet(Hooks)

(* A peer: its after package is gone, skipped (source, debuginfo or      *)
(* debugsource) or a binary package; whether it has a before header; the *)
(* before scriptlets present; the after scriptlet of each hook, {} when  *)
(* the header has none.  Without a before header there are no before    *)
(* scriptlets.                                                            *)
Peer == {x \in [status : {"gone", "skip", "binary"}, beforeHdr : BOOLEAN,
                before : [HookSet -> BOOLEAN],
                after : [HookSet -> {{}} \cup {{b} : b \in Bodies}]] :
           ~x.beforeHdr => \A hk \in HookSet : ~x.before[hk]}

VARIABLES
    peer,      \* peer[p]: the packages of peer p
    p,         \* the peer the TAILQ_FOREACH is at
    h,         \* the index into scriptlet_types[]
    result,
    reported,
    report,    \* the results added, in order
    pc,
    \* the locals of the check_useradd() call in progress
    body, lines, new, jentry, k, flags, reports, cpc

check == <<body, lines, new, jentry, k, flags, reports, cpc>>
vars == <<peer, p, h, result, reported, report, pc, check>>

U == INSTANCE UseraddCheck WITH pc <- cpc

Record == [kind : {"finding", "lost", "ok"}, peer : Peers \cup {0},
           hook : HookSet \cup {"none"}, rule : U!Rules \cup {"none"},
           sev : {"info", "verify", "ok"}]

TypeOK ==
    /\ peer \in [Peers -> Peer]
    /\ p \in 1..(NumPeers + 1) /\ h \in 1..Len(Hooks)
    /\ result \in BOOLEAN /\ reported \in BOOLEAN
    /\ report \in Seq(Record)
    /\ pc \in {"peers", "hooks", "check", "done"}
    /\ body \in Bodies \cup {<<>>} /\ cpc \in {"join", "check", "done"}
    /\ reports \in Seq(U!Report)

Init ==
    /\ peer \in [Peers -> Peer]
    /\ p = 1 /\ h = 1
    /\ result = TRUE /\ reported = FALSE
    /\ report = <<>>
    /\ pc = "peers"
    /\ body = <<>> /\ lines = <<>> /\ new = <<>> /\ jentry = U!NoJoin
    /\ k = 1 /\ flags = U!Fresh /\ reports = <<>> /\ cpc = "done"

-----------------------------------------------------------------------------
(***************************************************************************)
(* get_scriptlet() (53-77): NULL for a missing header or a header without *)
(* the hook's script tag.  The before header is read only when it exists *)
(* (348-350).                                                             *)
(***************************************************************************)
AfterScriptlet(q, hk) == peer[q].after[hk]
BeforeScriptlet(q, hk) == peer[q].beforeHdr /\ peer[q].before[hk]

(* Mutant: the hook loop runs one index past the last hook. *)
NextHookPastEnd ==
    IF h > Len(Hooks)
       THEN pc' = "peers" /\ p' = p + 1 /\ UNCHANGED h
       ELSE pc' = "hooks" /\ h' = h + 1 /\ UNCHANGED p

(* The increment and test of the scriptlet_types[] loop (341). *)
NextHook ==
    IF h = Len(Hooks)
       THEN pc' = "peers" /\ p' = p + 1 /\ UNCHANGED h
       ELSE pc' = "hooks" /\ h' = h + 1 /\ UNCHANGED p

(***************************************************************************)
(* One peer of the TAILQ_FOREACH of inspect_scriptlets() (405-412) and    *)
(* the early returns of scriptlets_driver() (330-338).                    *)
(***************************************************************************)
NextPeer ==
    /\ pc = "peers" /\ p <= NumPeers
    /\ IF peer[p].status = "binary"
          THEN pc' = "hooks" /\ h' = 1 /\ UNCHANGED p
          ELSE p' = p + 1 /\ UNCHANGED <<pc, h>>
    /\ UNCHANGED <<peer, result, reported, report, check>>

(* Mutant: the flags of check_useradd() are kept from the previous call. *)
HookStepKeepsFlags ==
    /\ pc = "hooks"
    /\ LET after == AfterScriptlet(p, Hooks[h]) IN
       IF after = {}
          THEN NextHook /\ UNCHANGED check
          ELSE \E b \in after :
                 /\ body' = b /\ lines' = b /\ new' = <<>>
                 /\ jentry' = U!NoJoin /\ k' = 1 /\ UNCHANGED flags
                 /\ reports' = <<>> /\ cpc' = "join"
                 /\ pc' = "check"
                 /\ UNCHANGED <<p, h>>
    /\ UNCHANGED <<peer, result, reported, report>>

(***************************************************************************)
(* One iteration of the scriptlet_types[] loop (343-358): a hook with     *)
(* neither scriptlet is skipped; a NULL after scriptlet makes             *)
(* check_useradd() return at once (193-200); otherwise check_useradd()    *)
(* is called on the after body with fresh locals (179-185).               *)
(***************************************************************************)
HookStep ==
    /\ pc = "hooks"
    /\ LET after == AfterScriptlet(p, Hooks[h]) IN
       IF after = {}
          THEN NextHook /\ UNCHANGED check
          ELSE \E b \in after :
                 /\ body' = b /\ lines' = b /\ new' = <<>>
                 /\ jentry' = U!NoJoin /\ k' = 1 /\ flags' = U!Fresh
                 /\ reports' = <<>> /\ cpc' = "join"
                 /\ pc' = "check"
                 /\ UNCHANGED <<p, h>>
    /\ UNCHANGED <<peer, result, reported, report>>

(* One step of the check_useradd() call in progress. *)
CheckStep ==
    /\ pc = "check"
    /\ U!JoinStep \/ U!JoinDone \/ U!CheckLine
    /\ UNCHANGED <<peer, p, h, result, reported, report, pc>>

(***************************************************************************)
(* check_useradd() returns (314-317): each result it added (269-308) set *)
(* reported and cleared result; the scriptlets are freed (356-357) and    *)
(* the hook loop goes on.                                                 *)
(***************************************************************************)
CheckReturn ==
    /\ pc = "check" /\ cpc = "done"
    /\ report' = report \o [n \in 1..Len(reports) |->
          [kind |-> "finding", peer |-> p, hook |-> Hooks[h],
           rule |-> reports[n].rule, sev |-> reports[n].sev]]
    /\ reported' = (reported \/ reports # <<>>)
    /\ result' = (result /\ reports = <<>>)
    /\ NextHook
    /\ UNCHANGED <<peer, check>>

(* The closing OK result (414-420). *)
Finish ==
    /\ pc = "peers" /\ p > NumPeers
    /\ report' = IF result /\ ~reported
                    THEN Append(report, [kind |-> "ok", peer |-> 0, hook |-> "none",
                                         rule |-> "none", sev |-> "ok"])
                    ELSE report
    /\ pc' = "done"
    /\ UNCHANGED <<peer, p, h, result, reported, check>>

Returned == pc = "done" /\ UNCHANGED vars

Next == NextPeer \/ HookStep \/ CheckStep \/ CheckReturn \/ Finish \/ Returned

Spec == Init /\ [][Next]_vars /\ WF_vars(Next)

-----------------------------------------------------------------------------
Findings == {n \in DOMAIN report : report[n].kind # "ok"}

(***************************************************************************)
(* The verdict inspect_scriptlets() returns is TRUE exactly when no      *)
(* failing (non-informational) result was added, and the report has the *)
(* single OK result exactly when no result at all was added (spec 4.5).  *)
(***************************************************************************)
VerdictMatchesReport ==
    pc = "done" =>
        /\ result = \A n \in Findings : report[n].sev = "info"
        /\ (\E n \in DOMAIN report : report[n].kind = "ok") = (Findings = {})

(* The decision table's results for the after scriptlet of hook hk of q. *)
TableFor(q, hk) ==
    IF AfterScriptlet(q, hk) = {} THEN <<>>
    ELSE LET rs == U!SpecReports(CHOOSE b \in AfterScriptlet(q, hk) : TRUE) IN
         [n \in 1..Len(rs) |-> [kind |-> "finding", peer |-> q, hook |-> hk,
                                rule |-> rs[n].rule, sev |-> rs[n].sev]]

(* The results the spec expects from peers 1..q-1, in order. *)
ExpectedBefore(q) ==
    FlattenSeq([r \in 1..(q - 1) |->
        IF peer[r].status # "binary" THEN <<>>
        ELSE FlattenSeq([n \in 1..Len(Hooks) |-> TableFor(r, Hooks[n])])])

(***************************************************************************)
(* Once inspect_scriptlets() returns, its results are the decision        *)
(* table's for the after scriptlet of every hook of every binary package, *)
(* each scriptlet judged on its own, in peer and scriptlet_types[] order  *)
(* (spec 4.5): no scriptlet is skipped, checked twice, judged with       *)
(* another's options or reported under another peer or hook.             *)
(***************************************************************************)
InspectionFollowsTable ==
    pc = "done" => SelectSeq(report, LAMBDA r : r.kind # "ok")
                   = ExpectedBefore(NumPeers + 1)

(***************************************************************************)
(* A hook whose before scriptlet exists and whose after scriptlet is     *)
(* absent, in a checked peer, gets one "lost scriptlet" result from the  *)
(* driver (spec 4.5 and 8).                                               *)
(***************************************************************************)
LostScriptletReported ==
    pc = "done" =>
        \A q \in Peers, hk \in HookSet :
            (/\ peer[q].status = "binary"
             /\ BeforeScriptlet(q, hk) /\ AfterScriptlet(q, hk) = {})
            => \E n \in DOMAIN report : report[n].kind = "lost"
                                        /\ report[n].peer = q
                                        /\ report[n].hook = hk

=============================================================================
