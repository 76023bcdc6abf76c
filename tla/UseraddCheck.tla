----------------------------- MODULE UseraddCheck -----------------------------
(***************************************************************************)
(* check_useradd() of the 'scriptlets' inspection on one scriptlet body    *)
(* (src/lib/inspect_scriptlets.c 84-139, 141-156, 173-318):               *)
(* join_scriptlet_lines() joins the lines ending in a backslash, then     *)
(* each line that holds "useradd" is split at spaces and its options are  *)
(* collected into rflag, uflag, sflag, shell and uid, which are locals of *)
(* the whole call, not of one line; four rules then report on them.       *)
(*                                                                         *)
(* A physical line is a record: its words and whether it ends in " \".     *)
(* A token is a sequence of words: one word, or two words glued together  *)
(* when strappend() joins two pieces without a space between them.        *)
(***************************************************************************)
EXTENDS Integers, Sequences, SequencesExt

CONSTANTS
    Bodies,       \* the scriptlet bodies: sequences of physical lines
    MaxLines,     \* bound on the number of lines of a body
    UidWords,     \* the words that are decimal numbers
    UidValue,     \* UidValue[w]: the number written by w
    UidBoundary,  \* ri->uid_boundary
    UidMod,       \* 2^w for a uid_t of w bits
    LongMax,      \* LONG_MAX, the largest value strtol() returns
    AllowedUids,  \* ri->allowed_uids
    Rebase        \* is_rebase(ri)

USERADD_CMD == "useradd"
NOLOGIN == "/sbin/nologin"
NoShell == <<>>
NoJoin == <<>>

(* The four rules in the order check_useradd() applies them. *)
RuleOrder == <<"missing_options", "missing_uid", "uid_boundary", "login_shell">>
Rules == ToSet(RuleOrder)
Line == [w : Seq(STRING), cont : BOOLEAN]
Report == [rule : Rules, line : Nat, sev : {"info", "verify"},
           waiver : {"anyone", "security"}]

VARIABLES
    body,      \* the scriptlet body: a sequence of physical lines
    lines,     \* join_scriptlet_lines(): the lines not yet taken
    new,       \* join_scriptlet_lines(): the joined lines, as token sequences
    jentry,    \* join_scriptlet_lines(): the pending joined line, or NoJoin
    k,         \* the joined line being checked
    flags,     \* rflag, uflag, sflag, shell and uid
    reports,
    pc

vars == <<body, lines, new, jentry, k, flags, reports, pc>>

Fresh == [r |-> FALSE, u |-> FALSE, s |-> FALSE, shell |-> NoShell, uid |-> 0]

TypeOK ==
    /\ body \in Bodies /\ lines \in Seq(Line)
    /\ new \in Seq(Seq(Seq(STRING)))
    /\ jentry \in Seq(Seq(STRING))
    /\ k \in 1..(MaxLines + 1)
    /\ flags.r \in BOOLEAN /\ flags.u \in BOOLEAN /\ flags.s \in BOOLEAN
    /\ flags.uid \in Nat /\ flags.shell \in Seq(STRING)
    /\ reports \in Seq(Report)
    /\ pc \in {"join", "check", "done"}

Init ==
    /\ body \in Bodies
    /\ lines = body /\ new = <<>> /\ jentry = NoJoin
    /\ k = 1 /\ flags = Fresh /\ reports = <<>>
    /\ pc = "join"

-----------------------------------------------------------------------------
(* The tokens of a physical line, its trailing backslash kept. *)
Toks(l) == [n \in 1..Len(l.w) |-> <<l.w[n]>>] \o (IF l.cont THEN <<<<"\\">>>> ELSE <<>>)
(* The tokens of a line cut at its backslash (113). *)
Cut(l) == [n \in 1..Len(l.w) |-> <<l.w[n]>>]

(* strappend(a, b) where a does not end in a space: the last token of a   *)
(* and the first of b become one token.                                   *)
Glue(a, b) ==
    IF a = <<>> \/ b = <<>> THEN a \o b
    ELSE SubSeq(a, 1, Len(a) - 1) \o <<Last(a) \o Head(b)>> \o Tail(b)

(* Mutant: a pending joined line takes the next line but not the entry. *)
JoinStepDropsEntry ==
    /\ pc = "join" /\ lines # <<>>
    /\ LET entry == Head(lines) IN
       IF entry.cont /\ Tail(lines) # <<>>
          THEN LET nxt == Toks(Head(Tail(lines))) IN
               /\ jentry' = IF jentry # NoJoin THEN Glue(jentry, nxt)
                                               ELSE Cut(entry) \o nxt
               /\ lines' = Tail(Tail(lines))
               /\ UNCHANGED new
          ELSE /\ new' = new \o (IF jentry # NoJoin THEN <<jentry>> ELSE <<>>)
                             \o <<Toks(entry)>>
               /\ jentry' = NoJoin
               /\ lines' = Tail(lines)
    /\ UNCHANGED <<body, k, flags, reports, pc>>

(***************************************************************************)
(* One iteration of the while loop of join_scriptlet_lines() (105-133).   *)
(* A line ending in "\" takes the next line, trimmed; a pending joined    *)
(* line takes both, glued to its end.  Any other line first flushes the  *)
(* pending one.                                                           *)
(***************************************************************************)
JoinStep ==
    /\ pc = "join" /\ lines # <<>>
    /\ LET entry == Head(lines) IN
       IF entry.cont /\ Tail(lines) # <<>>
          THEN LET nxt == Toks(Head(Tail(lines))) IN
               /\ jentry' = IF jentry # NoJoin
                               THEN Glue(jentry, Cut(entry) \o nxt)
                               ELSE Cut(entry) \o nxt
               /\ lines' = Tail(Tail(lines))
               /\ UNCHANGED new
          ELSE /\ new' = new \o (IF jentry # NoJoin THEN <<jentry>> ELSE <<>>)
                             \o <<Toks(entry)>>
               /\ jentry' = NoJoin
               /\ lines' = Tail(lines)
    /\ UNCHANGED <<body, k, flags, reports, pc>>

(* The loop has run out of lines: list_to_string(new) is the new body. *)
JoinDone ==
    /\ pc = "join" /\ lines = <<>>
    /\ pc' = IF new = <<>> THEN "done" ELSE "check"
    /\ UNCHANGED <<body, lines, new, jentry, k, flags, reports>>

-----------------------------------------------------------------------------
(* strstr(line, "useradd") and strsuffix(token, "useradd"). *)
HasUseradd(t) == \E n \in 1..Len(t) : USERADD_CMD \in ToSet(t[n])
EndsUseradd(tok) == Last(tok) = USERADD_CMD

(* strtol(token, NULL, 10): the leading digits, 0 when there are none;  *)
(* a token glued from two numbers reads as all of their digits.         *)
Strtol(tok) ==
    IF tok[1] \notin UidWords THEN 0
    ELSE IF Len(tok) = 2 /\ tok[2] \in UidWords
            THEN UidValue[tok[1]] * 10 ^ Len(tok[2]) + UidValue[tok[2]]
    ELSE UidValue[tok[1]]

(***************************************************************************)
(* The -u argument (238-247): strtol() sets ERANGE above LONG_MAX, and    *)
(* then uid is -1 and uflag is cleared; otherwise the long is stored into *)
(* the uid_t uid, which keeps its low w bits.                             *)
(***************************************************************************)
SetUid(f, arg) ==
    IF Strtol(arg) > LongMax THEN [f EXCEPT !.u = FALSE, !.uid = UidMod - 1]
    ELSE [f EXCEPT !.u = TRUE, !.uid = Strtol(arg) % UidMod]

(***************************************************************************)
(* The token loop (218-250) over line t from index n: the first token    *)
(* ending in "useradd" starts the command; each later option sets its    *)
(* flag and takes the next token, whatever it is, as its argument.        *)
(***************************************************************************)
RECURSIVE ScanTokens(_, _, _, _)
ScanTokens(t, n, found, f) ==
    IF n > Len(t) THEN <<found, f>>
    ELSE LET tok == t[n]
             arg == IF n < Len(t) THEN t[n + 1] ELSE <<>>
         IN
         IF ~found /\ EndsUseradd(tok) THEN ScanTokens(t, n + 1, TRUE, f)
         ELSE IF ~found THEN ScanTokens(t, n + 1, FALSE, f)
         ELSE IF tok \in {<<"-r">>, <<"--system">>}
                 THEN ScanTokens(t, n + 1, TRUE, [f EXCEPT !.r = TRUE])
         ELSE IF tok \in {<<"-s">>, <<"--shell">>}
                 THEN ScanTokens(t, n + 1, TRUE,
                        IF arg = <<>> THEN [f EXCEPT !.s = FALSE]
                        ELSE [f EXCEPT !.s = TRUE, !.shell = arg])
         ELSE IF tok \in {<<"-u">>, <<"--uid">>}
                 THEN ScanTokens(t, n + 1, TRUE,
                        IF arg = <<>> THEN [f EXCEPT !.u = FALSE]
                        ELSE SetUid(f, arg))
         ELSE ScanTokens(t, n + 1, TRUE, f)

(* is_allowed_uid() (141-156): an absent or empty list allows every UID. *)
IsAllowedUid(uid) == AllowedUids = {} \/ uid \in AllowedUids

(* The four reports of 255-311, in that order, for line n. *)
CodeRules(f) ==
    SelectSeq(RuleOrder,
      LAMBDA r :
        \/ r = "missing_options" /\ ((~f.u /\ f.uid = 0) \/ ~f.r)
                                 /\ (~f.s /\ f.shell = NoShell)
        \/ r = "missing_uid" /\ ~f.u /\ ~f.r /\ f.s
        \/ r = "uid_boundary" /\ f.u /\ f.uid > UidBoundary
                              /\ ~IsAllowedUid(f.uid)
        \/ r = "login_shell" /\ f.s /\ Last(f.shell) # NOLOGIN)

(* Mutant: the reports take a severity that is not a result level. *)
SeverityBad == IF Rebase THEN "info" ELSE "bad"

Severity == IF Rebase THEN "info" ELSE "verify"

(***************************************************************************)
(* One iteration of TAILQ_FOREACH over the joined lines (213-313).       *)
(***************************************************************************)
CheckLine ==
    /\ pc = "check"
    /\ LET t == new[k] IN
       IF HasUseradd(t)
          THEN LET res == ScanTokens(t, 1, FALSE, flags) IN
               /\ flags' = res[2]
               /\ reports' = IF res[1]
                     THEN reports \o
                          [n \in 1..Len(CodeRules(res[2])) |->
                             [rule |-> CodeRules(res[2])[n], line |-> k,
                              sev |-> Severity, waiver |-> "anyone"]]
                     ELSE reports
          ELSE UNCHANGED <<flags, reports>>
    /\ k' = k + 1
    /\ pc' = IF k = Len(new) THEN "done" ELSE "check"
    /\ UNCHANGED <<body, lines, new, jentry>>

Returned == pc = "done" /\ UNCHANGED vars

Next == JoinStep \/ JoinDone \/ CheckLine \/ Returned

Spec == Init /\ [][Next]_vars /\ WF_vars(Next)

-----------------------------------------------------------------------------
(***************************************************************************)
(* The reference from the spec (4.5): backslash-continued lines form one  *)
(* logical line; for each useradd command the decision table gives its   *)
(* results from that command's own options.                               *)
(***************************************************************************)
RECURSIVE SpecJoin(_, _)
SpecJoin(ls, cur) ==
    IF ls = <<>> THEN IF cur = <<>> THEN <<>> ELSE <<cur>>
    ELSE IF Head(ls).cont THEN SpecJoin(Tail(ls), cur \o Head(ls).w)
    ELSE <<cur \o Head(ls).w>> \o SpecJoin(Tail(ls), <<>>)

(* The options of the command on logical line l, after its first word. *)
SpecOpts(l) ==
    LET u0 == SelectInSeq(l, LAMBDA w : w = USERADD_CMD)
        At(opts) == {n \in (u0 + 1)..(Len(l) - 1) : l[n] \in opts}
        LastArg(opts) == l[Max(At(opts)) + 1]
    IN [cmd   |-> u0 > 0,
        sys   |-> \E n \in (u0 + 1)..Len(l) : l[n] \in {"-r", "--system"},
        uid   |-> At({"-u", "--uid"}) # {},
        shell |-> At({"-s", "--shell"}) # {},
        uidv  |-> IF At({"-u", "--uid"}) = {} THEN 0
                  ELSE Strtol(<<LastArg({"-u", "--uid"})>>),
        shv   |-> IF At({"-s", "--shell"}) = {} THEN ""
                  ELSE LastArg({"-s", "--shell"})]

SpecRow(r, o) ==
    CASE r = "missing_options" -> ~o.sys /\ ~o.uid /\ ~o.shell
      [] r = "missing_uid"     -> o.shell /\ ~o.sys /\ ~o.uid
      [] r = "uid_boundary"    -> o.uid /\ o.uidv > UidBoundary
                                  /\ o.uidv \notin AllowedUids
      [] r = "login_shell"     -> o.shell /\ o.shv # NOLOGIN

SpecResult(r) ==
    [rule |-> r,
     sev |-> IF r = "missing_options" /\ Rebase THEN "info" ELSE "verify",
     waiver |-> IF r = "uid_boundary" THEN "security" ELSE "anyone"]

SpecReports(b) ==
    LET ls == SpecJoin(b, <<>>)
        one(l) == LET o == SpecOpts(l)
                      rs == SelectSeq(RuleOrder, LAMBDA r : SpecRow(r, o))
                  IN IF ~o.cmd THEN <<>>
                     ELSE [n \in 1..Len(rs) |-> SpecResult(rs[n])]
    IN FlattenSeq([n \in 1..Len(ls) |-> one(ls[n])])

(* A report without its line number, which the two joins count apart. *)
Unnumbered(rep) == [rule |-> rep.rule, sev |-> rep.sev, waiver |-> rep.waiver]

(* The words of lines, of a joined line and of joined lines, backslashes left out. *)
LineWords(ls) == FlattenSeq([n \in 1..Len(ls) |-> ls[n].w])
TokWords(t) == SelectSeq(FlattenSeq(t), LAMBDA w : w # "\\")
JoinedWords(j) == FlattenSeq([n \in 1..Len(j) |-> TokWords(j[n])])

(***************************************************************************)
(* Loop invariant of join_scriptlet_lines(): the joined lines, the       *)
(* pending joined line and the lines not yet taken hold every word of    *)
(* the body in order; joining never drops, repeats or reorders a word.   *)
(***************************************************************************)
JoinLoopKeepsWords ==
    pc = "join" => JoinedWords(new) \o TokWords(jentry) \o LineWords(lines)
                   = LineWords(body)

(***************************************************************************)
(* Once check_useradd() returns, its results are the decision table's for *)
(* each useradd command of the scriptlet, in order, with the table's     *)
(* severity and waiver authority.                                         *)
(***************************************************************************)
MatchesTable ==
    pc = "done" =>
        [n \in 1..Len(reports) |-> Unnumbered(reports[n])] = SpecReports(body)

=============================================================================
