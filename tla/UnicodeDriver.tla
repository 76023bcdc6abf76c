---------------------------- MODULE UnicodeDriver ----------------------------
(***************************************************************************)
(* The 'unicode' inspection over the files of one source package          *)
(* (src/lib/inspect_unicode.c): inspect_unicode() walks the files of the  *)
(* SRPM; for the spec file unicode_driver() materialises the source tree *)
(* with rpm_prep_source() (a forked child runs %prep, its output read     *)
(* back through a pipe) and falls back on manual_prep_source() (unpack    *)
(* each declared source archive into BUILD/unpack-XXXXXX), walks the     *)
(* tree with validate_file(), and removes it.                             *)
(*                                                                         *)
(* The per-file scan is abstracted to the severity that the security-rule *)
(* lookup gives the first forbidden code point of that file or tree part *)
(* (hit[x]); the decoding and matching are modelled in UnicodeScan.       *)
(*                                                                         *)
(* What BUILD can hold (content):                                          *)
(*   "prep"         the tree of a %prep that succeeded                     *)
(*   "prepPartial"  what a failed %prep left behind                        *)
(*   s \in Sources  the unpack-XXXXXX directory of source archive s        *)
(***************************************************************************)
EXTENDS Naturals, Sequences, FiniteSets

CONSTANTS
    SPEC,           \* the spec file of the SRPM
    SourceList,     \* RPMTAG_SOURCE of the header, in header order
    TextSources,    \* the sources whose MIME type is text/*
    SysMayFail,     \* pipe() or fork() may fail
    FdopenMayFail,  \* fdopen() on the read end may fail
    ChildMayCrash,  \* the child may _exit(EXIT_FAILURE) or abort()
    MkdirMayFail,   \* mkdirp() of the rpmbuild top directory may fail
    ExtractMayFail, \* unpack_archive() may fail
    PipeCap,        \* lines the pipe holds before write() blocks
    MaxOut          \* bound on the lines %prep prints

Sources == {SourceList[i] : i \in DOMAIN SourceList}
SrpmFiles == {SPEC} \cup Sources
Parts == {"prep", "prepPartial"} \cup Sources
Severity == {"none", "info", "verify"}

ASSUME SPEC \notin Sources /\ TextSources \subseteq Sources
ASSUME {SysMayFail, FdopenMayFail, ChildMayCrash, MkdirMayFail, ExtractMayFail}
         \subseteq BOOLEAN
ASSUME PipeCap \in Nat \ {0} /\ MaxOut \in Nat

VARIABLES
    files,      \* peer->after_files of the SRPM, in list order
    hit,        \* hit[x]: severity of the forbidden code point found in x
    pc,         \* where the parent (rpminspect) is
    idx,        \* the file of 'files' being inspected
    ksrc,       \* the source manual_prep_source() is at
    child,      \* the forked %prep child: "none", "run", "write", "exited"
    status,     \* the raw wait status of the child, as waitpid() fills it
    out,        \* lines the child still has to print
    pipe,       \* lines in the pipe not yet read by the parent
    skel,       \* the rpmbuild top directory and its subdirectories exist
    buildDir,   \* the BUILD subdirectory exists
    content,    \* what BUILD holds
    build,      \* the global 'build' is not NULL
    usesUnpack, \* the global 'uses_unpack_base'
    globalresult,
    seen,
    result,     \* inspect_unicode()'s 'result'
    report,     \* the results added by this inspection
    fallback,   \* history: manual_prep_source() ran for the spec file
    scanned     \* history: the BUILD parts the last tree walk visited

vars == <<files, hit, pc, idx, ksrc, child, status, out, pipe, skel, buildDir,
          content, build, usesUnpack, globalresult, seen, result, report,
          fallback, scanned>>

(* The wait status of a normal _exit(n), of a death by SIGABRT (signal   *)
(* 6, core dumped), and glibc's WEXITSTATUS: bits 8-15 of the status.     *)
ExitStatus(n) == n * 256
SIGABRT == 6 + 128
WExitStatus(s) == (s \div 256) % 256

Record == [kind : {"codepoint"}, sev : {"info", "verify"},
           waiver : {"not_waivable", "security"}, at : Parts \cup SrpmFiles]
          \cup [kind : {"ok"}] \cup [kind : {"only_source"}]

TypeOK ==
    /\ pc \in {"file", "pipe", "read", "wait", "manual", "extract", "scan",
               "self", "report", "done", "aborted"}
    /\ idx \in 1..Cardinality(SrpmFiles)
    /\ ksrc \in 1..(Len(SourceList) + 1)
    /\ child \in {"none", "run", "write", "exited"}
    /\ status \in {ExitStatus(0), ExitStatus(1), ExitStatus(2), SIGABRT}
    /\ out \in 0..MaxOut /\ pipe \in 0..PipeCap
    /\ content \subseteq Parts /\ scanned \subseteq Parts
    /\ report \subseteq Record
    /\ {skel, buildDir, build, usesUnpack, globalresult, seen, result,
        fallback} \subseteq BOOLEAN

Init ==
    /\ files \in {f \in [1..Cardinality(SrpmFiles) -> SrpmFiles] :
                    \A x \in SrpmFiles : \E i \in DOMAIN f : f[i] = x}
    /\ hit \in [Parts \cup SrpmFiles -> Severity]
    /\ pc = "file" /\ idx = 1 /\ ksrc = 1
    /\ child = "none" /\ status = ExitStatus(0) /\ out = 0 /\ pipe = 0
    /\ skel = FALSE /\ buildDir = FALSE /\ content = {}
    /\ build = FALSE /\ usesUnpack = FALSE
    /\ globalresult = TRUE /\ seen = FALSE /\ result = TRUE
    /\ report = {} /\ fallback = FALSE /\ scanned = {}

-----------------------------------------------------------------------------
(***************************************************************************)
(* validate_file() on one file or tree part: non-text files are skipped; *)
(* a hit whose severity is neither NULL nor SKIP is reported, INFO as not *)
(* waivable, anything else waivable by security and failing the run.      *)
(***************************************************************************)
Findings(xs) ==
    {[kind |-> "codepoint", sev |-> hit[x],
      waiver |-> IF hit[x] = "info" THEN "not_waivable" ELSE "security",
      at |-> x] : x \in {y \in xs : hit[y] # "none"}}

(* Mutant: an INFO hit fails the run as well. *)
FailsAnyHit(xs) == \E x \in xs : hit[x] # "none"

Fails(xs) == \E x \in xs : hit[x] = "verify"

(* validate_file() on a file of the SRPM itself: binary sources are skipped. *)
ScannedFile(f) == IF f \in Sources \ TextSources THEN {} ELSE {f}

(* The end of one unicode_driver() call: its return value is globalresult. *)
DriverReturns(gr) ==
    /\ result' = (result /\ gr)
    /\ IF idx = Cardinality(SrpmFiles)
          THEN pc' = "report" /\ idx' = idx
          ELSE pc' = "file" /\ idx' = idx + 1

(* make_source_dirs() (76-128): the rpmbuild top directory with BUILD and *)
(* its sibling subdirectories, or NULL when mkdirp() of the top fails.    *)
MakeSourceDirs == skel' = TRUE /\ buildDir' = TRUE

ParentVars == <<pc, idx, ksrc, build, usesUnpack, globalresult, seen, result,
                report, fallback, scanned>>
ChildVars == <<child, status, out, pipe>>
FsVars == <<skel, buildDir, content>>

-----------------------------------------------------------------------------
(***************************************************************************)
(* A file of the SRPM other than the spec file: unicode_driver() only    *)
(* runs validate_file() on it (inspect_unicode.c 775-784).               *)
(***************************************************************************)
OtherFile ==
    /\ pc = "file"
    /\ files[idx] # SPEC
    /\ LET xs == ScannedFile(files[idx]) IN
         /\ report' = report \cup Findings(xs)
         /\ globalresult' = (globalresult /\ ~Fails(xs))
         /\ DriverReturns(globalresult')
    /\ UNCHANGED <<files, hit, ksrc, build, usesUnpack, seen, fallback, scanned>>
    /\ UNCHANGED <<ChildVars, FsVars>>

(* The spec file: on to rpm_prep_source() (inspect_unicode.c 714-716). *)
SpecFile ==
    /\ pc = "file"
    /\ files[idx] = SPEC
    /\ pc' = "pipe"
    /\ fallback' = FALSE
    /\ UNCHANGED <<files, hit, idx, ksrc, build, usesUnpack, globalresult,
                   seen, result, report, scanned, ChildVars, FsVars>>

(***************************************************************************)
(* rpm_prep_source(), up to the parent reading the pipe (139-164, 239-   *)
(* 254).  A failing pipe() or fork() returns the NULL 'build'; a failing  *)
(* fdopen() returns NULL too, without waiting for the child it forked.   *)
(***************************************************************************)
PrepFork ==
    /\ pc = "pipe"
    /\ \/ /\ SysMayFail
          /\ pc' = "manual"
          /\ UNCHANGED child
       \/ /\ child' = "run"
          /\ \/ pc' = "read"
             \/ FdopenMayFail /\ pc' = "manual"
    /\ UNCHANGED <<files, hit, idx, ksrc, status, out, pipe, build, usesUnpack,
                   globalresult, seen, result, report, fallback, scanned, FsVars>>

(***************************************************************************)
(* The child up to the end of %prep (165-238): make_source_dirs() (its   *)
(* NULL result trips an assert), rpmSpecParse(), rpmSpecBuild().  The    *)
(* lines %prep prints are written afterwards by ChildWrite.               *)
(***************************************************************************)
ChildPrep ==
    /\ child = "run"
    /\ \E n \in 0..MaxOut :
         /\ out' = n
         /\ \/ /\ ChildMayCrash                            \* dup2()/close()
               /\ status' = ExitStatus(1)
               /\ UNCHANGED FsVars
            \/ /\ MkdirMayFail                             \* assert(topdir)
               /\ status' = SIGABRT
               /\ UNCHANGED FsVars
            \/ /\ MakeSourceDirs
               /\ \/ ChildMayCrash /\ status' = ExitStatus(1) /\ UNCHANGED content
                  \/ status' = ExitStatus(0) /\ content' = content \cup {"prep"}
                  \/ status' = ExitStatus(2) /\ content' = content \cup {"prepPartial"}
    /\ child' = "write"
    /\ UNCHANGED <<pipe, files, hit, ParentVars>>

(* Mutant: write() never blocks, the pipe grows without bound. *)
ChildWriteUnbounded ==
    /\ child = "write" /\ out > 0
    /\ out' = out - 1 /\ pipe' = pipe + 1
    /\ UNCHANGED <<child, status, files, hit, ParentVars, FsVars>>

(* The child prints one line; write() blocks while the pipe is full. *)
ChildWrite ==
    /\ child = "write" /\ out > 0 /\ pipe < PipeCap
    /\ out' = out - 1 /\ pipe' = pipe + 1
    /\ UNCHANGED <<child, status, files, hit, ParentVars, FsVars>>

(* _exit(status) closes the write end of the pipe. *)
ChildExit ==
    /\ child = "write" /\ out = 0
    /\ child' = "exited"
    /\ UNCHANGED <<status, out, pipe, files, hit, ParentVars, FsVars>>

(* Mutant: waitpid() is called before the output is read. *)
ParentReadWaitsFirst ==
    /\ pc = "read"
    /\ pc' = "wait"
    /\ UNCHANGED <<pipe, child, status, out, files, hit, idx, ksrc, build,
                   usesUnpack, globalresult, seen, result, report, fallback,
                   scanned, FsVars>>

(* Mutant: end of file is taken for a transient error and read again. *)
ParentReadIgnoresEof ==
    /\ pc = "read"
    /\ \/ pipe > 0 /\ pipe' = pipe - 1 /\ UNCHANGED pc
       \/ pipe = 0 /\ child = "exited" /\ UNCHANGED <<pc, pipe>>
    /\ UNCHANGED <<child, status, out, files, hit, idx, ksrc, build, usesUnpack,
                   globalresult, seen, result, report, fallback, scanned, FsVars>>

(* The getline() loop (261-263): read a line, or see end of file. *)
ParentRead ==
    /\ pc = "read"
    /\ \/ pipe > 0 /\ pipe' = pipe - 1 /\ UNCHANGED pc
       \/ pipe = 0 /\ child = "exited" /\ pc' = "wait" /\ UNCHANGED pipe
    /\ UNCHANGED <<child, status, out, files, hit, idx, ksrc, build, usesUnpack,
                   globalresult, seen, result, report, fallback, scanned, FsVars>>

(***************************************************************************)
(* waitpid() and the verdict on %prep (272-285): the BUILD path is the    *)
(* result unless WEXITSTATUS(status) is 2, in which case BUILD is emptied *)
(* and NULL returned.                                                     *)
(***************************************************************************)

(* Mutant: a failed %prep is not wiped before the fallback. *)
ParentWaitNoWipe ==
    /\ pc = "wait"
    /\ child = "exited"
    /\ build' = (WExitStatus(status) # 2)
    /\ pc' = IF WExitStatus(status) = 2 THEN "manual" ELSE "scan"
    /\ UNCHANGED <<child, status, out, pipe, skel, buildDir, content, files,
                   hit, idx, ksrc, usesUnpack, globalresult, seen, result,
                   report, fallback, scanned>>

ParentWait ==
    /\ pc = "wait"
    /\ child = "exited"
    /\ IF WExitStatus(status) = 2
          THEN /\ content' = {}
               /\ build' = FALSE
               /\ pc' = "manual"
          ELSE /\ build' = TRUE
               /\ pc' = "scan"
               /\ UNCHANGED content
    /\ UNCHANGED <<child, status, out, pipe, skel, buildDir, files, hit, idx,
                   ksrc, usesUnpack, globalresult, seen, result, report,
                   fallback, scanned>>

(***************************************************************************)
(* manual_prep_source() (312-339): make_source_dirs() again (a NULL top   *)
(* directory trips an assert in rpminspect itself), 'build' set to BUILD. *)
(***************************************************************************)
ManualStart ==
    /\ pc = "manual"
    /\ \/ /\ MkdirMayFail
          /\ pc' = "aborted"
          /\ UNCHANGED <<skel, buildDir, build, ksrc, fallback>>
       \/ /\ MakeSourceDirs
          /\ build' = TRUE
          /\ ksrc' = 1
          /\ fallback' = TRUE
          /\ pc' = "extract"
    /\ UNCHANGED <<content, files, hit, idx, usesUnpack, globalresult, seen,
                   result, report, scanned, ChildVars>>

(***************************************************************************)
(* One source of the RPMTAG_SOURCE loop (341-375): text sources are       *)
(* skipped; any other gets a fresh unpack-XXXXXX directory, removed again *)
(* when unpack_archive() fails.                                           *)
(***************************************************************************)
Extract ==
    /\ pc = "extract"
    /\ IF ksrc > Len(SourceList)
          THEN /\ pc' = "scan"
               /\ UNCHANGED <<ksrc, content, usesUnpack>>
          ELSE LET s == SourceList[ksrc] IN
               /\ ksrc' = ksrc + 1
               /\ UNCHANGED pc
               /\ IF s \in TextSources
                     THEN UNCHANGED <<content, usesUnpack>>
                     ELSE /\ usesUnpack' = TRUE
                          /\ \/ content' = content \cup {s}
                             \/ ExtractMayFail /\ UNCHANGED content
    /\ UNCHANGED <<files, hit, idx, build, globalresult, seen, result, report,
                   fallback, scanned, skel, buildDir, ChildVars>>

(***************************************************************************)
(* The tree walk over BUILD and its removal (760-772): nftw() runs        *)
(* validate_file() on every part, then rmtree(build, true, false).         *)
(***************************************************************************)
Scan ==
    /\ pc = "scan"
    /\ LET xs == IF buildDir THEN content ELSE {} IN
         /\ report' = report \cup Findings(xs)
         /\ globalresult' = (globalresult /\ ~Fails(xs))
         /\ scanned' = xs
    /\ seen' = TRUE
    /\ buildDir' = FALSE /\ content' = {}
    /\ pc' = "self"
    /\ UNCHANGED <<files, hit, idx, ksrc, build, usesUnpack, result, fallback,
                   skel, ChildVars>>

(* validate_file() on the spec file itself and the clean-up (775-784). *)
SpecSelf ==
    /\ pc = "self"
    /\ report' = report \cup Findings({SPEC})
    /\ globalresult' = (globalresult /\ ~Fails({SPEC}))
    /\ build' = FALSE
    /\ DriverReturns(globalresult')
    /\ UNCHANGED <<files, hit, ksrc, usesUnpack, seen, fallback, scanned,
                   ChildVars, FsVars>>

(* The closing report of inspect_unicode() (852-871). *)
FinalReport ==
    /\ pc = "report"
    /\ IF result
          THEN report' = report \cup {[kind |-> "ok"]} /\ UNCHANGED result
          ELSE IF ~seen
                  THEN report' = report \cup {[kind |-> "only_source"]}
                       /\ result' = TRUE
                  ELSE UNCHANGED <<report, result>>
    /\ pc' = "done"
    /\ UNCHANGED <<files, hit, idx, ksrc, build, usesUnpack, globalresult, seen,
                   fallback, scanned, ChildVars, FsVars>>

(* rpminspect has finished, or died on a failed assert. *)
Terminated ==
    /\ pc \in {"done", "aborted"}
    /\ UNCHANGED vars

Parent ==
    \/ OtherFile \/ SpecFile \/ PrepFork \/ ParentRead \/ ParentWait
    \/ ManualStart \/ Extract \/ Scan \/ SpecSelf \/ FinalReport

Child == ChildPrep \/ ChildWrite \/ ChildExit

Next == Parent \/ Child \/ Terminated

(* Parent and child are processes the kernel keeps scheduling. *)
Spec == Init /\ [][Next]_vars /\ WF_vars(Parent) /\ WF_vars(Child)

-----------------------------------------------------------------------------
(* The spec file has been through unicode_driver(). *)
SpecDone == seen /\ pc \in {"file", "report", "done"}

(***************************************************************************)
(* rpm_prep_source() drains the pipe before it waits for the child (spec *)
(* 5): the parent never sits in waitpid() while the child is blocked on a *)
(* full pipe with output still to write.                                  *)
(***************************************************************************)
NoPipeDeadlock ==
    ~(pc = "wait" /\ child = "write" /\ out > 0 /\ pipe = PipeCap)

(***************************************************************************)
(* The tree walked for the spec file comes from one tier: the leftovers  *)
(* of a failed %prep are wiped (rmtree contents, 280-285) before the      *)
(* fallback unpacks the archives into the same BUILD directory.          *)
(***************************************************************************)
OneTierScanned ==
    pc = "self" =>
        ~(scanned \cap {"prep", "prepPartial"} # {} /\ scanned \cap Sources # {})

(***************************************************************************)
(* Once the spec file has been inspected, the materialised BUILD tree is *)
(* gone, whichever tier produced it (spec 3: deleted at the end of that   *)
(* package's inspection, never retained across files).                    *)
(***************************************************************************)
TreeRemoved == SpecDone => ~buildDir

(***************************************************************************)
(* inspect_unicode() returns FALSE exactly when it reported a failing     *)
(* (non-INFO) forbidden code point, whichever file or tree part it was in *)
(* and in whatever order the files came.                                  *)
(***************************************************************************)
VerdictMatchesReport ==
    pc = "done" =>
        (result <=> ~\E r \in report : r.kind = "codepoint" /\ r.sev = "verify")

(* The inspection comes to an end: the child's output is always drained. *)
DriverTerminates == <>(pc \in {"done", "aborted"})

(***************************************************************************)
(* The spec (6): the prep child exits 0 on success; any other exit code  *)
(* or an abnormal termination is a failure.  A tree produced by %prep is  *)
(* scanned without the fallback only when the child exited with 0.       *)
(***************************************************************************)
OnlyCleanPrepAccepted ==
    (pc = "scan" /\ ~fallback) => status = ExitStatus(0)

=============================================================================
