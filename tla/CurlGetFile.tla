---------------------------- MODULE CurlGetFile ----------------------------
(***************************************************************************)
(* Download of one URL to one destination file with the terminal        *)
(* progress bar: curl_get_file(), setup_progress_bar() and               *)
(* download_progress() in src/lib/curl.c, and the SIGWINCH handler of    *)
(* the program, which only sets the global terminal_resized.             *)
(*                                                                         *)
(* The function runs in one thread; libcurl calls download_progress()    *)
(* from inside curl_easy_perform().  The only concurrency is the signal  *)
(* handler, which may run between any two steps of the callback.  The    *)
(* callback is therefore split at the points where it reads or writes    *)
(* the globals the handler shares with it.  Screen output is not kept:   *)
(* 'drawn' counts the '#' marks emitted into the bar frame drawn last.  *)
(***************************************************************************)
EXTENDS Naturals

CONSTANTS
    Widths,         \* the widths tty_width() may return
    Size,           \* bytes of the artifact
    MaxResizes,     \* bound on the SIGWINCH signals delivered
    SizeMod,        \* 2^w for a size_t of w bits
    InitMayFail,    \* curl_easy_init() may return NULL
    OpenMayFail,    \* fopen(dst, "wb") may return NULL
    FcloseMayFail,  \* fclose() may fail to write the buffered tail
    UnlinkMayFail   \* unlink(dst) may fail

ASSUME Widths \subseteq Nat /\ Size \in Nat \ {0} /\ MaxResizes \in Nat
ASSUME {InitMayFail, OpenMayFail, FcloseMayFail, UnlinkMayFail} \subseteq BOOLEAN

VARIABLES
    pc,             \* where curl_get_file() is
    bar,            \* verbose && isatty(): the callback is installed
    tty,            \* the width of the terminal now
    resized,        \* terminal_resized
    resizes,        \* signals delivered so far
    total_width,
    bar_width,
    displayed,      \* progress_displayed
    drawn,          \* '#' marks emitted since the bar was last drawn
    cb,             \* where download_progress() is
    pct,            \* its local 'percentage'
    dltotal,        \* what libcurl reports as the total (0: unknown)
    dlnow,
    xfer,           \* libcurl's state of the transfer
    file            \* "none", "partial", "buffered" or "full" (as CurlMulti)

vars == <<pc, bar, tty, resized, resizes, total_width, bar_width, displayed,
          drawn, cb, pct, dltotal, dlnow, xfer, file>>

TypeOK ==
    /\ pc \in {"init", "open", "perform", "close", "unlink", "cleanup",
               "done", "exited"}
    /\ bar \in BOOLEAN /\ tty \in Widths
    /\ resized \in {0, 1} /\ resizes \in 0..MaxResizes
    /\ total_width \in {0} \cup Widths /\ bar_width \in 0..(SizeMod - 1)
    /\ displayed \in Nat /\ drawn \in Nat
    /\ cb \in {"idle", "setup", "reset", "draw"}
    /\ pct \in 0..100 /\ dltotal \in {0, Size} /\ dlnow \in 0..Size
    /\ xfer \in {"running", "ok", "failed"}
    /\ file \in {"none", "partial", "buffered", "full"}

(* The first call in the process: the statics hold their initial zeros. *)
Init ==
    /\ pc = "init"
    /\ bar \in BOOLEAN /\ tty \in Widths
    /\ resized = 0 /\ resizes = 0
    /\ total_width = 0 /\ bar_width = 0 /\ displayed = 0 /\ drawn = 0
    /\ cb = "idle" /\ pct = 0
    /\ dltotal \in {0, Size} /\ dlnow = 0
    /\ xfer = "running" /\ file = "none"

(* bar_width = half_width - 2, in size_t arithmetic. *)
BarWidth(w) == ((w \div 2) - 2 + SizeMod) % SizeMod

(***************************************************************************)
(* setup_progress_bar(): the width is read from the terminal only when   *)
(* total_width is 0; the displayed count restarts and the frame is      *)
(* drawn again.  The message and the escape sequences are layout.       *)
(***************************************************************************)
SetupProgressBar ==
    /\ total_width' = IF total_width = 0 THEN tty ELSE total_width
    /\ bar_width' = IF total_width = 0 THEN BarWidth(tty) ELSE bar_width
    /\ displayed' = 0
    /\ drawn' = 0

(* The hash marks a percentage stands for: (percentage / 100.0) * bar_width. *)
Hashes(p, w) == (p * w) \div 100

Percentage(total, now) ==
    IF total > 0 THEN (100 * now + total \div 2) \div total ELSE 0

(***************************************************************************)
(* curl_easy_init() and the options (curl.c 175-200): a NULL handle      *)
(* returns at once; with the callback installed the bar is set up.       *)
(***************************************************************************)
Start ==
    /\ pc = "init"
    /\ \/ /\ InitMayFail
          /\ pc' = "done"
          /\ UNCHANGED <<total_width, bar_width, displayed, drawn>>
       \/ /\ pc' = "open"
          /\ IF bar THEN SetupProgressBar
                    ELSE UNCHANGED <<total_width, bar_width, displayed, drawn>>
    /\ UNCHANGED <<bar, tty, resized, resizes, cb, pct, dltotal, dlnow, xfer, file>>

(* fopen(dst, "wb") (curl.c 202-206): failure ends the program by err(). *)
Open ==
    /\ pc = "open"
    /\ \/ /\ OpenMayFail
          /\ pc' = "exited" /\ UNCHANGED file
       \/ /\ pc' = "perform" /\ file' = "partial"
    /\ UNCHANGED <<bar, tty, resized, resizes, total_width, bar_width,
                   displayed, drawn, cb, pct, dltotal, dlnow, xfer>>

(* Mutant: the receive loop does not stop at the artifact's size. *)
ReceivePastSize ==
    /\ pc = "perform" /\ cb = "idle"
    /\ dlnow' = dlnow + 1
    /\ UNCHANGED <<pc, bar, tty, resized, resizes, total_width, bar_width,
                   displayed, drawn, cb, pct, dltotal, xfer, file>>

(* Inside curl_easy_perform(): bytes arrive and are written to fp. *)
Receive ==
    /\ pc = "perform" /\ cb = "idle" /\ dlnow < Size
    /\ dlnow' = dlnow + 1
    /\ UNCHANGED <<pc, bar, tty, resized, resizes, total_width, bar_width,
                   displayed, drawn, cb, pct, dltotal, xfer, file>>

(***************************************************************************)
(* libcurl calls download_progress() (curl.c 110-152); it computes the   *)
(* percentage and reads terminal_resized.                                *)
(***************************************************************************)
Progress ==
    /\ pc = "perform" /\ bar /\ cb = "idle"
    /\ pct' = Percentage(dltotal, dlnow)
    /\ cb' = IF resized = 1 THEN "setup" ELSE "draw"
    /\ UNCHANGED <<pc, bar, tty, resized, resizes, total_width, bar_width,
                   displayed, drawn, dltotal, dlnow, xfer, file>>

(* Mutant: the frame is redrawn but progress_displayed is not reset. *)
ProgressSetupKeepsDisplayed ==
    /\ cb = "setup"
    /\ total_width' = tty /\ bar_width' = BarWidth(tty)
    /\ drawn' = 0
    /\ cb' = "reset"
    /\ UNCHANGED <<pc, bar, tty, resized, resizes, displayed, pct, dltotal,
                   dlnow, xfer, file>>

(* total_width = 0; setup_progress_bar(NULL) (curl.c 126-127). *)
ProgressSetup ==
    /\ cb = "setup"
    /\ total_width' = tty /\ bar_width' = BarWidth(tty)
    /\ displayed' = 0 /\ drawn' = 0
    /\ cb' = "reset"
    /\ UNCHANGED <<pc, bar, tty, resized, resizes, pct, dltotal, dlnow, xfer, file>>

(* terminal_resized = 0 (curl.c 130). *)
ProgressReset ==
    /\ cb = "reset"
    /\ resized' = 0 /\ cb' = "draw"
    /\ UNCHANGED <<pc, bar, tty, resizes, total_width, bar_width, displayed,
                   drawn, pct, dltotal, dlnow, xfer, file>>

(* The new hash marks are printed and progress_displayed set (137-151). *)
ProgressDraw ==
    /\ cb = "draw"
    /\ LET h == Hashes(pct, bar_width)
       IN /\ drawn' = IF h > displayed THEN drawn + (h - displayed) ELSE drawn
          /\ displayed' = h
    /\ cb' = "idle"
    /\ UNCHANGED <<pc, bar, tty, resized, resizes, total_width, bar_width,
                   pct, dltotal, dlnow, xfer, file>>

(***************************************************************************)
(* curl_easy_perform() returns (curl.c 214): CURLE_OK once every byte is *)
(* written, an error at any point (FAILONERROR, network, redirects).    *)
(***************************************************************************)
Perform ==
    /\ pc = "perform" /\ cb = "idle"
    /\ \/ /\ dlnow = Size
          /\ xfer' = "ok" /\ file' = "buffered"
       \/ /\ xfer' = "failed" /\ UNCHANGED file
    /\ pc' = "close"
    /\ UNCHANGED <<bar, tty, resized, resizes, total_width, bar_width,
                   displayed, drawn, cb, pct, dltotal, dlnow>>

(* Mutant: the cc != CURLE_OK test is dropped; every file is unlinked. *)
FcloseUnlinkAlways ==
    /\ pc = "close"
    /\ \E ok \in IF FcloseMayFail THEN BOOLEAN ELSE {TRUE} :
         IF ok THEN /\ file' = IF file = "buffered" THEN "full" ELSE file
                    /\ pc' = "unlink"
               ELSE /\ file' = IF file = "buffered" THEN "partial" ELSE file
                    /\ pc' = "exited"
    /\ UNCHANGED <<bar, tty, resized, resizes, total_width, bar_width,
                   displayed, drawn, cb, pct, dltotal, dlnow, xfer>>

(***************************************************************************)
(* fclose(fp) (curl.c 221-224): it flushes the tail; a failure ends the  *)
(* program through err() with what reached the disk.                    *)
(***************************************************************************)
Fclose ==
    /\ pc = "close"
    /\ \E ok \in IF FcloseMayFail THEN BOOLEAN ELSE {TRUE} :
         IF ok THEN /\ file' = IF file = "buffered" THEN "full" ELSE file
                    /\ pc' = IF xfer = "failed" THEN "unlink" ELSE "cleanup"
               ELSE /\ file' = IF file = "buffered" THEN "partial" ELSE file
                    /\ pc' = "exited"
    /\ UNCHANGED <<bar, tty, resized, resizes, total_width, bar_width,
                   displayed, drawn, cb, pct, dltotal, dlnow, xfer>>

(* unlink(dst) after an error (curl.c 226-231): a failure only warns. *)
Unlink ==
    /\ pc = "unlink"
    /\ \E ok \in IF UnlinkMayFail THEN BOOLEAN ELSE {TRUE} :
         file' = IF ok THEN "none" ELSE file
    /\ pc' = "cleanup"
    /\ UNCHANGED <<bar, tty, resized, resizes, total_width, bar_width,
                   displayed, drawn, cb, pct, dltotal, dlnow, xfer>>

(* curl_easy_cleanup(c); return (curl.c 233-236). *)
Cleanup ==
    /\ pc = "cleanup" /\ pc' = "done"
    /\ UNCHANGED <<bar, tty, resized, resizes, total_width, bar_width,
                   displayed, drawn, cb, pct, dltotal, dlnow, xfer, file>>

(***************************************************************************)
(* The terminal is resized and the SIGWINCH handler sets                 *)
(* terminal_resized = 1; it can interrupt any step of the thread.        *)
(***************************************************************************)
Resize ==
    /\ pc \notin {"done", "exited"} /\ resizes < MaxResizes
    /\ \E w \in Widths \ {tty} : tty' = w
    /\ resized' = 1 /\ resizes' = resizes + 1
    /\ UNCHANGED <<pc, bar, total_width, bar_width, displayed, drawn, cb,
                   pct, dltotal, dlnow, xfer, file>>

Terminated == pc \in {"done", "exited"} /\ UNCHANGED vars

Next ==
    \/ Start \/ Open \/ Receive \/ Perform \/ Fclose \/ Unlink \/ Cleanup
    \/ Progress \/ ProgressSetup \/ ProgressReset \/ ProgressDraw
    \/ Resize
    \/ Terminated

Spec == Init /\ [][Next]_vars

-----------------------------------------------------------------------------
(***************************************************************************)
(* Spec 4.2: resizing never corrupts the concurrent hash-mark emission.  *)
(* Between two calls of download_progress(), the '#' marks emitted into *)
(* the bar frame drawn last are exactly progress_displayed of them, and *)
(* they fit between its brackets, whatever resizes the callback saw.    *)
(***************************************************************************)
HashesInBar ==
    (bar /\ cb = "idle") => (drawn = displayed /\ displayed <= bar_width)

(***************************************************************************)
(* Spec 4.2 and 6: a resize invalidates the layout, which the next       *)
(* progress tick recomputes.  Between two calls of download_progress()  *)
(* during the transfer, the bar is laid out for the terminal's present  *)
(* width, or a resize is pending in terminal_resized.  A SIGWINCH that  *)
(* arrives between tty_width() in setup_progress_bar(NULL) and the      *)
(* reset terminal_resized = 0 (curl.c 126-130) is lost.                 *)
(***************************************************************************)
ResizeNotLost ==
    (pc = "perform" /\ bar /\ cb = "idle") => (total_width = tty \/ resized = 1)

(***************************************************************************)
(* Refinement: curl_get_file() implements FetchBatch for a single job.  *)
(* A transfer never started has no file; a failed one loses its file   *)
(* before the normal return, or keeps it with the warning of 229.       *)
(***************************************************************************)
OneJob == {1}

AbstractStatus ==
    [j \in OneJob |-> IF xfer # "running" THEN xfer
                      ELSE IF file = "none" THEN "idle" ELSE "fetching"]

(* After the unlink step a failed transfer's file is still there only   *)
(* when unlink() failed and the code warned.                           *)
Warned ==
    IF xfer = "failed" /\ file # "none" /\ pc \in {"cleanup", "done"} THEN OneJob ELSE {}

Abstract == INSTANCE FetchBatch WITH
    Jobs <- OneJob,
    warned <- Warned,
    status <- AbstractStatus,
    file <- [j \in OneJob |-> file # "none"],
    ended <- CASE pc = "done" -> "returned"
               [] pc = "exited" -> "exited"
               [] OTHER -> "no"

FetchOneSpec == Abstract!Spec

=============================================================================
