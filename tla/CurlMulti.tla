----------------------------- MODULE CurlMulti -----------------------------
(***************************************************************************)
(* Batch download of several URL -> destination-file jobs under one       *)
(* libcurl multi handle: curl_get_files() in src/lib/curl.c.              *)
(*                                                                         *)
(* The function runs in one thread.  libcurl moves the transfers only     *)
(* inside curl_multi_perform(), so each transfer's network outcome is a   *)
(* nondeterministic choice made by the action that models one iteration   *)
(* of the polling loop.  The environment may also fail: curl_easy_init()  *)
(* (InitMayFail), fopen() (OpenMayFail), curl_multi_perform()/wait()      *)
(* (MultiMayFail), the final flush done by fclose() (FlushMayFail) and    *)
(* unlink() of a failed job's file (UnlinkMayFail).                       *)
(*                                                                         *)
(* disk[j] is what the destination file of job j holds:                   *)
(*   "none"     the file does not exist                                    *)
(*   "partial"  the file exists but does not hold the whole artifact       *)
(*              (freshly created by fopen "wb", or a cut-off download)    *)
(*   "buffered" libcurl delivered every byte, the tail still sits in the  *)
(*              stdio buffer of fp[j]                                      *)
(*   "full"     the file holds the whole artifact                          *)
(***************************************************************************)
EXTENDS Naturals, FiniteSets

CONSTANTS
    N,              \* number of entries in the urls list
    InitMayFail,    \* curl_easy_init() may return NULL
    OpenMayFail,    \* fopen(dst, "wb") may return NULL
    MultiMayFail,   \* curl_multi_perform()/curl_multi_wait() may fail
    FlushMayFail,   \* fclose() may fail to write the buffered tail
    UnlinkMayFail,  \* unlink(dst[i]) of a failed job may fail
    MaxRepeats      \* bound on the counter of consecutive empty polls

ASSUME N \in Nat \ {0}
ASSUME {InitMayFail, OpenMayFail, MultiMayFail, FlushMayFail, UnlinkMayFail}
         \subseteq BOOLEAN
ASSUME MaxRepeats \in Nat \ {0}

Jobs == 1..N

VARIABLES
    pc,         \* where curl_get_files() is
    next,       \* index i of the url being added in the TAILQ_FOREACH loop
    handle,     \* handle[j]: c[j] was created and added to the multi handle
    fp,         \* fp[j] # NULL: the destination FILE is open
    disk,       \* content of the destination file (see above)
    xfer,       \* libcurl's state of transfer j
    msgs,       \* jobs whose CURLMSG_DONE is queued for curl_multi_info_read
    running,    \* the 'running' variable of the function
    numfds,     \* the 'numfds' variable
    repeats     \* the 'repeats' variable

vars == <<pc, next, handle, fp, disk, xfer, msgs, running, numfds, repeats>>

Phases == {"add", "loop", "info", "cleanup", "done", "exited"}
Content == {"none", "partial", "buffered", "full"}
XferState == {"idle", "running", "ok", "failed"}

TypeOK ==
    /\ pc \in Phases
    /\ next \in 1..N
    /\ handle \in [Jobs -> BOOLEAN]
    /\ fp \in [Jobs -> BOOLEAN]
    /\ disk \in [Jobs -> Content]
    /\ xfer \in [Jobs -> XferState]
    /\ msgs \subseteq Jobs
    /\ running \in 0..N
    /\ numfds \in {0, 1}
    /\ repeats \in 0..MaxRepeats

Init ==
    /\ pc = "add"
    /\ next = 1
    /\ handle = [j \in Jobs |-> FALSE]
    /\ fp = [j \in Jobs |-> FALSE]
    /\ disk = [j \in Jobs |-> "none"]
    /\ xfer = [j \in Jobs |-> "idle"]
    /\ msgs = {}
    /\ running = 1
    /\ numfds = 0
    /\ repeats = 0

(***************************************************************************)
(* One pass of the loop that creates a handle and opens the destination  *)
(* file for url 'next' (curl.c 283-336).  A NULL easy handle returns from *)
(* the function at once; a NULL FILE ends the program through err().     *)
(***************************************************************************)
(* Mutant: the add loop stops one url too late. *)
AddHandleOffByOne ==
    /\ pc = "add"
    /\ handle' = [handle EXCEPT ![next] = TRUE]
    /\ fp' = [fp EXCEPT ![next] = TRUE]
    /\ disk' = [disk EXCEPT ![next] = "partial"]
    /\ xfer' = [xfer EXCEPT ![next] = "running"]
    /\ IF next = N + 1
          THEN pc' = "loop" /\ next' = next
          ELSE pc' = "add" /\ next' = next + 1
    /\ UNCHANGED <<msgs, running, numfds, repeats>>

AddHandle ==
    /\ pc = "add"
    /\ \/ /\ InitMayFail
          /\ pc' = "done"
          /\ UNCHANGED <<next, handle, fp, disk, xfer>>
       \/ /\ OpenMayFail
          /\ pc' = "exited"
          /\ UNCHANGED <<next, handle, fp, disk, xfer>>
       \/ /\ handle' = [handle EXCEPT ![next] = TRUE]
          /\ fp' = [fp EXCEPT ![next] = TRUE]
          /\ disk' = [disk EXCEPT ![next] = "partial"]
          /\ xfer' = [xfer EXCEPT ![next] = "running"]
          /\ IF next = N
                THEN pc' = "loop" /\ next' = next
                ELSE pc' = "add" /\ next' = next + 1
    /\ UNCHANGED <<msgs, running, numfds, repeats>>

(***************************************************************************)
(* What curl_multi_perform() does to the transfers: each running one     *)
(* stays running, completes, or fails; a completed one has handed all of *)
(* its bytes to fwrite(), a failed one leaves what it wrote so far.       *)
(***************************************************************************)
Progress(outcome) ==
    /\ xfer' = [j \in Jobs |-> IF xfer[j] = "running" THEN outcome[j] ELSE xfer[j]]
    /\ disk' = [j \in Jobs |-> IF xfer[j] = "running" /\ outcome[j] = "ok"
                                  THEN "buffered" ELSE disk[j]]
    /\ msgs' = msgs \cup {j \in Jobs : xfer[j] = "running" /\ outcome[j] # "running"}
    /\ running' = Cardinality({j \in Jobs : xfer'[j] = "running"})

(* The numfds bookkeeping at the end of a loop iteration (curl.c 361-371). *)
CountEmptyPoll(fds) ==
    IF fds = 0 THEN repeats' = repeats + 1 ELSE repeats' = 0

(***************************************************************************)
(* One iteration of 'while (running)' (curl.c 339-372): perform, then, if *)
(* transfers remain, wait for activity; a failing perform or wait breaks *)
(* out of the loop with the remaining transfers still in flight.         *)
(***************************************************************************)
PerformStep ==
    /\ pc = "loop"
    /\ \/ /\ MultiMayFail                                  \* perform fails
          /\ pc' = "info"
          /\ UNCHANGED <<xfer, disk, msgs, running, numfds, repeats>>
       \/ \E outcome \in [Jobs -> {"running", "ok", "failed"}] :
            /\ Progress(outcome)
            /\ IF running' = 0
                  THEN /\ pc' = "info"                     \* loop ends
                       /\ numfds = 0 => repeats < MaxRepeats
                       /\ CountEmptyPoll(numfds)
                       /\ UNCHANGED numfds
                  ELSE \/ /\ MultiMayFail                  \* wait fails
                          /\ pc' = "info"
                          /\ UNCHANGED <<numfds, repeats>>
                       \/ \E fds \in {0, 1} :
                            /\ fds = 0 => repeats < MaxRepeats
                            /\ numfds' = fds
                            /\ CountEmptyPoll(fds)
                            /\ pc' = "loop"
    /\ UNCHANGED <<next, handle, fp>>

(***************************************************************************)
(* One curl_multi_info_read() (curl.c 375-394): a CURLMSG_DONE with an    *)
(* error result closes and unlinks that job's file; a successful one is  *)
(* left alone.  A failing unlink() only warns, and the file stays; the   *)
(* fclose() of 380 has nothing buffered to lose, and its warning is all  *)
(* it does.  An empty queue ends the loop.                               *)
(***************************************************************************)
(* Mutant: every CURLMSG_DONE unlinks, whatever its result. *)
InfoReadAnyResult ==
    /\ pc = "info"
    /\ \/ \E j \in msgs :
            /\ msgs' = msgs \ {j}
            /\ fp' = [fp EXCEPT ![j] = FALSE]
            /\ disk' = [disk EXCEPT ![j] = "none"]
            /\ UNCHANGED pc
       \/ /\ msgs = {}
          /\ pc' = "cleanup"
          /\ UNCHANGED <<msgs, fp, disk>>
    /\ UNCHANGED <<next, handle, xfer, running, numfds, repeats>>

(* Mutant: the message is handled but never taken off the queue. *)
InfoReadKeepsMessage ==
    /\ pc = "info"
    /\ \/ \E j \in msgs :
            /\ IF xfer[j] = "failed"
                  THEN /\ fp' = [fp EXCEPT ![j] = FALSE]
                       /\ disk' = [disk EXCEPT ![j] = "none"]
                  ELSE UNCHANGED <<fp, disk>>
            /\ UNCHANGED <<pc, msgs>>
       \/ /\ msgs = {}
          /\ pc' = "cleanup"
          /\ UNCHANGED <<msgs, fp, disk>>
    /\ UNCHANGED <<next, handle, xfer, running, numfds, repeats>>

InfoRead ==
    /\ pc = "info"
    /\ \/ \E j \in msgs, unlinked \in IF UnlinkMayFail THEN BOOLEAN ELSE {TRUE} :
            /\ msgs' = msgs \ {j}
            /\ IF xfer[j] = "failed"
                  THEN /\ fp' = [fp EXCEPT ![j] = FALSE]
                       /\ disk' = IF unlinked THEN [disk EXCEPT ![j] = "none"] ELSE disk
                  ELSE UNCHANGED <<fp, disk>>
            /\ UNCHANGED pc
       \/ /\ msgs = {}
          /\ pc' = "cleanup"
          /\ UNCHANGED <<msgs, fp, disk>>
    /\ UNCHANGED <<next, handle, xfer, running, numfds, repeats>>

(***************************************************************************)
(* The clean-up loop (curl.c 397-410): every handle is removed and every *)
(* FILE still open is closed.  fclose() flushes the buffered tail; when  *)
(* that write fails the code only warns, and the file keeps a truncated  *)
(* download.                                                              *)
(***************************************************************************)
Cleanup ==
    /\ pc = "cleanup"
    /\ \E flushFails \in SUBSET {j \in Jobs : fp[j] /\ disk[j] = "buffered"} :
         /\ FlushMayFail \/ flushFails = {}
         /\ disk' = [j \in Jobs |->
                       IF fp[j] /\ disk[j] = "buffered"
                          THEN IF j \in flushFails THEN "partial" ELSE "full"
                          ELSE disk[j]]
    /\ fp' = [j \in Jobs |-> FALSE]
    /\ handle' = [j \in Jobs |-> FALSE]
    /\ pc' = "done"
    /\ UNCHANGED <<next, xfer, msgs, running, numfds, repeats>>

(* The function has returned, or the program has exited. *)
Terminated ==
    /\ pc \in {"done", "exited"}
    /\ UNCHANGED vars

Next ==
    \/ AddHandle
    \/ PerformStep
    \/ InfoRead
    \/ Cleanup
    \/ Terminated

(* The function runs in one thread that is never descheduled for good. *)
Spec == Init /\ [][Next]_vars /\ WF_vars(Next)

-----------------------------------------------------------------------------
Finished == pc \in {"done", "exited"}

(***************************************************************************)
(* The spec (4.2): a destination file of a job that did not complete     *)
(* successfully is deleted, so a partial download never masquerades as  *)
(* a valid artifact.  When curl_get_files() returns, every destination   *)
(* file either does not exist or holds the whole artifact.               *)
(***************************************************************************)
NoPartialArtifact ==
    pc = "done" => \A j \in Jobs : disk[j] \in {"none", "full"}

(***************************************************************************)
(* If every transfer eventually leaves the running state (the network    *)
(* does not stall for ever; libcurl has no timeout set here), the polling *)
(* loop, the message loop and the clean-up all come to an end.           *)
(***************************************************************************)
Termination ==
    (\A j \in Jobs : <>[](xfer[j] # "running")) => <>Finished

(***************************************************************************)
(* Refinement: curl_get_files() implements the batch-fetch promise of    *)
(* FetchBatch.  A job is idle until its handle is added, fetching while  *)
(* libcurl runs it, and settled once libcurl decides its outcome; its    *)
(* file exists unless the disk holds nothing; the function has ended     *)
(* when it returns, and aborted when err() ends the program.  The       *)
(* property fails if any step removes the file of a job that did not    *)
(* fail, revises an outcome, recreates a removed file, or returns       *)
(* normally with a failed job's file still on disk and no warning.      *)
(***************************************************************************)
AbstractStatus ==
    [j \in Jobs |-> IF xfer[j] = "running" THEN "fetching" ELSE xfer[j]]

(* A failed job whose message was read and whose file is still there:   *)
(* its unlink() failed, and the code warned.                            *)
Warned ==
    {j \in Jobs : xfer[j] = "failed" /\ j \notin msgs /\ ~fp[j] /\ disk[j] # "none"}

Abstract == INSTANCE FetchBatch WITH
    Jobs <- Jobs,
    status <- AbstractStatus,
    warned <- Warned,
    file <- [j \in Jobs |-> disk[j] # "none"],
    ended <- CASE pc = "done" -> "returned"
               [] pc = "exited" -> "exited"
               [] OTHER -> "no"

FetchBatchSpec == Abstract!Spec

=============================================================================
