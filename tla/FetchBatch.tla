----------------------------- MODULE FetchBatch -----------------------------
(***************************************************************************)
(* What a batch fetch promises its caller (spec 4.2), with no libcurl,    *)
(* stdio or polling in it: every job is started once, its outcome is     *)
(* decided once and never revised, only the file of a failed job is      *)
(* ever removed, and when the fetch returns normally no failed job has   *)
(* a file left unless a warning said it could not be removed.  Spec 4.2 *)
(* says the file is deleted; the code only warns when unlink() fails     *)
(* (curl.c 227-232, 384-386), and Keep is that warning.  An abort (the   *)
(* program exiting) may end the batch at any point.  CurlMulti and       *)
(* CurlGetFile are shown to implement this specification.                *)
(***************************************************************************)
CONSTANT Jobs

VARIABLES
    status,    \* status[j]: "idle", "fetching", "ok" or "failed"
    file,      \* file[j]: whether the destination file of j exists
    ended,     \* "no", "returned" or "exited"
    warned     \* failed jobs whose file could not be removed, with a warning

Init ==
    /\ status = [j \in Jobs |-> "idle"]
    /\ file = [j \in Jobs |-> FALSE]
    /\ ended = "no"
    /\ warned = {}

(* A job is started: its destination file is created. *)
Start(j) ==
    /\ ended = "no" /\ status[j] = "idle"
    /\ status' = [status EXCEPT ![j] = "fetching"]
    /\ file' = [file EXCEPT ![j] = TRUE]
    /\ UNCHANGED <<ended, warned>>

(* Any number of running jobs have their outcome decided at once. *)
Settle(S, outcome) ==
    /\ ended = "no"
    /\ S # {} /\ \A j \in S : status[j] = "fetching"
    /\ status' = [j \in Jobs |-> IF j \in S THEN outcome[j] ELSE status[j]]
    /\ UNCHANGED <<file, ended, warned>>

(* The file of a failed job is removed. *)
Remove(j) ==
    /\ ended = "no" /\ status[j] = "failed" /\ file[j]
    /\ file' = [file EXCEPT ![j] = FALSE]
    /\ UNCHANGED <<status, ended, warned>>

(* Removing the file of a failed job fails: a warning, and the file stays. *)
Keep(j) ==
    /\ ended = "no" /\ status[j] = "failed" /\ file[j] /\ j \notin warned
    /\ warned' = warned \cup {j}
    /\ UNCHANGED <<status, file, ended>>

(* A normal return: no failed job has a file left that nobody warned of. *)
Return ==
    /\ ended = "no"
    /\ \A j \in Jobs : status[j] = "failed" /\ j \notin warned => ~file[j]
    /\ ended' = "returned"
    /\ UNCHANGED <<status, file, warned>>

(* The program exits in the middle of the batch. *)
Exit ==
    /\ ended = "no"
    /\ ended' = "exited"
    /\ UNCHANGED <<status, file, warned>>

Next ==
    \/ \E j \in Jobs : Start(j) \/ Remove(j) \/ Keep(j)
    \/ \E S \in SUBSET Jobs, outcome \in [Jobs -> {"ok", "failed"}] :
          Settle(S, outcome)
    \/ Return
    \/ Exit

Spec == Init /\ [][Next]_<<status, file, ended, warned>>

=============================================================================
