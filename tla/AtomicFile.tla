------------------------------ MODULE AtomicFile ------------------------------
(***************************************************************************)
(* What atomic_write promises its callers: a file whose content is always  *)
(* the whole payload of one call or no file at all, replaced in one step,  *)
(* and a set of contents a power loss may fall back to, which a call whose *)
(* directory fsync succeeded has reduced to the current one.               *)
(***************************************************************************)
CONSTANTS Call, None

VARIABLES
    file,      \* the call whose payload a reader finds, or None
    after,     \* what a reader may find after a power loss now
    status     \* status[c] of each call

vars == <<file, after, status>>

Init ==
    /\ file = None
    /\ after = {None}
    /\ status = [c \in Call |-> "idle"]

\* A call begins, or is refused for its path at once.
Invoke(c) ==
    /\ status[c] = "idle"
    /\ \E s \in {"running", "rejected"} : status' = [status EXCEPT ![c] = s]
    /\ UNCHANGED <<file, after>>

\* The one step in which the new payload appears.
Replace(c) ==
    /\ status[c] = "running"
    /\ status' = [status EXCEPT ![c] = "replaced"]
    /\ file' = c
    /\ after' = after \cup {c}

\* Ok with the directory on disk: no older content can come back.
Flush(c) ==
    /\ status[c] = "replaced"
    /\ status' = [status EXCEPT ![c] = "ok"]
    /\ after' = {file}
    /\ UNCHANGED file

\* Ok without it.
Finish(c) ==
    /\ status[c] = "replaced"
    /\ status' = [status EXCEPT ![c] = "okUnflushed"]
    /\ UNCHANGED <<file, after>>

\* An error, only of a call that has replaced nothing.
Fail(c) ==
    /\ status[c] = "running"
    /\ \E s \in {"err", "rejected"} : status' = [status EXCEPT ![c] = s]
    /\ UNCHANGED <<file, after>>

\* Threads panic and processes die, taking any set of unfinished calls.
Lose ==
    /\ \E gone \in SUBSET {c \in Call : status[c] \in {"running", "replaced"}} :
         status' = [c \in Call |-> IF c \in gone THEN "lost" ELSE status[c]]
    /\ UNCHANGED <<file, after>>

\* Power is lost: the file falls back to something that was still possible.
PowerLoss ==
    /\ file' \in after
    /\ after' = {file'}
    /\ status' = [c \in Call |->
                    IF status[c] \in {"running", "replaced"} THEN "lost"
                                                             ELSE status[c]]

Next ==
    \/ \E c \in Call : \/ Invoke(c) \/ Replace(c) \/ Flush(c)
                       \/ Finish(c) \/ Fail(c)
    \/ Lose
    \/ PowerLoss

Spec == Init /\ [][Next]_vars
==============================================================================
