---------------------------- MODULE MCPathReaders ----------------------------
(***************************************************************************)
(* PathReaders for TLC.                                                    *)
(***************************************************************************)
EXTENDS PathReaders, TLC

CONSTANT Watched   \* the call that is scheduled fairly

\* Only one call is certain to be scheduled: its thread runs on, all others
\* and the reader may stop at any statement.
FairSpec == ReadSpec /\ WF_allVars(Step(Watched) /\ WriterStep)

\* The watched call returns although no other call need ever move again.
WatchedReturns == WaitFree(Watched)
==============================================================================
