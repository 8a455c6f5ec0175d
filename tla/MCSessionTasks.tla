--------------------------- MODULE MCSessionTasks ---------------------------
(***************************************************************************)
(* Small instances of SessionTasks for TLC.                                *)
(***************************************************************************)
EXTENDS SessionTasks, TLC

CONSTANTS stream, job, command, apply, report

KindOf(t) ==
    CASE t = stream -> "stream"
      [] t = apply -> "apply"
      [] t = report -> "report"
      [] OTHER -> "job"

MCKind == [t \in Tasks |-> KindOf(t)]
=============================================================================
