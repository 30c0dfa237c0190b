--------------------------- MODULE MCWorkflowForm ---------------------------
(***************************************************************************)
(* A small instance of WorkflowForm for TLC.  The operator leaves the ids  *)
(* as the form gives them, or empty: none is typed twice.                  *)
(***************************************************************************)
EXTENDS WorkflowForm

LeftEmpty == {NoId}
=============================================================================
