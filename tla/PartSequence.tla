---------------------------- MODULE PartSequence ----------------------------
(***************************************************************************)
(* What running the parts of a pipeline promises its consumer, whatever    *)
(* schedule computes it (src/exec/part_scheduler.h, the comment over the   *)
(* class; docs/adr/0013-parallel-execution.md): the results come strictly  *)
(* in part order, the first failed part in part order ends the run with    *)
(* its own failure, and nothing but the consumer's own stop or a failure   *)
(* to submit a task ends it earlier.                                       *)
(***************************************************************************)
EXTENDS Naturals, Sequences

CONSTANT NumParts   \* the parts of the table, 0 .. NumParts - 1

VARIABLES
  fate,       \* what each part returns when it runs alone: a property of its data
  delivered,  \* the parts whose results Next() returned, in that order
  outcome     \* "running", or how the run ended

vars == <<fate, delivered, outcome>>

Parts == 0 .. NumParts - 1

\* A part alone succeeds, fails with an error of its data or its file, or needs
\* more memory than the whole budget.
Fates == {"ok", "error", "oom"}

Init ==
  /\ fate \in [Parts -> Fates]
  /\ delivered = <<>>
  /\ outcome = "running"

\* The result of the next part in part order.
Deliver ==
  /\ outcome = "running"
  /\ Len(delivered) \in Parts
  /\ fate[Len(delivered)] = "ok"
  /\ delivered' = Append(delivered, Len(delivered))
  /\ UNCHANGED <<fate, outcome>>

\* The next part in part order fails, with the status it fails with alone.
Fail ==
  /\ outcome = "running"
  /\ Len(delivered) \in Parts
  /\ fate[Len(delivered)] # "ok"
  /\ outcome' = fate[Len(delivered)]
  /\ UNCHANGED <<fate, delivered>>

\* The consumer stops, a task cannot be submitted, or Submit throws.
End ==
  /\ outcome = "running"
  /\ outcome' \in {"submitFailure", "raised", "stopped"}
  /\ UNCHANGED <<fate, delivered>>

Next == Deliver \/ Fail \/ End

Spec == Init /\ [][Next]_vars
=============================================================================
