------------------------------ MODULE JoinKind ------------------------------
(***************************************************************************)
(* The kinds of joins and what each does with its rows                     *)
(* (src/plan/include/antb1/plan/join_kind.h): the table every rule that    *)
(* tells kinds apart reads, and the predicates the binder, the optimizer,  *)
(* the physical planner and the join operators derive from it.             *)
(***************************************************************************)
JoinKinds == {"inner", "left", "semi", "anti", "null_aware_anti", "one_row", "full"}
BuildSides == {"left", "right"}

TraitNames == {"outputs_right", "filters_left", "pads_right", "pads_left", "drops_unmatched_left",
               "keyless", "null_aware", "residuals", "may_build_left"}

\* Whether `kind` has the trait.
Traits(kind) ==
  LET has == CASE kind = "inner" ->
                    {"outputs_right", "drops_unmatched_left", "residuals", "may_build_left"}
               [] kind = "left" -> {"outputs_right", "pads_right", "residuals"}
               [] kind = "semi" ->
                    {"filters_left", "drops_unmatched_left", "residuals", "may_build_left"}
               [] kind = "anti" -> {"filters_left", "residuals", "may_build_left"}
               [] kind = "null_aware_anti" -> {"filters_left", "null_aware"}
               [] kind = "one_row" -> {"outputs_right", "keyless"}
               [] kind = "full" -> {"outputs_right", "pads_right", "pads_left", "residuals"}
  IN  [t \in TraitNames |-> t \in has]

OutputsMatchesOnly(kind) ==
  LET t == Traits(kind)
  IN  t["outputs_right"] /\ ~t["pads_left"] /\ ~t["pads_right"] /\ ~t["keyless"]

EmitsBuildRows(kind, side) ==
  LET t == Traits(kind)
  IN  IF side = "left" THEN t["filters_left"] \/ t["pads_right"] ELSE t["pads_left"]

EmitsProbeAndBuildRows(kind, side) == EmitsBuildRows(kind, side) /\ Traits(kind)["outputs_right"]

EmitsUnmatchedBuildRows(kind, side) ==
  LET t == Traits(kind)
  IN  IF side = "left"
      THEN t["pads_right"] \/ (t["filters_left"] /\ ~t["drops_unmatched_left"])
      ELSE t["pads_left"]

\* Mutant: a join that outputs its right input's columns needs a build row for every row.
EmptyBuildEmptiesJoinMutant(kind) ==
  Traits(kind)["drops_unmatched_left"] \/ Traits(kind)["outputs_right"]

EmptyBuildEmptiesJoin(kind) ==
  Traits(kind)["drops_unmatched_left"] /\ ~Traits(kind)["pads_left"]

ProbeDropsUnmatchedRows(kind, build) ==
  LET t == Traits(kind)
  IN  /\ ~t["null_aware"]
      /\ ~t["keyless"]
      /\ IF build = "right" THEN t["drops_unmatched_left"] ELSE ~t["pads_left"]
=============================================================================
