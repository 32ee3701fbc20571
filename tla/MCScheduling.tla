---------------------------- MODULE MCScheduling ----------------------------
(***************************************************************************)
(* The part scheduler and the memory budget of a query, for one run of     *)
(* TLC: a behaviour is one of the two, each as it is proved, and the other *)
(* rests at its start.                                                     *)
(***************************************************************************)
EXTENDS PartScheduler, MemoryBudget

VARIABLE subject   \* the component that runs

schedulingVars == <<subject, vars, budgetVars>>

\* A scheduler whose Next was never called: no executor, parts that succeed.
RestingScheduler ==
  /\ executor = FALSE
  /\ fate = [p \in Parts |-> "ok"]
  /\ Init

\* A budget without a limit that nothing was charged to.
RestingBudget == limit = NoLimit /\ BudgetInit

SchedulingInit ==
  \/ subject = "scheduler" /\ Init /\ RestingBudget
  \/ subject = "budget" /\ BudgetInit /\ RestingScheduler

SchedulerStep == subject = "scheduler" /\ Next /\ UNCHANGED <<subject, budgetVars>>
BudgetStep == subject = "budget" /\ BudgetNext /\ UNCHANGED <<subject, vars>>

SchedulingNext == SchedulerStep \/ BudgetStep

SchedulingSpec ==
  SchedulingInit /\ [][SchedulingNext]_schedulingVars /\ Fairness
=============================================================================
