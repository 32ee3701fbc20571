------------------------- MODULE PartSchedulerProofs -------------------------
(***************************************************************************)
(* Proofs about PartScheduler, for every number of parts, window and       *)
(* number of threads.                                                      *)
(*                                                                         *)
(* The safety properties are not inductive by themselves: that no result   *)
(* of a task that gave up is ever delivered depends on when `stop` is      *)
(* raised and lowered, and that on no task being live when it is lowered,  *)
(* which depends on in_flight_ tracking exactly the live tasks.  IndInv    *)
(* says all of it.                                                         *)
(***************************************************************************)
EXTENDS PartScheduler, TLAPS

\* The futures of in_flight_ that belong to a submitted task, and the part of
\* the first of them.
Submitted == IF reserved THEN Len(inFlight) - 1 ELSE Len(inFlight)
First == nextSubmit - Submitted

\* in_flight_ is the futures of parts First .. nextSubmit - 1, in order, and
\* while Submit() runs the reserved one behind them.
FutureInv ==
  /\ Submitted >= 0 /\ First >= 0
  /\ \A i \in 1 .. Submitted : inFlight[i] = First + i - 1
  /\ reserved => /\ inFlight[Len(inFlight)] = NoTask
                 /\ pc \in {"take", "refill"}
                 /\ nextSubmit < NumParts
  /\ Len(inFlight) <= MaxWindow
  /\ pc = "await" => Len(inFlight) < MaxWindow

\* The parts with a task are those and the awaited one.
TaskInv == \A p \in Parts : task[p] # "none" <=> p = awaited \/ (First <= p /\ p < nextSubmit)

\* A task leaves its result before it ends, and the result is the part's own
\* unless the task ran out of memory or gave up.
SlotInv ==
  \A p \in Parts :
    /\ task[p] \in {"slotted", "done"} <=> slots[p] # "none"
    /\ slots[p] \in {"none", "cancelled", "oom", fate[p]}

\* `stop` is up only while a Drop() is under way or the run is over, and only
\* then does a task give up.
StopInv ==
  /\ stop <=> pc \in {"dropping", "stopping", "closed"}
  /\ stopped <=> pc \in {"stopping", "closed"}
  /\ ~stop => \A p \in Parts : slots[p] # "cancelled" /\ task[p] # "cancelling"

\* Where the consumer is, and the parts it has reached.
PlaceInv ==
  /\ pc = "await" <=> awaited # NoTask
  /\ pc = "await" => awaited = nextResult /\ First = nextResult + 1
  /\ pc \in {"take", "await", "dropping", "beforeRetry", "alone"} => nextResult < NumParts
  /\ pc = "refill" => nextResult > 0
  /\ executor /\ pc \in {"idle", "take", "refill", "raised"} => First = nextResult
  /\ pc = "dropping" => First = nextResult + 1
  /\ pc \in {"beforeRetry", "alone"} => inFlight = <<>>
  /\ pc \in {"beforeRetry", "alone"} /\ executor => nextSubmit = nextResult + 1
  /\ ~executor => /\ pc \in {"idle", "alone", "stopping", "closed"}
                  /\ inFlight = <<>> /\ nextSubmit = 0
  /\ pc = "closed" => inFlight = <<>>

\* What Next() has returned, and what the call under way will return.
DeliveredInv ==
  /\ \A i \in 1 .. Len(delivered) : delivered[i] = i - 1 /\ fate[i - 1] = "ok"
  /\ Len(delivered) <= NumParts
  /\ pc \in {"idle", "take", "await", "dropping", "beforeRetry", "alone"} =>
       Len(delivered) = nextResult
  /\ pc = "refill" => Len(delivered) = nextResult - 1 /\ fate[nextResult - 1] = "ok"
  /\ ret = "none" <=> pc \notin {"stopping", "closed"}
  /\ ret \notin {"cancelled", "lost"}
  /\ ret \in {"error", "oom"} => Len(delivered) < NumParts /\ ret = fate[Len(delivered)]
  /\ pc # "closed" => outcome = "running"

IndInv == TypeOK /\ FutureInv /\ TaskInv /\ SlotInv /\ StopInv /\ PlaceInv /\ DeliveredInv

-----------------------------------------------------------------------------
(* Preservation, action by action.                                          *)

\* What appending a part to a sequence of parts gives, as delivered and in_flight_ do.
LEMMA AppendFacts ==
  ASSUME NEW S, NEW s \in Seq(S), NEW p \in S
  PROVE  /\ Append(s, p) \in Seq(S)
         /\ Len(Append(s, p)) = Len(s) + 1
         /\ \A i \in 1 .. Len(s) : Append(s, p)[i] = s[i]
         /\ Append(s, p)[Len(s) + 1] = p
  BY SMTT(30)

\* The constructor's state satisfies the invariant.
LEMMA InitInv == Init => IndInv
  <1> SUFFICES ASSUME Init PROVE IndInv
    OBVIOUS
  <1> USE SchedulerAssumption
  <1>1. TypeOK
    <2>1. inFlight \in Seq(Parts \cup {NoTask}) /\ delivered \in Seq(Parts)
      BY DEF Init
    <2>2. /\ window \in 1 .. MaxWindow /\ nextSubmit \in 0 .. NumParts
          /\ nextResult \in 0 .. NumParts
      BY DEF Init
    <2>3. /\ task \in [Parts -> TaskStates] /\ slots \in [Parts -> Results \cup {"none"}]
          /\ fate \in [Parts -> Fates]
      BY DEF Init, TaskStates
    <2> QED
      BY <2>1, <2>2, <2>3, Zenon DEF Init, TypeOK, Places, Returns
  <1>2. FutureInv /\ PlaceInv
    <2>4. Len(inFlight) = 0 /\ ~reserved /\ nextSubmit = 0
      BY DEF Init
    <2>5. Submitted = 0
      BY <2>4, Zenon DEF Submitted
    <2>1. Len(inFlight) = 0 /\ Submitted = 0 /\ First = 0
      BY <2>4, <2>5 DEF First
    <2>2. FutureInv
      BY <2>1 DEF Init, FutureInv
    <2>3. PlaceInv
      BY <2>1 DEF Init, PlaceInv
    <2> QED
      BY <2>2, <2>3
  <1>4. DeliveredInv
    BY DEF Init, DeliveredInv
  <1>3. TaskInv /\ SlotInv /\ StopInv
    BY DEF Init, TaskInv, SlotInv, StopInv, Submitted, First, NoTask, Parts
  <1> QED
    BY <1>1, <1>2, <1>3, <1>4 DEF IndInv

\* A step of a part's task (RunIntoSlot and the executor around it).
LEMMA TaskInvStep ==
  ASSUME IndInv, NEW q \in Parts, TaskStep(q)
  PROVE  IndInv'
  <1> USE SchedulerAssumption DEF IndInv, consumerVars
  <1>1. TypeOK'
    BY SMTT(60) DEF TypeOK, TaskStep, TaskStart, TaskSeesStop, TaskSlot, TaskDone, TaskResults, TaskStates,
           Results, Fates
  <1>2. FutureInv' /\ PlaceInv' /\ DeliveredInv'
    BY SMTT(60) DEF TaskStep, TaskStart, TaskSeesStop, TaskSlot, TaskDone, FutureInv, PlaceInv,
           DeliveredInv, Submitted, First
  <1>3. TaskInv'
    BY SMTT(60) DEF TypeOK, TaskStep, TaskStart, TaskSeesStop, TaskSlot, TaskDone, TaskInv, Submitted, First
  <1>4. SlotInv'
    BY SMTT(60) DEF TypeOK, TaskStep, TaskStart, TaskSeesStop, TaskSlot, TaskDone, TaskResults, SlotInv, Fates
  <1>5. StopInv'
    BY DEF TypeOK, TaskStep, TaskStart, TaskSeesStop, TaskSlot, TaskDone, TaskResults, StopInv, Fates
  <1> QED
    BY <1>1, <1>2, <1>3, <1>4, <1>5

\* Next() is called.
LEMMA NextCallInv == IndInv /\ NextCall => IndInv'
  <1> SUFFICES ASSUME IndInv, NextCall PROVE IndInv'
    OBVIOUS
  <1> USE SchedulerAssumption DEF IndInv, NextCall
  <1>1. TypeOK'
    BY DEF TypeOK, Places
  <1>2. FutureInv'
    BY DEF FutureInv, Submitted, First
  <1>4. PlaceInv'
    BY DEF TypeOK, done, PlaceInv, StopInv, Submitted, First
  <1>5. DeliveredInv'
    BY DEF DeliveredInv
  <1>3. TaskInv' /\ SlotInv' /\ StopInv'
    BY Zenon DEF TypeOK, TaskInv, SlotInv, StopInv, Submitted, First
  <1> QED
    BY <1>1, <1>2, <1>3, <1>4, <1>5, Zenon

\* Submit() reserves a future.
LEMMA SubmitReserveInv == IndInv /\ SubmitReserve => IndInv'
  <1> SUFFICES ASSUME IndInv, SubmitReserve PROVE IndInv'
    OBVIOUS
  <1> USE SchedulerAssumption DEF IndInv, SubmitReserve, Room
  <1>1. /\ inFlight' \in Seq(Parts \cup {NoTask})
        /\ Len(inFlight') = Len(inFlight) + 1
        /\ \A i \in 1 .. Len(inFlight) : inFlight'[i] = inFlight[i]
        /\ inFlight'[Len(inFlight) + 1] = NoTask
    <2>1. /\ inFlight \in Seq(Parts \cup {NoTask}) /\ NoTask \in Parts \cup {NoTask}
          /\ inFlight' = Append(inFlight, NoTask)
      BY DEF TypeOK
    <2> QED
      BY <2>1, AppendFacts, SMTT(30)
  <1>2. Submitted' = Submitted /\ First' = First /\ Submitted = Len(inFlight)
    BY <1>1 DEF TypeOK, Submitted, First
  <1>3. TypeOK'
    BY <1>1, Zenon DEF TypeOK
  <1>4. FutureInv'
    BY <1>1, <1>2 DEF TypeOK, FutureInv
  <1>5. PlaceInv' /\ DeliveredInv'
    BY <1>2, Zenon DEF TypeOK, PlaceInv, DeliveredInv
  <1>6. TaskInv' /\ SlotInv' /\ StopInv'
    BY <1>2, Zenon DEF TypeOK, TaskInv, SlotInv, StopInv
  <1> QED
    BY <1>3, <1>4, <1>5, <1>6, Zenon

\* The task is submitted and its future replaces the reserved one.
LEMMA SubmitTaskInv == IndInv /\ SubmitTask => IndInv'
  <1> SUFFICES ASSUME IndInv, SubmitTask PROVE IndInv'
    OBVIOUS
  <1> USE SchedulerAssumption
  <1>1. /\ Len(inFlight) \in Nat \ {0} /\ nextSubmit \in Parts /\ nextSubmit \in Nat
        /\ inFlight \in Seq(Parts \cup {NoTask})
    BY DEF IndInv, SubmitTask, TypeOK, FutureInv, Submitted, Parts
  <1>2. /\ inFlight' \in Seq(Parts \cup {NoTask})
        /\ Len(inFlight') = Len(inFlight)
        /\ \A i \in 1 .. Len(inFlight) - 1 : inFlight'[i] = inFlight[i]
        /\ inFlight'[Len(inFlight)] = nextSubmit
    BY <1>1 DEF SubmitTask
  <1>3. /\ reserved = TRUE /\ reserved' = FALSE /\ nextSubmit' = nextSubmit + 1
        /\ task' = [task EXCEPT ![nextSubmit] = "queued"]
        /\ UNCHANGED <<executor, fate, pc, window, nextResult, stopped, awaited, ret, stop, slots,
                       delivered, outcome>>
    BY DEF SubmitTask
  <1>4. Submitted' = Submitted + 1 /\ First' = First /\ Submitted = Len(inFlight) - 1
    BY <1>1, <1>2, <1>3 DEF Submitted, First
  <1> USE <1>1, <1>2, <1>3, <1>4 DEF IndInv
  <1>5. TypeOK'
    <2>1. nextSubmit' \in 0 .. NumParts /\ task' \in [Parts -> TaskStates]
      BY DEF TypeOK, TaskStates, Parts
    <2> QED
      BY <2>1, Zenon DEF TypeOK
  <1>6. FutureInv'
    <2>1. ASSUME NEW i \in 1 .. Submitted' PROVE inFlight'[i] = First' + i - 1
      <3>1. CASE i = Len(inFlight)
        BY <3>1 DEF First
      <3>2. CASE i # Len(inFlight)
        <4>1. i \in 1 .. Submitted
          BY <3>2
        <4> QED
          BY <3>2, <4>1, Zenon DEF FutureInv
      <3> QED
        BY <3>1, <3>2, Zenon
    <2> QED
      BY <2>1 DEF FutureInv
  <1>7. PlaceInv' /\ DeliveredInv'
    BY Zenon DEF TypeOK, PlaceInv, DeliveredInv, FutureInv
  <1>8. TaskInv'
    BY SMTT(60) DEF TypeOK, TaskInv, FutureInv, Parts, First
  <1>9. SlotInv' /\ StopInv'
    BY SMTT(60) DEF TypeOK, TaskInv, SlotInv, StopInv, FutureInv, PlaceInv, NoTask, First
  <1> QED
    BY <1>5, <1>6, <1>7, <1>8, <1>9, Zenon

\* What a prefix of a sequence holds.
LEMMA PrefixFacts ==
  ASSUME NEW S, NEW s \in Seq(S), NEW n \in Nat, n <= Len(s)
  PROVE  /\ SubSeq(s, 1, n) \in Seq(S)
         /\ Len(SubSeq(s, 1, n)) = n
         /\ \A i \in 1 .. n : SubSeq(s, 1, n)[i] = s[i]
  <1>1. SubSeq(s, 1, n) \in Seq(S)
    OBVIOUS
  <1>2. Len(SubSeq(s, 1, n)) = n
    OBVIOUS
  <1>3. \A i \in 1 .. n : SubSeq(s, 1, n)[i] = s[i]
    OBVIOUS
  <1> QED
    BY <1>1, <1>2, <1>3

\* The reserved future is given back: in_flight_ is again the submitted tasks'.
LEMMA UnreserveFacts ==
  ASSUME IndInv, reserved, reserved' = FALSE, Unreserve, nextSubmit' = nextSubmit
  PROVE  /\ inFlight' \in Seq(Parts \cup {NoTask})
         /\ Len(inFlight') = Len(inFlight) - 1
         /\ \A i \in 1 .. Len(inFlight) - 1 : inFlight'[i] = inFlight[i]
         /\ Submitted' = Submitted /\ First' = First /\ Submitted = Len(inFlight) - 1
  <1>1. Len(inFlight) - 1 \in Nat /\ inFlight \in Seq(Parts \cup {NoTask})
    BY DEF IndInv, TypeOK, FutureInv, Submitted
  <1>2. /\ inFlight' \in Seq(Parts \cup {NoTask})
        /\ Len(inFlight') = Len(inFlight) - 1
        /\ \A i \in 1 .. Len(inFlight) - 1 : inFlight'[i] = inFlight[i]
    <2>1. Len(inFlight) - 1 <= Len(inFlight) /\ inFlight' = SubSeq(inFlight, 1, Len(inFlight) - 1)
      BY <1>1 DEF Unreserve
    <2> QED
      BY <1>1, <2>1, PrefixFacts, Zenon
  <1> QED
    BY <1>1, <1>2, Zenon DEF IndInv, TypeOK, Submitted, First

\* The submission fails.
LEMMA SubmitFailsInv == IndInv /\ SubmitFails => IndInv'
  <1> SUFFICES ASSUME IndInv, SubmitFails PROVE IndInv'
    OBVIOUS
  <1> USE SchedulerAssumption DEF IndInv, SubmitFails
  <1>1. /\ inFlight' \in Seq(Parts \cup {NoTask})
        /\ Len(inFlight') = Len(inFlight) - 1
        /\ \A i \in 1 .. Len(inFlight) - 1 : inFlight'[i] = inFlight[i]
        /\ Submitted' = Submitted /\ First' = First /\ Submitted = Len(inFlight) - 1
    BY UnreserveFacts, Zenon
  <1>2. pc \in {"take", "refill"}
    BY DEF FutureInv
  <1>3. TypeOK'
    <2>1. nextResult' \in 0 .. NumParts
      BY <1>2 DEF TypeOK, PlaceInv
    <2> QED
      BY <1>1, <2>1, Zenon DEF TypeOK, Places, Returns
  <1>4. FutureInv'
    BY <1>1, SMTT(60) DEF TypeOK, FutureInv, Submitted, First
  <1>5. PlaceInv' /\ DeliveredInv'
    BY <1>1, <1>2, Zenon DEF TypeOK, PlaceInv, DeliveredInv
  <1>6. TaskInv' /\ SlotInv' /\ StopInv'
    BY <1>1, <1>2, Zenon DEF TypeOK, TaskInv, SlotInv, StopInv
  <1> QED
    BY <1>3, <1>4, <1>5, <1>6, Zenon

\* The submission throws.
LEMMA SubmitThrowsInv == IndInv /\ SubmitThrows => IndInv'
  <1> SUFFICES ASSUME IndInv, SubmitThrows PROVE IndInv'
    OBVIOUS
  <1> USE SchedulerAssumption DEF IndInv, SubmitThrows
  <1>1. /\ inFlight' \in Seq(Parts \cup {NoTask})
        /\ Len(inFlight') = Len(inFlight) - 1
        /\ \A i \in 1 .. Len(inFlight) - 1 : inFlight'[i] = inFlight[i]
        /\ Submitted' = Submitted /\ First' = First /\ Submitted = Len(inFlight) - 1
    BY UnreserveFacts, Zenon
  <1>2. pc \in {"take", "refill"}
    BY DEF FutureInv
  <1>3. TypeOK'
    BY <1>1, Zenon DEF TypeOK, Places
  <1>4. FutureInv'
    BY <1>1, SMTT(60) DEF TypeOK, FutureInv, Submitted, First
  <1>5. PlaceInv' /\ DeliveredInv'
    BY <1>1, <1>2, Zenon DEF TypeOK, PlaceInv, DeliveredInv
  <1>6. TaskInv' /\ SlotInv' /\ StopInv'
    BY <1>1, <1>2, Zenon DEF TypeOK, TaskInv, SlotInv, StopInv
  <1> QED
    BY <1>3, <1>4, <1>5, <1>6

\* What the rest of a sequence holds.
LEMMA TailFacts ==
  ASSUME NEW S, NEW s \in Seq(S), s # <<>>
  PROVE  /\ Head(s) = s[1]
         /\ Tail(s) \in Seq(S)
         /\ Len(Tail(s)) = Len(s) - 1 /\ Len(s) \in Nat \ {0}
         /\ \A i \in 1 .. Len(s) - 1 : Tail(s)[i] = s[i + 1]
  <1>1. Head(s) = s[1] /\ Len(s) \in Nat \ {0}
    OBVIOUS
  <1>2. Tail(s) \in Seq(S) /\ Len(Tail(s)) = Len(s) - 1
    OBVIOUS
  <1>3. \A i \in 1 .. Len(s) - 1 : Tail(s)[i] = s[i + 1]
    BY <1>1, <1>2
  <1> QED
    BY <1>1, <1>2, <1>3

\* The first future is popped: it is that of the part Next() returns.
LEMMA TakeFrontInv == IndInv /\ TakeFront => IndInv'
  <1> SUFFICES ASSUME IndInv, TakeFront PROVE IndInv'
    OBVIOUS
  <1> USE SchedulerAssumption
  <1>1. inFlight \in Seq(Parts \cup {NoTask}) /\ inFlight # <<>>
    BY DEF IndInv, TypeOK, TakeFront
  <1>2. /\ Head(inFlight) = inFlight[1]
        /\ Tail(inFlight) \in Seq(Parts \cup {NoTask})
        /\ Len(Tail(inFlight)) = Len(inFlight) - 1 /\ Len(inFlight) \in Nat \ {0}
        /\ \A i \in 1 .. Len(inFlight) - 1 : Tail(inFlight)[i] = inFlight[i + 1]
    BY <1>1, TailFacts, Zenon
  <1>3. /\ inFlight' = Tail(inFlight) /\ awaited' = Head(inFlight)
        /\ reserved = FALSE /\ reserved' = FALSE /\ pc = "take" /\ pc' = "await"
        /\ UNCHANGED <<executor, fate, window, nextSubmit, nextResult, stopped, ret, stop,
                       task, slots, delivered, outcome>>
    BY DEF IndInv, TypeOK, TakeFront
  <1>4. /\ inFlight' \in Seq(Parts \cup {NoTask}) /\ Len(inFlight') = Len(inFlight) - 1
        /\ \A i \in 1 .. Len(inFlight) - 1 : inFlight'[i] = inFlight[i + 1]
    BY <1>2, <1>3
  <1>5. Submitted = Len(inFlight) /\ Submitted' = Len(inFlight) - 1 /\ First' = First + 1
    BY <1>2, <1>3, <1>4 DEF Submitted, First, IndInv, TypeOK
  <1>6. executor /\ First = nextResult /\ nextResult \in Parts /\ awaited' = nextResult
    BY <1>2, <1>3, <1>5, SMTT(60) DEF IndInv, TypeOK, PlaceInv, FutureInv, Parts
  <1>10. awaited = NoTask /\ stop = FALSE /\ stopped = FALSE
    BY <1>3, Zenon DEF IndInv, TypeOK, PlaceInv, StopInv
  <1> USE <1>3, <1>4, <1>5, <1>6, <1>10 DEF IndInv
  <1>7. TypeOK'
    BY Zenon DEF TypeOK, Places
  <1>8. FutureInv'
    <2>1. ASSUME NEW i \in 1 .. Submitted' PROVE inFlight'[i] = First' + i - 1
      <3>1. i \in 1 .. Len(inFlight) - 1 /\ i + 1 \in 1 .. Submitted
        BY <1>2
      <3>2. inFlight[i + 1] = First + (i + 1) - 1
        BY <3>1, Zenon DEF FutureInv
      <3> QED
        BY <3>1, <3>2 DEF TypeOK, Parts
    <2>2. Submitted' >= 0 /\ First' >= 0 /\ Len(inFlight') < MaxWindow
      BY <1>2 DEF FutureInv, TypeOK
    <2> QED
      BY <1>2, <2>1, <2>2 DEF FutureInv, TypeOK
  <1>9. PlaceInv' /\ DeliveredInv'
    BY DEF TypeOK, PlaceInv, DeliveredInv, Parts, NoTask
  <1>11. TaskInv'
    BY <1>2, SMTT(60) DEF TypeOK, TaskInv, Parts, NoTask, First
  <1>12. SlotInv' /\ StopInv'
    BY Zenon DEF SlotInv, StopInv
  <1> QED
    BY <1>7, <1>8, <1>9, <1>11, <1>12, Zenon

\* A result taken is the part's own: the awaited task has left one, and none
\* is of a task that gave up.
LEMMA TakenResult ==
  ASSUME IndInv, pc = "await", task[awaited] = "done"
  PROVE  /\ nextResult \in Parts /\ awaited = nextResult /\ executor /\ stop = FALSE
         /\ slots[nextResult] \in {"oom", fate[nextResult]}
  <1>1. nextResult \in Parts /\ awaited = nextResult /\ executor
    BY SchedulerAssumption DEF IndInv, TypeOK, PlaceInv, Parts
  <1>2. stop = FALSE
    BY DEF IndInv, TypeOK, StopInv
  <1> QED
    BY <1>1, <1>2 DEF IndInv, SlotInv, StopInv

\* The awaited future's task is forgotten with its result.
LEMMA TakeResultInv == IndInv /\ TakeResult => IndInv'
  <1> SUFFICES ASSUME IndInv, TakeResult PROVE IndInv'
    OBVIOUS
  <1> USE SchedulerAssumption
  <1>1. /\ nextResult \in Parts /\ awaited = nextResult /\ executor /\ stop = FALSE
        /\ slots[nextResult] \in {"oom", fate[nextResult]}
    BY TakenResult DEF TakeResult
  <1>2. fate[nextResult] \in Fates /\ fate[nextResult] # "none"
    BY <1>1 DEF IndInv, TypeOK, Fates
  <1>3. TakeReturns(fate[nextResult]) /\ pc = "await"
    BY <1>1, <1>2 DEF TakeResult
  <1>4. /\ slots' = [slots EXCEPT ![nextResult] = "none"]
        /\ task' = [task EXCEPT ![nextResult] = "none"]
        /\ awaited' = NoTask
        /\ UNCHANGED <<executor, fate, nextSubmit, inFlight, reserved, outcome>>
    BY <1>1 DEF TakeResult
  <1>5. /\ nextResult' = nextResult + 1 /\ delivered' = delivered
        /\ window' \in 1 .. MaxWindow
        /\ \/ /\ fate[nextResult] # "ok" /\ ret' = fate[nextResult]
              /\ stopped' = TRUE /\ stop' = TRUE /\ pc' = "stopping"
           \/ /\ fate[nextResult] = "ok" /\ pc' = "refill" /\ UNCHANGED <<ret, stopped, stop>>
    BY <1>1, <1>3, SMTT(60) DEF TakeReturns, BeginStop, Narrowed, Widened, IndInv, TypeOK
  <1>6. /\ Submitted' = Submitted /\ First' = First /\ First = nextResult + 1
        /\ reserved = FALSE /\ ret = "none"
    BY <1>3, <1>4, Zenon DEF Submitted, First, IndInv, TypeOK, PlaceInv, FutureInv, DeliveredInv
  <1> USE <1>1, <1>3, <1>4, <1>5, <1>6
  <1>7. TypeOK'
    <2>1. /\ nextResult' \in 0 .. NumParts /\ task' \in [Parts -> TaskStates]
          /\ slots' \in [Parts -> Results \cup {"none"}]
      BY DEF IndInv, TypeOK, TaskStates, Parts
    <2> QED
      BY <1>2, <2>1, Zenon DEF IndInv, TypeOK, Places, Returns, Fates
  <1>8. FutureInv'
    BY Zenon DEF IndInv, FutureInv
  <1>9. PlaceInv' /\ DeliveredInv'
    BY <1>2 DEF IndInv, TypeOK, PlaceInv, DeliveredInv, Parts, Fates, NoTask
  <1>10. TaskInv'
    BY DEF IndInv, TypeOK, TaskInv, NoTask, Parts
  <1>11. SlotInv' /\ StopInv'
    BY DEF IndInv, TypeOK, SlotInv, StopInv
  <1> QED
    BY <1>7, <1>8, <1>9, <1>10, <1>11, Zenon DEF IndInv

\* The awaited part ran out of memory.
LEMMA TakeOutOfMemoryInv == IndInv /\ TakeOutOfMemory => IndInv'
  <1> SUFFICES ASSUME IndInv, TakeOutOfMemory PROVE IndInv'
    OBVIOUS
  <1> USE SchedulerAssumption DEF TakeOutOfMemory
  <1>1. /\ nextResult \in Parts /\ awaited = nextResult /\ executor /\ stop = FALSE
    BY TakenResult
  <1>2. Submitted' = Submitted /\ First' = First /\ First = nextResult + 1 /\ reserved = FALSE
    BY Zenon DEF Submitted, First, IndInv, TypeOK, PlaceInv, FutureInv
  <1>3. TypeOK'
    BY <1>1, Zenon DEF IndInv, TypeOK, Places, TaskStates
  <1>4. FutureInv' /\ PlaceInv' /\ DeliveredInv'
    BY <1>1, <1>2, Zenon DEF IndInv, TypeOK, FutureInv, PlaceInv, DeliveredInv, Parts
  <1>5. TaskInv'
    BY <1>1, <1>2 DEF IndInv, TypeOK, TaskInv, NoTask, Parts
  <1>6. SlotInv' /\ StopInv'
    BY <1>1 DEF IndInv, TypeOK, SlotInv, StopInv
  <1> QED
    BY <1>3, <1>4, <1>5, <1>6, Zenon DEF IndInv

\* Drop() leaves no task, no future and no result.
LEMMA DropFacts ==
  ASSUME IndInv, pc \in {"dropping", "stopping"}, Drop
  PROVE  /\ task' = [p \in Parts |-> "none"]
         /\ slots' = [p \in Parts |-> "none"]
         /\ inFlight' = <<>> /\ Len(inFlight') = 0
         /\ reserved = FALSE /\ awaited = NoTask
  <1>1. reserved = FALSE /\ awaited = NoTask /\ Submitted = Len(inFlight) /\ Len(inFlight) \in Nat
    BY DEF IndInv, TypeOK, FutureInv, PlaceInv, Submitted
  <1>2. ASSUME NEW p \in Parts, task[p] # "none"
        PROVE  \E i \in DOMAIN inFlight : inFlight[i] = p
    <2>1. First <= p /\ p < nextSubmit /\ p \in Int /\ nextSubmit \in Int
      BY <1>1, <1>2 DEF IndInv, TypeOK, TaskInv, NoTask, Parts
    <2>2. p - First + 1 \in 1 .. Submitted
      BY <1>1, <2>1 DEF First
    <2>3. inFlight[p - First + 1] = p
      BY <1>1, <2>1, <2>2 DEF IndInv, FutureInv, First
    <2>4. DOMAIN inFlight = 1 .. Len(inFlight)
      BY DEF IndInv, TypeOK
    <2> QED
      BY <1>1, <2>2, <2>3, <2>4
  <1>3. task' = [p \in Parts |-> "none"]
    BY <1>2 DEF Drop
  <1> QED
    BY <1>1, <1>3 DEF Drop

\* The parts ahead are dropped before the retry.
LEMMA DropAheadInv == IndInv /\ DropAhead => IndInv'
  <1> SUFFICES ASSUME IndInv, DropAhead PROVE IndInv'
    OBVIOUS
  <1> USE SchedulerAssumption
  <1>1. /\ task' = [p \in Parts |-> "none"]
        /\ slots' = [p \in Parts |-> "none"]
        /\ inFlight' = <<>> /\ Len(inFlight') = 0
        /\ reserved = FALSE /\ awaited = NoTask
    BY DropFacts DEF DropAhead
  <1>2. /\ pc = "dropping" /\ stop' = FALSE /\ nextSubmit' = nextResult + 1 /\ window' = 1
        /\ pc' = "beforeRetry" /\ stopped = FALSE /\ nextResult \in Parts /\ executor
        /\ UNCHANGED <<executor, fate, nextResult, stopped, reserved, awaited, ret, delivered,
                       outcome>>
    BY DEF DropAhead, IndInv, TypeOK, PlaceInv, StopInv, Parts
  <1>3. Submitted' = 0 /\ First' = nextResult + 1
    BY <1>1, <1>2 DEF Submitted, First, Parts
  <1> USE <1>1, <1>2, <1>3
  <1>4. TypeOK'
    <2>1. task' \in [Parts -> TaskStates] /\ slots' \in [Parts -> Results \cup {"none"}]
      BY DEF TaskStates
    <2>2. inFlight' \in Seq(Parts \cup {NoTask})
      OBVIOUS
    <2>3. nextSubmit' \in 0 .. NumParts /\ window' \in 1 .. MaxWindow
      BY DEF Parts
    <2> QED
      BY <2>1, <2>2, <2>3, Zenon DEF IndInv, TypeOK, Places
  <1>5. FutureInv'
    BY DEF FutureInv, Parts
  <1>6. PlaceInv' /\ DeliveredInv'
    BY DEF IndInv, TypeOK, PlaceInv, DeliveredInv, Parts
  <1>7. TaskInv' /\ SlotInv' /\ StopInv'
    BY DEF IndInv, TypeOK, TaskInv, SlotInv, StopInv, Parts, NoTask
  <1> QED
    BY <1>4, <1>5, <1>6, <1>7, Zenon DEF IndInv

\* The consumer frees what it can before the retry.
LEMMA BeforeRetryInv == IndInv /\ BeforeRetry => IndInv'
  <1> SUFFICES ASSUME IndInv, BeforeRetry PROVE IndInv'
    BY Zenon
  <1> USE SchedulerAssumption DEF BeforeRetry
  <1>1. TypeOK' /\ FutureInv' /\ PlaceInv' /\ DeliveredInv'
    BY Zenon DEF IndInv, TypeOK, Places, FutureInv, PlaceInv, DeliveredInv, Submitted, First
  <1>2. TaskInv' /\ SlotInv' /\ StopInv'
    BY Zenon DEF IndInv, TypeOK, TaskInv, SlotInv, StopInv, Submitted, First
  <1> QED
    BY <1>1, <1>2 DEF IndInv

\* A part runs on the calling thread.
LEMMA RunAloneInv == IndInv /\ RunAlone => IndInv'
  <1> SUFFICES ASSUME IndInv, RunAlone PROVE IndInv'
    OBVIOUS
  <1> USE SchedulerAssumption
  <1>1. /\ nextResult \in Parts /\ inFlight = <<>> /\ Len(inFlight) = 0 /\ reserved = FALSE
        /\ awaited = NoTask /\ stop = FALSE /\ stopped = FALSE /\ pc = "alone"
    BY DEF RunAlone, IndInv, TypeOK, PlaceInv, FutureInv, StopInv, Parts
  <1>2. fate[nextResult] \in Fates
    BY <1>1 DEF IndInv, TypeOK
  <1>3. UNCHANGED <<executor, fate, nextSubmit, inFlight, reserved, awaited, task, slots, outcome>>
    BY DEF RunAlone
  <1>4. /\ nextResult' = nextResult + 1
        /\ window' \in 1 .. MaxWindow
        /\ \/ /\ fate[nextResult] # "ok" /\ ret' = fate[nextResult] /\ delivered' = delivered
              /\ stopped' = TRUE /\ stop' = TRUE /\ pc' = "stopping"
           \/ /\ fate[nextResult] = "ok" /\ executor /\ pc' = "refill"
              /\ UNCHANGED <<ret, stopped, stop, delivered>>
           \/ /\ fate[nextResult] = "ok" /\ ~executor /\ pc' = "idle"
              /\ delivered' = Append(delivered, nextResult) /\ UNCHANGED <<ret, stopped, stop>>
    BY <1>1 DEF RunAlone, TakeReturns, BeginStop, Narrowed, Widened, IndInv, TypeOK
  <1>5. Submitted' = Submitted /\ First' = First
    BY <1>3 DEF Submitted, First
  <1>6. /\ Append(delivered, nextResult) \in Seq(Parts)
        /\ Len(Append(delivered, nextResult)) = Len(delivered) + 1
        /\ \A i \in 1 .. Len(delivered) : Append(delivered, nextResult)[i] = delivered[i]
        /\ Append(delivered, nextResult)[Len(delivered) + 1] = nextResult
    <2>1. delivered \in Seq(Parts)
      BY DEF IndInv, TypeOK
    <2> QED
      BY <1>1, <2>1, AppendFacts, SMTT(30)
  <1>7. TypeOK'
    <2>1. nextResult' \in 0 .. NumParts
      BY <1>1, <1>4 DEF Parts
    <2>2. delivered' \in Seq(Parts)
      BY <1>4, <1>6, Zenon DEF IndInv, TypeOK
    <2>3. pc' \in Places /\ ret' \in Returns /\ stop' \in BOOLEAN /\ stopped' \in BOOLEAN
      BY <1>2, <1>4, Zenon DEF IndInv, TypeOK, Places, Returns, Fates
    <2> QED
      BY <1>3, <1>4, <2>1, <2>2, <2>3, Zenon DEF IndInv, TypeOK
  <1>8. FutureInv'
    BY <1>1, <1>3, <1>4, <1>5, Zenon DEF IndInv, FutureInv
  <1>9. PlaceInv'
    BY <1>1, <1>3, <1>4, <1>5 DEF IndInv, TypeOK, PlaceInv, Submitted, First, Parts
  <1>10. DeliveredInv'
    <2>1. Len(delivered) = nextResult /\ ret = "none" /\ outcome = "running"
      BY <1>1 DEF IndInv, DeliveredInv
    <2>2. CASE delivered' = delivered
      BY <1>1, <1>2, <1>3, <1>4, <2>1, <2>2, SMTT(60) DEF IndInv, TypeOK, DeliveredInv, Parts, Fates
    <2>3. CASE delivered' = Append(delivered, nextResult) /\ fate[nextResult] = "ok" /\ pc' = "idle"
      <3>1. \A i \in 1 .. Len(delivered') : delivered'[i] = i - 1 /\ fate'[i - 1] = "ok"
        BY <1>1, <1>3, <1>6, <2>1, <2>3 DEF IndInv, TypeOK, DeliveredInv, Parts
      <3> QED
        BY <1>1, <1>3, <1>4, <1>6, <2>1, <2>3, <3>1 DEF IndInv, TypeOK, DeliveredInv, Parts
    <2> QED
      BY <1>4, <2>2, <2>3, Zenon
  <1>11. TaskInv' /\ SlotInv' /\ StopInv'
    BY <1>1, <1>3, <1>4, <1>5, Zenon DEF IndInv, TypeOK, TaskInv, SlotInv, StopInv
  <1> QED
    BY <1>7, <1>8, <1>9, <1>10, <1>11, Zenon DEF IndInv

\* Next() returns the result it took.
LEMMA NextReturnsInv == IndInv /\ NextReturns => IndInv'
  <1> SUFFICES ASSUME IndInv, NextReturns PROVE IndInv'
    OBVIOUS
  <1> USE SchedulerAssumption
  <1>1. /\ pc = "refill" /\ pc' = "idle" /\ delivered' = Append(delivered, nextResult - 1)
        /\ reserved = FALSE /\ executor
        /\ UNCHANGED <<executor, fate, window, nextSubmit, nextResult, stopped, inFlight, reserved,
                       awaited, ret, stop, task, slots, outcome>>
    BY Zenon DEF NextReturns, IndInv, TypeOK, PlaceInv
  <1>2. /\ nextResult - 1 \in Parts /\ Len(delivered) = nextResult - 1
        /\ fate[nextResult - 1] = "ok" /\ nextResult \in Nat
    BY <1>1 DEF IndInv, TypeOK, PlaceInv, DeliveredInv, Parts
  <1>3. /\ Append(delivered, nextResult - 1) \in Seq(Parts)
        /\ Len(Append(delivered, nextResult - 1)) = Len(delivered) + 1
        /\ \A i \in 1 .. Len(delivered) : Append(delivered, nextResult - 1)[i] = delivered[i]
        /\ Append(delivered, nextResult - 1)[Len(delivered) + 1] = nextResult - 1
    <2>1. delivered \in Seq(Parts) /\ nextResult - 1 \in Parts
      BY <1>2 DEF IndInv, TypeOK
    <2> QED
      BY <2>1, AppendFacts, SMTT(30)
  <1>4. Submitted' = Submitted /\ First' = First
    BY <1>1 DEF Submitted, First
  <1>5. TypeOK'
    BY <1>1, <1>3, Zenon DEF IndInv, TypeOK, Places
  <1>6. FutureInv' /\ PlaceInv'
    BY <1>1, <1>4, Zenon DEF IndInv, TypeOK, FutureInv, PlaceInv
  <1>7. DeliveredInv'
    <2>1. \A i \in 1 .. Len(delivered') : delivered'[i] = i - 1 /\ fate'[i - 1] = "ok"
      BY <1>1, <1>2, <1>3 DEF IndInv, DeliveredInv
    <2> QED
      BY <1>1, <1>2, <1>3, <2>1, SMTT(60) DEF IndInv, TypeOK, DeliveredInv
  <1>8. TaskInv' /\ SlotInv' /\ StopInv'
    BY <1>1, <1>4, Zenon DEF IndInv, TypeOK, TaskInv, SlotInv, StopInv
  <1> QED
    BY <1>5, <1>6, <1>7, <1>8 DEF IndInv

\* The consumer stops the run.
LEMMA StopCallInv == IndInv /\ StopCall => IndInv'
  <1> SUFFICES ASSUME IndInv, StopCall PROVE IndInv'
    OBVIOUS
  <1> USE SchedulerAssumption DEF StopCall, BeginStop
  <1>1. Submitted' = Submitted /\ First' = First
    BY DEF Submitted, First
  <1>2. TypeOK'
    BY DEF IndInv, TypeOK, Places, Returns
  <1>3. FutureInv' /\ PlaceInv' /\ DeliveredInv'
    BY <1>1, Zenon DEF IndInv, TypeOK, FutureInv, PlaceInv, DeliveredInv
  <1>4. TaskInv' /\ SlotInv' /\ StopInv'
    BY <1>1, Zenon DEF IndInv, TypeOK, TaskInv, SlotInv, StopInv
  <1> QED
    BY <1>2, <1>3, <1>4 DEF IndInv

\* Stop() has waited.
LEMMA StopDoneInv == IndInv /\ StopDone => IndInv'
  <1> SUFFICES ASSUME IndInv, StopDone PROVE IndInv'
    OBVIOUS
  <1> USE SchedulerAssumption
  <1>1. /\ task' = [p \in Parts |-> "none"]
        /\ slots' = [p \in Parts |-> "none"]
        /\ inFlight' = <<>> /\ Len(inFlight') = 0
        /\ reserved = FALSE /\ awaited = NoTask
    BY DropFacts DEF StopDone
  <1>2. /\ pc = "stopping" /\ pc' = "closed" /\ outcome' = ret
        /\ UNCHANGED <<executor, fate, window, nextSubmit, nextResult, stopped, reserved, awaited,
                       ret, stop, delivered>>
    BY DEF StopDone
  <1>3. Submitted' = 0 /\ First' = nextSubmit
    BY <1>1, <1>2 DEF Submitted, First, IndInv, TypeOK
  <1> USE <1>1, <1>2, <1>3
  <1>4. TypeOK'
    <2>1. task' \in [Parts -> TaskStates] /\ slots' \in [Parts -> Results \cup {"none"}]
      BY DEF TaskStates
    <2>2. inFlight' \in Seq(Parts \cup {NoTask})
      BY SMTT(60)
    <2> QED
      BY <2>1, <2>2, Zenon DEF IndInv, TypeOK, Places, DeliveredInv
  <1>5. FutureInv' /\ PlaceInv' /\ DeliveredInv'
    BY DEF IndInv, TypeOK, FutureInv, PlaceInv, DeliveredInv
  <1>6. TaskInv' /\ SlotInv' /\ StopInv'
    BY DEF IndInv, TypeOK, TaskInv, SlotInv, StopInv, Parts, NoTask
  <1> QED
    BY <1>4, <1>5, <1>6, Zenon DEF IndInv

\* A step that changes nothing.
LEMMA StutterInv == IndInv /\ UNCHANGED vars => IndInv'
  <1> SUFFICES ASSUME IndInv, UNCHANGED vars PROVE IndInv'
    OBVIOUS
  <1> USE DEF IndInv, vars, consumerVars
  <1>1. TypeOK'
    BY Zenon DEF TypeOK
  <1>2. FutureInv' /\ PlaceInv' /\ TaskInv'
    BY DEF FutureInv, PlaceInv, TaskInv, Submitted, First
  <1>3. SlotInv' /\ StopInv' /\ DeliveredInv'
    BY Zenon DEF SlotInv, StopInv, DeliveredInv
  <1> QED
    BY <1>1, <1>2, <1>3

-----------------------------------------------------------------------------
(* The theorems.                                                            *)

\* Every step of the consumer and of the tasks keeps the invariant.
LEMMA NextInv == IndInv /\ [Next]_vars => IndInv'
  <1> SUFFICES ASSUME IndInv, [Next]_vars PROVE IndInv'
    OBVIOUS
  <1>1. CASE \E p \in Parts : TaskStep(p)
    BY <1>1, TaskInvStep
  <1>2. CASE NextCall
    BY <1>2, NextCallInv
  <1>3. CASE SubmitStep
    BY <1>3, SubmitReserveInv, SubmitTaskInv, SubmitFailsInv, SubmitThrowsInv DEF SubmitStep
  <1>4. CASE TakeFront \/ TakeResult \/ TakeOutOfMemory
    BY <1>4, TakeFrontInv, TakeResultInv, TakeOutOfMemoryInv
  <1>5. CASE DropAhead \/ BeforeRetry \/ RunAlone
    BY <1>5, DropAheadInv, BeforeRetryInv, RunAloneInv
  <1>6. CASE NextReturns \/ StopDone \/ StopCall
    BY <1>6, NextReturnsInv, StopDoneInv, StopCallInv
  <1>7. CASE UNCHANGED vars
    BY <1>7, StutterInv
  <1> QED
    BY <1>1, <1>2, <1>3, <1>4, <1>5, <1>6, <1>7, Zenon DEF Next, CallStep

\* What a step inside a call of Next() or Stop() does to what its caller sees: only the step
\* that returns adds a result, one, and only the step that ends Stop() says how the run ended.
LEMMA CallEffect ==
  ASSUME IndInv, CallStep
  PROVE  /\ pc \notin {"idle", "raised", "closed"}
         /\ UNCHANGED <<executor, fate>>
         /\ pc' = "idle" => Len(delivered') = Len(delivered) + 1
         /\ pc' # "idle" => UNCHANGED delivered
         /\ pc' = "closed" => outcome' = ret /\ UNCHANGED ret
         /\ ret' \in {ret, "error", "oom", "submitFailure", "cancelled", "lost"}
         /\ pc' = "alone" => pc = "beforeRetry"
  <1>1. delivered \in Seq(Parts) /\ nextResult \in Nat
    BY SchedulerAssumption DEF IndInv, TypeOK
  <1>2. CASE SubmitStep
    <2>1. pc \in {"take", "refill"}
      BY <1>2,
         Zenon DEF SubmitStep, SubmitReserve, SubmitTask, SubmitFails, SubmitThrows, IndInv, FutureInv
    <2> QED
      BY <1>2, <2>1, Zenon DEF SubmitStep, SubmitReserve, SubmitTask, SubmitFails, SubmitThrows
  <1>3. CASE TakeFront \/ TakeOutOfMemory \/ DropAhead \/ BeforeRetry \/ StopDone
    BY <1>3, Zenon DEF TakeFront, TakeOutOfMemory, DropAhead, BeforeRetry, StopDone
  <1>4. CASE NextReturns
    <2>1. nextResult - 1 \in Parts
      BY <1>4, <1>1, SchedulerAssumption DEF NextReturns, IndInv, PlaceInv, TypeOK, Parts
    <2>2. Len(Append(delivered, nextResult - 1)) = Len(delivered) + 1
      BY <1>1, <2>1, AppendFacts
    <2> QED
      BY <1>4, <2>2 DEF NextReturns
  <1>5. ASSUME NEW result \in Results \cup {"lost"}, TakeReturns(result), pc \in {"await", "alone"},
               UNCHANGED <<executor, fate>>
        PROVE  /\ pc' = "idle" => Len(delivered') = Len(delivered) + 1
               /\ pc' # "idle" => UNCHANGED delivered
               /\ pc' \notin {"closed", "alone"}
               /\ ret' \in {ret, "error", "oom", "submitFailure", "cancelled", "lost"}
    <2>1. nextResult \in Parts
      BY <1>1, <1>5, SchedulerAssumption DEF IndInv, PlaceInv, Parts
    <2>2. Len(Append(delivered, nextResult)) = Len(delivered) + 1
      BY <1>1, <2>1, AppendFacts
    <2> QED
      BY <1>5, <2>2 DEF TakeReturns, BeginStop, Results, Fates
  <1>6. CASE TakeResult
    <2>1. slots[nextResult] \in Results \cup {"none"}
      BY <1>6, <1>1, SchedulerAssumption, Zenon DEF TakeResult, IndInv, PlaceInv, TypeOK, Parts
    <2> DEFINE result == IF slots[nextResult] = "none" THEN "lost" ELSE slots[nextResult]
    <2>2. result \in Results \cup {"lost"}
      BY <2>1
    <2>3. TakeReturns(result) /\ pc = "await" /\ UNCHANGED <<executor, fate>>
      BY <1>6 DEF TakeResult
    <2> HIDE DEF result
    <2> QED
      BY <1>5, <2>2, <2>3
  <1>7. CASE RunAlone
    <2>1. fate[nextResult] \in Results
      BY <1>7, <1>1, SchedulerAssumption DEF RunAlone, IndInv, PlaceInv, TypeOK, Parts, Results
    <2>2. TakeReturns(fate[nextResult]) /\ pc = "alone" /\ UNCHANGED <<executor, fate>>
      BY <1>7 DEF RunAlone
    <2> QED
      BY <1>5, <2>1, <2>2
  <1> QED
    BY <1>2, <1>3, <1>4, <1>6, <1>7, Zenon DEF CallStep

\* IndInv holds in every state a scheduler can be in.
THEOREM Invariance == Spec => []IndInv
  BY NextInv, InitInv, PTL DEF Spec

\* Every variable of the scheduler keeps its type: the window stays between 1
\* and its maximum, whatever the memory pressure.
THEOREM TypeCorrect == Spec => []TypeOK
  <1>1. IndInv => TypeOK
    BY DEF IndInv
  <1> QED
    BY <1>1, Invariance, PTL

\* Next() returns the parts in part order, each with its own result, and never
\* a result of a task that gave up or was dropped.
THEOREM OrderCorrect == Spec => []InOrder
  <1>1. IndInv => InOrder
    <2> SUFFICES ASSUME IndInv PROVE InOrder
      OBVIOUS
    <2>1. DOMAIN delivered = 1 .. Len(delivered)
      BY DEF IndInv, TypeOK
    <2> QED
      BY <2>1 DEF IndInv, DeliveredInv, InOrder
  <1> QED
    BY <1>1, Invariance, PTL

\* While a part runs again, the invariant leaves no task and no result.
LEMMA NoTaskInRetry == IndInv => AloneInRetry
  <1> SUFFICES ASSUME IndInv, pc \in {"beforeRetry", "alone"}
               PROVE  (\A p \in Parts : ~Live(p) /\ slots[p] = "none") /\ ~stop
    BY DEF AloneInRetry
  <1>1. awaited = NoTask /\ Len(inFlight) = 0 /\ reserved = FALSE /\ ~stop
    BY Zenon DEF IndInv, TypeOK, PlaceInv, FutureInv, StopInv
  <1>2. Submitted = 0 /\ First = nextSubmit
    BY <1>1 DEF Submitted, First, IndInv, TypeOK
  <1>3. \A p \in Parts : task[p] = "none"
    BY <1>1, <1>2, SchedulerAssumption DEF IndInv, TypeOK, TaskInv, NoTask, Parts
  <1> QED
    BY <1>1, <1>3 DEF IndInv, SlotInv, Live

\* A part that ran out of memory next to others runs again with no other task
\* and no held result, for every window and number of threads.
THEOREM RetryAlone == Spec => []AloneInRetry
  BY NoTaskInRetry, Invariance, PTL

\* When Stop() or the destructor has returned, no task of the scheduler is left
\* and no result is held.
THEOREM StopComplete == Spec => []NothingLeft
  <1>1. IndInv => NothingLeft
    <2> SUFFICES ASSUME IndInv, pc = "closed"
                 PROVE  \A p \in Parts : task[p] = "none" /\ slots[p] = "none"
      BY DEF NothingLeft
    <2>1. awaited = NoTask /\ Len(inFlight) = 0 /\ reserved = FALSE
      BY Zenon DEF IndInv, TypeOK, PlaceInv, FutureInv
    <2>2. Submitted = 0 /\ First = nextSubmit
      BY <2>1 DEF Submitted, First, IndInv, TypeOK
    <2>3. \A p \in Parts : task[p] = "none"
      BY <2>1, <2>2, SchedulerAssumption DEF IndInv, TypeOK, TaskInv, NoTask, Parts
    <2> QED
      BY <2>3 DEF IndInv, SlotInv
  <1> QED
    BY <1>1, Invariance, PTL

\* The parts whose memory is held at a time are among the widest window's next
\* parts.
THEOREM HeldBounded == Spec => []WindowBound
  <1>1. IndInv => WindowBound
    <2> SUFFICES ASSUME IndInv PROVE WindowBound
      OBVIOUS
    <2> DEFINE low == IF pc = "await" THEN nextResult ELSE First
    <2> USE SchedulerAssumption
    <2>1. /\ nextSubmit \in Int /\ Len(inFlight) \in Nat /\ Submitted \in Nat
          /\ Submitted <= Len(inFlight) /\ low \in Int
      BY DEF IndInv, TypeOK, FutureInv, Submitted, First
    <2>2. nextSubmit - low <= MaxWindow /\ nextSubmit - low >= 0
      BY <2>1 DEF IndInv, TypeOK, FutureInv, PlaceInv, First
    <2>3. {p \in Parts : Held(p)} \subseteq low .. (nextSubmit - 1)
      <3> SUFFICES ASSUME NEW p \in Parts, Held(p) PROVE p \in low .. (nextSubmit - 1)
        OBVIOUS
      <3>1. task[p] # "none"
        BY DEF IndInv, SlotInv, Held, Live
      <3>2. p = awaited \/ (First <= p /\ p < nextSubmit)
        BY <3>1 DEF IndInv, TaskInv
      <3>3. CASE p = awaited
        BY <2>1, <3>3 DEF IndInv, TypeOK, PlaceInv, FutureInv, Parts, NoTask, First
      <3>4. CASE p # awaited
        BY <2>1, <3>2, <3>4 DEF IndInv, TypeOK, PlaceInv, Parts
      <3> QED
        BY <3>3, <3>4
    <2>4. low \in 0 .. NumParts
      BY <2>1 DEF IndInv, TypeOK, FutureInv, PlaceInv, First, Parts
    <2> HIDE DEF low
    <2>5. \A p \in Parts : Held(p) => p \in low .. (low + MaxWindow - 1)
      BY <2>1, <2>2, <2>3 DEF Parts
    <2> QED
      BY <2>4, <2>5 DEF WindowBound
  <1> QED
    BY <1>1, Invariance, PTL

\* The scheduler implements PartSequence: with any executor, window and budget,
\* and without an executor, the consumer sees the same results in the same
\* order and the same first failure.
THEOREM Implements == Spec => Refinement
  <1>1. Init => Promise!Init
    BY DEF Init, Promise!Init, Promise!Fates, Promise!Parts, Fates, Parts
  <1>2. IndInv /\ [Next]_vars => [Promise!Next]_(Promise!vars)
    <2> SUFFICES ASSUME IndInv, [Next]_vars
                 PROVE  Promise!Next \/ UNCHANGED <<fate, delivered, outcome>>
      BY DEF Promise!vars
    <2> USE SchedulerAssumption
    <2>1. CASE (\E p \in Parts : TaskStep(p)) \/ UNCHANGED vars
      BY <2>1, Zenon DEF TaskStep, TaskStart, TaskSeesStop, TaskSlot, TaskDone, vars
    <2>2. CASE NextCall \/ StopCall \/ SubmitStep
      BY <2>2, Zenon DEF NextCall, StopCall, SubmitStep, SubmitReserve, SubmitTask, SubmitFails,
                  SubmitThrows
    <2>3. CASE TakeFront \/ TakeOutOfMemory \/ DropAhead \/ BeforeRetry
      BY <2>3, Zenon DEF TakeFront, TakeOutOfMemory, DropAhead, BeforeRetry
    <2>4. CASE TakeResult
      <3>1. executor
        BY <2>4, TakenResult DEF TakeResult
      <3> QED
        BY <2>4, <3>1, Zenon DEF TakeResult, TakeReturns
    <2>5. CASE RunAlone
      <3>1. CASE delivered' = delivered
        BY <2>5, <3>1 DEF RunAlone
      <3>2. CASE delivered' # delivered
        <4>1. /\ delivered' = Append(delivered, nextResult) /\ fate[nextResult] = "ok"
              /\ UNCHANGED <<fate, outcome>> /\ pc = "alone"
          BY <2>5, <3>2, Zenon DEF RunAlone, TakeReturns
        <4>2. nextResult \in Parts /\ Len(delivered) = nextResult /\ outcome = "running"
          BY <4>1 DEF IndInv, TypeOK, PlaceInv, DeliveredInv, Parts
        <4> QED
          BY <4>1, <4>2 DEF Promise!Next, Promise!Deliver, Promise!Parts, Parts
      <3> QED
        BY <3>1, <3>2
    <2>6. CASE NextReturns
      <3>1. /\ delivered' = Append(delivered, nextResult - 1) /\ UNCHANGED <<fate, outcome>>
            /\ pc = "refill"
        BY <2>6 DEF NextReturns
      <3>2. /\ nextResult - 1 \in Parts /\ Len(delivered) = nextResult - 1
            /\ outcome = "running" /\ fate[nextResult - 1] = "ok"
        BY <3>1 DEF IndInv, TypeOK, PlaceInv, DeliveredInv, Parts
      <3> QED
        BY <3>1, <3>2 DEF Promise!Next, Promise!Deliver, Promise!Parts, Parts
    <2>7. CASE StopDone
      <3>1. outcome' = ret /\ UNCHANGED <<fate, delivered>> /\ pc = "stopping"
        BY <2>7 DEF StopDone
      <3>2. /\ outcome = "running" /\ Len(delivered) \in Nat
            /\ ret \in {"error", "oom", "submitFailure", "raised", "stopped"}
        BY <3>1 DEF IndInv, TypeOK, DeliveredInv, Returns
      <3>3. CASE ret \in {"error", "oom"}
        <4>1. Len(delivered) \in Parts /\ ret = fate[Len(delivered)]
          BY <3>2, <3>3 DEF IndInv, DeliveredInv, Parts
        <4> QED
          BY <3>1, <3>2, <3>3, <4>1, Zenon DEF Promise!Next, Promise!Fail, Promise!Parts, Parts
      <3>4. CASE ret \notin {"error", "oom"}
        BY <3>1, <3>2, <3>4 DEF Promise!Next, Promise!End
      <3> QED
        BY <3>3, <3>4
    <2> QED
      BY <2>1, <2>2, <2>3, <2>4, <2>5, <2>6, <2>7, Zenon DEF Next, CallStep
  <1> QED
    BY <1>1, <1>2, Invariance, PTL DEF Spec, Refinement, Promise!Spec

=============================================================================
