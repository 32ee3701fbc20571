------------------------ MODULE PartitionLanesProofs ------------------------
(***************************************************************************)
(* PartitionLanes merges in part order, returns the smallest failure and   *)
(* holds a part exactly while a lane needs it, for any number of parts,    *)
(* lanes and threads and any interleaving of their critical sections.      *)
(***************************************************************************)
EXTENDS PartitionLanes, FiniteSetTheorems, WellFoundedInduction, TLAPS

-----------------------------------------------------------------------------
(* Which failure wins.                                                      *)

NotAfter(f, g) == f = g \/ Before(f, g)

\* Every set of numbers has a least one.
LEMMA LeastNumber ==
  ASSUME NEW S, S \subseteq Nat, S # {}
  PROVE  \E n \in S : \A m \in S : n <= m
<1>1. \A m, n \in Nat : m < n => <<m, n>> \in OpToRel(<, Nat)
  BY DEF OpToRel
<1>2. PICK n \in S : \A m \in S : ~ (<<m, n>> \in OpToRel(<, Nat))
  BY NatLessThanWellFounded, WFMin, Zenon
<1>3. \A m \in S : ~ (m < n)
  BY <1>1, <1>2, Zenon
<1> QED BY <1>3

\* Of any failures there is one that wins.
LEMMA FirstFailure ==
  ASSUME NEW S, S \subseteq Failures, S # {}
  PROVE  \E f \in S : \A g \in S : NotAfter(f, g)
<1>1. \A f \in S : f = <<f[1], f[2]>> /\ f[1] \in Nat /\ f[2] \in Nat
  BY LanesAssumption DEF Failures, Parts, AllLanes
<1> DEFINE P == {f[1] : f \in S}
<1>2. PICK p \in P : \A q \in P : p <= q
  BY <1>1, LeastNumber, ZenonT(60)
<1> DEFINE L == {f[2] : f \in {g \in S : g[1] = p}}
<1>3. PICK l \in L : \A k \in L : l <= k
  BY <1>1, <1>2, LeastNumber, ZenonT(60)
<1>4. <<p, l>> \in S
  BY <1>1, <1>3
<1>5. ASSUME NEW g \in S
      PROVE  NotAfter(<<p, l>>, g)
  <2>1. p \in Nat /\ l \in Nat /\ g[1] \in Nat /\ g[2] \in Nat /\ p <= g[1]
    BY <1>1, <1>2, <1>3
  <2>2. g[1] = p => l <= g[2]
    BY <1>3
  <2>3. g = <<g[1], g[2]>>
    BY <1>1
  <2> QED BY <2>1, <2>2, <2>3 DEF NotAfter, Before
<1> QED BY <1>4, <1>5

\* Fail() of some failures (PartitionLanes::Fail): the one kept is known, and none that is
\* known comes before it.
LEMMA FailKeepsFirst ==
  ASSUME NEW new, new \subseteq Failures, failure \in Failures \cup {NoFailure}, Fail(new)
  PROVE  /\ failure' \in Failures \cup {NoFailure}
         /\ failure' = failure \/ failure' \in new
         /\ failure' = NoFailure => failure = NoFailure /\ new = {}
         /\ failure # NoFailure => NotAfter(failure', failure)
         /\ \A f \in new : NotAfter(failure', f)
<1> DEFINE known == IF failure = NoFailure THEN new ELSE new \cup {failure}
<1>1. NoFailure \notin Failures
  BY LanesAssumption DEF NoFailure, NoPart, Failures, Parts
<1>2. known \subseteq Failures
  OBVIOUS
<1>3. failure' = IF known = {} THEN NoFailure
                 ELSE CHOOSE f \in known : \A g \in known : f = g \/ Before(f, g)
  BY DEF Fail
<1>4. CASE known = {}
  BY <1>3, <1>4, Zenon
<1>5. CASE known # {}
  <2>1. \E f \in known : \A g \in known : f = g \/ Before(f, g)
    BY <1>2, <1>5, FirstFailure, Zenon DEF NotAfter
  <2>2. failure' \in known /\ \A g \in known : NotAfter(failure', g)
    BY <1>3, <1>5, <2>1, Zenon DEF NotAfter
  <2> QED BY <1>1, <1>2, <2>2
<1> QED BY <1>4, <1>5

-----------------------------------------------------------------------------
(* The inductive invariant.                                                 *)

\* The parts a lane has begun, and those it was given: all of them in part order.
Base(l) == Len(merged[l]) + (IF merging[l] = NoPart THEN 0 ELSE 1)
Top(l) == Base(l) + Len(queue[l])

LanesTypeOK ==
  /\ executor \in BOOLEAN
  /\ numLanes \in 0 .. MaxLanes
  /\ mergeable \in [Failures -> BOOLEAN]
  /\ pc \in Places
  /\ awake \in BOOLEAN
  /\ added \in 0 .. NumParts
  /\ refused \subseteq Failures
  /\ queue \in [AllLanes -> Seq(Parts)]
  /\ task \in [AllLanes -> {"none", "queued", "running"}]
  /\ failed \in [AllLanes -> BOOLEAN]
  /\ merging \in [AllLanes -> Parts \cup {NoPart}]
  /\ merged \in [AllLanes -> Seq(Parts)]
  /\ remaining \in [Parts -> Nat]
  /\ pending \in Nat
  /\ failure \in Failures \cup {NoFailure}

\* What a lane merged, merges and has queued is parts 0 .. Top(l) - 1 in turn; it merges while
\* its task runs, and only a task has parts queued.
OrderAt(l) ==
  /\ \A i \in 1 .. Len(merged[l]) : merged[l][i] = i - 1
  /\ merging[l] # NoPart => merging[l] = Len(merged[l])
  /\ \A i \in 1 .. Len(queue[l]) : queue[l][i] = Base(l) + i - 1
  /\ task[l] = "running" <=> merging[l] # NoPart
  /\ task[l] = "none" => queue[l] = <<>>

OrderInv == \A l \in AllLanes : OrderAt(l)

\* A lane that was not given every part added knows a failure no later than the first it lacks.
FailureInv ==
  /\ \A l \in AllLanes :
       /\ Top(l) <= added
       /\ l \notin Lanes => Top(l) = 0
       /\ l \in Lanes /\ Top(l) < added => failure # NoFailure /\ NotAfter(failure, <<Top(l), l>>)
       /\ failed[l] => failure # NoFailure
       /\ \A i \in 0 .. Len(merged[l]) - 1 : mergeable[<<i, l>>]
  /\ \A f \in refused : Top(f[2]) <= f[1] /\ f[1] < added /\ f[2] < numLanes
  /\ failure # NoFailure => failure \in Bad

\* The lanes that have yet to merge a part.
Holders(p) == {l \in AllLanes : Len(merged[l]) <= p /\ p < Top(l)}

HeldInv ==
  /\ \A p \in Parts : remaining[p] = Cardinality(Holders(p))
  /\ pending = Cardinality({p \in Parts : remaining[p] > 0})
  /\ pending <= MaxPending

PlaceInv ==
  /\ pc = "add" => executor /\ added < NumParts
  /\ pc \in {"finished", "destroyed"} => NoLaneRuns
  /\ ~executor => NoLaneRuns

IndInv == LanesTypeOK /\ OrderInv /\ FailureInv /\ HeldInv /\ PlaceInv

\* A PartitionLanes as it is constructed.
LEMMA InitInd == Init => IndInv
<1> SUFFICES ASSUME Init PROVE IndInv
  OBVIOUS
<1>1. LanesTypeOK
  BY LanesAssumption DEF Init, LanesTypeOK, Places
<1>2. \A l \in AllLanes : Base(l) = 0 /\ Top(l) = 0 /\ Len(merged[l]) = 0 /\ Len(queue[l]) = 0
  BY DEF Init, Base, Top
<1>3. OrderInv
  BY <1>2 DEF Init, OrderInv, OrderAt
<1>4. FailureInv
  BY <1>2 DEF Init, FailureInv
<1>5. HeldInv
  <2>1. \A p \in Parts : Holders(p) = {}
    BY <1>2 DEF Holders, Parts
  <2>2. {p \in Parts : remaining[p] > 0} = {}
    BY DEF Init
  <2>3. Cardinality({}) = 0
    BY FS_EmptySet, Zenon
  <2>4. pending = 0 /\ \A p \in Parts : remaining[p] = 0
    BY DEF Init
  <2>5. 0 <= MaxPending
    BY LanesAssumption
  <2> QED BY <2>1, <2>2, <2>3, <2>4, <2>5, Zenon DEF HeldInv
<1>6. PlaceInv
  BY DEF Init, PlaceInv, NoLaneRuns
<1> QED BY <1>1, <1>3, <1>4, <1>5, <1>6, Zenon DEF IndInv

-----------------------------------------------------------------------------
(* Steps of the consumer that change its place only.                        *)

laneVars == <<executor, numLanes, mergeable, added, refused, queue, task, failed, merging, merged,
              remaining, pending, failure>>

\* A wait that begins, sleeps or returns leaves what the lanes have as it is.
LEMMA PlaceOnly ==
  ASSUME IndInv, UNCHANGED laneVars
  PROVE  OrderInv' /\ FailureInv' /\ HeldInv'
<1> USE DEF laneVars
<1>1. \A l : Base(l)' = Base(l) /\ Top(l)' = Top(l)
  BY Zenon DEF Base, Top
<1>2. OrderInv'
  BY <1>1, Zenon DEF IndInv, OrderInv, OrderAt
<1>3. FailureInv'
  <2>1. Lanes' = Lanes /\ Bad' = Bad
    BY DEF Lanes, Bad
  <2> QED BY <1>1, <2>1, Zenon DEF IndInv, FailureInv
<1>4. HeldInv'
  <2>1. \A p : Holders(p)' = Holders(p)
    BY <1>1, Zenon DEF Holders
  <2> QED BY <2>1, Zenon DEF IndInv, HeldInv
<1> QED BY <1>2, <1>3, <1>4

\* The consumer waits inside Add(), Wait() or Finish(), or goes on: the lanes are as they were.
LEMMA WaitInd ==
  ASSUME IndInv,
         AddCall \/ AddSleeps \/ AddAfterFailure \/ WaitCall \/ WaitSleeps \/ WaitReturns
  PROVE  IndInv'
<1> USE DEF AddCall, AddSleeps, AddAfterFailure, WaitCall, WaitSleeps, WaitReturns
<1>1. UNCHANGED laneVars
  BY Zenon DEF laneVars
<1>2. OrderInv' /\ FailureInv' /\ HeldInv'
  BY <1>1, PlaceOnly, Zenon
<1>3. LanesTypeOK'
  <2>1. pc' \in Places /\ awake' \in BOOLEAN
    BY Zenon DEF IndInv, LanesTypeOK, Places
  <2> QED BY <1>1, <2>1, Zenon DEF IndInv, LanesTypeOK, laneVars
<1>4. PlaceInv'
  BY <1>1, Zenon DEF IndInv, PlaceInv, NoLaneRuns, laneVars
<1> QED BY <1>2, <1>3, <1>4, Zenon DEF IndInv

-----------------------------------------------------------------------------
(* The parts of one lane.                                                   *)

\* The lane's task goes on with its next part (the head of Drain's loop): what the lane
\* was given does not change.
LEMMA DrainNextOrder ==
  ASSUME LanesTypeOK, OrderInv, NEW l \in AllLanes,
         merged' \in [AllLanes -> Seq(Parts)],
         Len(merged'[l]) = Base(l),
         \A i \in 1 .. Base(l) : merged'[l][i] = i - 1,
         \A k \in AllLanes \ {l} : merged'[k] = merged[k],
         task[l] # "none",
         DrainNext(l, queue[l])
  PROVE  /\ OrderInv'
         /\ \A k \in AllLanes : Top(k)' = Top(k)
         /\ queue' \in [AllLanes -> Seq(Parts)]
         /\ task' \in [AllLanes -> {"none", "queued", "running"}]
         /\ merging' \in [AllLanes -> Parts \cup {NoPart}]
<1>1. /\ queue[l] \in Seq(Parts) /\ Base(l) \in Nat /\ NoPart \notin Parts /\ <<>> \in Seq(Parts)
      /\ merged'[l] \in Seq(Parts)
  BY LanesAssumption DEF LanesTypeOK, Base, NoPart, Parts
<1>2. queue \in [AllLanes -> Seq(Parts)] /\ merging \in [AllLanes -> Parts \cup {NoPart}]
      /\ task \in [AllLanes -> {"none", "queued", "running"}]
  BY DEF LanesTypeOK
<1>3. ASSUME NEW k \in AllLanes, k # l
      PROVE  OrderAt(k)' /\ Top(k)' = Top(k)
  <2>1. merged'[k] = merged[k] /\ merging'[k] = merging[k] /\ queue'[k] = queue[k] /\ task'[k] = task[k]
    BY <1>2, <1>3, Zenon DEF DrainNext
  <2>2. Base(k)' = Base(k) /\ Top(k)' = Top(k)
    BY <2>1, Zenon DEF Base, Top
  <2>3. OrderAt(k)
    BY DEF OrderInv
  <2> QED BY <2>1, <2>2, <2>3, Zenon DEF OrderAt
<1>4. CASE queue[l] # <<>>
  <2>1. /\ merging' = [merging EXCEPT ![l] = Head(queue[l])] /\ queue' = [queue EXCEPT ![l] = Tail(queue[l])]
        /\ task' = [task EXCEPT ![l] = "running"]
    BY <1>4, Zenon DEF DrainNext
  <2>2. Len(queue[l]) \in Nat \ {0} /\ Head(queue[l]) = queue[l][1] /\ queue[l][1] \in Parts
    BY <1>1, <1>4
  <2>3. /\ queue' \in [AllLanes -> Seq(Parts)]
        /\ task' \in [AllLanes -> {"none", "queued", "running"}]
        /\ merging' \in [AllLanes -> Parts \cup {NoPart}]
    BY <1>1, <1>2, <1>4, <2>1, <2>2, SMTT(60)
  <2>4. merging'[l] = queue[l][1] /\ queue'[l] = Tail(queue[l]) /\ task'[l] = "running"
    BY <1>2, <2>1, <2>2, Zenon
  <2>5. queue[l][1] = Base(l) /\ merging'[l] # NoPart
    BY <1>1, <2>2, <2>4 DEF OrderInv, OrderAt
  <2>6. Base(l)' = Len(merged'[l]) + 1
    BY <2>5, Zenon DEF Base
  <2>7. Base(l)' = Base(l) + 1 /\ Len(queue'[l]) = Len(queue[l]) - 1
    BY <1>1, <1>4, <2>4, <2>6
  <2>8. Top(l)' = Top(l)
    <3>1. Top(l)' = Base(l)' + Len(queue'[l]) /\ Top(l) = Base(l) + Len(queue[l])
      BY DEF Top
    <3>2. \A a, b \in Int : (a + 1) + (b - 1) = a + b
      OBVIOUS
    <3>3. Base(l) \in Int /\ Len(queue[l]) \in Int
      BY <1>1, <2>2
    <3> QED BY <2>7, <3>1, <3>2, <3>3, ZenonT(60)
  <2>9. ASSUME NEW i \in 1 .. Len(queue'[l])
        PROVE  queue'[l][i] = Base(l)' + i - 1
    <3>1. queue'[l][i] = queue[l][i + 1]
      BY <1>1, <2>4, <2>2, <2>7, SMTT(60)
    <3>2. i + 1 \in 1 .. Len(queue[l])
      BY <2>2, <2>7, SMTT(60)
    <3>3. queue[l][i + 1] = Base(l) + (i + 1) - 1
      BY <3>2, Zenon DEF OrderInv, OrderAt
    <3> QED BY <1>1, <2>7, <3>1, <3>3, SMTT(60)
  <2>10. OrderAt(l)'
    BY <2>4, <2>5, <2>9, Zenon DEF OrderAt
  <2> QED BY <1>3, <2>3, <2>8, <2>10, Zenon DEF OrderInv
<1>5. CASE queue[l] = <<>>
  <2>1. /\ merging' = [merging EXCEPT ![l] = NoPart] /\ queue' = [queue EXCEPT ![l] = <<>>]
        /\ task' = [task EXCEPT ![l] = "none"]
    BY <1>5 DEF DrainNext
  <2>2. /\ queue' \in [AllLanes -> Seq(Parts)]
        /\ task' \in [AllLanes -> {"none", "queued", "running"}]
        /\ merging' \in [AllLanes -> Parts \cup {NoPart}]
    BY <1>1, <1>2, <2>1, Zenon
  <2>3. merging'[l] = NoPart /\ queue'[l] = <<>> /\ task'[l] = "none"
    BY <1>2, <2>1, Zenon
  <2>4. Base(l)' = Len(merged'[l])
    BY <1>1, <2>3 DEF Base
  <2>5. Top(l)' = Top(l)
    BY <1>1, <1>5, <2>3, <2>4 DEF Top
  <2>6. OrderAt(l)'
    BY <2>3 DEF OrderAt
  <2> QED BY <1>3, <2>2, <2>5, <2>6, Zenon DEF OrderInv
<1> QED BY <1>4, <1>5, Zenon

\* A failed lane drops the part it merges and those it has queued.
LEMMA DrainDropOrder ==
  ASSUME LanesTypeOK, OrderInv, NEW l \in AllLanes, merged' = merged, DrainNext(l, <<>>)
  PROVE  /\ OrderInv'
         /\ Top(l)' = Len(merged[l])
         /\ \A k \in AllLanes \ {l} : Top(k)' = Top(k)
         /\ queue' \in [AllLanes -> Seq(Parts)]
         /\ task' \in [AllLanes -> {"none", "queued", "running"}]
         /\ merging' \in [AllLanes -> Parts \cup {NoPart}]
<1>1. /\ queue \in [AllLanes -> Seq(Parts)] /\ merging \in [AllLanes -> Parts \cup {NoPart}]
      /\ task \in [AllLanes -> {"none", "queued", "running"}] /\ merged \in [AllLanes -> Seq(Parts)]
      /\ <<>> \in Seq(Parts)
  BY DEF LanesTypeOK
<1>2. /\ merging' = [merging EXCEPT ![l] = NoPart] /\ queue' = [queue EXCEPT ![l] = <<>>]
      /\ task' = [task EXCEPT ![l] = "none"]
  BY DEF DrainNext
<1>3. /\ queue' \in [AllLanes -> Seq(Parts)]
      /\ task' \in [AllLanes -> {"none", "queued", "running"}]
      /\ merging' \in [AllLanes -> Parts \cup {NoPart}]
  BY <1>1, <1>2, Zenon
<1>4. merging'[l] = NoPart /\ queue'[l] = <<>> /\ task'[l] = "none" /\ merged'[l] = merged[l]
  BY <1>1, <1>2
<1>5. Top(l)' = Len(merged[l])
  <2>1. Base(l)' = Len(merged[l])
    BY <1>1, <1>4 DEF Base
  <2> QED BY <1>1, <1>4, <2>1 DEF Top
<1>6. OrderAt(l)'
  <2>1. OrderAt(l)
    BY DEF OrderInv
  <2> QED BY <1>4, <2>1 DEF OrderAt
<1>7. ASSUME NEW k \in AllLanes, k # l
      PROVE  OrderAt(k)' /\ Top(k)' = Top(k)
  <2>1. merged'[k] = merged[k] /\ merging'[k] = merging[k] /\ queue'[k] = queue[k] /\ task'[k] = task[k]
    BY <1>1, <1>2, <1>7, Zenon
  <2>2. Base(k)' = Base(k) /\ Top(k)' = Top(k)
    BY <2>1 DEF Base, Top
  <2>3. OrderAt(k)
    BY DEF OrderInv
  <2> QED BY <2>1, <2>2, <2>3, Zenon DEF OrderAt
<1> QED BY <1>3, <1>5, <1>6, <1>7, Zenon DEF OrderInv

\* What a lane has under way, in numbers: the parts from Len(merged[l]) to Top(l) - 1.
LEMMA LaneRange ==
  ASSUME LanesTypeOK, OrderInv, NEW l \in AllLanes
  PROVE  /\ Len(merged[l]) \in Nat /\ Top(l) \in Nat /\ Len(merged[l]) <= Top(l)
         /\ task[l] = "running" => /\ merging[l] \in Parts /\ merging[l] = Len(merged[l])
                                   /\ Base(l) = Len(merged[l]) + 1 /\ merging[l] < Top(l)
         /\ task[l] # "running" => Base(l) = Len(merged[l])
         /\ task[l] = "none" => Top(l) = Len(merged[l])
         /\ \A p \in Parts : (merging[l] = p \/ \E i \in DOMAIN queue[l] : queue[l][i] = p)
                               <=> Len(merged[l]) <= p /\ p < Top(l)
<1>1. /\ merged[l] \in Seq(Parts) /\ queue[l] \in Seq(Parts) /\ merging[l] \in Parts \cup {NoPart}
      /\ task[l] \in {"none", "queued", "running"} /\ NoPart \notin Parts /\ Parts \subseteq Nat
  BY LanesAssumption DEF LanesTypeOK, Parts, NoPart
<1>2. OrderAt(l)
  BY DEF OrderInv
<1> DEFINE m == Len(merged[l])
           q == Len(queue[l])
<1>3. m \in Nat /\ q \in Nat /\ DOMAIN queue[l] = 1 .. q
  BY <1>1
<1>4. CASE task[l] = "running"
  <2>1. merging[l] # NoPart /\ merging[l] \in Parts /\ merging[l] = m
    BY <1>1, <1>2, <1>4, Zenon DEF OrderAt
  <2>2. Base(l) = m + 1 /\ Top(l) = m + 1 + q
    BY <2>1, <1>3, Zenon DEF Base, Top
  <2>3. \A i \in 1 .. q : queue[l][i] = m + i
    BY <1>2, <1>3, <2>2 DEF OrderAt
  <2> HIDE DEF m, q
  <2>4. ASSUME NEW p \in Parts
        PROVE  (m = p \/ \E i \in 1 .. q : m + i = p) <=> m <= p /\ p < m + 1 + q
    <3>1. p \in Nat
      BY <1>1
    <3>2. m <= p /\ p < m + 1 + q /\ m # p => p - m \in 1 .. q /\ m + (p - m) = p
      BY <1>3, <3>1
    <3> QED BY <1>3, <3>1, <3>2
  <2>5. ASSUME NEW p \in Parts
        PROVE  (merging[l] = p \/ \E i \in DOMAIN queue[l] : queue[l][i] = p) <=> m <= p /\ p < Top(l)
    <3>1. (\E i \in DOMAIN queue[l] : queue[l][i] = p) <=> \E i \in 1 .. q : m + i = p
      BY <1>3, <2>3, Zenon
    <3>2. (merging[l] = p) <=> (m = p)
      BY <2>1, Zenon
    <3> QED BY <2>2, <2>4, <3>1, <3>2, Zenon
  <2>6. Top(l) \in Nat /\ m <= Top(l) /\ m < Top(l)
    BY <1>3, <2>2
  <2> QED BY <1>3, <1>4, <2>1, <2>2, <2>5, <2>6, Zenon DEF m
<1>5. CASE task[l] # "running"
  <2>1. merging[l] = NoPart
    BY <1>1, <1>2, <1>5, Zenon DEF OrderAt
  <2>2. Base(l) = m /\ Top(l) = m + q
    BY <2>1, <1>3 DEF Base, Top
  <2>3. \A i \in 1 .. q : queue[l][i] = m + i - 1
    BY <1>2, <1>3, <2>2, Zenon DEF OrderAt
  <2>4. task[l] = "none" => q = 0
    BY <1>2 DEF OrderAt
  <2> HIDE DEF m, q
  <2>5. ASSUME NEW p \in Parts
        PROVE  (\E i \in 1 .. q : m + i - 1 = p) <=> m <= p /\ p < m + q
    <3>1. p \in Nat
      BY <1>1
    <3>2. m <= p /\ p < m + q => p - m + 1 \in 1 .. q /\ m + (p - m + 1) - 1 = p
      BY <1>3, <3>1
    <3> QED BY <1>3, <3>1, <3>2
  <2>6. ASSUME NEW p \in Parts
        PROVE  (merging[l] = p \/ \E i \in DOMAIN queue[l] : queue[l][i] = p) <=> m <= p /\ p < Top(l)
    BY <1>1, <1>3, <2>1, <2>2, <2>3, <2>5, ZenonT(60)
  <2>7. Top(l) \in Nat /\ m <= Top(l) /\ (task[l] = "none" => Top(l) = m)
    BY <1>3, <2>2, <2>4
  <2> QED BY <1>3, <1>5, <2>2, <2>6, <2>7, ZenonT(60) DEF m
<1> QED BY <1>4, <1>5, Zenon

-----------------------------------------------------------------------------
(* The parts held.                                                          *)

\* The lanes that hold a part's merge function are a finite set.
LEMMA FiniteHolders == \A p : IsFiniteSet(Holders(p)) /\ Cardinality(Holders(p)) \in Nat
<1>1. IsFiniteSet(AllLanes)
  BY LanesAssumption, FS_Interval DEF AllLanes
<1>2. \A p : Holders(p) \in SUBSET AllLanes
  BY DEF Holders
<1>3. \A p : IsFiniteSet(Holders(p))
  BY <1>1, <1>2, FS_Subset, Zenon
<1> QED BY <1>3, FS_CardinalityType, Zenon

\* The parts of a table are a finite set.
LEMMA FiniteParts == \A S \in SUBSET Parts : IsFiniteSet(S) /\ Cardinality(S) \in Nat
<1>1. IsFiniteSet(Parts)
  BY LanesAssumption, FS_Interval DEF Parts
<1>2. \A S \in SUBSET Parts : IsFiniteSet(S)
  BY <1>1, FS_Subset, Zenon
<1> QED BY <1>2, FS_CardinalityType, Zenon

\* Done() of parts a lane holds: each is held by one lane less, and those no lane holds any
\* more are released.
LEMMA DoneHeld ==
  ASSUME HeldInv, remaining \in [Parts -> Nat], pending \in Nat,
         NEW l, NEW D \in SUBSET Parts, \E ends \in BOOLEAN : Done(D, ends),
         \A p \in D : l \in Holders(p),
         \A p \in Parts : Holders(p)' = IF p \in D THEN Holders(p) \ {l} ELSE Holders(p)
  PROVE  HeldInv' /\ remaining' \in [Parts -> Nat] /\ pending' \in Nat
<1> DEFINE released == {p \in D : remaining[p] = 1}
           held == {p \in Parts : remaining[p] > 0}
<1>1. /\ remaining' = [p \in Parts |-> IF p \in D THEN remaining[p] - 1 ELSE remaining[p]]
      /\ pending' = pending - Cardinality(released)
  BY DEF Done
<1>2. ASSUME NEW p \in D
      PROVE  remaining[p] - 1 = Cardinality(Holders(p) \ {l}) /\ remaining[p] - 1 \in Nat
  <2>1. Cardinality(Holders(p) \ {l}) = Cardinality(Holders(p)) - 1
    BY <1>2, FiniteHolders, FS_RemoveElement, Zenon
  <2>2. remaining[p] = Cardinality(Holders(p))
    BY DEF HeldInv
  <2>3. IsFiniteSet(Holders(p) \ {l})
    BY FiniteHolders, FS_RemoveElement, Zenon
  <2>4. Cardinality(Holders(p) \ {l}) \in Nat
    BY <2>3, FS_CardinalityType, Zenon
  <2> QED BY <2>1, <2>2, <2>4, Zenon
<1>3. \A p \in Parts : remaining'[p] = Cardinality(Holders(p)')
  BY <1>1, <1>2, Zenon DEF HeldInv
<1>4. remaining' \in [Parts -> Nat]
  BY <1>1, <1>2, Zenon
<1>5. {p \in Parts : remaining'[p] > 0} = held \ released
  <2>1. \A p \in D : remaining'[p] = remaining[p] - 1 /\ remaining[p] \in Nat
    BY <1>1
  <2>2. \A p \in Parts \ D : remaining'[p] = remaining[p]
    BY <1>1
  <2>3. \A p \in D : remaining'[p] > 0 <=> remaining[p] > 0 /\ remaining[p] # 1
    BY <2>1
  <2> QED BY <2>2, <2>3, Zenon
<1>6. held \in SUBSET Parts /\ released \in SUBSET held /\ released \in SUBSET Parts
  <2>1. \A p \in D : remaining[p] = 1 => remaining[p] > 0
    OBVIOUS
  <2> QED BY <2>1, Zenon
<1>7. Cardinality(held \ released) = Cardinality(held) - Cardinality(released)
  <2>1. held \cap released = released
    BY <1>6, Zenon
  <2>2. IsFiniteSet(held)
    BY <1>6, FiniteParts, Zenon
  <2> HIDE DEF held, released
  <2>3. Cardinality(held \ released) = Cardinality(held) - Cardinality(held \cap released)
    BY <2>2, FS_Difference, Zenon
  <2> QED BY <2>1, <2>3, Zenon
<1>8. Cardinality(released) \in Nat /\ Cardinality(held \ released) \in Nat
  <2> HIDE DEF held, released
  <2>1. held \ released \in SUBSET Parts
    BY <1>6, Zenon
  <2> QED BY <1>6, <2>1, FiniteParts, Zenon
<1>9. pending = Cardinality(held) /\ pending <= MaxPending
  BY DEF HeldInv
<1>10. pending' = Cardinality(held \ released) /\ pending' \in Nat
  <2> HIDE DEF held, released
  <2> QED BY <1>1, <1>7, <1>8, <1>9, Zenon
<1>11. pending' <= MaxPending
  <2> HIDE DEF held, released
  <2> QED BY <1>1, <1>8, <1>9, LanesAssumption
<1> QED BY <1>3, <1>4, <1>5, <1>10, <1>11, Zenon DEF HeldInv

-----------------------------------------------------------------------------
(* A lane's task (Drain).                                                   *)

\* While a lane has a task there is an executor, and no wait has returned.
LEMMA TaskPlace ==
  ASSUME PlaceInv, NEW l \in AllLanes, task[l] # "none", UNCHANGED <<executor, pc, added>>
  PROVE  PlaceInv'
<1>1. ~NoLaneRuns
  BY DEF NoLaneRuns
<1> QED BY <1>1 DEF PlaceInv

\* A lane's Drain() takes its first part.
LEMMA DrainStartInd ==
  ASSUME IndInv, NEW l \in AllLanes, DrainStart(l)
  PROVE  IndInv'
<1> USE DEF IndInv
<1>1. task[l] = "queued" /\ DrainNext(l, queue[l]) /\ awake' \in BOOLEAN
  BY DEF DrainStart, LanesTypeOK
<1>2. UNCHANGED <<executor, numLanes, mergeable, pc, added, refused, failed, merged, remaining, pending, failure>>
  BY DEF DrainStart
<1>3. Len(merged'[l]) = Base(l) /\ \A i \in 1 .. Base(l) : merged'[l][i] = i - 1
  <2>1. Base(l) = Len(merged[l])
    BY <1>1, LaneRange, Zenon
  <2>2. OrderAt(l)
    BY DEF OrderInv
  <2> QED BY <1>2, <2>1, <2>2, Zenon DEF OrderAt
<1>4. merged' \in [AllLanes -> Seq(Parts)] /\ \A k \in AllLanes \ {l} : merged'[k] = merged[k]
  BY <1>2, Zenon DEF LanesTypeOK
<1>5. /\ OrderInv'
      /\ \A k \in AllLanes : Top(k)' = Top(k)
      /\ queue' \in [AllLanes -> Seq(Parts)]
      /\ task' \in [AllLanes -> {"none", "queued", "running"}]
      /\ merging' \in [AllLanes -> Parts \cup {NoPart}]
  BY <1>1, <1>3, <1>4, DrainNextOrder, Zenon
<1>6. LanesTypeOK'
  BY <1>1, <1>2, <1>5, SMTT(60) DEF LanesTypeOK
<1>7. FailureInv'
  <2>1. Lanes' = Lanes /\ Bad' = Bad
    BY <1>2 DEF Lanes, Bad
  <2>2. \A f \in refused : f[2] \in AllLanes
    BY DEF LanesTypeOK, Failures
  <2> QED BY <1>2, <1>5, <2>1, <2>2, SMTT(60) DEF FailureInv
<1>8. HeldInv'
  <2>1. \A p : Holders(p)' = Holders(p)
    BY <1>2, <1>5, Zenon DEF Holders
  <2> QED BY <1>2, <2>1, Zenon DEF HeldInv
<1>9. PlaceInv'
  BY <1>1, <1>2, TaskPlace, Zenon
<1> QED BY <1>5, <1>6, <1>7, <1>8, <1>9, Zenon

\* A lane's merge of a part succeeds, and Drain() takes the next part or ends.
LEMMA DrainMergedInd ==
  ASSUME IndInv, NEW l \in AllLanes, DrainMerged(l)
  PROVE  IndInv'
<1> USE DEF IndInv
<1>1. task[l] = "running" /\ DrainNext(l, queue[l]) /\ mergeable[<<merging[l], l>>]
      /\ Done({merging[l]}, queue[l] = <<>>) /\ merged' = [merged EXCEPT ![l] = Append(@, merging[l])]
  BY Zenon DEF DrainMerged
<1>2. UNCHANGED <<executor, numLanes, mergeable, pc, added, refused, failed, failure>>
  BY DEF DrainMerged
<1>3. /\ merging[l] \in Parts /\ merging[l] = Len(merged[l]) /\ Base(l) = Len(merged[l]) + 1
      /\ merging[l] < Top(l) /\ Len(merged[l]) \in Nat
  BY <1>1, LaneRange, Zenon
<1>4. /\ merged' \in [AllLanes -> Seq(Parts)]
      /\ merged'[l] = Append(merged[l], merging[l])
      /\ \A k \in AllLanes \ {l} : merged'[k] = merged[k]
  BY <1>1, <1>3, SMTT(60) DEF LanesTypeOK
<1>5. Len(merged'[l]) = Base(l) /\ \A i \in 1 .. Base(l) : merged'[l][i] = i - 1
  <2>1. OrderAt(l) /\ merged[l] \in Seq(Parts)
    BY Zenon DEF OrderInv, LanesTypeOK
  <2> QED BY <1>3, <1>4, <2>1, SMTT(60) DEF OrderAt
<1>6. /\ OrderInv'
      /\ \A k \in AllLanes : Top(k)' = Top(k)
      /\ queue' \in [AllLanes -> Seq(Parts)]
      /\ task' \in [AllLanes -> {"none", "queued", "running"}]
      /\ merging' \in [AllLanes -> Parts \cup {NoPart}]
  BY <1>1, <1>4, <1>5, DrainNextOrder, Zenon
<1>7. HeldInv' /\ remaining' \in [Parts -> Nat] /\ pending' \in Nat
  <2>1. l \in Holders(merging[l])
    BY <1>3 DEF Holders
  <2>2. ASSUME NEW p \in Parts
        PROVE  Holders(p)' = IF p \in {merging[l]} THEN Holders(p) \ {l} ELSE Holders(p)
    <3>1. ASSUME NEW k \in AllLanes, k # l
          PROVE  k \in Holders(p)' <=> k \in Holders(p)
      BY <1>4, <1>6, <3>1, Zenon DEF Holders
    <3>2. l \in Holders(p)' <=> l \in Holders(p) /\ p # merging[l]
      <4>1. p \in Nat
        BY DEF Parts
      <4> QED BY <1>3, <1>5, <1>6, <4>1 DEF Holders
    <3>3. Holders(p)' \subseteq AllLanes /\ Holders(p) \subseteq AllLanes
      BY DEF Holders
    <3> QED BY <3>1, <3>2, <3>3, SMTT(60)
  <2>3. remaining \in [Parts -> Nat] /\ pending \in Nat /\ {merging[l]} \in SUBSET Parts
    BY <1>3, Zenon DEF LanesTypeOK
  <2>4. \A p \in {merging[l]} : l \in Holders(p)
    BY <2>1
  <2>5. \E ends \in BOOLEAN : Done({merging[l]}, ends)
    <3>1. (queue[l] = <<>>) \in BOOLEAN
      OBVIOUS
    <3> QED BY <1>1, <3>1, Zenon
  <2> QED BY <2>2, <2>3, <2>4, <2>5, DoneHeld, SMTT(60)
<1>8. LanesTypeOK'
  <2>1. awake' \in BOOLEAN
    BY <1>1, Zenon DEF Done
  <2> QED BY <1>2, <1>4, <1>6, <1>7, <2>1, Zenon DEF LanesTypeOK
<1>9. FailureInv'
  <2>1. Lanes' = Lanes /\ Bad' = Bad
    BY <1>2 DEF Lanes, Bad
  <2>2. \A f \in refused : f[2] \in AllLanes
    BY DEF LanesTypeOK, Failures
  <2>3. \A i \in 0 .. Len(merged'[l]) - 1 : mergeable[<<i, l>>]
    <3>1. \A i \in 0 .. Len(merged[l]) - 1 : mergeable[<<i, l>>]
      BY Zenon DEF FailureInv
    <3>2. mergeable[<<Len(merged[l]), l>>]
      BY <1>1, <1>3, Zenon
    <3>3. \A i \in 0 .. Len(merged'[l]) - 1 : i = Len(merged[l]) \/ i \in 0 .. Len(merged[l]) - 1
      BY <1>3, <1>5
    <3> QED BY <3>1, <3>2, <3>3, Zenon
  <2> QED BY <1>2, <1>4, <1>6, <2>1, <2>2, <2>3, Zenon DEF FailureInv
<1>10. PlaceInv'
  BY <1>1, <1>2, TaskPlace, Zenon
<1> QED BY <1>6, <1>7, <1>8, <1>9, <1>10, SMTT(60)

\* What FailureInv says of one lane.
LEMMA LaneFailure ==
  ASSUME IndInv, NEW k \in AllLanes
  PROVE  /\ k \in Nat /\ added \in Nat
         /\ Top(k) \in Nat /\ Top(k) <= added
         /\ k \notin Lanes => Top(k) = 0
         /\ k \in Lanes /\ Top(k) < added => failure # NoFailure /\ NotAfter(failure, <<Top(k), k>>)
         /\ failed[k] => failure # NoFailure
         /\ \A i \in 0 .. Len(merged[k]) - 1 : mergeable[<<i, k>>]
<1>1. k \in Nat /\ added \in Nat
  BY LanesAssumption DEF IndInv, LanesTypeOK, AllLanes
<1>2. Top(k) \in Nat
  BY LaneRange, Zenon DEF IndInv
<1> QED BY <1>1, <1>2, Zenon DEF IndInv, FailureInv

\* The order in which failures win is transitive.
LEMMA NotAfterTransitive ==
  ASSUME NEW f \in Failures, NEW g \in Failures, NEW h, h \in Nat \X Nat,
         NotAfter(f, g), NotAfter(g, h)
  PROVE  NotAfter(f, h)
<1>1. f[1] \in Nat /\ f[2] \in Nat /\ g[1] \in Nat /\ g[2] \in Nat
      /\ f = <<f[1], f[2]>> /\ g = <<g[1], g[2]>>
  BY LanesAssumption DEF Failures, Parts, AllLanes
<1>2. h[1] \in Nat /\ h[2] \in Nat /\ h = <<h[1], h[2]>>
  OBVIOUS
<1> QED BY <1>1, <1>2 DEF NotAfter, Before

\* A lane's merge of a part fails: the failure is kept if none is before it, and the lane
\* drops the parts behind it.
LEMMA DrainFailedInd ==
  ASSUME IndInv, NEW l \in AllLanes, DrainFailed(l)
  PROVE  IndInv'
<1> LanesTypeOK /\ OrderInv /\ FailureInv /\ HeldInv /\ PlaceInv
  BY DEF IndInv
<1> DEFINE D == {merging[l]} \cup {queue[l][i] : i \in DOMAIN queue[l]}
           f == <<merging[l], l>>
<1>1. /\ task[l] = "running" /\ DrainNext(l, <<>>) /\ ~mergeable[f] /\ Done(D, TRUE)
      /\ failed' = [failed EXCEPT ![l] = TRUE] /\ Fail({f})
  BY Zenon DEF DrainFailed
<1>2. UNCHANGED <<executor, numLanes, mergeable, pc, added, refused, merged>>
  BY DEF DrainFailed
<1>3. /\ merging[l] \in Parts /\ merging[l] = Len(merged[l]) /\ merging[l] < Top(l)
      /\ Len(merged[l]) \in Nat /\ Top(l) \in Nat /\ f \in Failures
  BY <1>1, LaneRange, Zenon DEF Failures
<1>4. /\ OrderInv'
      /\ Top(l)' = Len(merged[l])
      /\ \A k \in AllLanes \ {l} : Top(k)' = Top(k)
      /\ queue' \in [AllLanes -> Seq(Parts)]
      /\ task' \in [AllLanes -> {"none", "queued", "running"}]
      /\ merging' \in [AllLanes -> Parts \cup {NoPart}]
  BY <1>1, <1>2, DrainDropOrder, Zenon
<1>5. HeldInv' /\ remaining' \in [Parts -> Nat] /\ pending' \in Nat
  <2>1. \A p \in Parts : p \in D <=> l \in Holders(p)
    BY LaneRange DEF Holders
  <2>2. D \in SUBSET Parts
    BY <1>3, SMTT(60) DEF LanesTypeOK
  <2>3. ASSUME NEW p \in Parts
        PROVE  Holders(p)' = IF p \in D THEN Holders(p) \ {l} ELSE Holders(p)
    <3>1. ASSUME NEW k \in AllLanes, k # l
          PROVE  k \in Holders(p)' <=> k \in Holders(p)
      BY <1>2, <1>4, <3>1, Zenon DEF Holders
    <3>2. l \notin Holders(p)'
      <4>1. p \in Nat
        BY DEF Parts
      <4> QED BY <1>2, <1>3, <1>4, <4>1, SMTT(60) DEF Holders
    <3>3. Holders(p)' \subseteq AllLanes /\ Holders(p) \subseteq AllLanes
      BY DEF Holders
    <3>4. p \in D <=> l \in Holders(p)
      BY <2>1
    <3> HIDE DEF D
    <3> QED BY <3>1, <3>2, <3>3, <3>4
  <2>4. remaining \in [Parts -> Nat] /\ pending \in Nat
    BY DEF LanesTypeOK
  <2>5. \E ends \in BOOLEAN : Done(D, ends)
    BY <1>1, Zenon
  <2> HIDE DEF D
  <2>6. \A p \in D : l \in Holders(p)
    BY <2>1, <2>2, Zenon
  <2> QED BY <2>2, <2>3, <2>4, <2>5, <2>6, DoneHeld
<1>6. /\ failure' \in Failures /\ failure' \in Failures \cup {NoFailure} /\ failure' # NoFailure
      /\ failure' = failure \/ failure' = f
      /\ failure # NoFailure => NotAfter(failure', failure)
      /\ NotAfter(failure', f)
  <2>1. {f} \subseteq Failures /\ failure \in Failures \cup {NoFailure}
    BY <1>3, Zenon DEF LanesTypeOK
  <2>2. Fail({f})
    BY <1>1, Zenon
  <2> HIDE DEF f
  <2> QED BY <2>1, <2>2, FailKeepsFirst, Zenon
<1>7. LanesTypeOK'
  <2>1. awake' \in BOOLEAN
    BY <1>1, Zenon DEF Done
  <2>2. failed' \in [AllLanes -> BOOLEAN]
    BY <1>1, Zenon DEF LanesTypeOK
  <2> QED BY <1>2, <1>4, <1>5, <1>6, <2>1, <2>2, SMTT(60) DEF LanesTypeOK
<1>8. Lanes' = Lanes /\ Bad' = Bad
  BY <1>2 DEF Lanes, Bad
<1>9. ASSUME NEW k \in AllLanes
      PROVE  /\ Top(k)' <= Top(k)
             /\ k \in Lanes /\ Top(k)' < added => NotAfter(failure', <<Top(k)', k>>)
  <2>1. CASE k = l
    BY <1>3, <1>4, <1>6, <2>1, SMTT(60)
  <2>2. CASE k # l
    <3>1. Top(k)' = Top(k) /\ Top(k) \in Nat /\ k \in Nat
      BY <1>4, <2>2, LaneFailure, ZenonT(60)
    <3>2. CASE k \in Lanes /\ Top(k) < added
      <4>1. failure # NoFailure /\ NotAfter(failure, <<Top(k), k>>) /\ failure \in Failures
        BY <3>2, LaneFailure, Zenon DEF LanesTypeOK
      <4>2. <<Top(k), k>> \in Nat \X Nat
        BY <3>1, Zenon
      <4> QED BY <1>6, <3>1, <4>1, <4>2, NotAfterTransitive, SMTT(60)
    <3> QED BY <3>1, <3>2
  <2> QED BY <2>1, <2>2, Zenon
<1>10. FailureInv'
  <2>1. ASSUME NEW k \in AllLanes
        PROVE  (/\ Top(k) <= added
                /\ k \notin Lanes => Top(k) = 0
                /\ k \in Lanes /\ Top(k) < added => failure # NoFailure /\ NotAfter(failure, <<Top(k), k>>)
                /\ failed[k] => failure # NoFailure
                /\ \A i \in 0 .. Len(merged[k]) - 1 : mergeable[<<i, k>>])'
    <3>1. Top(k)' <= Top(k) /\ Top(k)' \in Nat /\ Top(k) \in Nat /\ Top(k) <= added /\ added \in Nat
      <4>1. Top(k)' \in Nat
        BY <1>3, <1>4, LaneFailure, Zenon
      <4> QED BY <1>9, <4>1, LaneFailure, Zenon
    <3>2. Top(k)' <= added /\ (Top(k) = 0 => Top(k)' = 0)
      BY <3>1
    <3> QED BY <1>2, <1>6, <1>8, <1>9, <3>2, LaneFailure, ZenonT(60)
  <2>2. \A g \in refused : Top(g[2])' <= g[1] /\ g[1] < added /\ g[2] < numLanes
    <3>1. ASSUME NEW g \in refused
          PROVE  Top(g[2])' <= g[1] /\ g[1] < added /\ g[2] < numLanes
      <4>1. g[2] \in AllLanes /\ g[1] \in Nat
        BY LanesAssumption DEF LanesTypeOK, Failures, Parts
      <4>2. Top(g[2])' <= Top(g[2]) /\ Top(g[2])' \in Nat /\ Top(g[2]) \in Nat
        BY <4>1, <1>3, <1>4, <1>9, LaneFailure, ZenonT(60)
      <4> QED BY <4>1, <4>2 DEF FailureInv
    <3> QED BY <3>1
  <2>3. failure' \in Bad
    <3>1. CASE failure' = f
      <4>1. merging[l] < added
        <5>1. Top(l) <= added /\ added \in Nat /\ Len(merged[l]) \in Nat
          BY <1>3, LaneFailure, Zenon
        <5> QED BY <1>3, <5>1
      <4>2. l < numLanes
        <5>1. l \in Lanes
          <6>1. l \notin Lanes => Top(l) = 0
            BY LaneFailure, Zenon
          <6> QED BY <1>3, <6>1
        <5> QED BY <5>1 DEF Lanes, LanesTypeOK
      <4> QED BY <1>1, <1>3, <3>1, <4>1, <4>2, Zenon DEF Bad
    <3>2. CASE failure' = failure
      BY <1>6, <3>2, Zenon DEF FailureInv
    <3> QED BY <1>6, <3>1, <3>2, Zenon
  <2> QED BY <1>2, <1>8, <2>1, <2>2, <2>3 DEF FailureInv
<1>11. PlaceInv'
  BY <1>1, <1>2, TaskPlace, Zenon
<1> QED BY <1>4, <1>5, <1>7, <1>10, <1>11, SMTT(60) DEF IndInv

-----------------------------------------------------------------------------
(* Add.                                                                     *)

\* As long as there is no failure every lane was given every part added.
LEMMA NoFailureYet ==
  ASSUME IndInv, failure = NoFailure
  PROVE  /\ refused = {}
         /\ \A k \in Lanes : k \in AllLanes /\ Top(k) = added
         /\ \A k \in AllLanes : ~failed[k]
<1>1. \A k \in Lanes : k \in AllLanes /\ k < numLanes
  BY LanesAssumption DEF IndInv, LanesTypeOK, Lanes, AllLanes
<1>2. ASSUME NEW k \in Lanes
      PROVE  Top(k) = added
  <2>1. k \in AllLanes
    BY <1>1
  <2>2. Top(k) \in Nat /\ added \in Nat /\ Top(k) <= added /\ ~(Top(k) < added)
    BY <2>1, LaneFailure, Zenon
  <2> QED BY <2>2
<1>3. \A k \in AllLanes : ~failed[k]
  BY LaneFailure, Zenon
<1>4. ASSUME NEW f \in refused
      PROVE  FALSE
  <2>1. f[2] \in Lanes /\ f[1] \in Nat /\ added \in Nat
    BY LanesAssumption DEF IndInv, LanesTypeOK, FailureInv, Failures, Parts, AllLanes, Lanes
  <2>2. Top(f[2]) <= f[1] /\ f[1] < added
    BY DEF IndInv, FailureInv
  <2>3. Top(f[2]) = added
    BY <1>2, <2>1
  <2> QED BY <2>1, <2>2, <2>3, SMTT(60)
<1> QED BY <1>1, <1>2, <1>3, <1>4, SMTT(60)

\* Add() finds no memory for a lane's queue: the part and the lanes that did not get it fail.
LEMMA AddNoMemoryInd ==
  ASSUME IndInv, AddNoMemory
  PROVE  IndInv'
<1> LanesTypeOK /\ OrderInv /\ FailureInv /\ HeldInv /\ PlaceInv
  BY DEF IndInv
<1> DEFINE f == <<added, 0>>
<1>1. /\ pc = "add" /\ failure = NoFailure /\ Lanes # {} /\ refused' = refused \cup {f}
      /\ Fail({f}) /\ added' = added + 1 /\ pc' = "finish"
  BY DEF AddNoMemory
<1>2. UNCHANGED <<executor, numLanes, mergeable, awake, queue, task, failed, merging, merged, remaining, pending>>
  BY DEF AddNoMemory
<1>3. added \in Parts /\ added \in Nat /\ added < NumParts /\ 0 \in Lanes /\ 0 < numLanes /\ f \in Failures
  <2>1. added \in Nat /\ added < NumParts /\ added \in Parts
    BY <1>1, LanesAssumption DEF PlaceInv, LanesTypeOK, Parts
  <2>2. PICK k : k \in 0 .. numLanes - 1
    BY <1>1 DEF Lanes
  <2>3. numLanes \in 0 .. MaxLanes /\ MaxLanes \in Nat
    BY LanesAssumption DEF LanesTypeOK
  <2>4. 0 \in Lanes /\ 0 < numLanes /\ 0 \in AllLanes
    BY <2>2, <2>3 DEF Lanes, AllLanes
  <2> QED BY <2>1, <2>4, Zenon DEF Failures
<1>4. failure' = f /\ failure' # NoFailure
  <2> HIDE DEF f
  <2>1. {f} \subseteq Failures /\ failure \in Failures \cup {NoFailure}
    BY <1>3, Zenon DEF LanesTypeOK
  <2> QED BY <1>1, <2>1, FailKeepsFirst, Zenon
<1>5. \A k : Base(k)' = Base(k) /\ Top(k)' = Top(k)
  BY <1>2, Zenon DEF Base, Top
<1>6. LanesTypeOK'
  <2>1. added' \in 0 .. NumParts /\ pc' \in Places
    BY <1>1, <1>3, LanesAssumption, SMTT(60) DEF Places
  <2>2. refused' \subseteq Failures /\ failure' \in Failures \cup {NoFailure}
    BY <1>1, <1>3, <1>4, Zenon DEF LanesTypeOK
  <2> QED BY <1>2, <2>1, <2>2, Zenon DEF LanesTypeOK
<1>7. OrderInv'
  BY <1>2, <1>5, Zenon DEF OrderInv, OrderAt
<1>8. HeldInv'
  <2>1. \A p : Holders(p)' = Holders(p)
    BY <1>2, <1>5, Zenon DEF Holders
  <2> QED BY <1>2, <2>1, Zenon DEF HeldInv
<1>9. PlaceInv'
  BY <1>1, <1>2, Zenon DEF PlaceInv, NoLaneRuns
<1>10. FailureInv'
  <2>1. Lanes' = Lanes
    BY <1>2 DEF Lanes
  <2>2. ASSUME NEW k \in AllLanes
        PROVE  (/\ Top(k) <= added
                /\ k \notin Lanes => Top(k) = 0
                /\ k \in Lanes /\ Top(k) < added => failure # NoFailure /\ NotAfter(failure, <<Top(k), k>>)
                /\ failed[k] => failure # NoFailure
                /\ \A i \in 0 .. Len(merged[k]) - 1 : mergeable[<<i, k>>])'
    <3>1. Top(k) \in Nat /\ Top(k) <= added /\ added \in Nat /\ k \in Nat
      BY LaneFailure, Zenon
    <3>2. Top(k)' <= added'
      BY <1>1, <1>5, <3>1
    <3>3. k \in Lanes => NotAfter(failure', <<Top(k)', k>>)
      <4>1. k \in Lanes => Top(k)' = added
        BY <1>1, <1>5, NoFailureYet, Zenon
      <4>2. NotAfter(<<added, 0>>, <<added, k>>)
        BY <3>1 DEF NotAfter, Before
      <4> QED BY <1>4, <4>1, <4>2, Zenon
    <3> QED BY <1>2, <1>4, <1>5, <2>1, <3>2, <3>3, LaneFailure, Zenon
  <2>3. \A g \in refused' : Top(g[2])' <= g[1] /\ g[1] < added' /\ g[2] < numLanes'
    <3>1. refused' = {f} /\ Top(0) = added
      BY <1>1, <1>3, NoFailureYet, Zenon
    <3> QED BY <1>1, <1>2, <1>3, <1>5, <3>1, SMTT(60)
  <2>4. failure' \in Bad'
    BY <1>1, <1>2, <1>3, <1>4 DEF Bad
  <2> QED BY <2>2, <2>3, <2>4, Zenon DEF FailureInv
<1> QED BY <1>6, <1>7, <1>8, <1>9, <1>10, Zenon DEF IndInv

\* Add() without an executor merges the part into the lanes one after another.
LEMMA AddSerialInd ==
  ASSUME IndInv, AddSerial
  PROVE  IndInv'
<1> LanesTypeOK /\ OrderInv /\ FailureInv /\ HeldInv /\ PlaceInv
  BY DEF IndInv
<1> DEFINE bad == {l \in Lanes : ~mergeable[<<added, l>>]}
           good == {l \in Lanes : \A b \in bad : l < b}
           new == {<<added, l>> : l \in bad}
<1>1. /\ pc = "idle" /\ ~executor /\ added < NumParts
      /\ UNCHANGED <<executor, numLanes, mergeable, awake, refused, queue, task, failed, merging, remaining, pending>>
  BY Zenon DEF AddSerial
<1>2. CASE failure # NoFailure
  <2>1. pc' = "finish" /\ UNCHANGED laneVars
    BY <1>1, <1>2, Zenon DEF AddSerial, laneVars
  <2>2. OrderInv' /\ FailureInv' /\ HeldInv'
    BY <2>1, PlaceOnly
  <2>3. LanesTypeOK'
    BY <1>1, <2>1, Zenon DEF LanesTypeOK, laneVars, Places
  <2>4. PlaceInv'
    BY <1>1, <2>1, Zenon DEF PlaceInv, NoLaneRuns
  <2> QED BY <2>2, <2>3, <2>4, Zenon DEF IndInv
<1>3. CASE failure = NoFailure
  <2>1. /\ added' = added + 1 /\ UNCHANGED pc /\ Fail(new)
        /\ merged' = [l \in AllLanes |-> IF l \in good THEN Append(merged[l], added) ELSE merged[l]]
    BY <1>3, Zenon DEF AddSerial
  <2>2. added \in Nat /\ added \in Parts /\ added' \in 0 .. NumParts
    BY <1>1, <2>1, LanesAssumption, SMTT(60) DEF LanesTypeOK, Parts
  <2>3. /\ \A k \in AllLanes : task[k] = "none" /\ task'[k] = "none"
        /\ \A k \in Lanes : k \in AllLanes /\ k \in Nat /\ k < numLanes
    BY <1>1, LanesAssumption DEF PlaceInv, NoLaneRuns, Lanes, AllLanes, LanesTypeOK
  <2>4. merged' \in [AllLanes -> Seq(Parts)]
    <3> HIDE DEF good
    <3> QED BY <2>1, <2>2 DEF LanesTypeOK
  <2>5. new \subseteq Failures
    <3>1. \A l \in bad : <<added, l>> \in Failures
      BY <2>2, <2>3, Zenon DEF Failures
    <3> HIDE DEF bad
    <3> QED BY <3>1
  <2>6. /\ failure' \in Failures \cup {NoFailure}
        /\ failure' = NoFailure \/ failure' \in new
        /\ failure' = NoFailure => new = {}
        /\ \A g \in new : NotAfter(failure', g)
    <3> HIDE DEF new
    <3>1. failure \in Failures \cup {NoFailure}
      BY DEF LanesTypeOK
    <3> QED BY <1>3, <2>1, <2>5, <3>1, FailKeepsFirst, Zenon
  <2>7. LanesTypeOK'
    BY <1>1, <2>1, <2>2, <2>4, <2>6, Zenon DEF LanesTypeOK
  <2>8. ASSUME NEW k \in AllLanes
        PROVE  /\ merged[k] \in Seq(Parts) /\ Top(k) = Len(merged[k]) /\ Top(k)' = Len(merged'[k])
               /\ queue[k] = <<>> /\ merging[k] = NoPart /\ OrderAt(k)
    <3>1. OrderAt(k) /\ merged[k] \in Seq(Parts) /\ merged'[k] \in Seq(Parts)
      BY <2>4, Zenon DEF OrderInv, LanesTypeOK
    <3>2. queue[k] = <<>> /\ merging[k] = NoPart
      BY <2>3, <3>1, Zenon DEF OrderAt
    <3> QED BY <1>1, <3>1, <3>2 DEF Top, Base
  <2>9. ASSUME NEW k \in AllLanes
        PROVE  k \in good => /\ k \in Lanes /\ Len(merged[k]) = added /\ merged'[k] = Append(merged[k], added)
                             /\ Top(k)' = added + 1 /\ mergeable[<<added, k>>]
    <3>1. SUFFICES ASSUME k \in good
                   PROVE  /\ k \in Lanes /\ Len(merged[k]) = added /\ merged'[k] = Append(merged[k], added)
                          /\ Top(k)' = added + 1 /\ mergeable[<<added, k>>]
      BY Zenon
    <3>2. k \in Lanes /\ k \in Nat /\ k \notin bad
      BY <2>3, <3>1
    <3>3. Len(merged[k]) = added /\ merged'[k] = Append(merged[k], added)
      BY <1>3, <2>1, <2>8, <3>1, <3>2, NoFailureYet, Zenon
    <3> QED BY <2>2, <2>8, <3>2, <3>3, SMTT(60)
  <2>10. ASSUME NEW k \in AllLanes
        PROVE  k \notin good => merged'[k] = merged[k] /\ Top(k)' = Top(k)
    <3> HIDE DEF good
    <3> QED BY <2>1, <2>8, Zenon
  <2>11. OrderInv'
    <3>1. ASSUME NEW k \in AllLanes
          PROVE  OrderAt(k)'
      <4>1. \A i \in 1 .. Len(merged'[k]) : merged'[k][i] = i - 1
        <5>1. CASE k \in good
          <6>1. Len(merged[k]) = added /\ merged'[k] = Append(merged[k], added)
            BY <2>9, <5>1, Zenon
          <6>2. merged[k] \in Seq(Parts) /\ \A i \in 1 .. Len(merged[k]) : merged[k][i] = i - 1
            BY <2>8, Zenon DEF OrderAt
          <6>3. Len(merged'[k]) = added + 1 /\ merged'[k][added + 1] = added
            BY <2>2, <6>1, <6>2, SMTT(60)
          <6>4. \A i \in 1 .. added : merged'[k][i] = i - 1
            BY <2>2, <6>1, <6>2
          <6>5. \A i \in 1 .. added + 1 : i \in 1 .. added \/ i = added + 1
            BY <2>2
          <6> QED BY <2>2, <6>3, <6>4, <6>5
        <5>2. CASE k \notin good
          <6> HIDE DEF good
          <6> QED BY <2>8, <2>10, <5>2 DEF OrderAt
        <5> QED BY <5>1, <5>2, Zenon
      <4> QED BY <1>1, <2>3, <2>8, <4>1, SMTT(60) DEF OrderAt
    <3> QED BY <3>1 DEF OrderInv
  <2>12. HeldInv'
    <3>1. ASSUME NEW p \in Parts
          PROVE  Holders(p)' = {} /\ Holders(p) = {}
      BY <2>4, <2>8, SMTT(60) DEF Holders, Parts
    <3>2. \A p \in Parts : Holders(p)' = Holders(p)
      BY <3>1
    <3> QED BY <1>1, <3>2, Zenon DEF HeldInv
  <2>13. PlaceInv'
    BY <1>1, <2>1, Zenon DEF PlaceInv, NoLaneRuns
  <2>14. FailureInv'
    <3>1. Lanes' = Lanes
      BY <1>1, Zenon DEF Lanes
    <3>2. ASSUME NEW k \in AllLanes
          PROVE  (/\ Top(k) <= added
                  /\ k \notin Lanes => Top(k) = 0
                  /\ k \in Lanes /\ Top(k) < added => failure # NoFailure /\ NotAfter(failure, <<Top(k), k>>)
                  /\ failed[k] => failure # NoFailure
                  /\ \A i \in 0 .. Len(merged[k]) - 1 : mergeable[<<i, k>>])'
      <4>1. /\ Top(k) \in Nat /\ Top(k) <= added /\ (k \notin Lanes => Top(k) = 0) /\ ~failed[k]
            /\ \A i \in 0 .. Len(merged[k]) - 1 : mergeable[<<i, k>>]
        BY <1>3, LaneFailure, Zenon
      <4>2. CASE k \in good
        <5> HIDE DEF good
        <5>1. k \in Lanes /\ Top(k)' = added' /\ ~(Top(k)' < added')
          <6>1. k \in Lanes /\ Top(k)' = added + 1
            BY <2>9, <4>2, Zenon
          <6> QED BY <2>1, <2>2, <6>1
        <5>2. \A i \in 0 .. Len(merged'[k]) - 1 : i = added \/ i \in 0 .. Len(merged[k]) - 1
          <6>1. Len(merged[k]) = added /\ Len(merged'[k]) = added + 1
            BY <2>8, <2>9, <4>2, Zenon
          <6> QED BY <2>2, <6>1
        <5>3. \A i \in 0 .. Len(merged'[k]) - 1 : mergeable[<<i, k>>]
          BY <2>9, <4>1, <4>2, <5>2, Zenon
        <5>4. Top(k)' <= added'
          BY <2>1, <2>2, <5>1
        <5>5. failed'[k] = failed[k]
          BY <1>1, Zenon
        <5> QED BY <3>1, <4>1, <5>1, <5>3, <5>4, <5>5, <1>1, Zenon
      <4>3. CASE k \notin good
        <5>1. Top(k)' <= added'
          BY <2>1, <2>2, <2>10, <4>1, <4>3, SMTT(60)
        <5>2. k \in Lanes => failure' # NoFailure /\ NotAfter(failure', <<Top(k)', k>>)
          <6>1. SUFFICES ASSUME k \in Lanes
                         PROVE  failure' # NoFailure /\ NotAfter(failure', <<Top(k)', k>>)
            OBVIOUS
          <6>2. PICK b \in bad : ~(k < b)
            BY <4>3, <6>1, Zenon
          <6>3. <<added, b>> \in new /\ <<added, b>> \in Failures /\ b \in Nat /\ k \in Nat
            BY <2>3, <2>5, <6>1, Zenon
          <6>4. NotAfter(<<added, b>>, <<added, k>>)
            BY <6>2, <6>3, SMTT(60) DEF NotAfter, Before
          <6>5. failure' \in Failures /\ failure' # NoFailure /\ NotAfter(failure', <<added, b>>)
            <7> HIDE DEF new
            <7> QED BY <2>5, <2>6, <6>3, Zenon
          <6>6. Top(k)' = added
            BY <1>3, <2>10, <4>3, <6>1, NoFailureYet, Zenon
          <6>7. <<added, k>> \in Nat \X Nat
            BY <2>2, <6>3, Zenon
          <6> QED BY <6>3, <6>4, <6>5, <6>6, <6>7, NotAfterTransitive, Zenon
        <5> QED BY <1>1, <2>10, <3>1, <4>1, <4>3, <5>1, <5>2, ZenonT(60)
      <4> QED BY <4>2, <4>3, Zenon
    <3>3. refused' = {}
      BY <1>1, <1>3, NoFailureYet, Zenon
    <3>4. failure' # NoFailure => failure' \in Bad'
      <4>1. ASSUME NEW l \in bad
            PROVE  <<added, l>> \in Bad'
        BY <1>1, <2>1, <2>2, <2>3 DEF Bad, Failures
      <4> QED BY <2>6, <4>1, Zenon
    <3> QED BY <3>2, <3>3, <3>4, Zenon DEF FailureInv
  <2> QED BY <2>7, <2>11, <2>12, <2>13, <2>14, Zenon DEF IndInv
<1> QED BY <1>2, <1>3

\* One more part is held, by the lanes that took it.
LEMMA QueuedHeld ==
  ASSUME HeldInv, remaining \in [Parts -> Nat], pending \in Nat, pending < MaxPending,
         NEW p \in Parts, Holders(p) = {},
         \A q \in Parts \ {p} : Holders(q)' = Holders(q),
         remaining' = [remaining EXCEPT ![p] = Cardinality(Holders(p)')],
         pending' = IF Holders(p)' = {} THEN pending ELSE pending + 1
  PROVE  HeldInv' /\ remaining' \in [Parts -> Nat] /\ pending' \in Nat
<1> DEFINE held == {q \in Parts : remaining[q] > 0}
           takers == Holders(p)'
<1>1. IsFiniteSet(takers) /\ Cardinality(takers) \in Nat
  <2>1. IsFiniteSet(AllLanes) /\ takers \in SUBSET AllLanes
    BY LanesAssumption, FS_Interval, SMTT(60) DEF AllLanes, Holders
  <2> QED BY <2>1, FS_Subset, FS_CardinalityType, Zenon
<1>2. remaining' \in [Parts -> Nat] /\ remaining'[p] = Cardinality(takers)
      /\ \A q \in Parts \ {p} : remaining'[q] = remaining[q]
  BY <1>1
<1>3. \A q \in Parts : remaining'[q] = Cardinality(Holders(q)')
  BY <1>2, Zenon DEF HeldInv
<1>4. remaining[p] = 0
  BY FS_EmptySet, Zenon DEF HeldInv
<1>5. p \notin held /\ held \in SUBSET Parts
  BY <1>4
<1>6. IsFiniteSet(held) /\ Cardinality(held) = pending /\ pending <= MaxPending
  BY <1>5, FiniteParts, Zenon DEF HeldInv
<1>7. CASE takers = {}
  <2>1. remaining'[p] = 0
    BY <1>2, <1>7, FS_EmptySet, Zenon
  <2>2. {q \in Parts : remaining'[q] > 0} = held
    BY <1>2, <1>4, <2>1, Zenon
  <2>3. pending' = pending
    BY <1>7
  <2> QED BY <1>2, <1>3, <1>6, <2>2, <2>3, Zenon DEF HeldInv
<1>8. CASE takers # {}
  <2>1. remaining'[p] # 0
    BY <1>1, <1>2, <1>8, FS_EmptySet, ZenonT(60)
  <2>2. {q \in Parts : remaining'[q] > 0} = held \cup {p}
    <3>1. remaining'[p] > 0
      BY <1>1, <1>2, <2>1
    <3> QED BY <1>2, <3>1, Zenon
  <2>3. Cardinality(held \cup {p}) = Cardinality(held) + 1
    <3> HIDE DEF held
    <3> QED BY <1>5, <1>6, FS_AddElement, Zenon
  <2>4. pending' = pending + 1 /\ pending' \in Nat /\ pending' <= MaxPending
    BY <1>8, LanesAssumption
  <2>5. pending' = Cardinality({q \in Parts : remaining'[q] > 0})
    BY <1>6, <2>2, <2>3, <2>4, Zenon
  <2> QED BY <1>2, <1>3, <2>4, <2>5, Zenon DEF HeldInv
<1> QED BY <1>7, <1>8, Zenon

\* Add() queues the part in every lane, and starts the tasks of the lanes that have none.
LEMMA AddQueuesInd ==
  ASSUME IndInv, AddQueues
  PROVE  IndInv'
<1> LanesTypeOK /\ OrderInv /\ FailureInv /\ HeldInv /\ PlaceInv
  BY DEF IndInv
<1>1. /\ pc = "add" /\ failure = NoFailure /\ added' = added + 1
      /\ UNCHANGED <<executor, numLanes, mergeable, awake, merging, merged>>
  BY Zenon DEF AddQueues
<1>2. PICK refuse \in SUBSET Lanes :
        /\ refused' = refused \cup {<<added, l>> : l \in refuse}
        /\ failed' = [l \in AllLanes |-> failed[l] \/ l \in refuse]
        /\ Fail({<<added, l>> : l \in refuse})
        /\ queue' = [l \in AllLanes |-> IF l \in Takers(refuse) THEN Append(queue[l], added) ELSE queue[l]]
        /\ task' = [l \in AllLanes |-> IF l \in Takers(refuse) /\ task[l] = "none" THEN "queued" ELSE task[l]]
        /\ remaining' = [remaining EXCEPT ![added] = Cardinality(Takers(refuse))]
        /\ pending' = IF Takers(refuse) = {} THEN pending ELSE pending + 1
        /\ pc' = IF refuse = {} THEN "idle" ELSE "finish"
  BY Zenon DEF AddQueues
<1> DEFINE takers == Takers(refuse)
           new == {<<added, l>> : l \in refuse}
<1>3. added \in Nat /\ added \in Parts /\ added' \in 0 .. NumParts
  BY <1>1, LanesAssumption DEF PlaceInv, LanesTypeOK, Parts
<1>4. \A k \in Lanes : k \in AllLanes /\ k \in Nat /\ k < numLanes
  BY LanesAssumption DEF Lanes, AllLanes, LanesTypeOK
<1>5. takers = Lanes \ refuse
  BY <1>1, <1>4, NoFailureYet, Zenon DEF Takers
<1>6. pending < MaxPending
  <2>1. PICK pressure \in BOOLEAN : AddMayGo(pressure)
    BY Zenon DEF AddQueues
  <2>2. pending < (IF pressure THEN 1 ELSE MaxPending)
    BY <1>1, <2>1, Zenon DEF AddMayGo
  <2> QED BY <2>2, LanesAssumption DEF LanesTypeOK
<1> HIDE DEF takers
<1>7. new \subseteq Failures /\ \A l \in refuse : <<added, l>> \in new
  BY <1>3, <1>4 DEF Failures
<1>8. /\ failure' \in Failures \cup {NoFailure}
      /\ failure' = NoFailure \/ failure' \in new
      /\ failure' = NoFailure => new = {}
      /\ \A g \in new : NotAfter(failure', g)
  <2>1. failure \in Failures \cup {NoFailure} /\ Fail(new)
    BY <1>2, Zenon DEF LanesTypeOK
  <2> HIDE DEF new
  <2> QED BY <1>1, <1>7, <2>1, FailKeepsFirst, Zenon
<1>9. ASSUME NEW k \in AllLanes
      PROVE  /\ k \in takers => /\ queue'[k] = Append(queue[k], added)
                                /\ task'[k] = IF task[k] = "none" THEN "queued" ELSE task[k]
             /\ k \notin takers => queue'[k] = queue[k] /\ task'[k] = task[k]
             /\ failed'[k] = (failed[k] \/ k \in refuse)
             /\ queue[k] \in Seq(Parts) /\ Top(k) \in Nat /\ Base(k) \in Nat
             /\ Base(k)' = Base(k)
  <2>1. Base(k)' = Base(k)
    BY <1>1, Zenon DEF Base
  <2>2. queue[k] \in Seq(Parts) /\ Base(k) \in Nat
    BY DEF LanesTypeOK, Base
  <2> QED BY <1>2, <2>1, <2>2, LaneFailure, Zenon DEF takers
<1>10. ASSUME NEW k \in AllLanes
       PROVE  /\ k \in takers => Top(k)' = added + 1 /\ Top(k) = added /\ Len(queue'[k]) = Len(queue[k]) + 1
              /\ k \notin takers => Top(k)' = Top(k)
  <2>1. k \in takers => Top(k) = added
    BY <1>1, <1>5, NoFailureYet, Zenon
  <2>2. k \in takers => Len(queue'[k]) = Len(queue[k]) + 1
    BY <1>3, <1>9, SMTT(60)
  <2>3. Top(k)' = Base(k) + Len(queue'[k]) /\ Top(k) = Base(k) + Len(queue[k])
    BY <1>9, Zenon DEF Top
  <2>4. Len(queue[k]) \in Nat
    BY <1>9
  <2>5. k \in takers => Top(k)' = Top(k) + 1
    <3>1. SUFFICES ASSUME k \in takers PROVE Top(k)' = Top(k) + 1
      OBVIOUS
    <3>2. Len(queue'[k]) = Len(queue[k]) + 1 /\ Base(k) \in Nat
      BY <1>9, <2>2, <3>1, Zenon
    <3>3. \A a, b \in Nat : a + (b + 1) = (a + b) + 1
      OBVIOUS
    <3> QED BY <2>3, <2>4, <3>2, <3>3, Zenon
  <2>6. k \notin takers => Top(k)' = Top(k)
    BY <1>9, <2>3, Zenon
  <2> QED BY <2>1, <2>2, <2>5, <2>6, Zenon
<1>11. OrderInv'
  <2>1. ASSUME NEW k \in AllLanes, k \in takers
        PROVE  OrderAt(k)'
    <3>1. OrderAt(k) /\ Len(queue[k]) \in Nat
      BY <1>9 DEF OrderInv
    <3>2. added = Base(k) + Len(queue[k])
      BY <1>10, <2>1, Zenon DEF Top
    <3>3. ASSUME NEW i \in 1 .. Len(queue[k]) + 1
          PROVE  queue'[k][i] = Base(k)' + i - 1
      <4>1. CASE i = Len(queue[k]) + 1
        <5>1. queue'[k][i] = added
          BY <1>3, <1>9, <2>1, <4>1, SMTT(60)
        <5> QED BY <1>9, <3>1, <3>2, <4>1, <5>1, SMTT(60)
      <4>2. CASE i \in 1 .. Len(queue[k])
        <5>1. queue'[k][i] = queue[k][i]
          BY <1>3, <1>9, <2>1, <4>2, SMTT(60)
        <5>2. queue[k][i] = Base(k) + i - 1
          BY <3>1, <4>2, Zenon DEF OrderAt
        <5> QED BY <1>9, <5>1, <5>2, SMTT(60)
      <4>3. i = Len(queue[k]) + 1 \/ i \in 1 .. Len(queue[k])
        BY <3>1
      <4> QED BY <4>1, <4>2, <4>3, SMTT(60)
    <3>4. \A i \in 1 .. Len(queue'[k]) : queue'[k][i] = Base(k)' + i - 1
      BY <1>10, <2>1, <3>3, SMTT(60)
    <3>5. task'[k] = (IF task[k] = "none" THEN "queued" ELSE task[k])
      BY <1>9, <2>1, SMTT(60)
    <3> QED BY <1>1, <3>1, <3>4, <3>5, SMTT(60) DEF OrderAt
  <2>2. ASSUME NEW k \in AllLanes, k \notin takers
        PROVE  OrderAt(k)'
    <3>1. OrderAt(k)
      BY DEF OrderInv
    <3>2. queue'[k] = queue[k] /\ task'[k] = task[k] /\ Base(k)' = Base(k)
      BY <1>9, <2>2, Zenon
    <3> QED BY <1>1, <3>1, <3>2, SMTT(60) DEF OrderAt
  <2> QED BY <2>1, <2>2, Zenon DEF OrderInv
<1>12. HeldInv' /\ remaining' \in [Parts -> Nat] /\ pending' \in Nat
  <2>0. PICK p \in Parts : p = added
    BY <1>3
  <2>1. Holders(p) = {}
    <3>1. \A k \in AllLanes : Top(k) \in Nat /\ Top(k) <= added
      BY LaneFailure, Zenon
    <3> QED BY <1>3, <2>0, <3>1 DEF Holders
  <2>2. takers = Holders(p)'
    <3>1. ASSUME NEW k \in AllLanes
          PROVE  k \in takers <=> k \in Holders(p)'
      <4>1. Top(k) <= added /\ Top(k) \in Nat /\ Len(merged[k]) \in Nat /\ Len(merged[k]) <= Top(k)
        BY LaneFailure, LaneRange, Zenon
      <4>2. Len(merged'[k]) <= added
        BY <1>1, <1>3, <4>1
      <4>3. k \in Holders(p)' <=> p < Top(k)'
        BY <2>0, <4>2, Zenon DEF Holders
      <4>4. CASE k \in takers
        <5>1. Top(k)' = added + 1
          BY <1>10, <4>4, Zenon
        <5> QED BY <1>3, <2>0, <4>3, <4>4, <5>1, SMTT(60)
      <4>5. CASE k \notin takers
        <5>1. Top(k)' = Top(k)
          BY <1>10, <4>5, Zenon
        <5> QED BY <1>3, <2>0, <4>1, <4>3, <4>5, <5>1, SMTT(60)
      <4> QED BY <4>4, <4>5, Zenon
    <3>2. takers \subseteq AllLanes /\ Holders(p)' \subseteq AllLanes
      BY <1>4, <1>5, Zenon DEF Holders
    <3> QED BY <3>1, <3>2, Zenon
  <2>3. \A q \in Parts \ {p} : Holders(q)' = Holders(q)
    <3>1. ASSUME NEW q \in Parts \ {p}, NEW k \in AllLanes
          PROVE  k \in Holders(q)' <=> k \in Holders(q)
      <4>1. q \in Nat /\ q # added
        BY <2>0 DEF Parts
      <4> QED BY <1>1, <1>3, <1>10, <4>1, SMTT(60) DEF Holders
    <3> QED BY <3>1, Zenon DEF Holders
  <2>4. remaining \in [Parts -> Nat] /\ pending \in Nat
    BY DEF LanesTypeOK
  <2>5. /\ remaining' = [remaining EXCEPT ![p] = Cardinality(Holders(p)')]
        /\ pending' = IF Holders(p)' = {} THEN pending ELSE pending + 1
    BY <1>2, <2>2, <2>0, Zenon DEF takers
  <2> QED BY <1>6, <2>1, <2>2, <2>3, <2>4, <2>5, QueuedHeld, Zenon
<1>13. LanesTypeOK'
  <2>1. queue' \in [AllLanes -> Seq(Parts)]
    BY <1>2, <1>3, SMTT(60) DEF LanesTypeOK
  <2>2. task' \in [AllLanes -> {"none", "queued", "running"}] /\ failed' \in [AllLanes -> BOOLEAN]
    BY <1>2, Zenon DEF LanesTypeOK
  <2>3. pc' \in Places
    BY <1>2, Zenon DEF Places
  <2>4. refused' \subseteq Failures
    BY <1>2, <1>7, Zenon DEF LanesTypeOK
  <2> QED BY <1>1, <1>3, <1>8, <1>12, <2>1, <2>2, <2>3, <2>4, Zenon DEF LanesTypeOK
<1>14. PlaceInv'
  BY <1>1, <1>2, Zenon DEF PlaceInv
<1>15. Lanes' = Lanes
  BY <1>1 DEF Lanes
<1>16. ASSUME NEW k \in AllLanes
       PROVE  (/\ Top(k) <= added
               /\ k \notin Lanes => Top(k) = 0
               /\ k \in Lanes /\ Top(k) < added => failure # NoFailure /\ NotAfter(failure, <<Top(k), k>>)
               /\ failed[k] => failure # NoFailure
               /\ \A i \in 0 .. Len(merged[k]) - 1 : mergeable[<<i, k>>])'
  <2>1. /\ Top(k) \in Nat /\ Top(k) <= added /\ (k \notin Lanes => Top(k) = 0) /\ ~failed[k]
        /\ \A i \in 0 .. Len(merged[k]) - 1 : mergeable[<<i, k>>]
    BY <1>1, LaneFailure, Zenon
  <2>2. k \in refuse => failure' # NoFailure /\ NotAfter(failure', <<added, k>>)
    <3> HIDE DEF new
    <3> QED BY <1>7, <1>8, Zenon
  <2>3. CASE k \in takers
    <3>1. k \in Lanes /\ k \notin refuse /\ Top(k)' = added' /\ ~(Top(k)' < added') /\ Top(k)' <= added'
      BY <1>1, <1>3, <1>5, <1>10, <2>3, SMTT(60)
    <3> QED BY <1>1, <1>9, <1>15, <2>1, <3>1, ZenonT(60)
  <2>4. CASE k \notin takers
    <3>1. Top(k)' = Top(k) /\ Top(k)' <= added'
      BY <1>1, <1>3, <1>10, <2>1, <2>4, SMTT(60)
    <3>2. k \in Lanes => k \in refuse /\ Top(k) = added
      BY <1>1, <1>5, <2>4, NoFailureYet, Zenon
    <3> QED BY <1>1, <1>9, <1>15, <2>1, <2>2, <3>1, <3>2, ZenonT(60)
  <2> QED BY <2>3, <2>4, Zenon
<1>17. FailureInv'
  <2>1. ASSUME NEW g \in refused'
        PROVE  Top(g[2])' <= g[1] /\ g[1] < added' /\ g[2] < numLanes'
    <3>1. PICK l \in refuse : g = <<added, l>>
      BY <1>1, <1>2, NoFailureYet, Zenon
    <3>2. l \in AllLanes /\ l \notin takers /\ l < numLanes /\ Top(l) = added
      BY <1>1, <1>4, <1>5, NoFailureYet, Zenon
    <3>3. Top(l)' = added
      BY <1>10, <3>2, Zenon
    <3>4. g[1] = added /\ g[2] = l
      BY <3>1
    <3> QED BY <1>1, <1>3, <3>2, <3>3, <3>4, SMTT(60)
  <2>2. failure' # NoFailure => failure' \in Bad'
    <3>1. ASSUME NEW l \in refuse
          PROVE  <<added, l>> \in Bad'
      <4>1. <<added, l>> \in refused' /\ <<added, l>> \in Failures
        BY <1>2, <1>7, Zenon
      <4> QED BY <1>1, <1>3, <1>4, <4>1, SMTT(60) DEF Bad
    <3> QED BY <1>8, <3>1, Zenon
  <2> QED BY <1>16, <2>1, <2>2, Zenon DEF FailureInv
<1> QED BY <1>11, <1>12, <1>13, <1>14, <1>17, SMTT(60) DEF IndInv

-----------------------------------------------------------------------------
(* The theorems.                                                            *)

\* Every step of the consumer and of the lanes keeps the invariant.
LEMMA NextInd == IndInv /\ [Next]_vars => IndInv'
<1> SUFFICES ASSUME IndInv, [Next]_vars PROVE IndInv'
  OBVIOUS
<1>1. CASE \E l \in AllLanes : Drain(l)
  BY <1>1, DrainStartInd, DrainMergedInd, DrainFailedInd DEF Drain
<1>2. CASE AddSerial
  BY <1>2, AddSerialInd
<1>3. CASE AddCall \/ AddSleeps \/ AddAfterFailure \/ WaitCall \/ WaitSleeps \/ WaitReturns
  BY <1>3, WaitInd, SMTT(60)
<1>4. CASE AddNoMemory
  BY <1>4, AddNoMemoryInd
<1>5. CASE AddQueues
  BY <1>5, AddQueuesInd
<1>6. CASE UNCHANGED vars
  <2>1. UNCHANGED laneVars /\ UNCHANGED <<pc, awake>>
    BY <1>6 DEF vars, laneVars
  <2>2. OrderInv' /\ FailureInv' /\ HeldInv'
    BY <2>1, PlaceOnly, Zenon
  <2>3. LanesTypeOK' /\ PlaceInv'
    BY <2>1, Zenon DEF IndInv, LanesTypeOK, PlaceInv, NoLaneRuns, laneVars
  <2> QED BY <2>2, <2>3, Zenon DEF IndInv
<1> QED BY <1>1, <1>2, <1>3, <1>4, <1>5, <1>6, SMTT(60) DEF Next, CallStep

\* The invariant says what the properties say.
LEMMA IndImplies == IndInv => LaneOrder /\ FailureIsFirst /\ HeldWhileNeeded
<1> SUFFICES ASSUME IndInv PROVE LaneOrder /\ FailureIsFirst /\ HeldWhileNeeded
  OBVIOUS
<1> LanesTypeOK /\ OrderInv /\ FailureInv /\ HeldInv /\ PlaceInv
  BY Zenon DEF IndInv
<1>1. LaneOrder
  <2>1. ASSUME NEW l \in AllLanes
        PROVE  LET current == IF merging[l] = NoPart THEN <<>> ELSE <<merging[l]>>
                   seen == merged[l] \o current \o queue[l]
               IN \A i \in DOMAIN seen : seen[i] = i - 1
    <3>1. OrderAt(l) /\ merged[l] \in Seq(Parts) /\ queue[l] \in Seq(Parts) /\ merging[l] \in Parts \cup {NoPart}
      BY DEF OrderInv, LanesTypeOK
    <3>2. CASE merging[l] = NoPart
      <4> DEFINE seen == merged[l] \o <<>> \o queue[l]
      <4>1. Base(l) = Len(merged[l])
        BY <3>1, <3>2 DEF Base
      <4>2. seen = merged[l] \o queue[l]
        BY <3>1
      <4>3. ASSUME NEW i \in DOMAIN seen
            PROVE  seen[i] = i - 1
        <5> HIDE DEF seen
        <5>1. CASE i <= Len(merged[l])
          BY <3>1, <4>2, <5>1 DEF OrderAt
        <5>2. CASE i > Len(merged[l])
          <6>1. i - Len(merged[l]) \in 1 .. Len(queue[l]) /\ seen[i] = queue[l][i - Len(merged[l])]
            <7>1. DOMAIN seen = 1 .. Len(merged[l]) + Len(queue[l]) /\ Len(merged[l]) \in Nat /\ Len(queue[l]) \in Nat
              BY <3>1, <4>2
            <7>2. i \in Nat /\ i - Len(merged[l]) \in 1 .. Len(queue[l])
              <8>1. i \in 1 .. Len(merged[l]) + Len(queue[l])
                BY <7>1, Zenon
              <8>2. \A a, b \in Nat : \A c \in 1 .. a + b : c > a => c \in Nat /\ c - a \in 1 .. b
                OBVIOUS
              <8> QED BY <5>2, <7>1, <8>1, <8>2, Zenon
            <7> QED BY <3>1, <4>2, <5>2, <7>1, <7>2
          <6>2. queue[l][i - Len(merged[l])] = Base(l) + (i - Len(merged[l])) - 1
            BY <3>1, <6>1, Zenon DEF OrderAt
          <6> QED BY <3>1, <4>1, <4>2, <6>1, <6>2
        <5> QED BY <3>1, <4>2, <5>1, <5>2
      <4> QED BY <3>2, <4>3, Zenon
    <3>3. CASE merging[l] # NoPart
      <4> DEFINE seen == merged[l] \o <<merging[l]>> \o queue[l]
      <4>1. Base(l) = Len(merged[l]) + 1 /\ merging[l] = Len(merged[l]) /\ <<merging[l]>> \in Seq(Parts)
        BY <3>1, <3>3 DEF Base, OrderAt
      <4>2. ASSUME NEW i \in DOMAIN seen
            PROVE  seen[i] = i - 1
        <5> DEFINE first == merged[l] \o <<merging[l]>>
        <5>1. first \in Seq(Parts) /\ Len(first) = Len(merged[l]) + 1 /\ seen = first \o queue[l]
          BY <3>1, <4>1
        <5>2. ASSUME NEW j \in 1 .. Len(merged[l]) + 1
              PROVE  first[j] = j - 1
          <6>1. CASE j = Len(merged[l]) + 1
            BY <3>1, <4>1, <6>1
          <6>2. CASE j # Len(merged[l]) + 1
            <7>1. j \in 1 .. Len(merged[l]) /\ first[j] = merged[l][j]
              BY <3>1, <4>1, <6>2, SMTT(60)
            <7> QED BY <3>1, <7>1, Zenon DEF OrderAt
          <6> QED BY <6>1, <6>2, Zenon
        <5> HIDE DEF first, seen
        <5>3. CASE i <= Len(first)
          BY <3>1, <5>1, <5>2, <5>3, SMTT(60)
        <5>4. CASE i > Len(first)
          <6>1. i - Len(first) \in 1 .. Len(queue[l]) /\ seen[i] = queue[l][i - Len(first)]
            BY <3>1, <5>1, <5>4, SMTT(60)
          <6>2. queue[l][i - Len(first)] = Base(l) + (i - Len(first)) - 1
            BY <3>1, <6>1, Zenon DEF OrderAt
          <6> QED BY <3>1, <4>1, <5>1, <6>1, <6>2, SMTT(60)
        <5> QED BY <3>1, <5>1, <5>3, <5>4
      <4> QED BY <3>3, <4>2, Zenon
    <3> QED BY <3>2, <3>3, Zenon
  <2> QED BY <2>1, Zenon DEF LaneOrder
<1>2. HeldWhileNeeded
  <2>1. ASSUME NEW p \in Parts
        PROVE  Holders(p) = {l \in AllLanes : \/ merging[l] = p
                                              \/ \E i \in DOMAIN queue[l] : queue[l][i] = p}
    BY LaneRange, Zenon DEF Holders
  <2>2. \A p \in Parts : remaining[p] = Cardinality({l \in AllLanes : \/ merging[l] = p
                                              \/ \E i \in DOMAIN queue[l] : queue[l][i] = p})
    BY <2>1, Zenon DEF HeldInv
  <2> QED BY <2>2, Zenon DEF HeldWhileNeeded, HeldInv, PlaceInv
<1>3. FailureIsFirst
  <2>1. SUFFICES ASSUME pc = "finished"
                 PROVE  IF Bad = {} THEN failure = NoFailure /\ \A l \in Lanes : Len(merged[l]) = added
                        ELSE failure \in Bad /\ \A f \in Bad : f = failure \/ Before(failure, f)
    BY Zenon DEF FailureIsFirst
  <2>2. \A l \in AllLanes : Top(l) = Len(merged[l])
    BY <2>1, LaneRange, Zenon DEF PlaceInv, NoLaneRuns
  <2>3. ASSUME NEW f \in Bad
        PROVE  failure # NoFailure /\ NotAfter(failure, f)
    <3>1. /\ f = <<f[1], f[2]>> /\ f[1] \in Nat /\ f[2] \in Nat /\ f[2] \in AllLanes /\ f[2] \in Lanes /\ f[1] < added
          /\ ~mergeable[f] \/ f \in refused
      BY LanesAssumption DEF Bad, Failures, Parts, AllLanes, Lanes, LanesTypeOK
    <3>2. /\ Top(f[2]) \in Nat /\ Top(f[2]) <= added /\ added \in Nat
          /\ Top(f[2]) < added => failure # NoFailure /\ NotAfter(failure, <<Top(f[2]), f[2]>>)
          /\ \A i \in 0 .. Len(merged[f[2]]) - 1 : mergeable[<<i, f[2]>>]
      BY <3>1, LaneFailure, Zenon
    <3>3. Top(f[2]) <= f[1]
      <4>1. CASE f \in refused
        BY <4>1, Zenon DEF FailureInv
      <4>2. CASE ~mergeable[f]
        BY <2>2, <3>1, <3>2, <4>2
      <4> QED BY <3>1, <4>1, <4>2, Zenon
    <3>4. failure # NoFailure /\ NotAfter(failure, <<Top(f[2]), f[2]>>)
      BY <3>1, <3>2, <3>3, SMTT(60)
    <3>5. failure[1] \in Nat /\ failure[2] \in Nat /\ failure = <<failure[1], failure[2]>>
      BY <3>4, LanesAssumption, SMTT(60) DEF LanesTypeOK, Failures, Parts, AllLanes
    <3> QED BY <3>1, <3>2, <3>3, <3>4, <3>5, SMTT(60) DEF NotAfter, Before
  <2>4. CASE Bad = {}
    <3>1. failure = NoFailure
      BY <2>4, Zenon DEF FailureInv
    <3> QED BY <2>2, <2>4, <3>1, NoFailureYet, Zenon
  <2>5. CASE Bad # {}
    <3>1. failure \in Bad
      BY <2>3, <2>5, Zenon DEF FailureInv
    <3>2. \A f \in Bad : f = failure \/ Before(failure, f)
      BY <2>3, Zenon DEF NotAfter
    <3> QED BY <2>5, <3>1, <3>2, Zenon
  <2> QED BY <2>4, <2>5, Zenon
<1> QED BY <1>1, <1>2, <1>3, SMTT(60)

-----------------------------------------------------------------------------
(* What a caller of the lanes sees of their steps.                          *)

\* A failure once known stays one: Fail() keeps the smallest.
LEMMA FailStays ==
  ASSUME NEW new, new \subseteq Failures, failure \in Failures \cup {NoFailure}, Fail(new),
         failure # NoFailure \/ new # {}
  PROVE  failure' # NoFailure
<1>1. NoFailure \notin Failures
  BY LanesAssumption DEF NoFailure, NoPart, Failures, Parts
<1>2. new \cup {failure} # {} /\ (failure # NoFailure => new \cup {failure} \subseteq Failures)
  OBVIOUS
<1> DEFINE known == IF failure = NoFailure THEN new ELSE new \cup {failure}
<1>3. known # {} /\ known \subseteq Failures
  BY <1>2
<1>4. failure' = CHOOSE f \in known : \A g \in known : f = g \/ Before(f, g)
  BY <1>3, Zenon DEF Fail
<1> HIDE DEF known
<1>5. \E f \in known : \A g \in known : f = g \/ Before(f, g)
  BY <1>3, FirstFailure, Zenon DEF NotAfter
<1>6. failure' \in known
  BY <1>4, <1>5, Zenon
<1> QED BY <1>1, <1>3, <1>6, Zenon

\* A lane's task runs where the caller sees it only through the failure it may leave.
LEMMA DrainSeen ==
  ASSUME IndInv, NEW l \in AllLanes, Drain(l)
  PROVE  /\ task[l] # "none" /\ executor
         /\ UNCHANGED <<executor, numLanes, mergeable, pc, added, refused>>
         /\ failure # NoFailure => failure' # NoFailure
         /\ \A k \in AllLanes \ {l} : task'[k] = task[k]
<1> LanesTypeOK /\ OrderInv /\ PlaceInv
  BY DEF IndInv
<1>1. task[l] # "none" /\ UNCHANGED <<executor, numLanes, mergeable, pc, added, refused>>
  BY Zenon DEF Drain, DrainStart, DrainMerged, DrainFailed
<1>2. executor
  BY <1>1 DEF PlaceInv, NoLaneRuns
<1>3. failure # NoFailure => failure' # NoFailure
  <2>1. CASE UNCHANGED failure
    BY <2>1
  <2>2. CASE DrainFailed(l)
    <3>1. merging[l] \in Parts
      BY <2>2, Zenon DEF DrainFailed, OrderInv, OrderAt, LanesTypeOK
    <3>2. {<<merging[l], l>>} \subseteq Failures
      BY <3>1 DEF Failures
    <3> QED BY <2>2, <3>2, FailStays, Zenon DEF DrainFailed, LanesTypeOK
  <2> QED BY <2>1, <2>2, Zenon DEF Drain, DrainStart, DrainMerged
<1>4. \A k \in AllLanes \ {l} : task'[k] = task[k]
  BY Zenon DEF Drain, DrainStart, DrainMerged, DrainFailed, DrainNext, LanesTypeOK
<1> QED BY <1>1, <1>2, <1>3, <1>4, Zenon

\* A step inside a call: Add() takes one part and returns OK, or leaves a failure and goes on to
\* Finish(), which changes nothing the caller sees.
LEMMA CallSeen ==
  ASSUME IndInv, CallStep
  PROVE  /\ UNCHANGED <<executor, numLanes, mergeable>>
         /\ pc \in {"add", "waitLanes", "finish", "destroy"}
         /\ pc = "add" => /\ pc' \in {"add", "idle", "finish"}
                          /\ pc' = "add" => added' = added
                          /\ pc' = "idle" => added' = added + 1
                          /\ pc' = "finish" => failure' # NoFailure /\ added' \in {added, added + 1}
         /\ pc # "add" => UNCHANGED <<added, refused, task, failure>>
         /\ pc = "finish" => pc' \in {"finish", "finished"}
<1> LanesTypeOK /\ PlaceInv
  BY DEF IndInv
<1>1. failure \in Failures \cup {NoFailure} /\ (pc = "add" => added \in Parts)
  BY LanesAssumption DEF LanesTypeOK, PlaceInv, Parts
<1>2. CASE AddSleeps \/ AddAfterFailure \/ WaitSleeps \/ WaitReturns
  BY <1>2, Zenon DEF AddSleeps, AddAfterFailure, WaitSleeps, WaitReturns
<1>3. CASE AddNoMemory
  <2>1. 0 \in AllLanes
    BY <1>3, LanesAssumption DEF AddNoMemory, Lanes, AllLanes, LanesTypeOK
  <2>2. {<<added, 0>>} \subseteq Failures /\ pc = "add" /\ Fail({<<added, 0>>})
    BY <1>1, <1>3, <2>1 DEF AddNoMemory, Failures
  <2>3. failure' # NoFailure
    BY <1>1, <2>2, FailStays, SMTT(60)
  <2> QED BY <1>3, <2>3, Zenon DEF AddNoMemory
<1>4. CASE AddQueues
  <2>1. PICK refuse \in SUBSET Lanes :
          Fail({<<added, l>> : l \in refuse}) /\ pc' = IF refuse = {} THEN "idle" ELSE "finish"
    BY <1>4, Zenon DEF AddQueues
  <2>2. \A l \in refuse : l \in AllLanes
    BY <2>1, LanesAssumption, SMTT(60) DEF Lanes, AllLanes, LanesTypeOK
  <2>3. {<<added, l>> : l \in refuse} \subseteq Failures
    BY <1>1, <1>4, <2>2 DEF AddQueues, Failures
  <2>4. refuse # {} => failure' # NoFailure
    <3> SUFFICES ASSUME refuse # {} PROVE failure' # NoFailure
      OBVIOUS
    <3>1. {<<added, l>> : l \in refuse} # {}
      BY Zenon
    <3> QED BY <1>1, <2>1, <2>3, <3>1, FailStays
  <2> QED BY <1>4, <2>1, <2>4, Zenon DEF AddQueues
<1> QED BY <1>2, <1>3, <1>4, Zenon DEF CallStep

\* Lanes without a task have merged all they were given: no part is held.
LEMMA IdleHoldsNone ==
  ASSUME IndInv, NoLaneRuns
  PROVE  pending = 0
<1> LanesTypeOK /\ OrderInv /\ HeldInv
  BY DEF IndInv
<1>1. \A l \in AllLanes : Top(l) = Len(merged[l])
  <2> SUFFICES ASSUME NEW l \in AllLanes PROVE Top(l) = Len(merged[l])
    OBVIOUS
  <2>1. merging[l] = NoPart /\ queue[l] = <<>>
    BY DEF OrderInv, OrderAt, NoLaneRuns
  <2>2. merged[l] \in Seq(Parts) /\ Len(merged[l]) \in Nat
    BY DEF LanesTypeOK
  <2> QED BY <2>1, <2>2 DEF Top, Base
<1>2. \A l \in AllLanes : Len(merged[l]) \in Nat
  BY DEF LanesTypeOK
<1>3. \A p \in Parts : Holders(p) = {}
  BY <1>1, <1>2, LanesAssumption DEF Holders, Parts
<1>4. \A p \in Parts : remaining[p] = 0
  BY <1>3, FS_EmptySet, Zenon DEF HeldInv
<1>5. {p \in Parts : remaining[p] > 0} = {}
  BY <1>4
<1> QED BY <1>5, FS_EmptySet, Zenon DEF HeldInv

\* Each lane merges the parts in the order Add() gets them, Finish() returns the smallest
\* (part, lane) that fails, and a part's merge function is held exactly while a lane has yet to
\* run it, whatever the interleaving (PartitionLanes, partition_lanes.h).
THEOREM LanesCorrect == Spec => []LanesInOrder
<1>1. Init => IndInv
  BY InitInd
<1>2. IndInv /\ [Next]_vars => IndInv'
  BY NextInd
<1>3. IndInv => LanesInOrder
  BY IndImplies DEF LanesInOrder
<1> QED BY <1>1, <1>2, <1>3, PTL DEF Spec
=============================================================================
