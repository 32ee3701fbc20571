---------------------------- MODULE MemoryBudget ----------------------------
(***************************************************************************)
(* The memory budget of a query (src/exec/memory_budget.cc): one atomic    *)
(* counter that every thread's buffers and reservations are charged to,    *)
(* against an optional limit, and the peak.  A call is split at its atomic *)
(* operations.                                                             *)
(***************************************************************************)
EXTENDS Integers, FiniteSets, FiniteSetTheorems, TLAPS

CONSTANTS
  Allocators,  \* the threads that allocate
  MaxSize,     \* the largest buffer and the largest reservation of a thread, in bytes
  Limits       \* the limits a query may have: numbers of bytes, or NoLimit

NoLimit == -1

\* Limits for a small instance: none, one of nothing, and an odd one that two
\* buffers of the largest size pass together.
SmallLimits == {NoLimit, 0, 3}

ASSUME BudgetAssumption ==
  /\ IsFiniteSet(Allocators)
  /\ MaxSize \in Nat
  /\ Limits \subseteq Nat \cup {NoLimit}

VARIABLES
  limit,       \* limit_
  used,        \* used_
  peak,        \* peak_
  call,        \* where each thread's call is
  target,      \* what the call grows: the "buffer" or the "reservation"
  amount,      \* the bytes the call has charged and not yet given to its target, or
               \* taken from it and not yet uncharged
  now,         \* Charge's `now`
  seen,        \* Charge's `peak`
  buffer,      \* the bytes of the thread's buffer, as the backend holds them
  reservation, \* MemoryReservation::bytes_
  most         \* history: the most bytes granted at once since the peak was reset

budgetVars == <<limit, used, peak, call, target, amount, now, seen, buffer, reservation, most>>

Sizes == 0 .. MaxSize

\* The bytes that f, one number for each thread, adds up to: each byte is a
\* pair of its thread and its place.
Bytes(f) == Cardinality({b \in Allocators \X (1 .. MaxSize) : b[2] <= f[b[1]]})

Fits(bytes) == limit = NoLimit \/ bytes <= limit

\* The calls whose charge stands: it passed the check against the limit, or
\* will (`now` is already read), or is about to be given back.
Stands(t) == call[t] # "charged" \/ Fits(now[t])

Granted == Bytes(buffer) + Bytes(reservation)
           + Bytes([t \in Allocators |-> IF Stands(t) THEN amount[t] ELSE 0])

BudgetInit ==
  /\ limit \in Limits
  /\ used = 0
  /\ peak = 0
  /\ call = [t \in Allocators |-> "idle"]
  /\ target = [t \in Allocators |-> "none"]
  /\ amount = [t \in Allocators |-> 0]
  /\ now = [t \in Allocators |-> 0]
  /\ seen = [t \in Allocators |-> 0]
  /\ buffer = [t \in Allocators |-> 0]
  /\ reservation = [t \in Allocators |-> 0]
  /\ most = 0

-----------------------------------------------------------------------------

\* A call of t returns: its locals go.
CallReturns(t) ==
  /\ call' = [call EXCEPT ![t] = "idle"]
  /\ target' = [target EXCEPT ![t] = "none"]
  /\ amount' = [amount EXCEPT ![t] = 0]
  /\ now' = [now EXCEPT ![t] = 0]
  /\ seen' = [seen EXCEPT ![t] = 0]

\* used_.fetch_add(bytes).
ChargeCall(t, what, bytes) ==
  /\ call[t] = "idle"
  /\ used' = used + bytes
  /\ call' = [call EXCEPT ![t] = "charged"]
  /\ target' = [target EXCEPT ![t] = what]
  /\ amount' = [amount EXCEPT ![t] = bytes]
  /\ now' = [now EXCEPT ![t] = used + bytes]
  /\ UNCHANGED <<limit, peak, seen, buffer, reservation>>
  /\ most' = IF Granted' > most THEN Granted' ELSE most

\* Allocate(size), or Reallocate to a larger size: the growth is charged first.
AllocateCall(t, size) ==
  /\ size > buffer[t] \/ (size = 0 /\ buffer[t] = 0)
  /\ ChargeCall(t, "buffer", size - buffer[t])

\* Resize(bytes) of a reservation that grows.
ReserveCall(t, bytes) ==
  /\ bytes > reservation[t]
  /\ ChargeCall(t, "reservation", bytes - reservation[t])

\* Mutant: the failed charge is not taken back.
ChargeFailsMutant(t) ==
  /\ call[t] = "charged"
  /\ ~Fits(now[t])
  /\ CallReturns(t)
  /\ UNCHANGED <<limit, used, peak, buffer, reservation, most>>

\* The charge is past the limit: it is taken back and the call fails, the
\* buffer or the reservation as it was.
ChargeFails(t) ==
  /\ call[t] = "charged"
  /\ ~Fits(now[t])
  /\ used' = used - amount[t]
  /\ CallReturns(t)
  /\ UNCHANGED <<limit, peak, buffer, reservation, most>>

\* Mutant: the check is of the bytes used before the charge.
PeakLoadMutant(t) ==
  /\ call[t] = "charged"
  /\ limit = NoLimit \/ used - amount[t] <= limit
  /\ seen' = [seen EXCEPT ![t] = peak]
  /\ call' = [call EXCEPT ![t] = "peak"]
  /\ UNCHANGED <<limit, used, peak, target, amount, now, buffer, reservation, most>>

\* The charge is within the limit; peak_.load().
PeakLoad(t) ==
  /\ call[t] = "charged"
  /\ Fits(now[t])
  /\ seen' = [seen EXCEPT ![t] = peak]
  /\ call' = [call EXCEPT ![t] = "peak"]
  /\ UNCHANGED <<limit, used, peak, target, amount, now, buffer, reservation, most>>

\* Mutant: the peak is stored, whatever it has become.
PeakExchangeMutant(t) ==
  /\ call[t] = "peak"
  /\ peak' = IF now[t] > seen[t] THEN now[t] ELSE peak
  /\ call' = [call EXCEPT ![t] = "granted"]
  /\ UNCHANGED <<limit, used, target, amount, now, seen, buffer, reservation, most>>

\* peak_.compare_exchange_weak: it raises the peak that was read, or reads it
\* again (it may also fail for no reason).
PeakExchange(t) ==
  /\ call[t] = "peak"
  /\ \/ /\ now[t] <= seen[t]
        /\ call' = [call EXCEPT ![t] = "granted"]
        /\ UNCHANGED <<peak, seen>>
     \/ /\ now[t] > seen[t]
        /\ peak = seen[t]
        /\ peak' = now[t]
        /\ call' = [call EXCEPT ![t] = "granted"]
        /\ UNCHANGED seen
     \/ /\ now[t] > seen[t]
        /\ seen' = [seen EXCEPT ![t] = peak]
        /\ UNCHANGED <<peak, call>>
  /\ UNCHANGED <<limit, used, target, amount, now, buffer, reservation, most>>

\* The backend makes or grows the buffer, or the reservation takes the bytes.
Gives(t) ==
  /\ call[t] = "granted"
  /\ IF target[t] = "buffer"
     THEN /\ buffer' = [buffer EXCEPT ![t] = @ + amount[t]]
          /\ UNCHANGED reservation
     ELSE /\ reservation' = [reservation EXCEPT ![t] = @ + amount[t]]
          /\ UNCHANGED buffer
  /\ CallReturns(t)
  /\ UNCHANGED <<limit, used, peak, most>>

\* The backend fails: the charge is taken back.
BackendFails(t) ==
  /\ call[t] = "granted"
  /\ target[t] = "buffer"
  /\ used' = used - amount[t]
  /\ CallReturns(t)
  /\ UNCHANGED <<limit, peak, buffer, reservation, most>>

\* Free, or Reallocate to a smaller size: the backend first.  (A shrink that
\* the backend refuses changes nothing.)
BackendFrees(t, size) ==
  /\ call[t] = "idle"
  /\ size < buffer[t]
  /\ buffer' = [buffer EXCEPT ![t] = size]
  /\ amount' = [amount EXCEPT ![t] = buffer[t] - size]
  /\ call' = [call EXCEPT ![t] = "freed"]
  /\ UNCHANGED <<limit, used, peak, target, now, seen, reservation, most>>

\* Then Uncharge.
Uncharge(t) ==
  /\ call[t] = "freed"
  /\ used' = used - amount[t]
  /\ CallReturns(t)
  /\ UNCHANGED <<limit, peak, buffer, reservation, most>>

\* A reservation that shrinks, or goes with its owner: Release gives the rest
\* back at once.
Release(t, bytes) ==
  /\ call[t] = "idle"
  /\ bytes < reservation[t]
  /\ used' = used - (reservation[t] - bytes)
  /\ reservation' = [reservation EXCEPT ![t] = bytes]
  /\ UNCHANGED <<limit, peak, call, target, amount, now, seen, buffer, most>>

\* Before a query's profile starts, when no task of the last query is left.
ResetPeak ==
  /\ \A t \in Allocators : call[t] = "idle"
  /\ peak' = used
  /\ most' = Granted
  /\ UNCHANGED <<limit, used, call, target, amount, now, seen, buffer, reservation>>

Step(t) ==
  \/ \E size \in Sizes : AllocateCall(t, size)
  \/ \E bytes \in Sizes : ReserveCall(t, bytes)
  \/ ChargeFails(t)
  \/ PeakLoad(t)
  \/ PeakExchange(t)
  \/ Gives(t)
  \/ BackendFails(t)
  \/ \E size \in Sizes : BackendFrees(t, size)
  \/ Uncharge(t)
  \/ \E bytes \in Sizes : Release(t, bytes)

BudgetNext == (\E t \in Allocators : Step(t)) \/ ResetPeak

BudgetSpec == BudgetInit /\ [][BudgetNext]_budgetVars

-----------------------------------------------------------------------------
(* Properties.                                                              *)

BudgetTypeOK ==
  /\ limit \in Limits
  /\ used \in Nat
  /\ peak \in Nat
  /\ most \in Nat
  /\ call \in [Allocators -> {"idle", "charged", "peak", "granted", "freed"}]
  /\ target \in [Allocators -> {"none", "buffer", "reservation"}]
  /\ amount \in [Allocators -> Sizes]
  /\ now \in [Allocators -> Nat]
  /\ seen \in [Allocators -> Nat]
  /\ buffer \in [Allocators -> Sizes]
  /\ reservation \in [Allocators -> Sizes]

\* The counter is exactly what the threads hold and what their calls have in
\* hand: a call that fails, at the limit or in the backend, leaves nothing
\* behind (memory_budget.h), in every interleaving.
Accounting == used = Bytes(buffer) + Bytes(reservation) + Bytes(amount)

\* "concurrent threads never pass the limit together" (memory_budget.h): the
\* bytes granted are never past the limit, though the counter itself is, while
\* a charge that fails is not yet taken back.
WithinLimit == Fits(Granted)

\* Once no charge is on its way to the peak, the peak is at least the most
\* bytes that were granted at once, and never past the limit: two threads that
\* raise it at once lose neither's value.
PeakCovers ==
  /\ Fits(peak)
  /\ (\A t \in Allocators : call[t] \notin {"charged", "peak"}) => most <= peak

-----------------------------------------------------------------------------
(* Proofs: the budget is exact and bounded for any number of threads, any   *)
(* sizes and any limit.  The sums over the threads are cardinalities of     *)
(* sets of bytes, so a call that moves bytes is a step from one finite set  *)
(* to another.                                                              *)

-----------------------------------------------------------------------------
(* Bytes.                                                                   *)

\* The set whose cardinality Bytes(f) is.
ByteSet(f) == {b \in Allocators \X (1 .. MaxSize) : b[2] <= f[b[1]]}

\* The bytes of the threads (a sum in used_) are the size of a finite set.
LEMMA ByteSetFinite ==
  ASSUME NEW f
  PROVE  IsFiniteSet(ByteSet(f)) /\ Bytes(f) = Cardinality(ByteSet(f)) /\ Bytes(f) \in Nat
<1>1. IsFiniteSet(Allocators) /\ MaxSize \in Nat
  BY BudgetAssumption
<1>2. IsFiniteSet(1 .. MaxSize)
  <2>1. 1 \in Int /\ MaxSize \in Int
    BY <1>1
  <2> QED BY <2>1, FS_Interval, Zenon
<1>3. IsFiniteSet(Allocators \X (1 .. MaxSize))
  BY <1>1, <1>2, FS_Product, Zenon
<1>4. ByteSet(f) \subseteq Allocators \X (1 .. MaxSize)
  BY DEF ByteSet
<1>5. IsFiniteSet(ByteSet(f))
  BY <1>3, <1>4, FS_Subset, Zenon
<1>6. Bytes(f) = Cardinality(ByteSet(f))
  BY Zenon DEF Bytes, ByteSet
<1> QED BY <1>5, <1>6, FS_CardinalityType, Zenon

\* More for every thread is more in all.
LEMMA BytesMonotone ==
  ASSUME NEW f, NEW g,
         \A t \in Allocators : f[t] \in Sizes /\ g[t] \in Sizes /\ f[t] <= g[t]
  PROVE  Bytes(f) <= Bytes(g)
<1>1. ByteSet(f) \subseteq ByteSet(g)
  BY BudgetAssumption DEF ByteSet, Sizes
<1>2. Cardinality(ByteSet(f)) <= Cardinality(ByteSet(g))
  BY <1>1, ByteSetFinite, FS_Subset, Zenon
<1>3. Bytes(f) = Cardinality(ByteSet(f)) /\ Bytes(g) = Cardinality(ByteSet(g))
  BY ByteSetFinite, Zenon
<1> QED BY <1>2, <1>3, Zenon

\* When no thread has a byte, there is none.
LEMMA BytesZero ==
  ASSUME NEW f, \A t \in Allocators : f[t] = 0
  PROVE  Bytes(f) = 0
<1>1. ByteSet(f) = {}
  BY BudgetAssumption DEF ByteSet
<1> QED BY <1>1, ByteSetFinite, FS_EmptySet, Zenon

\* Raising one thread's number from v to w adds w - v bytes.
LEMMA BytesRaise ==
  ASSUME NEW f, NEW g, NEW t \in Allocators, NEW v \in Sizes, NEW w \in Sizes, v <= w,
         f[t] = v, g[t] = w, \A u \in Allocators \ {t} : g[u] = f[u]
  PROVE  Bytes(g) = Bytes(f) + (w - v)
<1> DEFINE D == {t} \X (v + 1 .. w)
<1>0. MaxSize \in Nat /\ v \in Nat /\ w \in Nat /\ w <= MaxSize
  BY BudgetAssumption DEF Sizes
<1>1. ByteSet(g) = ByteSet(f) \cup D
  BY <1>0 DEF ByteSet
<1>2. ByteSet(f) \cap D = {}
  BY <1>0 DEF ByteSet
<1>3. IsFiniteSet(v + 1 .. w) /\ Cardinality(v + 1 .. w) = w - v
  <2>1. v + 1 \in Int /\ w \in Int
    BY <1>0
  <2>2. Cardinality(v + 1 .. w) = IF v + 1 > w THEN 0 ELSE w - (v + 1) + 1
    BY <2>1, FS_Interval, Zenon
  <2>3. IsFiniteSet(v + 1 .. w)
    BY <2>1, FS_Interval, Zenon
  <2> QED BY <2>2, <2>3, <1>0
<1>4. IsFiniteSet({t}) /\ Cardinality({t}) = 1
  BY FS_Singleton, Zenon
<1>5. IsFiniteSet(D) /\ Cardinality(D) = Cardinality({t}) * Cardinality(v + 1 .. w)
  BY <1>3, <1>4, FS_Product, Zenon
<1> HIDE DEF D
<1>6. Cardinality(ByteSet(f) \cup D)
        = Cardinality(ByteSet(f)) + Cardinality(D) - Cardinality(ByteSet(f) \cap D)
  <2>1. IsFiniteSet(ByteSet(f)) /\ IsFiniteSet(D)
    BY <1>5, ByteSetFinite, Zenon
  <2> QED BY <2>1, FS_Union, Zenon
<1>7. Cardinality(ByteSet(f) \cap D) = 0
  BY <1>2, FS_EmptySet, Zenon
<1>8. Bytes(g) = Cardinality(ByteSet(f) \cup D) /\ Bytes(f) = Cardinality(ByteSet(f))
  BY <1>1, ByteSetFinite, Zenon
<1>9. Bytes(f) \in Nat
  BY ByteSetFinite, Zenon
<1>10. Cardinality(D) = w - v
  BY <1>0, <1>3, <1>4, <1>5
<1> QED BY <1>0, <1>10, <1>6, <1>7, <1>8, <1>9

\* Changing one thread's number changes the sum by the difference.
LEMMA BytesChange ==
  ASSUME NEW f, NEW g, NEW t \in Allocators, f[t] \in Sizes, g[t] \in Sizes,
         \A u \in Allocators \ {t} : g[u] = f[u]
  PROVE  Bytes(g) = Bytes(f) + g[t] - f[t] /\ Bytes(f) \in Nat /\ Bytes(g) \in Nat
<1>1. f[t] \in Nat /\ g[t] \in Nat /\ Bytes(f) \in Nat /\ Bytes(g) \in Nat
  BY ByteSetFinite, BudgetAssumption DEF Sizes
<1>2. CASE f[t] <= g[t]
  <2>1. Bytes(g) = Bytes(f) + (g[t] - f[t])
    BY <1>2, BytesRaise, ZenonT(60)
  <2> QED BY <2>1, <1>1
<1>3. CASE g[t] <= f[t]
  <2>1. \A u \in Allocators \ {t} : f[u] = g[u]
    OBVIOUS
  <2>2. Bytes(f) = Bytes(g) + (f[t] - g[t])
    BY <2>1, <1>3, BytesRaise, ZenonT(60)
  <2> QED BY <2>2, <1>1
<1> QED BY <1>1, <1>2, <1>3

-----------------------------------------------------------------------------
(* The inductive invariant.                                                 *)

\* The bytes of the call of t that stand, as a function of the thread.
Standing == [t \in Allocators |-> IF Stands(t) THEN amount[t] ELSE 0]

\* An idle thread has nothing in hand; what a call has charged still fits into
\* its target.
CallInv ==
  \A t \in Allocators :
    /\ call[t] = "idle" => amount[t] = 0
    /\ call[t] \in {"charged", "peak", "granted"} =>
         /\ target[t] \in {"buffer", "reservation"}
         /\ target[t] = "buffer" => buffer[t] + amount[t] <= MaxSize
         /\ target[t] = "reservation" => reservation[t] + amount[t] <= MaxSize

\* The peak on its way: `most` has reached it, or a call that stands will
\* raise it that far; a peak once read is never past the peak.
PeakInv ==
  /\ Granted <= most
  /\ Fits(peak)
  /\ \A t \in Allocators : call[t] = "peak" => Fits(now[t]) /\ seen[t] <= peak
  /\ \/ most <= peak
     \/ \E t \in Allocators : call[t] \in {"charged", "peak"} /\ Fits(now[t]) /\ most <= now[t]

IndInv == BudgetTypeOK /\ CallInv /\ Accounting /\ WithinLimit /\ PeakInv

\* What each piece of state is, for the steps below.
LEMMA Types ==
  ASSUME BudgetTypeOK
  PROVE  /\ MaxSize \in Nat
         /\ used \in Nat /\ peak \in Nat /\ most \in Nat
         /\ \A t \in Allocators : /\ amount[t] \in Sizes
                               /\ buffer[t] \in Sizes
                               /\ reservation[t] \in Sizes
                               /\ Standing[t] \in Sizes
                               /\ Standing[t] <= amount[t]
                               /\ now[t] \in Nat
                               /\ seen[t] \in Nat
         /\ Bytes(buffer) \in Nat /\ Bytes(reservation) \in Nat
         /\ Bytes(amount) \in Nat /\ Bytes(Standing) \in Nat
         /\ Granted = Bytes(buffer) + Bytes(reservation) + Bytes(Standing)
         /\ limit \in Nat \cup {NoLimit}
<1>1. MaxSize \in Nat /\ Limits \subseteq Nat \cup {NoLimit}
  BY BudgetAssumption
<1>2. \A t \in Allocators : /\ amount[t] \in Sizes
                         /\ buffer[t] \in Sizes
                         /\ reservation[t] \in Sizes
                         /\ now[t] \in Nat
                         /\ seen[t] \in Nat
  BY DEF BudgetTypeOK
<1>3. \A t \in Allocators : Standing[t] \in Sizes /\ Standing[t] <= amount[t]
  BY <1>1, <1>2 DEF Standing, Sizes
<1>4. /\ Bytes(buffer) \in Nat /\ Bytes(reservation) \in Nat
      /\ Bytes(amount) \in Nat /\ Bytes(Standing) \in Nat
  BY ByteSetFinite, Zenon
<1>5. Granted = Bytes(buffer) + Bytes(reservation) + Bytes(Standing)
  BY Zenon DEF Granted, Standing
<1> QED BY <1>1, <1>2, <1>3, <1>4, <1>5, Zenon DEF BudgetTypeOK

\* The bytes granted are never more than the counter says.
GrantedFits == Granted \in Nat /\ Granted <= used

\* With the counter exact, what Allocate and Reserve granted fits in it.
LEMMA GrantedWithinUsed == BudgetTypeOK /\ Accounting => GrantedFits
<1> SUFFICES ASSUME BudgetTypeOK, Accounting PROVE Granted \in Nat /\ Granted <= used
  BY DEF GrantedFits
<1>1. Bytes(Standing) <= Bytes(amount)
  <2>1. \A t \in Allocators : Standing[t] \in Sizes /\ amount[t] \in Sizes /\ Standing[t] <= amount[t]
    BY Types, Zenon
  <2> QED BY <2>1, BytesMonotone, Zenon
<1> QED BY <1>1, Types DEF Accounting

\* The same after a step.
LEMMA GrantedWithinUsedNext == BudgetTypeOK' /\ Accounting' => GrantedFits'
BY GrantedWithinUsed, PTL

-----------------------------------------------------------------------------

\* A new MemoryBudget satisfies the invariant.
THEOREM InitInv == BudgetInit => IndInv
<1> SUFFICES ASSUME BudgetInit PROVE IndInv
  OBVIOUS
<1>1. BudgetTypeOK
  BY BudgetAssumption DEF BudgetInit, BudgetTypeOK, Sizes
<1>2. CallInv
  BY DEF BudgetInit, CallInv
<1>3. Bytes(buffer) = 0 /\ Bytes(reservation) = 0 /\ Bytes(amount) = 0
  <2>1. \A t \in Allocators : buffer[t] = 0 /\ reservation[t] = 0 /\ amount[t] = 0
    BY DEF BudgetInit
  <2> QED BY <2>1, BytesZero, Zenon
<1>4. Accounting
  BY <1>3 DEF Accounting, BudgetInit
<1>5. Granted = 0
  BY <1>1, <1>4, GrantedWithinUsed DEF BudgetInit, GrantedFits
<1>6. Fits(0)
  BY BudgetAssumption DEF Fits, BudgetInit, NoLimit
<1> QED BY <1>1, <1>2, <1>4, <1>5, <1>6 DEF IndInv, WithinLimit, PeakInv, BudgetInit

-----------------------------------------------------------------------------
(* One lemma for each action.                                               *)

\* The sums when the step changes them for thread t only.
LEMMA SumsChange ==
  ASSUME BudgetTypeOK, BudgetTypeOK', NEW t \in Allocators,
         \A u \in Allocators \ {t} : /\ buffer'[u] = buffer[u]
                                  /\ reservation'[u] = reservation[u]
                                  /\ amount'[u] = amount[u]
                                  /\ call'[u] = call[u]
                                  /\ now'[u] = now[u],
         limit' = limit
  PROVE  /\ Bytes(buffer)' = Bytes(buffer) + buffer'[t] - buffer[t]
         /\ Bytes(reservation)' = Bytes(reservation) + reservation'[t] - reservation[t]
         /\ Bytes(amount)' = Bytes(amount) + amount'[t] - amount[t]
         /\ Bytes(Standing)' = Bytes(Standing) + Standing'[t] - Standing[t]
<1>1. /\ buffer[t] \in Sizes /\ reservation[t] \in Sizes /\ amount[t] \in Sizes
      /\ Standing[t] \in Sizes
  BY Types, Zenon
<1>2. /\ buffer'[t] \in Sizes /\ reservation'[t] \in Sizes /\ amount'[t] \in Sizes
      /\ Standing'[t] \in Sizes
  <2>1. \A u \in Allocators : amount'[u] \in Sizes /\ buffer'[u] \in Sizes /\ reservation'[u] \in Sizes
    BY DEF BudgetTypeOK
  <2>2. Standing'[t] \in Sizes
    BY <2>1, BudgetAssumption DEF Standing, Sizes
  <2> QED BY <2>1, <2>2, Zenon
<1>3. \A u \in Allocators \ {t} : Standing'[u] = Standing[u]
  BY DEF Standing, Stands, Fits
<1>4. Bytes(buffer)' = Bytes(buffer) + buffer'[t] - buffer[t]
  BY <1>1, <1>2, BytesChange, Zenon
<1>5. Bytes(reservation)' = Bytes(reservation) + reservation'[t] - reservation[t]
  BY <1>1, <1>2, BytesChange, Zenon
<1>6. Bytes(amount)' = Bytes(amount) + amount'[t] - amount[t]
  BY <1>1, <1>2, BytesChange, Zenon
<1>7. Bytes(Standing)' = Bytes(Standing) + Standing'[t] - Standing[t]
  BY <1>1, <1>2, <1>3, BytesChange, Zenon
<1> QED BY <1>4, <1>5, <1>6, <1>7, Zenon

\* A step that grants nothing new keeps the limit and, when the calls on their
\* way to the peak stay, the peak's invariant.
LEMMA NothingGranted ==
  ASSUME IndInv, BudgetTypeOK', limit' = limit, Granted' \in Nat, Granted' <= Granted
  PROVE  WithinLimit'
<1>1. Granted \in Nat
  BY GrantedWithinUsed DEF IndInv, GrantedFits
<1> QED BY <1>1, Types DEF IndInv, WithinLimit, Fits, NoLimit

\* Charge's fetch_add, for an allocation, a growth or a reservation.
LEMMA ChargeCallStep ==
  ASSUME IndInv, NEW t \in Allocators, NEW what \in {"buffer", "reservation"}, NEW bytes \in Sizes,
         ChargeCall(t, what, bytes),
         what = "buffer" => buffer[t] + bytes <= MaxSize,
         what = "reservation" => reservation[t] + bytes <= MaxSize
  PROVE  IndInv'
<1> USE DEF ChargeCall
<1>1. BudgetTypeOK /\ CallInv /\ Accounting /\ WithinLimit /\ PeakInv
  BY DEF IndInv
<1>2. MaxSize \in Nat /\ bytes \in Nat /\ amount[t] = 0
  BY <1>1, BudgetAssumption DEF CallInv, Sizes
<1>3. /\ amount' = [amount EXCEPT ![t] = bytes] /\ now' = [now EXCEPT ![t] = used + bytes]
      /\ call' = [call EXCEPT ![t] = "charged"] /\ target' = [target EXCEPT ![t] = what]
      /\ used' = used + bytes
      /\ limit' = limit /\ buffer' = buffer /\ reservation' = reservation /\ peak' = peak /\ seen' = seen
      /\ call[t] = "idle"
  OBVIOUS
<1>4. /\ amount' \in [Allocators -> Sizes] /\ now' \in [Allocators -> Nat]
      /\ call' \in [Allocators -> {"idle", "charged", "peak", "granted", "freed"}]
      /\ target' \in [Allocators -> {"none", "buffer", "reservation"}]
  BY <1>1, <1>2, <1>3 DEF BudgetTypeOK
<1>5. CallInv'
  BY <1>1, <1>2, <1>3 DEF CallInv, BudgetTypeOK
<1>6. Granted' \in Nat /\ Bytes(buffer') \in Nat /\ Bytes(reservation') \in Nat /\ Bytes(amount') \in Nat
  <2>1. /\ Bytes(buffer') \in Nat /\ Bytes(reservation') \in Nat /\ Bytes(amount') \in Nat
        /\ Bytes(Standing') \in Nat
    BY ByteSetFinite, Zenon
  <2>2. Granted' = Bytes(buffer') + Bytes(reservation') + Bytes(Standing')
    BY Zenon DEF Granted, Standing
  <2> QED BY <2>1, <2>2
<1>7. BudgetTypeOK'
  BY <1>1, <1>2, <1>3, <1>4, <1>6, SMTT(60) DEF BudgetTypeOK
<1>8. Accounting'
  <2>1. Bytes(amount)' = Bytes(amount) + bytes - 0
    BY <1>1, <1>2, <1>3, <1>7, SumsChange, ZenonT(60) DEF BudgetTypeOK
  <2> QED BY <2>1, <1>1, <1>2, <1>3, Types, SMTT(60) DEF Accounting
<1>9. Granted' <= used'
  BY <1>7, <1>8, GrantedWithinUsedNext, Zenon DEF GrantedFits
<1>10. Granted \in Nat
  BY <1>1, GrantedWithinUsed, Zenon DEF GrantedFits
<1>11. now'[t] = used'
  BY <1>1, <1>3, Zenon DEF BudgetTypeOK
<1>12. ~Fits(used)' => Granted' = Granted
  <2> SUFFICES ASSUME ~Fits(used)' PROVE Granted' = Granted
    OBVIOUS
  <2>1. Standing'[t] = 0 /\ Standing[t] = 0
    BY <1>1, <1>2, <1>3, <1>11 DEF Standing, Stands, BudgetTypeOK, Fits
  <2>2. Bytes(Standing)' = Bytes(Standing) + 0 - 0
    BY <2>1, <1>1, <1>3, <1>7, SumsChange DEF BudgetTypeOK
  <2>3. Granted' = Bytes(buffer') + Bytes(reservation') + Bytes(Standing)'
    BY Zenon DEF Granted, Standing
  <2> QED BY <2>2, <2>3, <1>1, <1>3, Types
<1>13. WithinLimit'
  <2>1. CASE ~Fits(used)'
    BY <2>1, <1>1, <1>3, <1>12, Zenon DEF WithinLimit, Fits
  <2>2. CASE Fits(used)'
    BY <2>2, <1>1, <1>3, <1>6, <1>7, <1>9, Types DEF WithinLimit, Fits, BudgetTypeOK, NoLimit
  <2> QED BY <2>1, <2>2, Zenon
<1>14. PeakInv'
  <2>1. most' = IF Granted' > most THEN Granted' ELSE most
    OBVIOUS
  <2>2. Granted' <= most' /\ most <= most'
    BY <2>1, <1>1, <1>6 DEF BudgetTypeOK
  <2>3. \A u \in Allocators : call'[u] = "peak" => Fits(now[u])' /\ seen'[u] <= peak'
    BY <1>1, <1>3 DEF PeakInv, BudgetTypeOK, Fits
  <2>4. Fits(peak)'
    BY <1>1, <1>3, Zenon DEF PeakInv, Fits
  <2>5. \/ most' <= peak'
        \/ \E u \in Allocators : call'[u] \in {"charged", "peak"} /\ Fits(now[u])' /\ most' <= now'[u]
    <3>1. CASE most' = most
      BY <3>1, <1>1, <1>3 DEF PeakInv, BudgetTypeOK, Fits
    <3>2. CASE most' # most
      <4>1. most' = Granted' /\ Granted' # Granted
        BY <3>2, <2>1, <1>1, <1>6, <1>10 DEF PeakInv, BudgetTypeOK
      <4>2. Fits(used)'
        BY <4>1, <1>12, Zenon
      <4>3. call'[t] = "charged" /\ Fits(now[t])' /\ most' <= now'[t]
        BY <4>1, <4>2, <1>1, <1>3, <1>9, <1>11, Zenon DEF BudgetTypeOK, Fits
      <4> QED BY <4>3, Zenon
    <3> QED BY <3>1, <3>2, Zenon
  <2> QED BY <2>2, <2>3, <2>4, <2>5, Zenon DEF PeakInv
<1> QED BY <1>5, <1>7, <1>8, <1>13, <1>14, Zenon DEF IndInv

\* The end of a call that grants nothing: its bytes are in its target, or given
\* back, in the counter too.
LEMMA ReturnStep ==
  ASSUME IndInv, NEW t \in Allocators, CallReturns(t),
         call[t] # "peak", call[t] = "charged" => ~Fits(now[t]),
         limit' = limit, peak' = peak, most' = most,
         buffer' \in [Allocators -> Sizes], reservation' \in [Allocators -> Sizes], used' \in Int,
         \A u \in Allocators \ {t} : buffer'[u] = buffer[u] /\ reservation'[u] = reservation[u],
         buffer'[t] + reservation'[t] - (buffer[t] + reservation[t]) - amount[t] = used' - used,
         call[t] = "charged" => buffer'[t] + reservation'[t] <= buffer[t] + reservation[t],
         buffer'[t] + reservation'[t] <= buffer[t] + reservation[t] + amount[t]
  PROVE  IndInv'
<1>1. BudgetTypeOK /\ CallInv /\ Accounting /\ WithinLimit /\ PeakInv
  BY DEF IndInv
<1>2. /\ call' = [call EXCEPT ![t] = "idle"] /\ target' = [target EXCEPT ![t] = "none"]
      /\ amount' = [amount EXCEPT ![t] = 0] /\ now' = [now EXCEPT ![t] = 0]
      /\ seen' = [seen EXCEPT ![t] = 0]
  BY DEF CallReturns
<1>3. MaxSize \in Nat /\ 0 \in Sizes
  BY BudgetAssumption DEF Sizes
<1>4. /\ amount' \in [Allocators -> Sizes] /\ now' \in [Allocators -> Nat] /\ seen' \in [Allocators -> Nat]
      /\ call' \in [Allocators -> {"idle", "charged", "peak", "granted", "freed"}]
      /\ target' \in [Allocators -> {"none", "buffer", "reservation"}]
      /\ amount'[t] = 0 /\ call'[t] = "idle"
      /\ \A u \in Allocators \ {t} : /\ call'[u] = call[u] /\ target'[u] = target[u]
                                  /\ amount'[u] = amount[u] /\ now'[u] = now[u]
                                  /\ seen'[u] = seen[u]
  BY <1>1, <1>2, <1>3 DEF BudgetTypeOK
<1>5. /\ Bytes(buffer') \in Nat /\ Bytes(reservation') \in Nat /\ Bytes(amount') \in Nat
      /\ Bytes(Standing') \in Nat
  BY ByteSetFinite, Zenon
<1>6. Bytes(buffer') = Bytes(buffer) + buffer'[t] - buffer[t]
  <2>1. buffer[t] \in Sizes /\ buffer'[t] \in Sizes
    BY <1>1, Zenon DEF BudgetTypeOK
  <2> QED BY <2>1, BytesChange, Zenon
<1>7. Bytes(reservation') = Bytes(reservation) + reservation'[t] - reservation[t]
  <2>1. reservation[t] \in Sizes /\ reservation'[t] \in Sizes
    BY <1>1, Zenon DEF BudgetTypeOK
  <2> QED BY <2>1, BytesChange, Zenon
<1>8. Bytes(amount') = Bytes(amount) + amount'[t] - amount[t]
  <2>1. amount[t] \in Sizes /\ amount'[t] \in Sizes
    BY <1>1, <1>4, Zenon DEF BudgetTypeOK
  <2> QED BY <2>1, <1>4, BytesChange, ZenonT(60)
<1>9. /\ buffer[t] \in Nat /\ reservation[t] \in Nat /\ amount[t] \in Nat
      /\ buffer'[t] \in Nat /\ reservation'[t] \in Nat
  BY <1>1, <1>3 DEF BudgetTypeOK, Sizes
<1>10. used' = Bytes(buffer') + Bytes(reservation') + Bytes(amount')
  <2>1. used = Bytes(buffer) + Bytes(reservation) + Bytes(amount)
    BY <1>1, Zenon DEF Accounting
  <2> QED BY <2>1, <1>1, <1>4, <1>6, <1>7, <1>8, <1>9, Types
<1>11. Accounting'
  BY <1>10, Zenon DEF Accounting
<1>12. BudgetTypeOK'
  <2>1. used' \in Nat
    BY <1>5, <1>10
  <2> QED BY <2>1, <1>1, <1>4, Zenon DEF BudgetTypeOK
<1>13. CallInv'
  BY <1>1, <1>4, SMTT(60) DEF CallInv, BudgetTypeOK
<1>14. Granted' \in Nat /\ Granted' <= Granted
  <2>1. Bytes(Standing)' = Bytes(Standing) + Standing'[t] - Standing[t]
    BY <1>1, <1>4, <1>12, SumsChange, SMTT(60)
  <2>2. Standing'[t] = 0
    BY <1>4, Zenon DEF Standing, Stands
  <2>3. Standing[t] = IF call[t] = "charged" THEN 0 ELSE amount[t]
    BY Zenon DEF Standing, Stands
  <2>4. Granted' = Bytes(buffer') + Bytes(reservation') + Bytes(Standing)'
    BY Zenon DEF Granted, Standing
  <2>5. /\ Granted = Bytes(buffer) + Bytes(reservation) + Bytes(Standing)
        /\ Bytes(buffer) \in Nat /\ Bytes(reservation) \in Nat /\ Bytes(Standing) \in Nat
    BY <1>1, Types, Zenon
  <2>6. Granted' \in Nat
    BY <2>4, <1>5
  <2> QED BY <2>1, <2>2, <2>3, <2>4, <2>5, <2>6, <1>5, <1>6, <1>7, <1>9, SMTT(60)
<1>15. WithinLimit'
  BY <1>12, <1>14, NothingGranted, Zenon
<1>16. PeakInv'
  <2>1. Granted' <= most'
    BY <1>1, <1>14, GrantedWithinUsed DEF PeakInv, BudgetTypeOK, GrantedFits
  <2>2. Fits(peak)'
    BY <1>1, Zenon DEF PeakInv, Fits
  <2>3. \A u \in Allocators : call'[u] = "peak" => Fits(now[u])' /\ seen'[u] <= peak'
    BY <1>1, <1>4, Zenon DEF PeakInv, Fits
  <2>4. \/ most' <= peak'
        \/ \E u \in Allocators : call'[u] \in {"charged", "peak"} /\ Fits(now[u])' /\ most' <= now'[u]
    BY <1>1, <1>4, Zenon DEF PeakInv, Fits
  <2> QED BY <2>1, <2>2, <2>3, <2>4, Zenon DEF PeakInv
<1> QED BY <1>11, <1>12, <1>13, <1>15, <1>16, Zenon DEF IndInv

\* The peak's steps: nothing is charged or given back.
LEMMA PeakStep ==
  ASSUME IndInv, NEW t \in Allocators, PeakLoad(t) \/ PeakExchange(t)
  PROVE  IndInv'
<1>1. BudgetTypeOK /\ CallInv /\ Accounting /\ WithinLimit /\ PeakInv
  BY DEF IndInv
<1>2. /\ limit' = limit /\ used' = used /\ target' = target /\ amount' = amount /\ now' = now
      /\ buffer' = buffer /\ reservation' = reservation /\ most' = most
      /\ call[t] \in {"charged", "peak"} /\ Fits(now[t]) /\ call'[t] \in {"peak", "granted"}
      /\ \A u \in Allocators \ {t} : call'[u] = call[u] /\ seen'[u] = seen[u]
      /\ peak' \in Nat /\ peak <= peak'
      /\ call' \in [Allocators -> {"idle", "charged", "peak", "granted", "freed"}]
      /\ seen' \in [Allocators -> Nat]
  <2>1. CASE PeakLoad(t)
    BY <1>1, <2>1 DEF PeakLoad, BudgetTypeOK
  <2>2. CASE PeakExchange(t)
    BY <1>1, <2>2 DEF PeakExchange, BudgetTypeOK, PeakInv
  <2> QED BY <2>1, <2>2, Zenon
<1>3. BudgetTypeOK' /\ CallInv' /\ Accounting'
  <2>1. BudgetTypeOK'
    BY <1>1, <1>2, Zenon DEF BudgetTypeOK
  <2>2. CallInv'
    BY <1>1, <1>2, Zenon DEF CallInv
  <2>3. Accounting'
    BY <1>1, <1>2, Zenon DEF Accounting
  <2> QED BY <2>1, <2>2, <2>3, Zenon
<1>4. Granted' = Granted
  <2>1. \A u \in Allocators : Stands(u)' <=> Stands(u)
    BY <1>1, <1>2, Zenon DEF Stands, Fits
  <2>2. Standing' = Standing
    BY <2>1, <1>2, Zenon DEF Standing
  <2> QED BY <2>2, <1>2, Zenon DEF Granted, Standing
<1>5. WithinLimit'
  BY <1>1, <1>2, <1>4, Zenon DEF WithinLimit, Fits
<1>6. PeakInv'
  <2>1. Granted' <= most'
    BY <1>1, <1>2, <1>4, Zenon DEF PeakInv
  <2>2. Fits(peak)'
    BY <1>1, <1>2, Zenon DEF PeakInv, PeakLoad, PeakExchange, Fits
  <2>3. call'[t] = "peak" => seen'[t] <= peak'
    BY <1>1, <1>2, Zenon DEF PeakLoad, PeakExchange, BudgetTypeOK, PeakInv
  <2>4. \A u \in Allocators : call'[u] = "peak" => Fits(now[u])' /\ seen'[u] <= peak'
    BY <2>3, <1>1, <1>2 DEF PeakInv, Fits, BudgetTypeOK
  <2>5. call'[t] = "granted" => now[t] <= peak'
    BY <1>1, <1>2 DEF PeakLoad, PeakExchange, BudgetTypeOK, PeakInv
  <2>6. \/ most' <= peak'
        \/ \E u \in Allocators : call'[u] \in {"charged", "peak"} /\ Fits(now[u])' /\ most' <= now'[u]
    <3>1. CASE most <= peak
      BY <3>1, <1>1, <1>2 DEF BudgetTypeOK
    <3>2. CASE \E u \in Allocators : call[u] \in {"charged", "peak"} /\ Fits(now[u]) /\ most <= now[u]
      <4>1. PICK u \in Allocators : call[u] \in {"charged", "peak"} /\ Fits(now[u]) /\ most <= now[u]
        BY <3>2
      <4>2. CASE u = t /\ call'[t] = "granted"
        BY <4>1, <4>2, <2>5, <1>1, <1>2 DEF BudgetTypeOK
      <4>3. CASE ~(u = t /\ call'[t] = "granted")
        <5>1. call'[u] \in {"charged", "peak"} /\ Fits(now[u])' /\ most' <= now'[u]
          BY <4>1, <4>3, <1>2, Zenon DEF Fits
        <5> QED BY <5>1
      <4> QED BY <4>2, <4>3, Zenon
    <3> QED BY <3>1, <3>2, <1>1, Zenon DEF PeakInv
  <2> QED BY <2>1, <2>2, <2>4, <2>6, Zenon DEF PeakInv
<1> QED BY <1>3, <1>5, <1>6, Zenon DEF IndInv

\* Memory given back by an idle thread: from its buffer, first to the backend,
\* or from its reservation, at once.
LEMMA FreeStep ==
  ASSUME IndInv, NEW t \in Allocators, NEW size \in Sizes, BackendFrees(t, size) \/ Release(t, size)
  PROVE  IndInv'
<1>1. BudgetTypeOK /\ CallInv /\ Accounting /\ WithinLimit /\ PeakInv
  BY DEF IndInv
<1>2. /\ MaxSize \in Nat /\ size \in Nat /\ amount[t] = 0 /\ call[t] = "idle"
      /\ buffer[t] \in Nat /\ reservation[t] \in Nat /\ used \in Nat
  BY <1>1, BudgetAssumption DEF CallInv, Sizes, BackendFrees, Release, BudgetTypeOK
<1>3. /\ limit' = limit /\ peak' = peak /\ most' = most /\ target' = target /\ now' = now
      /\ seen' = seen
      /\ buffer' \in [Allocators -> Sizes] /\ reservation' \in [Allocators -> Sizes]
      /\ amount' \in [Allocators -> Sizes]
      /\ call' \in [Allocators -> {"idle", "charged", "peak", "granted", "freed"}]
      /\ call'[t] \in {"idle", "freed"}
      /\ call'[t] = "idle" => amount'[t] = 0
      /\ used' \in Int
      /\ buffer'[t] \in Nat /\ reservation'[t] \in Nat /\ amount'[t] \in Nat
      /\ buffer'[t] + reservation'[t] + amount'[t] - (buffer[t] + reservation[t]) = used' - used
      /\ buffer'[t] + reservation'[t] + amount'[t] <= buffer[t] + reservation[t]
      /\ \A u \in Allocators \ {t} : /\ buffer'[u] = buffer[u] /\ reservation'[u] = reservation[u]
                                  /\ amount'[u] = amount[u] /\ call'[u] = call[u]
  <2>1. CASE BackendFrees(t, size)
    <3>1. buffer[t] - size \in Sizes
      BY <1>1, <1>2, <2>1 DEF BackendFrees, BudgetTypeOK, Sizes
    <3> QED BY <1>1, <1>2, <2>1, <3>1 DEF BackendFrees, BudgetTypeOK
  <2>2. CASE Release(t, size)
    BY <1>1, <1>2, <2>2 DEF Release, BudgetTypeOK
  <2> QED BY <2>1, <2>2, Zenon
<1>4. /\ Bytes(buffer') \in Nat /\ Bytes(reservation') \in Nat /\ Bytes(amount') \in Nat
      /\ Bytes(Standing') \in Nat
  BY ByteSetFinite, Zenon
<1>5. /\ Bytes(buffer') = Bytes(buffer) + buffer'[t] - buffer[t]
      /\ Bytes(reservation') = Bytes(reservation) + reservation'[t] - reservation[t]
      /\ Bytes(amount') = Bytes(amount) + amount'[t] - amount[t]
  <2>1. /\ buffer[t] \in Sizes /\ buffer'[t] \in Sizes /\ reservation[t] \in Sizes
        /\ reservation'[t] \in Sizes /\ amount[t] \in Sizes /\ amount'[t] \in Sizes
    BY <1>1, <1>3, Zenon DEF BudgetTypeOK
  <2> QED BY <2>1, <1>3, BytesChange, ZenonT(60)
<1>6. used' = Bytes(buffer') + Bytes(reservation') + Bytes(amount')
  <2>1. used = Bytes(buffer) + Bytes(reservation) + Bytes(amount)
    BY <1>1 DEF Accounting
  <2> QED BY <2>1, <1>1, <1>2, <1>3, <1>5, Types
<1>7. Accounting'
  BY <1>6 DEF Accounting
<1>8. BudgetTypeOK'
  <2>1. used' \in Nat
    BY <1>4, <1>6
  <2> QED BY <2>1, <1>1, <1>3, Zenon DEF BudgetTypeOK
<1>9. CallInv'
  BY <1>1, <1>3, SMTT(60) DEF CallInv
<1>10. Granted' \in Nat /\ Granted' <= Granted
  <2>1. Bytes(Standing)' = Bytes(Standing) + Standing'[t] - Standing[t]
    BY <1>1, <1>3, <1>8, SumsChange, Zenon
  <2>2. Standing'[t] = amount'[t] /\ Standing[t] = 0
    BY <1>2, <1>3, Zenon DEF Standing, Stands
  <2>3. Granted' = Bytes(buffer') + Bytes(reservation') + Bytes(Standing)'
    BY Zenon DEF Granted, Standing
  <2>4. /\ Granted = Bytes(buffer) + Bytes(reservation) + Bytes(Standing)
        /\ Bytes(buffer) \in Nat /\ Bytes(reservation) \in Nat /\ Bytes(Standing) \in Nat
    BY <1>1, Types, Zenon
  <2>5. Granted' \in Nat
    BY <2>3, <1>4
  <2> QED BY <2>1, <2>2, <2>3, <2>4, <2>5, <1>2, <1>3, <1>4, <1>5, SMTT(60)
<1>11. WithinLimit'
  BY <1>3, <1>8, <1>10, NothingGranted, Zenon
<1>12. PeakInv'
  <2>1. Granted' <= most'
    BY <1>1, <1>3, <1>10, GrantedWithinUsed DEF PeakInv, BudgetTypeOK, GrantedFits
  <2>2. Fits(peak)'
    BY <1>1, <1>3, Zenon DEF PeakInv, Fits
  <2>3. \A u \in Allocators : call'[u] = "peak" => Fits(now[u])' /\ seen'[u] <= peak'
    BY <1>1, <1>3, Zenon DEF PeakInv, Fits
  <2>4. \/ most' <= peak'
        \/ \E u \in Allocators : call'[u] \in {"charged", "peak"} /\ Fits(now[u])' /\ most' <= now'[u]
    <3>1. \A u \in Allocators : call[u] \in {"charged", "peak"} => call'[u] = call[u]
      BY <1>2, <1>3, Zenon
    <3> QED BY <3>1, <1>1, <1>3, Zenon DEF PeakInv, Fits
  <2> QED BY <2>1, <2>2, <2>3, <2>4, Zenon DEF PeakInv
<1> QED BY <1>7, <1>8, <1>9, <1>11, <1>12, Zenon DEF IndInv

\* A new peak, between queries: no call is on its way, so the counter is what
\* is granted.
LEMMA ResetPeakStep ==
  ASSUME IndInv, ResetPeak
  PROVE  IndInv'
<1>1. BudgetTypeOK /\ CallInv /\ Accounting /\ WithinLimit /\ PeakInv
  BY DEF IndInv
<1>2. /\ limit' = limit /\ used' = used /\ call' = call /\ target' = target /\ amount' = amount
      /\ now' = now /\ seen' = seen /\ buffer' = buffer /\ reservation' = reservation
      /\ peak' = used /\ most' = Granted /\ \A t \in Allocators : call[t] = "idle"
  BY DEF ResetPeak
<1>3. Granted \in Nat /\ Granted <= used
  BY <1>1, GrantedWithinUsed DEF GrantedFits
<1>4. BudgetTypeOK' /\ CallInv' /\ Accounting'
  BY <1>1, <1>2, <1>3, Zenon DEF BudgetTypeOK, CallInv, Accounting
<1>5. Granted' = Granted
  BY <1>2 DEF Granted, Stands, Fits
<1>6. WithinLimit'
  BY <1>1, <1>2, <1>5, Zenon DEF WithinLimit, Fits
<1>7. used = Granted
  <2>1. \A t \in Allocators : amount[t] = 0 /\ Standing[t] = 0
    BY <1>1, <1>2, Zenon DEF CallInv, Standing
  <2>2. Bytes(amount) = 0 /\ Bytes(Standing) = 0
    BY <2>1, BytesZero, Zenon
  <2> QED BY <2>2, <1>1, Types, Zenon DEF Accounting
<1>8. PeakInv'
  <2>1. Granted' <= most' /\ most' <= peak'
    BY <1>2, <1>3, <1>5
  <2>2. Fits(peak)'
    BY <1>1, <1>2, <1>7, Zenon DEF WithinLimit, Fits
  <2>3. \A u \in Allocators : call'[u] # "peak"
    BY <1>2
  <2> QED BY <2>1, <2>2, <2>3, Zenon DEF PeakInv
<1> QED BY <1>4, <1>6, <1>8, Zenon DEF IndInv

\* The calls that return.
LEMMA EndStep ==
  ASSUME IndInv, NEW t \in Allocators,
         ChargeFails(t) \/ Gives(t) \/ BackendFails(t) \/ Uncharge(t)
  PROVE  IndInv'
<1>1. BudgetTypeOK /\ CallInv
  BY DEF IndInv
<1>2. /\ MaxSize \in Nat /\ used \in Nat
      /\ buffer[t] \in Nat /\ reservation[t] \in Nat /\ amount[t] \in Nat
      /\ buffer \in [Allocators -> Sizes] /\ reservation \in [Allocators -> Sizes]
  BY <1>1, BudgetAssumption DEF Sizes, BudgetTypeOK
<1>3. CASE ChargeFails(t)
  BY <1>2, <1>3, ReturnStep DEF ChargeFails
<1>4. CASE Gives(t)
  <2>1. CASE target[t] = "buffer"
    <3>1. buffer[t] + amount[t] \in Sizes
      BY <1>1, <1>2, <1>4, <2>1 DEF CallInv, Sizes, Gives
    <3>2. /\ buffer' = [buffer EXCEPT ![t] = @ + amount[t]] /\ reservation' = reservation
          /\ CallReturns(t) /\ call[t] = "granted" /\ limit' = limit /\ used' = used /\ peak' = peak
          /\ most' = most
      BY <1>4, <2>1, Zenon DEF Gives
    <3>3. buffer' \in [Allocators -> Sizes] /\ buffer'[t] = buffer[t] + amount[t]
      BY <1>2, <3>1, <3>2, Zenon
    <3>4. \A u \in Allocators \ {t} : buffer'[u] = buffer[u]
      BY <1>2, <3>2, Zenon
    <3> QED BY <1>2, <3>2, <3>3, <3>4, ReturnStep
  <2>2. CASE target[t] # "buffer"
    <3>1. reservation[t] + amount[t] \in Sizes
      BY <1>1, <1>2, <1>4, <2>2 DEF CallInv, Sizes, Gives
    <3>2. /\ reservation' = [reservation EXCEPT ![t] = @ + amount[t]] /\ buffer' = buffer
          /\ CallReturns(t) /\ call[t] = "granted" /\ limit' = limit /\ used' = used /\ peak' = peak
          /\ most' = most
      BY <1>4, <2>2, Zenon DEF Gives
    <3>3. reservation' \in [Allocators -> Sizes] /\ reservation'[t] = reservation[t] + amount[t]
      BY <1>2, <3>1, <3>2, Zenon
    <3>4. \A u \in Allocators \ {t} : reservation'[u] = reservation[u]
      BY <1>2, <3>2, Zenon
    <3> QED BY <1>2, <3>2, <3>3, <3>4, ReturnStep
  <2> QED BY <2>1, <2>2
<1>5. CASE BackendFails(t)
  BY <1>2, <1>5, ReturnStep DEF BackendFails
<1>6. CASE Uncharge(t)
  BY <1>2, <1>6, ReturnStep DEF Uncharge
<1> QED BY <1>3, <1>4, <1>5, <1>6, Zenon

-----------------------------------------------------------------------------

\* Every step of every thread keeps the invariant.
THEOREM NextInv == IndInv /\ [BudgetNext]_budgetVars => IndInv'
<1> SUFFICES ASSUME IndInv, [BudgetNext]_budgetVars PROVE IndInv'
  OBVIOUS
<1>1. CASE UNCHANGED budgetVars
  BY <1>1 DEF budgetVars, IndInv, BudgetTypeOK, CallInv, Accounting, WithinLimit, PeakInv, Granted, Stands, Fits
<1>2. CASE ResetPeak
  BY <1>2, ResetPeakStep
<1>3. ASSUME NEW t \in Allocators, Step(t) PROVE IndInv'
  <2>0. /\ MaxSize \in Nat /\ buffer[t] \in 0 .. MaxSize /\ reservation[t] \in 0 .. MaxSize
    BY BudgetAssumption DEF IndInv, BudgetTypeOK, Sizes
  <2>1. ASSUME NEW size \in Sizes, AllocateCall(t, size) PROVE IndInv'
    <3>1. size - buffer[t] \in Sizes /\ buffer[t] + (size - buffer[t]) <= MaxSize
      BY <2>0, <2>1 DEF AllocateCall, Sizes
    <3> QED BY <2>1, <3>1, ChargeCallStep, Zenon DEF AllocateCall
  <2>2. ASSUME NEW size \in Sizes, ReserveCall(t, size) PROVE IndInv'
    <3>1. size - reservation[t] \in Sizes /\ reservation[t] + (size - reservation[t]) <= MaxSize
      BY <2>0, <2>2 DEF ReserveCall, Sizes
    <3> QED BY <2>2, <3>1, ChargeCallStep, Zenon DEF ReserveCall
  <2>3. CASE ChargeFails(t) \/ Gives(t) \/ BackendFails(t) \/ Uncharge(t)
    BY <2>3, EndStep
  <2>4. CASE PeakLoad(t) \/ PeakExchange(t)
    BY <2>4, PeakStep
  <2>5. ASSUME NEW size \in Sizes, BackendFrees(t, size) \/ Release(t, size) PROVE IndInv'
    BY <2>5, FreeStep
  <2> QED BY <1>3, <2>1, <2>2, <2>3, <2>4, <2>5 DEF Step
<1> QED BY <1>1, <1>2, <1>3, Zenon DEF BudgetNext

\* IndInv holds in every state a budget and the threads that use it can be in.
THEOREM Invariance == BudgetSpec => []IndInv
BY InitInv, NextInv, PTL DEF BudgetSpec

\* Every variable keeps its type, and the counter is never negative.
THEOREM TypeCorrect == BudgetSpec => []BudgetTypeOK
BY Invariance, PTL DEF IndInv

\* For any threads, sizes and limit: the counter is what the threads hold and
\* what their calls have in hand, so a failed call leaves nothing behind.
THEOREM Exact == BudgetSpec => []Accounting
BY Invariance, PTL DEF IndInv

\* Concurrent threads never pass the limit together.
THEOREM Bounded == BudgetSpec => []WithinLimit
BY Invariance, PTL DEF IndInv

\* The peak that max_memory() returns covers every grant that has reached it.
THEOREM PeakCorrect == BudgetSpec => []PeakCovers
<1>1. IndInv => PeakCovers
  BY DEF IndInv, PeakInv, PeakCovers
<1> QED BY <1>1, Invariance, PTL
=============================================================================
