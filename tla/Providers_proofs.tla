-------------------------- MODULE Providers_proofs --------------------------
(***************************************************************************)
(* Proofs about what goes out to providers: the budgets the processes      *)
(* share, and the evidence stages that search, read and label for a claim. *)
(***************************************************************************)
EXTENDS Evidence, Budget, FiniteSetTheorems, WellFoundedInduction, TLAPS

-----------------------------------------------------------------------------
(***************************************************************************)
(* The shared provider budgets, for any number of processes, buckets and   *)
(* slots, with and without quotas: calls that need a slot stay within the  *)
(* slots, and a pause a provider asks for is shortened by refunds alone.   *)
(***************************************************************************)

(* The inductive invariant *)

Charge == [Buckets -> Nat]
BucketT == [tokens : Int, held : Nat]
SlotT == [lease : Callers \cup {NoOne}, left : Nat]
PauseT == [left : Nat, net : Int]
CallerT == [pc : {"idle", "tokens", "acquire", "unslotted", "slot", "granted", "calling", "release", "block",
                  "admit", "admitted", "hold", "refund"},
            left : Nat, slot : Slots, tries : Nat, wait : Nat, owed : Charge]

TypeOK ==
  /\ bucket \in [Buckets -> BucketT] /\ slot \in [Slots -> SlotT]
  /\ caller \in [Callers -> CallerT] /\ pause \in [Buckets -> PauseT]

(* What holds of a caller record k of process c and the slot record s it   *)
(* names: the lease is its own until the call is over, and outlasts what   *)
(* is left of the start or of the call.                                    *)
LeaseOK(c, k, s) ==
  /\ k.pc = "granted" => s.lease = c /\ s.left >= request_timeout + (SlotGrace - MaxLag) + k.left
  /\ k.pc = "calling" => s.lease = c /\ s.left >= k.left + (SlotGrace - MaxLag)

LeasesOK == \A c \in Callers : LeaseOK(c, caller[c], slot[caller[c].slot])

(* What holds of a bucket k with the pause p: the hold lasts as long as    *)
(* the pause, or the balance owes the refill of the pause and whatever was *)
(* given back meanwhile.                                                   *)
Owing(k, p, rate) == k.tokens + p.left * rate <= -p.net
PauseOK(k, p, rate, capacity) ==
  /\ k.tokens <= capacity /\ p.net <= 0
  /\ p.left > 0 => k.held >= p.left \/ Owing(k, p, rate)

PausesOK == \A b \in Buckets : PauseOK(bucket[b], pause[b], per_tick[b], per_hour[b])

IInv == TypeOK /\ LeasesOK /\ PausesOK

-----------------------------------------------------------------------------
(* Lemmas *)

(* Refill over a pause: the only products the proofs need. *)
LEMMA ProductType ==
  ASSUME NEW l \in Nat, NEW r \in Nat
  PROVE  l * r \in Nat
  OBVIOUS

LEMMA ProductMonotone ==
  ASSUME NEW l \in Nat, NEW m \in Nat, NEW r \in Nat, l <= m
  PROVE  l * r <= m * r
  OBVIOUS

LEMMA ProductStep ==
  ASSUME NEW l \in Nat, l > 0, NEW r \in Nat
  PROVE  (l - 1) * r = l * r - r
  OBVIOUS

LEMMA IdleType == Idle \in CallerT /\ Idle.pc = "idle" /\ One \in Charge
  <1>1. 0 \in Slots BY BudgetAssumption DEF Slots
  <1>2. [b \in Buckets |-> 0] \in Charge /\ One \in Charge BY DEF Charge, One
  <1> QED BY <1>1, <1>2 DEF Idle, CallerT

LEMMA ChargesType ==
  ASSUME NEW costs \in Costs
  PROVE  Charges(costs) \in Charge
  <1>1. costs \in [Buckets -> Nat] /\ per_hour \in [Buckets -> Nat] BY BudgetAssumption
  <1> QED BY <1>1 DEF Charges, Charge, Lower

LEMMA SettledType ==
  ASSUME IInv, NEW c \in Callers, NEW b \in Buckets
  PROVE  /\ Settled(c, b) \in CallerT
         /\ Settled(c, b).pc \in {"idle", caller[c].pc}
  <1>1. caller[c] \in CallerT BY DEF IInv, TypeOK
  <1>2. [caller[c] EXCEPT !.owed[b] = 0] \in CallerT BY <1>1 DEF CallerT, Charge
  <1> QED BY <1>1, <1>2, IdleType DEF Settled, CallerT

(* A caller that has no slot puts nothing on the leases. *)
LEMMA LeasesOne ==
  ASSUME IInv, NEW c \in Callers, NEW k \in CallerT, k.pc \notin {"granted", "calling"},
         caller' = [caller EXCEPT ![c] = k], slot' = slot
  PROVE  LeasesOK' /\ caller' \in [Callers -> CallerT]
  <1>1. caller' \in [Callers -> CallerT] BY DEF IInv, TypeOK
  <1>2. ASSUME NEW i \in Callers PROVE LeaseOK(i, caller'[i], slot[caller'[i].slot])
    <2>1. CASE i = c
      <3>1. caller'[i] = k BY <2>1 DEF IInv, TypeOK
      <3> QED BY <3>1 DEF LeaseOK
    <2>2. CASE i # c
      <3>1. caller'[i] = caller[i] BY <2>2 DEF IInv, TypeOK
      <3> QED BY <3>1 DEF IInv, LeasesOK
    <2> QED BY <2>1, <2>2
  <1> QED BY <1>1, <1>2 DEF LeasesOK

(* The step of one caller that touches no shared row. *)
LEMMA CallerInv ==
  ASSUME IInv, NEW c \in Callers, NEW k \in CallerT, k.pc \notin {"granted", "calling"},
         caller' = [caller EXCEPT ![c] = k], UNCHANGED <<bucket, slot, pause>>
  PROVE  IInv'
  <1>1. LeasesOK' /\ caller' \in [Callers -> CallerT] BY LeasesOne
  <1>2. TypeOK' BY <1>1 DEF IInv, TypeOK
  <1>3. PausesOK' BY DEF IInv, PausesOK
  <1> QED BY <1>1, <1>2, <1>3 DEF IInv

(* All of a charge is taken or nothing: a bucket under a pause gives up    *)
(* units only beyond the refill it still owes.                             *)
LEMMA TakeOK ==
  ASSUME IInv, NEW charge \in Charge, Take(charge)
  PROVE  /\ PausesOK' /\ bucket' \in [Buckets -> BucketT] /\ pause' \in [Buckets -> PauseT]
  <1>1. ASSUME NEW b \in Buckets
        PROVE  /\ bucket'[b] \in BucketT /\ pause'[b] \in PauseT
               /\ PauseOK(bucket'[b], pause'[b], per_tick[b], per_hour[b])
    <2> DEFINE n == charge[b]
               k == bucket[b]
               p == pause[b]
    <2>1. /\ n \in Nat /\ k \in BucketT /\ p \in PauseT
          /\ per_tick[b] \in Nat /\ per_hour[b] \in Nat
      BY BudgetAssumption DEF IInv, TypeOK, Charge
    <2>2. PauseOK(k, p, per_tick[b], per_hour[b]) BY DEF IInv, PausesOK
    <2>3. n > 0 => k.held = 0 /\ k.tokens >= n
      <3> SUFFICES ASSUME n > 0 PROVE k.held = 0 /\ k.tokens >= n OBVIOUS
      <3>1. ~(k.held > 0) /\ ~(k.tokens + 0 * per_tick[b] < n) BY DEF Take, WaitPasses
      <3> HIDE DEF n, k
      <3> QED BY <2>1, <3>1 DEF BucketT
    <2>4. /\ bucket'[b] = [k EXCEPT !.tokens = @ - n]
          /\ pause'[b] = IF p.left > 0 THEN [p EXCEPT !.net = @ + 1 * n] ELSE p
      BY DEF Take, Moved
    <2> HIDE DEF n, k, p
    <2>5. /\ bucket'[b] \in BucketT /\ bucket'[b].tokens = k.tokens - n
          /\ bucket'[b].held = k.held
      <3>1. k.tokens - n \in Int BY <2>1 DEF BucketT
      <3> QED BY <2>1, <2>4, <3>1 DEF BucketT
    <2>6. /\ pause'[b] \in PauseT /\ pause'[b].left = p.left
          /\ pause'[b].net = IF p.left > 0 THEN p.net + n ELSE p.net
      <3>1. p.net + 1 * n \in Int /\ p.net + 1 * n = p.net + n BY <2>1 DEF PauseT
      <3> QED BY <2>1, <2>4, <3>1 DEF PauseT
    <2> DEFINE m == p.left * per_tick[b]
    <2>8. m \in Nat BY <2>1, ProductType DEF PauseT
    <2>9. p.left > 0 => k.held >= p.left \/ k.tokens + m <= -p.net
      BY <2>2 DEF PauseOK, Owing
    <2>10. k.tokens <= per_hour[b] /\ p.net <= 0 BY <2>2 DEF PauseOK
    <2> HIDE DEF m
    <2>11. /\ k.tokens - n <= per_hour[b] /\ pause'[b].net <= 0
           /\ p.left > 0 => k.held >= p.left \/ k.tokens - n + m <= -pause'[b].net
      BY <2>1, <2>3, <2>6, <2>8, <2>9, <2>10 DEF BucketT, PauseT
    <2> QED BY <2>5, <2>6, <2>11 DEF PauseOK, Owing, m
  <1>2. bucket' \in [Buckets -> BucketT]
    <2>1. bucket' = [b \in Buckets |-> bucket'[b]] BY DEF Take
    <2> QED BY <1>1, <2>1
  <1>3. pause' \in [Buckets -> PauseT]
    <2>1. pause' = [b \in Buckets |-> pause'[b]] BY DEF Take, Moved
    <2> QED BY <1>1, <2>1
  <1> QED BY <1>1, <1>2, <1>3 DEF PausesOK

LEMMA TakeUnitInv ==
  ASSUME IInv, NEW c \in Callers, TakeUnit(c)
  PROVE  IInv'
  <1> DEFINE k == [caller[c] EXCEPT !.pc = "slot", !.owed = One]
  <1>1. caller[c] \in CallerT BY DEF IInv, TypeOK
  <1>2. k \in CallerT /\ k.pc = "slot" BY <1>1, IdleType DEF CallerT
  <1>3. caller' = [caller EXCEPT ![c] = k] /\ slot' = slot
    BY <1>1 DEF TakeUnit, IInv, TypeOK, CallerT
  <1>4. Take(One) BY DEF TakeUnit
  <1>5. /\ PausesOK' /\ bucket' \in [Buckets -> BucketT] /\ pause' \in [Buckets -> PauseT]
    BY <1>4, IdleType, TakeOK
  <1> HIDE DEF k
  <1>6. LeasesOK' /\ caller' \in [Callers -> CallerT] BY <1>2, <1>3, LeasesOne
  <1> QED BY <1>3, <1>5, <1>6 DEF IInv, TypeOK

LEMMA AcquireInv ==
  ASSUME IInv, NEW c \in Callers, Acquire(c)
  PROVE  IInv'
  <1> DEFINE k == [caller[c] EXCEPT !.pc = "unslotted", !.left = 0]
  <1>1. caller[c] \in CallerT BY DEF IInv, TypeOK
  <1>2. k \in CallerT /\ k.pc = "unslotted" BY <1>1 DEF CallerT
  <1>3. caller' = [caller EXCEPT ![c] = k] /\ slot' = slot
    BY <1>1 DEF Acquire, IInv, TypeOK, CallerT
  <1>4. Take(One) BY DEF Acquire
  <1>5. /\ PausesOK' /\ bucket' \in [Buckets -> BucketT] /\ pause' \in [Buckets -> PauseT]
    BY <1>4, IdleType, TakeOK
  <1> HIDE DEF k
  <1>6. LeasesOK' /\ caller' \in [Callers -> CallerT] BY <1>2, <1>3, LeasesOne
  <1> QED BY <1>3, <1>5, <1>6 DEF IInv, TypeOK

LEMMA AdmitInv ==
  ASSUME IInv, NEW c \in Callers, Admit(c)
  PROVE  IInv'
  <1> DEFINE k == [caller[c] EXCEPT !.pc = "admitted"]
  <1>1. caller[c] \in CallerT /\ caller[c].owed \in Charge BY DEF IInv, TypeOK, CallerT
  <1>2. k \in CallerT /\ k.pc = "admitted" BY <1>1 DEF CallerT
  <1>3. caller' = [caller EXCEPT ![c] = k] /\ slot' = slot
    BY <1>1 DEF Admit, IInv, TypeOK, CallerT
  <1>4. Take(caller[c].owed) BY DEF Admit
  <1>5. /\ PausesOK' /\ bucket' \in [Buckets -> BucketT] /\ pause' \in [Buckets -> PauseT]
    BY <1>1, <1>4, TakeOK
  <1> HIDE DEF k
  <1>6. LeasesOK' /\ caller' \in [Callers -> CallerT] BY <1>2, <1>3, LeasesOne
  <1> QED BY <1>3, <1>5, <1>6 DEF IInv, TypeOK

-----------------------------------------------------------------------------
(* Steps of one process *)

LEMMA RequestInv ==
  ASSUME IInv, NEW c \in Callers,
         \/ Request(c) \/ LimitedUnit(c) \/ LimitedAcquire(c) \/ GiveUp(c)
         \/ LimitedAdmit(c) \/ Refuse(c) \/ Dies(c)
  PROVE  IInv'
  <1>1. caller[c] \in CallerT BY DEF IInv, TypeOK
  <1> DEFINE k == [Idle EXCEPT !.pc = Attempt, !.left = max_wait]
             r == [caller[c] EXCEPT !.pc = "refund"]
  <1>2. k \in CallerT /\ k.pc \in {"tokens", "acquire"}
    BY IdleType, BudgetAssumption DEF CallerT, Attempt
  <1>3. r \in CallerT /\ r.pc = "refund" BY <1>1 DEF CallerT
  <1>4. Request(c) => caller' = [caller EXCEPT ![c] = k] BY DEF Request
  <1>5. LimitedUnit(c) \/ LimitedAcquire(c) \/ LimitedAdmit(c) \/ Dies(c)
          => caller' = [caller EXCEPT ![c] = Idle]
    BY DEF LimitedUnit, LimitedAcquire, LimitedAdmit, Dies
  <1>6. GiveUp(c) \/ Refuse(c) => caller' = [caller EXCEPT ![c] = r]
    BY <1>1 DEF GiveUp, Refuse, IInv, TypeOK
  <1>7. UNCHANGED <<bucket, slot, pause>>
    BY DEF Request, LimitedUnit, LimitedAcquire, GiveUp, LimitedAdmit, Refuse, Dies
  <1> HIDE DEF k, r
  <1> QED BY <1>2, <1>3, <1>4, <1>5, <1>6, <1>7, IdleType, CallerInv

LEMMA AskInv ==
  ASSUME IInv, NEW c \in Callers, NEW costs \in Costs, Ask(c, costs)
  PROVE  IInv'
  <1> DEFINE k == [Idle EXCEPT !.pc = "admit", !.owed = Charges(costs)]
  <1>1. k \in CallerT /\ k.pc = "admit" BY IdleType, ChargesType DEF CallerT
  <1>2. caller' = [caller EXCEPT ![c] = k] /\ UNCHANGED <<bucket, slot, pause>> BY DEF Ask
  <1> HIDE DEF k
  <1> QED BY <1>1, <1>2, CallerInv

LEMMA SendInv ==
  ASSUME IInv, NEW c \in Callers, Dispatch(c)
  PROVE  IInv'
  <1>1. caller[c] \in CallerT BY DEF IInv, TypeOK
  <1>2. UNCHANGED <<bucket, slot, pause>> BY DEF Dispatch
  <1>3. CASE caller' = [caller EXCEPT ![c] = Idle] BY <1>2, <1>3, IdleType, CallerInv
  <1>4. ASSUME NEW seconds \in RetryAfter,
               caller' = [caller EXCEPT ![c].pc = "hold", ![c].wait = seconds]
        PROVE  IInv'
    <2> DEFINE k == [caller[c] EXCEPT !.pc = "hold", !.wait = seconds]
    <2>1. k \in CallerT /\ k.pc = "hold" BY <1>1, BudgetAssumption DEF CallerT
    <2>2. caller' = [caller EXCEPT ![c] = k] BY <1>1, <1>4 DEF IInv, TypeOK, CallerT
    <2> HIDE DEF k
    <2> QED BY <1>2, <2>1, <2>2, CallerInv
  <1> QED BY <1>3, <1>4 DEF Dispatch

LEMMA AnswerUnslottedInv ==
  ASSUME IInv, NEW c \in Callers, AnswerUnslotted(c)
  PROVE  IInv'
  <1>1. caller[c] \in CallerT BY DEF IInv, TypeOK
  <1>2. UNCHANGED <<bucket, slot, pause>> BY DEF AnswerUnslotted
  <1>3. CASE caller' = [caller EXCEPT ![c] = Idle] BY <1>2, <1>3, IdleType, CallerInv
  <1>4. ASSUME NEW seconds \in RetryAfter,
               caller' = [caller EXCEPT ![c].pc = "block", ![c].wait = seconds, ![c].tries = @ + 1]
        PROVE  IInv'
    <2> DEFINE n == caller[c].tries + 1
               k == [caller[c] EXCEPT !.pc = "block", !.wait = seconds, !.tries = n]
    <2>1. n \in Nat /\ seconds \in Nat BY <1>1, BudgetAssumption DEF CallerT
    <2>2. caller' = [caller EXCEPT ![c] = k] BY <1>1, <1>4 DEF IInv, TypeOK, CallerT
    <2> HIDE DEF n
    <2>3. k \in CallerT /\ k.pc = "block" BY <1>1, <2>1 DEF CallerT
    <2> HIDE DEF k
    <2> QED BY <1>2, <2>2, <2>3, CallerInv
  <1> QED BY <1>3, <1>4 DEF AnswerUnslotted

LEMMA AnswerInv ==
  ASSUME IInv, NEW c \in Callers, Answer(c)
  PROVE  IInv'
  <1>1. caller[c] \in CallerT BY DEF IInv, TypeOK
  <1>2. UNCHANGED <<bucket, slot, pause>> BY DEF Answer
  <1> DEFINE K(w, t) == [caller[c] EXCEPT !.pc = "release", !.left = 0, !.wait = w, !.tries = t]
  <1>3. PICK w \in Nat, t \in Nat : caller' = [caller EXCEPT ![c] = K(w, t)]
    <2>1. CASE caller' = [caller EXCEPT ![c].pc = "release", ![c].left = 0,
                                        ![c].wait = 0, ![c].tries = 0]
      <3>1. caller' = [caller EXCEPT ![c] = K(0, 0)] BY <1>1, <2>1 DEF IInv, TypeOK, CallerT
      <3> HIDE DEF K
      <3> QED BY <3>1
    <2>2. ASSUME NEW seconds \in RetryAfter,
                 caller' = [caller EXCEPT ![c].pc = "release", ![c].left = 0,
                                          ![c].wait = seconds, ![c].tries = @ + 1]
          PROVE  \E w \in Nat, t \in Nat : caller' = [caller EXCEPT ![c] = K(w, t)]
      <3>1. caller' = [caller EXCEPT ![c] = K(seconds, caller[c].tries + 1)]
        BY <1>1, <2>2 DEF IInv, TypeOK, CallerT
      <3>2. seconds \in Nat /\ caller[c].tries + 1 \in Nat
        BY <1>1, BudgetAssumption DEF CallerT
      <3> HIDE DEF K
      <3> QED BY <3>1, <3>2
    <2> QED BY <2>1, <2>2 DEF Answer
  <1>4. K(w, t) \in CallerT /\ K(w, t).pc = "release" BY <1>1 DEF CallerT
  <1> HIDE DEF K
  <1> QED BY <1>2, <1>3, <1>4, CallerInv

LEMMA CancelledInv ==
  ASSUME IInv, NEW c \in Callers, Cancelled(c)
  PROVE  IInv'
  <1> DEFINE k == [caller[c] EXCEPT !.pc = IF At(c, "slot") THEN "refund" ELSE "release",
                                    !.left = 0, !.tries = 0]
  <1>1. caller[c] \in CallerT BY DEF IInv, TypeOK
  <1>2. k \in CallerT /\ k.pc \in {"refund", "release"} BY <1>1 DEF CallerT
  <1>3. caller' = [caller EXCEPT ![c] = k] /\ UNCHANGED <<bucket, slot, pause>>
    BY DEF Cancelled
  <1> HIDE DEF k
  <1> QED BY <1>2, <1>3, CallerInv

(* The lease that a process starts its call under outlasts the deadline.   *)
LEMMA CallInv ==
  ASSUME IInv, NEW c \in Callers, Call(c)
  PROVE  IInv'
  <1> DEFINE k == [caller[c] EXCEPT !.pc = "calling", !.left = request_timeout,
                                    !.owed = [b \in Buckets |-> 0]]
  <1>1. caller[c] \in CallerT /\ caller[c].pc = "granted" BY DEF IInv, TypeOK, Call, At
  <1>2. [b \in Buckets |-> 0] \in Charge /\ request_timeout \in Nat
    BY BudgetAssumption DEF Charge
  <1>3. k \in CallerT /\ k.pc = "calling" /\ k.left = request_timeout /\ k.slot = caller[c].slot
    BY <1>1, <1>2 DEF CallerT
  <1>4. caller' = [caller EXCEPT ![c] = k] /\ UNCHANGED <<bucket, slot, pause>>
    BY <1>1 DEF Call, IInv, TypeOK, CallerT
  <1> HIDE DEF k
  <1>5. TypeOK' BY <1>3, <1>4 DEF IInv, TypeOK
  <1>6. LeasesOK'
    <2> SUFFICES ASSUME NEW i \in Callers PROVE LeaseOK(i, caller'[i], slot[caller'[i].slot])
      BY <1>4 DEF LeasesOK
    <2>1. CASE i # c
      <3>1. caller'[i] = caller[i] BY <1>4, <2>1 DEF IInv, TypeOK
      <3> QED BY <3>1 DEF IInv, LeasesOK
    <2>2. CASE i = c
      <3>1. caller'[c] = k BY <1>4 DEF IInv, TypeOK
      <3>2. LeaseOK(c, caller[c], slot[caller[c].slot]) BY DEF IInv, LeasesOK
      <3>3. /\ caller[c].left \in Nat /\ slot[caller[c].slot].left \in Nat
            /\ request_timeout \in Nat /\ SlotGrace \in Nat /\ MaxLag \in Nat
        BY <1>1, BudgetAssumption DEF CallerT, IInv, TypeOK, SlotT
      <3> QED BY <1>1, <1>3, <2>2, <3>1, <3>2, <3>3 DEF LeaseOK
    <2> QED BY <2>1, <2>2
  <1>7. PausesOK' BY <1>4 DEF IInv, PausesOK
  <1> QED BY <1>5, <1>6, <1>7 DEF IInv

(* Only an expired lease is taken over, and no call in flight has one.     *)
LEMMA TakeSlotInv ==
  ASSUME IInv, NEW c \in Callers, TakeSlot(c)
  PROVE  IInv'
  <1>1. PICK s \in FreeSlots :
          /\ slot' = [slot EXCEPT ![s] = [lease |-> c, left |-> request_timeout + SlotGrace]]
          /\ caller' = [caller EXCEPT ![c].pc = "granted", ![c].slot = s, ![c].left = MaxLag]
    BY DEF TakeSlot
  <1> DEFINE k == [caller[c] EXCEPT !.pc = "granted", !.slot = s, !.left = MaxLag]
             l == [lease |-> c, left |-> request_timeout + SlotGrace]
  <1>2. /\ caller[c] \in CallerT /\ s \in Slots /\ slot[s].left = 0
        /\ request_timeout \in Nat /\ SlotGrace \in Nat /\ MaxLag \in Nat /\ SlotGrace - MaxLag > 0
    BY BudgetAssumption DEF IInv, TypeOK, FreeSlots
  <1>3. k \in CallerT /\ k.pc = "granted" /\ k.slot = s /\ k.left = MaxLag BY <1>2 DEF CallerT
  <1>4. l \in SlotT /\ l.lease = c /\ l.left = request_timeout + SlotGrace BY <1>2 DEF SlotT
  <1>5. /\ caller' = [caller EXCEPT ![c] = k] /\ slot' = [slot EXCEPT ![s] = l]
        /\ UNCHANGED <<bucket, pause>>
    BY <1>1, <1>2 DEF TakeSlot, IInv, TypeOK, CallerT
  <1> HIDE DEF k, l
  <1>6. TypeOK' BY <1>2, <1>3, <1>4, <1>5 DEF IInv, TypeOK
  <1>7. LeasesOK'
    <2> SUFFICES ASSUME NEW i \in Callers PROVE LeaseOK(i, caller'[i], slot'[caller'[i].slot])
      BY DEF LeasesOK
    <2>1. CASE i = c
      <3>1. caller'[i] = k /\ slot'[k.slot] = l BY <1>2, <1>3, <1>5, <2>1 DEF IInv, TypeOK
      <3> QED BY <1>2, <1>3, <1>4, <2>1, <3>1 DEF LeaseOK
    <2>2. CASE i # c
      <3>1. caller'[i] = caller[i] /\ caller[i].slot \in Slots /\ caller[i].left \in Nat
        BY <1>5, <2>2 DEF IInv, TypeOK, CallerT
      <3>2. LeaseOK(i, caller[i], slot[caller[i].slot]) BY DEF IInv, LeasesOK
      <3>3. CASE caller[i].slot = s
        <4>1. caller[i].pc \notin {"granted", "calling"} BY <1>2, <3>1, <3>2, <3>3 DEF LeaseOK
        <4> QED BY <3>1, <4>1 DEF LeaseOK
      <3>4. CASE caller[i].slot # s
        <4>1. slot'[caller[i].slot] = slot[caller[i].slot] BY <1>5, <3>1, <3>4 DEF IInv, TypeOK
        <4> QED BY <3>1, <3>2, <4>1
      <3> QED BY <3>3, <3>4
    <2> QED BY <2>1, <2>2
  <1>8. PausesOK' BY <1>5 DEF IInv, PausesOK
  <1> QED BY <1>6, <1>7, <1>8 DEF IInv

(* A late release leaves the lease of a successor alone. *)
LEMMA ReleaseInv ==
  ASSUME IInv, NEW c \in Callers, Release(c)
  PROVE  IInv'
  <1> DEFINE k == IF caller[c].tries > 0 THEN [caller[c] EXCEPT !.pc = "block"] ELSE Idle
  <1>1. caller[c] \in CallerT /\ caller[c].slot \in Slots BY DEF IInv, TypeOK, CallerT
  <1>2. k \in CallerT /\ k.pc \in {"block", "idle"} BY <1>1, IdleType DEF CallerT
  <1>3. /\ caller' = [caller EXCEPT ![c] = k] /\ slot' = Released(c) /\ UNCHANGED <<bucket, pause>>
    BY <1>1 DEF Release, IInv, TypeOK
  <1> HIDE DEF k
  <1>4. Free \in SlotT BY DEF Free, SlotT
  <1>5. slot' \in [Slots -> SlotT] BY <1>3, <1>4 DEF Released, IInv, TypeOK
  <1>6. TypeOK' BY <1>2, <1>3, <1>5 DEF IInv, TypeOK
  <1>7. LeasesOK'
    <2> SUFFICES ASSUME NEW i \in Callers PROVE LeaseOK(i, caller'[i], slot'[caller'[i].slot])
      BY DEF LeasesOK
    <2>1. CASE i = c
      <3>1. caller'[i] = k BY <1>3, <2>1 DEF IInv, TypeOK
      <3> QED BY <1>2, <3>1 DEF LeaseOK
    <2>2. CASE i # c
      <3>1. caller'[i] = caller[i] /\ caller[i].slot \in Slots
        BY <1>3, <2>2 DEF IInv, TypeOK, CallerT
      <3>2. LeaseOK(i, caller[i], slot[caller[i].slot]) BY DEF IInv, LeasesOK
      <3>3. slot[caller[i].slot].lease = i => slot'[caller[i].slot] = slot[caller[i].slot]
        BY <1>1, <1>3, <2>2, <3>1 DEF Released, IInv, TypeOK
      <3> QED BY <3>1, <3>2, <3>3 DEF LeaseOK
    <2> QED BY <2>1, <2>2
  <1>8. PausesOK' BY <1>3 DEF IInv, PausesOK
  <1> QED BY <1>6, <1>7, <1>8 DEF IInv

-----------------------------------------------------------------------------
(* Steps that pause a bucket or give back to it *)

(* One bucket changes. *)
LEMMA PausesOne ==
  ASSUME IInv, NEW b \in Buckets, NEW k \in BucketT, NEW p \in PauseT,
         bucket' = [bucket EXCEPT ![b] = k], pause' = [pause EXCEPT ![b] = p],
         PauseOK(k, p, per_tick[b], per_hour[b])
  PROVE  /\ PausesOK' /\ bucket' \in [Buckets -> BucketT] /\ pause' \in [Buckets -> PauseT]
  <1>1. bucket' \in [Buckets -> BucketT] /\ pause' \in [Buckets -> PauseT] BY DEF IInv, TypeOK
  <1>2. ASSUME NEW x \in Buckets
        PROVE  PauseOK(bucket'[x], pause'[x], per_tick[x], per_hour[x])
    <2>1. CASE x = b
      <3>1. bucket'[x] = k /\ pause'[x] = p BY <2>1 DEF IInv, TypeOK
      <3> QED BY <2>1, <3>1
    <2>2. CASE x # b
      <3>1. bucket'[x] = bucket[x] /\ pause'[x] = pause[x] BY <2>2 DEF IInv, TypeOK
      <3> QED BY <3>1 DEF IInv, PausesOK
    <2> QED BY <2>1, <2>2
  <1> QED BY <1>1, <1>2 DEF PausesOK

(* What is known of a bucket, with the refill of its pause as m. *)
LEMMA BucketFacts ==
  ASSUME IInv, NEW b \in Buckets
  PROVE  /\ bucket[b] \in BucketT /\ bucket[b].tokens \in Int /\ bucket[b].held \in Nat
         /\ pause[b] \in PauseT /\ pause[b].left \in Nat /\ pause[b].net \in Int
         /\ per_tick[b] \in Nat /\ per_hour[b] \in Nat
         /\ bucket[b].tokens <= per_hour[b] /\ pause[b].net <= 0
         /\ pause[b].left * per_tick[b] \in Nat
         /\ pause[b].left > 0 =>
              \/ bucket[b].held >= pause[b].left
              \/ bucket[b].tokens + pause[b].left * per_tick[b] <= -pause[b].net
  <1>1. /\ bucket[b] \in BucketT /\ bucket[b].tokens \in Int /\ bucket[b].held \in Nat
        /\ pause[b] \in PauseT /\ pause[b].left \in Nat /\ pause[b].net \in Int
        /\ per_tick[b] \in Nat /\ per_hour[b] \in Nat
    BY BudgetAssumption DEF IInv, TypeOK, BucketT, PauseT
  <1>2. PauseOK(bucket[b], pause[b], per_tick[b], per_hour[b]) BY DEF IInv, PausesOK
  <1>3. pause[b].left * per_tick[b] \in Nat BY <1>1, ProductType
  <1> QED BY <1>1, <1>2, <1>3 DEF PauseOK, Owing

(* A pause of some seconds is in force once the balance owes its refill,   *)
(* or the hold lasts as long; a longer one stays in force.                 *)
LEMMA PausedOK ==
  ASSUME IInv, NEW b \in Buckets, NEW seconds \in Nat, NEW k \in BucketT,
         bucket' = [bucket EXCEPT ![b] = k], Paused(b, seconds),
         k.tokens <= bucket[b].tokens, k.held >= bucket[b].held,
         k.held >= seconds \/ k.tokens + seconds * per_tick[b] <= 0
  PROVE  /\ PausesOK' /\ bucket' \in [Buckets -> BucketT] /\ pause' \in [Buckets -> PauseT]
  <1> DEFINE q == pause[b]
             p == [left |-> IF seconds > q.left THEN seconds ELSE q.left,
                   net |-> IF q.left > 0 THEN q.net ELSE 0]
             m == p.left * per_tick[b]
  <1>1. /\ q.left \in Nat /\ q.net \in Int /\ q.net <= 0 /\ per_tick[b] \in Nat
        /\ per_hour[b] \in Nat /\ bucket[b].tokens \in Int /\ bucket[b].held \in Nat
        /\ bucket[b].tokens <= per_hour[b]
        /\ q.left > 0 => \/ bucket[b].held >= q.left
                         \/ bucket[b].tokens + q.left * per_tick[b] <= -q.net
        /\ q.left * per_tick[b] \in Nat
    BY BucketFacts
  <1>2. k.tokens \in Int /\ k.held \in Nat BY DEF BucketT
  <1>3. pause' = [pause EXCEPT ![b] = p] BY DEF Paused, IInv, TypeOK
  <1>4. p \in PauseT /\ p.left \in Nat /\ p.net \in Int /\ p.net <= 0 BY <1>1 DEF PauseT
  <1>5. m \in Nat BY <1>1, <1>4, ProductType
  <1>6. seconds * per_tick[b] \in Nat BY <1>1, ProductType
  <1>7. p.left > 0 => k.held >= p.left \/ k.tokens + m <= -p.net
    <2>1. CASE seconds >= q.left
      <3>1. p.left = seconds BY <1>1, <2>1
      <3>2. m = seconds * per_tick[b] BY <3>1
      <3> HIDE DEF p, m
      <3> QED BY <1>2, <1>4, <1>5, <3>1, <3>2
    <2>2. CASE seconds < q.left
      <3>1. p.left = q.left /\ p.net = q.net /\ q.left > 0 BY <1>1, <2>2
      <3>2. m = q.left * per_tick[b] BY <3>1
      <3> HIDE DEF p, m, q
      <3> QED BY <1>1, <1>2, <3>1, <3>2
    <2> QED BY <1>1, <2>1, <2>2
  <1>8. k.tokens <= per_hour[b] BY <1>1, <1>2
  <1>9. PauseOK(k, p, per_tick[b], per_hour[b])
    <2> HIDE DEF p
    <2> QED BY <1>4, <1>7, <1>8 DEF PauseOK, Owing
  <1> HIDE DEF p
  <1> QED BY <1>3, <1>4, <1>9, PausesOne

LEMMA BlockInv ==
  ASSUME IInv, NEW c \in Callers, Block(c)
  PROVE  IInv'
  <1> DEFINE w == caller[c].wait
             k == [bucket[Shared] EXCEPT !.tokens = Lower(@, -w * per_tick[Shared])]
             r == IF caller[c].tries = RATE_LIMIT_ATTEMPTS THEN Idle
                  ELSE [caller[c] EXCEPT !.pc = Attempt, !.left = max_wait, !.wait = 0]
  <1>1. caller[c] \in CallerT /\ w \in Nat /\ Shared \in Buckets
    BY BudgetAssumption DEF IInv, TypeOK, CallerT
  <1>2. r \in CallerT /\ r.pc \in {"idle", "tokens", "acquire"}
    BY <1>1, IdleType, BudgetAssumption DEF CallerT, Attempt
  <1>3. caller' = [caller EXCEPT ![c] = r] /\ slot' = slot BY DEF Block, IInv, TypeOK
  <1>4. bucket' = [bucket EXCEPT ![Shared] = k] /\ Paused(Shared, w)
    BY <1>1 DEF Block, Blocked, IInv, TypeOK
  <1>5. /\ k \in BucketT /\ k.held = bucket[Shared].held
        /\ k.tokens <= bucket[Shared].tokens /\ k.tokens + w * per_tick[Shared] <= 0
    <2> DEFINE m == w * per_tick[Shared]
    <2>1. /\ bucket[Shared] \in BucketT /\ bucket[Shared].tokens \in Int
          /\ per_tick[Shared] \in Nat
      BY <1>1, BucketFacts
    <2>2. m \in Nat /\ -w * per_tick[Shared] = -m BY <1>1, <2>1, ProductType
    <2>3. k.tokens = Lower(bucket[Shared].tokens, -m) /\ k.held = bucket[Shared].held
      BY <2>1, <2>2 DEF BucketT
    <2> HIDE DEF m
    <2>4. /\ Lower(bucket[Shared].tokens, -m) \in Int
          /\ Lower(bucket[Shared].tokens, -m) <= bucket[Shared].tokens
          /\ Lower(bucket[Shared].tokens, -m) + m <= 0
      BY <2>1, <2>2 DEF Lower
    <2>5. k \in BucketT BY <2>1, <2>2, <2>4 DEF BucketT
    <2> HIDE DEF k
    <2> QED BY <2>3, <2>4, <2>5 DEF m
  <1>6. k.held >= bucket[Shared].held
    <2>1. bucket[Shared].held \in Nat BY <1>1, BucketFacts
    <2> HIDE DEF k
    <2> QED BY <1>5, <2>1
  <1> HIDE DEF k, r, w
  <1>7. /\ PausesOK' /\ bucket' \in [Buckets -> BucketT] /\ pause' \in [Buckets -> PauseT]
    BY <1>1, <1>4, <1>5, <1>6, PausedOK
  <1>8. LeasesOK' /\ caller' \in [Callers -> CallerT] BY <1>2, <1>3, LeasesOne
  <1> QED BY <1>3, <1>7, <1>8 DEF IInv, TypeOK

LEMMA HoldInv ==
  ASSUME IInv, NEW c \in Callers, NEW b \in Buckets, Hold(c, b)
  PROVE  IInv'
  <1> DEFINE w == caller[c].wait
             k == [bucket[b] EXCEPT !.held = IF w > @ THEN w ELSE @]
  <1>1. caller[c] \in CallerT /\ w \in Nat BY DEF IInv, TypeOK, CallerT
  <1>2. /\ Settled(c, b) \in CallerT /\ Settled(c, b).pc \in {"idle", "hold"}
    BY SettledType DEF Hold, At
  <1>3. caller' = [caller EXCEPT ![c] = Settled(c, b)] /\ slot' = slot BY DEF Hold
  <1>4. bucket' = [bucket EXCEPT ![b] = k] /\ Paused(b, w)
    BY DEF Hold, Held, IInv, TypeOK
  <1>5. /\ k \in BucketT /\ k.tokens <= bucket[b].tokens /\ k.held >= bucket[b].held
        /\ k.held >= w
    <2>1. bucket[b] \in BucketT /\ bucket[b].tokens \in Int /\ bucket[b].held \in Nat
      BY BucketFacts
    <2> QED BY <1>1, <2>1 DEF BucketT
  <1> HIDE DEF k, w
  <1>6. /\ PausesOK' /\ bucket' \in [Buckets -> BucketT] /\ pause' \in [Buckets -> PauseT]
    BY <1>1, <1>4, <1>5, PausedOK
  <1>7. LeasesOK' /\ caller' \in [Callers -> CallerT] BY <1>2, <1>3, LeasesOne
  <1> QED BY <1>3, <1>6, <1>7 DEF IInv, TypeOK

(* Units that come back shorten the pause by what they are worth. *)
LEMMA RefundInv ==
  ASSUME IInv, NEW c \in Callers, NEW b \in Buckets, Refund(c, b)
  PROVE  IInv'
  <1> DEFINE n == caller[c].owed[b]
             q == pause[b]
             k == [bucket[b] EXCEPT !.tokens = Lower(per_hour[b], @ + n)]
             p == IF q.left > 0 THEN [q EXCEPT !.net = @ - n] ELSE q
             m == q.left * per_tick[b]
  <1>1. caller[c] \in CallerT /\ n \in Nat BY DEF IInv, TypeOK, CallerT, Charge
  <1>2. /\ Settled(c, b) \in CallerT /\ Settled(c, b).pc \in {"idle", "refund"}
    BY SettledType DEF Refund, At
  <1>3. caller' = [caller EXCEPT ![c] = Settled(c, b)] /\ slot' = slot BY DEF Refund
  <1>4. bucket' = [bucket EXCEPT ![b] = k] BY DEF Refund, GiveBack, IInv, TypeOK
  <1>5. /\ bucket[b] \in BucketT /\ bucket[b].tokens \in Int /\ bucket[b].held \in Nat
        /\ q \in PauseT /\ q.left \in Nat /\ q.net \in Int
        /\ per_hour[b] \in Nat /\ q.net <= 0 /\ m \in Nat
        /\ q.left > 0 => bucket[b].held >= q.left \/ bucket[b].tokens + m <= -q.net
    BY BucketFacts
  <1>6. pause' = [pause EXCEPT ![b] = p]
    <2>1. \A x \in Buckets : pause[x].net \in Int /\ pause[x] \in PauseT BY BucketFacts
    <2>2. pause' = [x \in Buckets |->
            IF pause[x].left > 0
            THEN [pause[x] EXCEPT !.net = @ + (-1) * (IF x = b THEN n ELSE 0)]
            ELSE pause[x]]
      BY DEF Refund, Moved
    <2>3. \A x \in Buckets : x # b => pause[x].net + (-1) * (IF x = b THEN n ELSE 0) = pause[x].net
      BY <2>1
    <2>4. q.net + (-1) * n = q.net - n BY <1>1, <1>5
    <2>5. \A x \in Buckets : [pause[x] EXCEPT !.net = pause[x].net] = pause[x]
      BY <2>1 DEF PauseT
    <2>6. \A x \in Buckets : pause'[x] = IF x = b THEN p ELSE pause[x]
      BY <2>2, <2>3, <2>4, <2>5
    <2> HIDE DEF p
    <2> QED BY <2>2, <2>6 DEF IInv, TypeOK
  <1>7. /\ p \in PauseT /\ p.left = q.left
        /\ p.net = IF q.left > 0 THEN q.net - n ELSE q.net
    <2>1. q.net - n \in Int BY <1>1, <1>5
    <2> HIDE DEF q, n
    <2> QED BY <1>5, <2>1 DEF PauseT
  <1>8. /\ k \in BucketT /\ k.held = bucket[b].held
        /\ k.tokens <= per_hour[b] /\ k.tokens <= bucket[b].tokens + n /\ k.tokens \in Int
    <2>1. /\ Lower(per_hour[b], bucket[b].tokens + n) \in Int
          /\ Lower(per_hour[b], bucket[b].tokens + n) <= per_hour[b]
          /\ Lower(per_hour[b], bucket[b].tokens + n) <= bucket[b].tokens + n
      BY <1>1, <1>5 DEF Lower
    <2> QED BY <1>5, <2>1 DEF BucketT
  <1> HIDE DEF k, p, q, n, m
  <1>9. /\ p.net <= 0
        /\ p.left > 0 => k.held >= p.left \/ k.tokens + m <= -p.net
    BY <1>1, <1>5, <1>7, <1>8
  <1>10. PauseOK(k, p, per_tick[b], per_hour[b])
    BY <1>7, <1>8, <1>9 DEF PauseOK, Owing, m
  <1>11. /\ PausesOK' /\ bucket' \in [Buckets -> BucketT] /\ pause' \in [Buckets -> PauseT]
    BY <1>4, <1>6, <1>7, <1>8, <1>10, PausesOne
  <1>12. LeasesOK' /\ caller' \in [Callers -> CallerT] BY <1>2, <1>3, LeasesOne
  <1> QED BY <1>3, <1>11, <1>12 DEF IInv, TypeOK

-----------------------------------------------------------------------------
(* Time *)

LEMMA TickInv ==
  ASSUME IInv, Tick
  PROVE  IInv'
  <1>1. ASSUME NEW s \in Slots
        PROVE  /\ slot'[s] \in SlotT
               /\ slot[s].left > 1 => slot'[s].lease = slot[s].lease
                                      /\ slot'[s].left = slot[s].left - 1
    <2>1. slot'[s] = IF slot[s].left > 1 THEN [slot[s] EXCEPT !.left = @ - 1] ELSE Free
      BY DEF Tick
    <2>2. slot[s] \in SlotT /\ Free \in SlotT BY DEF IInv, TypeOK, Free, SlotT
    <2>3. slot[s].left > 1 => slot[s].left - 1 \in Nat BY <2>2 DEF SlotT
    <2> QED BY <2>1, <2>2, <2>3 DEF SlotT
  <1>2. ASSUME NEW c \in Callers
        PROVE  /\ caller'[c] \in CallerT /\ caller'[c].pc = caller[c].pc
               /\ caller'[c].slot = caller[c].slot
               /\ caller[c].left > 0 => caller'[c].left = caller[c].left - 1
    <2>1. caller'[c] = [caller[c] EXCEPT !.left = Positive(@ - 1)] BY DEF Tick
    <2>2. caller[c] \in CallerT /\ caller[c].left \in Nat BY DEF IInv, TypeOK, CallerT
    <2>3. /\ Positive(caller[c].left - 1) \in Nat
          /\ caller[c].left > 0 => Positive(caller[c].left - 1) = caller[c].left - 1
      BY <2>2 DEF Positive
    <2> QED BY <2>1, <2>2, <2>3 DEF CallerT
  <1>3. ASSUME NEW b \in Buckets
        PROVE  /\ bucket'[b] \in BucketT /\ pause'[b] \in PauseT
               /\ PauseOK(bucket'[b], pause'[b], per_tick[b], per_hour[b])
    <2> DEFINE k == bucket[b]
               q == pause[b]
               t == per_tick[b]
               h == Positive(k.held - 1)
               l == Positive(q.left - 1)
               v == Lower(per_hour[b], k.tokens + t)
               n == IF q.left > 1 THEN q.net ELSE 0
    <2>1. /\ k \in BucketT /\ k.tokens \in Int /\ k.held \in Nat
          /\ q.left \in Nat /\ q.net \in Int /\ t \in Nat /\ per_hour[b] \in Nat
          /\ q.net <= 0 /\ q.left * t \in Nat
          /\ q.left > 0 => k.held >= q.left \/ k.tokens + q.left * t <= -q.net
      BY BucketFacts
    <2>2. /\ bucket'[b] = [tokens |-> v, held |-> h]
          /\ pause'[b] = [left |-> l, net |-> n]
      BY DEF Tick
    <2> HIDE DEF k, q, t
    <2>3. /\ h \in Nat /\ l \in Nat /\ v \in Int /\ n \in Int
          /\ n <= 0 /\ v <= per_hour[b] /\ v <= k.tokens + t
          /\ l > 0 => l = q.left - 1 /\ n = q.net /\ q.left > 0
          /\ k.held > 0 => h = k.held - 1
      BY <2>1 DEF Positive, Lower
    <2>4. l > 0 => h >= l \/ v + l * t <= -n
      <3> SUFFICES ASSUME l > 0 PROVE h >= l \/ v + l * t <= -n OBVIOUS
      <3> HIDE DEF h, l, v, n
      <3>1. (q.left - 1) * t = q.left * t - t BY <2>1, <2>3, ProductStep
      <3> DEFINE m == q.left * t
      <3>2. l * t = m - t /\ m \in Nat BY <2>1, <2>3, <3>1
      <3>3. k.held >= q.left \/ k.tokens + m <= -q.net BY <2>1, <2>3
      <3> HIDE DEF m
      <3>4. CASE k.held >= q.left BY <2>1, <2>3, <3>4
      <3>5. CASE k.tokens + m <= -q.net BY <2>1, <2>3, <3>2, <3>5
      <3> QED BY <3>3, <3>4, <3>5
    <2> HIDE DEF h, l, v, n
    <2> QED BY <2>2, <2>3, <2>4 DEF BucketT, PauseT, PauseOK, Owing, t
  <1>4. TypeOK'
    <2>1. slot' = [s \in Slots |-> slot'[s]] /\ caller' = [c \in Callers |-> caller'[c]]
          /\ bucket' = [b \in Buckets |-> bucket'[b]] /\ pause' = [b \in Buckets |-> pause'[b]]
      BY DEF Tick
    <2>2. slot' \in [Slots -> SlotT] BY <1>1, <2>1
    <2>3. caller' \in [Callers -> CallerT] BY <1>2, <2>1
    <2>4. bucket' \in [Buckets -> BucketT] /\ pause' \in [Buckets -> PauseT] BY <1>3, <2>1
    <2> QED BY <2>2, <2>3, <2>4 DEF TypeOK
  <1>5. LeasesOK'
    <2> SUFFICES ASSUME NEW c \in Callers PROVE LeaseOK(c, caller'[c], slot'[caller'[c].slot])
      BY DEF LeasesOK
    <2> DEFINE s == caller[c].slot
    <2>1. /\ s \in Slots /\ caller[c].left \in Nat /\ slot[s].left \in Nat
          /\ request_timeout \in Nat /\ SlotGrace - MaxLag \in Nat /\ SlotGrace - MaxLag > 0
          /\ request_timeout > 0
      BY BudgetAssumption DEF IInv, TypeOK, CallerT, SlotT
    <2>2. LeaseOK(c, caller[c], slot[s]) BY DEF IInv, LeasesOK
    <2>3. caller[c].pc \in {"granted", "calling"} => caller[c].left > 0 BY DEF Tick
    <2>4. caller'[c].slot = s /\ caller'[c].pc = caller[c].pc BY <1>2
    <2>5. caller[c].left > 0 => caller'[c].left = caller[c].left - 1 BY <1>2
    <2>6. slot[s].left > 1 => slot'[s].lease = slot[s].lease /\ slot'[s].left = slot[s].left - 1
      BY <1>1, <2>1
    <2> HIDE DEF s
    <2>7. CASE caller[c].pc = "granted" BY <2>1, <2>2, <2>3, <2>4, <2>5, <2>6, <2>7 DEF LeaseOK
    <2>8. CASE caller[c].pc = "calling" BY <2>1, <2>2, <2>3, <2>4, <2>5, <2>6, <2>8 DEF LeaseOK
    <2>9. CASE caller[c].pc \notin {"granted", "calling"} BY <2>4, <2>9 DEF LeaseOK
    <2> QED BY <2>7, <2>8, <2>9
  <1>6. PausesOK' BY <1>3 DEF PausesOK
  <1> QED BY <1>4, <1>5, <1>6 DEF IInv

-----------------------------------------------------------------------------
(* Theorems *)

LEMMA InitInv == BInit => IInv
  <1> SUFFICES ASSUME BInit PROVE IInv OBVIOUS
  <1>1. TypeOK
    <2>1. Free \in SlotT BY DEF Free, SlotT
    <2>2. \A b \in Buckets : per_hour[b] \in Int BY BudgetAssumption
    <2> QED BY <2>1, <2>2, IdleType DEF BInit, TypeOK, BucketT, PauseT
  <1>2. LeasesOK BY IdleType DEF BInit, LeasesOK, LeaseOK
  <1>3. PausesOK
    <2>1. \A b \in Buckets : per_hour[b] \in Nat BY BudgetAssumption
    <2> QED BY <2>1 DEF BInit, PausesOK, PauseOK
  <1> QED BY <1>1, <1>2, <1>3 DEF IInv

LEMMA NextInv == IInv /\ [BNext]_bvars => IInv'
  <1> SUFFICES ASSUME IInv, [BNext]_bvars PROVE IInv' OBVIOUS
  <1>1. Requesters \subseteq Callers /\ Admitters \subseteq Callers BY DEF Callers
  <1>2. ASSUME NEW c \in Callers, Advance(c) PROVE IInv'
    BY <1>2, TakeUnitInv, AcquireInv, RequestInv, TakeSlotInv, CallInv, AnswerInv,
       AnswerUnslottedInv, ReleaseInv, BlockInv, RefundInv DEF Advance
  <1>3. ASSUME NEW c \in Requesters, Request(c) \/ Cancelled(c) \/ Advance(c) PROVE IInv'
    BY <1>1, <1>2, <1>3, RequestInv, CancelledInv
  <1>4. ASSUME NEW c \in Admitters, Admit(c) \/ LimitedAdmit(c) \/ Refuse(c) \/ Dispatch(c) PROVE IInv'
    BY <1>1, <1>4, AdmitInv, RequestInv, SendInv
  <1>5. ASSUME NEW c \in Admitters, NEW costs \in Costs, Ask(c, costs) PROVE IInv'
    BY <1>1, <1>5, AskInv
  <1>6. ASSUME NEW c \in Admitters, NEW b \in Buckets, Hold(c, b) \/ Refund(c, b) PROVE IInv'
    BY <1>1, <1>6, HoldInv, RefundInv
  <1>7. ASSUME NEW c \in Callers, Dies(c) PROVE IInv' BY <1>7, RequestInv
  <1>8. CASE Tick BY <1>8, TickInv
  <1>9. CASE UNCHANGED bvars BY <1>9 DEF bvars, IInv, TypeOK, LeasesOK, PausesOK
  <1> QED BY <1>3, <1>4, <1>5, <1>6, <1>7, <1>8, <1>9 DEF BNext

(* The inductive invariant holds in every reachable state. *)
THEOREM Invariance == BSpec => []IInv
  BY InitInv, NextInv, PTL DEF BSpec

(* Processes that call under their lease name different slots. *)
LEMMA SlotsAreEnough == IInv => SlotsBound
  <1> SUFFICES ASSUME IInv PROVE SlotsBound OBVIOUS
  <1> DEFINE S == {c \in Requesters : At(c, "calling")}
             f == [c \in S |-> caller[c].slot]
  <1>1. ASSUME NEW c \in S PROVE caller[c].slot \in Slots /\ slot[caller[c].slot].lease = c
    <2>1. c \in Callers /\ caller[c].pc = "calling" BY DEF Callers, At
    <2> QED BY <2>1 DEF IInv, TypeOK, CallerT, LeasesOK, LeaseOK
  <1>2. f \in Injection(S, Slots)
    <2>1. f \in [S -> Slots] BY <1>1
    <2>2. \A c, d \in S : f[c] = f[d] => c = d BY <1>1
    <2>3. DOMAIN f = S OBVIOUS
    <2> HIDE DEF f, S
    <2> QED BY <2>1, <2>2, <2>3 DEF Injection, IsInjective
  <1>3. concurrency \in Nat /\ concurrency > 0 BY BudgetAssumption
  <1>4. IsFiniteSet(Slots) /\ Cardinality(Slots) = concurrency
    BY <1>3, FS_Interval DEF Slots
  <1> HIDE DEF f, S
  <1>5. Cardinality(S) <= Cardinality(Slots) BY <1>2, <1>4, FS_Injection
  <1> QED BY <1>4, <1>5 DEF SlotsBound, S

(* With quotas on no more calls are in flight than there are slots, and    *)
(* with or without them no unit is taken while a provider's Retry-After    *)
(* lasts beyond those given back meanwhile: for any processes, buckets,    *)
(* rates and costs, any crashes and late releases, as long as a process    *)
(* starts its call within the grace of its lease.                          *)
THEOREM LimitsAreKept == BSpec => []LimitsKept
  <1>1. IInv => LimitsKept
    BY SlotsAreEnough DEF IInv, PausesOK, PauseOK, BudgetRespected, LimitsKept
  <1> QED BY <1>1, Invariance, PTL

-----------------------------------------------------------------------------
(***************************************************************************)
(* The evidence for a claim, for any papers, answers, limits and number of *)
(* interruptions: router calls stay within the budget, connections go only *)
(* to public addresses, every work has one vote, and the label says what   *)
(* the counted sources say.                                                *)
(***************************************************************************)

(* The inductive invariant *)

Stages == {"plan", "search", "read", "retrieved", "assess", "done"}

(* A sequence, of whatever it may be *)
IsSeq(s) == \E T : s \in Seq(T)

ResultT(r) ==
  /\ r = [status |-> r.status, reason |-> r.reason, source |-> r.source, used |-> r.used, queries |-> r.queries,
          failed |-> r.failed, unknown |-> r.unknown, unavailable |-> r.unavailable, passages |-> r.passages]
  /\ r.status \in {"retrieved", "unassessed"} /\ (r.status = "unassessed" <=> r.reason # "none")
  /\ r.used \in Nat /\ r.queries \in Nat /\ r.failed \in Nat /\ r.failed <= r.queries
  /\ r.unknown \in BOOLEAN /\ r.unavailable \in BOOLEAN /\ IsSeq(r.passages)

Typed ==
  /\ pc \in Stages /\ attempt \in {0, 1} /\ calls \in Nat /\ ResultT(result)
  /\ left \in 0..max_full_text /\ missed \in BOOLEAN

(* Planning calls the router at most twice, and what it used is what was   *)
(* left to assessment.                                                     *)
CallsOK ==
  /\ pc = "plan" => calls = attempt /\ result = NewResult /\ ~missed
  /\ pc \in {"search", "read", "retrieved"} => result.used = calls /\ calls <= 2
  /\ pc \in {"assess", "done"} => result.used + calls <= max_llm_calls

(* What the result tells of the searches is what was left out of them, and *)
(* a retrieval without an answer is not published as one.                  *)
SearchesOK ==
  /\ missed <=> Incomplete
  /\ pc = "retrieved" => result.status = "unassessed"
  /\ pc = "search" \/ result.status = "unassessed" => result.passages = <<>>
  /\ pc \in {"search", "read"} => result.status = "retrieved"
  /\ pc = "read" => result.failed < result.queries
  /\ pc \in {"assess", "done"} /\ result.status = "retrieved" => result.failed < result.queries

(* Connections a fetch may still open: what is left of its redirects, and  *)
(* a chain for each source that may be asked after this one.               *)
Hops == MAX_REDIRECTS + 1
After == [arxiv |-> 2, europepmc |-> 1, pmc |-> 0]
Spent(l) == (max_full_text - l) * Hops

Owed(f) == After[f.source] * Hops + (Hops - f.hops)

FetchT(f) ==
  /\ f = [url |-> f.url, hops |-> f.hops, source |-> f.source]
  /\ f # NoFetch => f.url = "https" /\ f.hops \in 0..MAX_REDIRECTS /\ f.source \in DOMAIN After

DialledOK ==
  /\ FetchT(fetch) /\ dialled \in Seq({<<"https", "public">>})
  /\ fetch = NoFetch => Len(dialled) <= 3 * Spent(left)
  /\ fetch # NoFetch => pc = "read" /\ Len(dialled) + Owed(fetch) <= 3 * Spent(left)

EInv == Typed /\ CallsOK /\ SearchesOK /\ DialledOK /\ LabelHonest

-----------------------------------------------------------------------------
(* Lemmas *)

(* The bound on connections grows by a chain for each source with every    *)
(* full text that is tried.                                                *)
LEMMA SpentType ==
  /\ Hops \in Nat \ {0}
  /\ \A l \in 0..max_full_text : Spent(l) \in Nat /\ Spent(l) <= max_full_text * Hops
  /\ \A l \in 1..max_full_text : Spent(l - 1) = Spent(l) + Hops
<1>1. Hops \in Nat \ {0}
  BY EvidenceAssumption DEF Hops
<1>2. ASSUME NEW l \in 0..max_full_text
      PROVE  Spent(l) \in Nat /\ Spent(l) <= max_full_text * Hops
  BY <1>1, EvidenceAssumption DEF Spent
<1>3. ASSUME NEW l \in 1..max_full_text
      PROVE  Spent(l - 1) = Spent(l) + Hops
  <2>1. max_full_text \in Nat /\ l \in Nat
    BY EvidenceAssumption
  <2>. QED  BY <1>1, <2>1 DEF Spent
<1>. QED  BY <1>1, <1>2, <1>3

LEMMA Room ==
  ASSUME NEW n \in Nat, NEW owed \in Nat, NEW hops \in Nat, hops > 0, NEW bound \in Nat,
         n + (owed + hops) <= bound
  PROVE  n + 1 + owed <= bound /\ n + owed <= bound /\ owed + (hops - 1) = (owed + hops) - 1
  OBVIOUS

LEMMA OwedType ==
  /\ FetchT(NoFetch)
  /\ \A source \in DOMAIN After : After[source] * Hops \in Nat /\ (After[source] + 1) * Hops = After[source] * Hops + Hops
  /\ \A f : FetchT(f) /\ f # NoFetch =>
       /\ f.hops \in Nat /\ f.hops <= MAX_REDIRECTS /\ f.source \in DOMAIN After
       /\ Owed(f) = After[f.source] * Hops + (Hops - f.hops)
       /\ Hops - f.hops \in Nat /\ Hops - f.hops > 0 /\ Owed(f) \in Nat
<1>1. FetchT(NoFetch)
  BY DEF FetchT, NoFetch
<1>2. ASSUME NEW source \in DOMAIN After
      PROVE  After[source] * Hops \in Nat /\ (After[source] + 1) * Hops = After[source] * Hops + Hops
  <2>1. After[source] \in {0, 1, 2} /\ Hops \in Nat
    BY SpentType DEF After
  <2>. QED  BY <2>1
<1>3. ASSUME NEW f, FetchT(f), f # NoFetch
      PROVE  /\ f.hops \in Nat /\ f.hops <= MAX_REDIRECTS /\ f.source \in DOMAIN After
             /\ Owed(f) = After[f.source] * Hops + (Hops - f.hops)
             /\ Hops - f.hops \in Nat /\ Hops - f.hops > 0 /\ Owed(f) \in Nat
  <2>1. MAX_REDIRECTS \in Nat
    BY EvidenceAssumption
  <2>2. f.hops \in 0..MAX_REDIRECTS /\ f.source \in DOMAIN After
    BY <1>3 DEF FetchT
  <2>3. After[f.source] * Hops \in Nat
    BY <1>2, <2>2
  <2>4. Hops - f.hops \in Nat /\ Hops - f.hops > 0
    BY <2>1, <2>2 DEF Hops
  <2>. QED  BY <2>1, <2>2, <2>3, <2>4 DEF Owed
<1>. QED  BY <1>1, <1>2, <1>3

(* A passage more leaves a sequence. *)
LEMMA AppendSeq ==
  ASSUME NEW s, IsSeq(s), NEW e
  PROVE  IsSeq(Append(s, e)) /\ Len(s) \in Nat
<1>1. PICK T : s \in Seq(T)
  BY DEF IsSeq
<1>2. s \in Seq(T \cup {e})
  BY <1>1
<1>3. Append(s, e) \in Seq(T \cup {e})
  BY <1>2
<1>. QED  BY <1>1, <1>3 DEF IsSeq

(* A passage is the only thing reading one changes of the result. *)
LEMMA AddPassageKeeps ==
  ASSUME Typed, NEW level, AddPassage(level)
  PROVE  /\ ResultT(result') /\ fetch' = NoFetch
         /\ result'.status = result.status /\ result'.used = result.used
         /\ result'.queries = result.queries /\ result'.failed = result.failed
         /\ result'.unknown = result.unknown /\ result'.unavailable = result.unavailable
<1>1. PICK status : result' = [result EXCEPT !.passages =
                       Append(@, [paper |-> Head(chosen), level |-> level, retraction |-> status])]
  BY DEF AddPassage
<1>. DEFINE p == Append(result.passages, [paper |-> Head(chosen), level |-> level, retraction |-> status])
<1>2. ResultT(result) /\ IsSeq(result.passages)
  BY DEF Typed, ResultT
<1>3. IsSeq(p)
  BY <1>2, AppendSeq
<1>4. result' = [status |-> result.status, reason |-> result.reason, source |-> result.source,
                 used |-> result.used, queries |-> result.queries, failed |-> result.failed,
                 unknown |-> result.unknown, unavailable |-> result.unavailable, passages |-> p]
  BY <1>1, <1>2 DEF ResultT
<1>. HIDE DEF p
<1>. QED  BY <1>2, <1>3, <1>4 DEF ResultT, AddPassage

LEMMA NewResultType == ResultT(NewResult)
<1>1. IsSeq(<<>>)
  <2>1. <<>> \in Seq({})
    OBVIOUS
  <2>. QED  BY <2>1 DEF IsSeq
<1>. QED  BY <1>1 DEF NewResult, ResultT

LEMMA EvidenceInit == EInit => EInv
<1>. SUFFICES ASSUME EInit PROVE EInv
  OBVIOUS
<1>1. Typed
  <2>1. ResultT(result)
    BY NewResultType DEF EInit
  <2>2. left \in 0..max_full_text
    BY EvidenceAssumption DEF EInit
  <2>. QED  BY <2>1, <2>2 DEF EInit, Typed, Stages
<1>2. CallsOK /\ SearchesOK
  BY DEF EInit, CallsOK, SearchesOK, Incomplete, NewResult
<1>3. DialledOK
  <2>1. dialled = <<>> /\ <<>> \in Seq({<<"https", "public">>}) /\ Len(<<>>) = 0
    BY DEF EInit
  <2>2. Spent(left) \in Nat
    BY SpentType, EvidenceAssumption DEF EInit
  <2>. QED  BY <2>1, <2>2 DEF EInit, DialledOK, FetchT, NoFetch
<1>4. LabelHonest
  BY DEF EInit, LabelHonest
<1>. QED  BY <1>1, <1>2, <1>3, <1>4 DEF EInv

-----------------------------------------------------------------------------
(* Planning and searching *)

LEMMA PlanInv == EInv /\ Plan => EInv'
<1>. SUFFICES ASSUME EInv, Plan PROVE EInv'
  OBVIOUS
<1>1. /\ pc = "plan" /\ calls = attempt /\ result = NewResult /\ ~missed
      /\ calls' = calls + 1 /\ calls' \in 1..2
      /\ UNCHANGED <<left, fetch, dialled, missed>>
  BY DEF EInv, Typed, CallsOK, Plan, CallRouter
<1>2. \/ pc' = "plan" /\ attempt = 0 /\ attempt' = 1 /\ result' = result
      \/ /\ pc' = "search" /\ attempt' = 0
         /\ \E source : result' = [result EXCEPT !.source = source, !.used = calls']
  BY <1>1 DEF Plan, Fallback, Repairs
<1>3. CASE pc' = "plan" /\ attempt = 0 /\ attempt' = 1 /\ result' = result
  <2>1. Typed' /\ CallsOK' /\ SearchesOK'
    BY <1>1, <1>3 DEF EInv, Typed, CallsOK, SearchesOK, Incomplete
  <2>. QED  BY <1>1, <1>3, <2>1 DEF EInv, DialledOK, LabelHonest
<1>4. CASE /\ pc' = "search" /\ attempt' = 0
           /\ \E source : result' = [result EXCEPT !.source = source, !.used = calls']
  <2>1. PICK source : result' = [NewResult EXCEPT !.source = source, !.used = calls']
    BY <1>1, <1>4
  <2>2. /\ result'.used = calls' /\ ResultT(result') /\ result'.status = "retrieved"
        /\ result'.failed = 0 /\ ~result'.unknown /\ ~result'.unavailable /\ result'.passages = <<>>
    <3>1. result' = [status |-> "retrieved", reason |-> "none", source |-> source, used |-> calls', queries |-> 0,
                     failed |-> 0, unknown |-> FALSE, unavailable |-> FALSE, passages |-> <<>>]
      BY <2>1 DEF NewResult
    <3>2. IsSeq(<<>>)
      BY NewResultType DEF NewResult, ResultT
    <3>. QED  BY <1>1, <3>1, <3>2 DEF ResultT
  <2>3. Typed' /\ CallsOK' /\ SearchesOK'
    BY <1>1, <1>4, <2>2 DEF EInv, Typed, Stages, CallsOK, SearchesOK, Incomplete
  <2>. QED  BY <1>1, <1>4, <2>3 DEF EInv, DialledOK, LabelHonest
<1>. QED  BY <1>2, <1>3, <1>4

LEMMA OverClaimLimitInv == EInv /\ OverClaimLimit => EInv'
<1>. SUFFICES ASSUME EInv, OverClaimLimit PROVE EInv'
  OBVIOUS
<1>1. /\ pc = "plan" /\ calls = 0 /\ ~missed /\ pc' = "retrieved"
      /\ result' = [NewResult EXCEPT !.status = "unassessed", !.reason = "claim_budget"]
      /\ UNCHANGED <<attempt, calls, left, fetch, dialled, missed>>
  BY DEF EInv, CallsOK, OverClaimLimit
<1>2. /\ result'.used = 0 /\ ResultT(result') /\ result'.status = "unassessed"
      /\ result'.failed = 0 /\ ~result'.unknown /\ ~result'.unavailable /\ result'.passages = <<>>
  BY <1>1, NewResultType DEF NewResult, ResultT
<1>3. Typed' /\ CallsOK' /\ SearchesOK'
  BY <1>1, <1>2 DEF EInv, Typed, Stages, CallsOK, SearchesOK, Incomplete
<1>. QED  BY <1>1, <1>3 DEF EInv, DialledOK, LabelHonest

LEMMA SearchInv == EInv /\ Search => EInv'
<1>. SUFFICES ASSUME EInv, Search PROVE EInv'
  OBVIOUS
<1>1. /\ pc = "search" /\ pc' = "search" /\ result.status = "retrieved"
      /\ UNCHANGED <<attempt, calls, left, fetch, dialled>>
  BY DEF EInv, SearchesOK, Search
<1>2. ResultT(result) /\ missed \in BOOLEAN
  BY DEF EInv, Typed
<1>3. CASE /\ result' = [result EXCEPT !.queries = @ + 1, !.failed = @ + 1]
           /\ missed' = TRUE
  <2>1. /\ ResultT(result') /\ result'.used = result.used /\ result'.status = "retrieved"
        /\ result'.failed > 0 /\ result'.passages = result.passages
    <3>1. result' = [status |-> result.status, reason |-> result.reason, source |-> result.source,
                     used |-> result.used, queries |-> result.queries + 1, failed |-> result.failed + 1,
                     unknown |-> result.unknown, unavailable |-> result.unavailable, passages |-> result.passages]
      BY <1>2, <1>3 DEF ResultT
    <3>. QED  BY <1>1, <1>2, <3>1 DEF ResultT
  <2>2. Typed' /\ CallsOK' /\ SearchesOK'
    BY <1>1, <1>3, <2>1 DEF EInv, Typed, Stages, CallsOK, SearchesOK, Incomplete
  <2>. QED  BY <1>1, <2>2 DEF EInv, DialledOK, LabelHonest
<1>4. ASSUME NEW unknown \in BOOLEAN, NEW refused \in BOOLEAN,
             result' = [result EXCEPT !.queries = @ + 1, !.unknown = @ \/ unknown, !.unavailable = @ \/ refused],
             missed' = (missed \/ unknown \/ refused)
      PROVE  EInv'
  <2>1. /\ ResultT(result') /\ result'.used = result.used /\ result'.status = "retrieved"
        /\ result'.failed = result.failed /\ result'.passages = result.passages
    <3>1. result' = [status |-> result.status, reason |-> result.reason, source |-> result.source,
                     used |-> result.used, queries |-> result.queries + 1, failed |-> result.failed,
                     unknown |-> result.unknown \/ unknown, unavailable |-> result.unavailable \/ refused,
                     passages |-> result.passages]
      BY <1>2, <1>4, Zenon DEF ResultT
    <3>2. (result.unknown \/ unknown) \in BOOLEAN /\ (result.unavailable \/ refused) \in BOOLEAN
      OBVIOUS
    <3>. QED  BY <1>1, <1>2, <3>1, <3>2 DEF ResultT
  <2>2. /\ result'.unknown = (result.unknown \/ unknown)
        /\ result'.unavailable = (result.unavailable \/ refused)
    BY <1>2, <1>4, Zenon DEF ResultT
  <2>3. missed' <=> Incomplete'
    BY <1>4, <2>1, <2>2 DEF EInv, SearchesOK, Incomplete
  <2>4. missed' \in BOOLEAN
    BY <1>4
  <2>5. Typed' /\ CallsOK' /\ SearchesOK'
    BY <1>1, <2>1, <2>3, <2>4 DEF EInv, Typed, Stages, CallsOK, SearchesOK
  <2>. QED  BY <1>1, <2>5 DEF EInv, DialledOK, LabelHonest
<1>5. {FALSE, federated} \subseteq BOOLEAN
  BY EvidenceAssumption
<1>. QED  BY <1>3, <1>4, <1>5 DEF Search

LEMMA SearchedInv == EInv /\ Searched => EInv'
<1>. SUFFICES ASSUME EInv, Searched PROVE EInv'
  OBVIOUS
<1>1. /\ pc = "search" /\ result.status = "retrieved" /\ ResultT(result)
      /\ UNCHANGED <<attempt, calls, left, fetch, dialled, missed>>
  BY DEF EInv, Typed, SearchesOK, Searched
<1>2. CASE /\ result' = [result EXCEPT !.status = "unassessed", !.reason = "retrieval_unavailable"]
           /\ pc' = "retrieved"
  <2>1. /\ ResultT(result') /\ result'.used = result.used /\ result'.status = "unassessed"
        /\ result'.failed = result.failed /\ result'.passages = result.passages
        /\ result'.unknown = result.unknown /\ result'.unavailable = result.unavailable
    BY <1>1, <1>2 DEF ResultT
  <2>2. Typed' /\ CallsOK' /\ SearchesOK'
    BY <1>1, <1>2, <2>1 DEF EInv, Typed, Stages, CallsOK, SearchesOK, Incomplete
  <2>. QED  BY <1>1, <1>2, <2>2 DEF EInv, DialledOK, LabelHonest
<1>3. CASE result.failed # result.queries /\ pc' = "read" /\ UNCHANGED result
  <2>1. result.failed < result.queries
    BY <1>1, <1>3 DEF ResultT
  <2>2. Typed' /\ CallsOK' /\ SearchesOK'
    BY <1>1, <1>3, <2>1 DEF EInv, Typed, Stages, CallsOK, SearchesOK, Incomplete
  <2>. QED  BY <1>1, <1>3, <2>2 DEF EInv, DialledOK, LabelHonest
<1>. QED  BY <1>2, <1>3 DEF Searched

-----------------------------------------------------------------------------
(* Reading *)

(* A step of reading keeps the invariant when it keeps what the result     *)
(* tells of the searches and the bound on connections.                     *)
LEMMA ReadingKeeps ==
  ASSUME EInv, pc = "read", pc' = "read", UNCHANGED <<attempt, calls, missed>>,
         ResultT(result'), left' \in 0..max_full_text, DialledOK',
         result'.status = result.status, result'.used = result.used,
         result'.queries = result.queries, result'.failed = result.failed,
         result'.unknown = result.unknown, result'.unavailable = result.unavailable
  PROVE  EInv'
<1>1. Typed'
  BY DEF EInv, Typed
<1>2. CallsOK'
  BY DEF EInv, CallsOK
<1>3. SearchesOK'
  BY DEF EInv, SearchesOK, Incomplete
<1>. QED  BY <1>1, <1>2, <1>3 DEF EInv, LabelHonest

LEMMA ReadInv == EInv /\ Read => EInv'
<1>. SUFFICES ASSUME EInv, Read PROVE EInv'
  OBVIOUS
<1>1. /\ pc = "read" /\ fetch = NoFetch /\ Typed /\ left \in 0..max_full_text
      /\ UNCHANGED <<pc, attempt, calls, left, dialled, missed>>
  BY DEF EInv, Typed, Read
<1>2. PICK level : AddPassage(level)
  BY DEF Read
<1>3. DialledOK'
  BY <1>1, <1>2, AddPassageKeeps DEF EInv, DialledOK, FetchT
<1>. QED  BY <1>1, <1>2, <1>3, AddPassageKeeps, ReadingKeeps

(* Starting a fetch leaves room for the chains it may need. *)
LEMMA FetchStarts ==
  ASSUME DialledOK, NEW source \in DOMAIN After, NEW l \in 0..max_full_text,
         pc' = "read", left' = l, Fetching(source), dialled' \in Seq({<<"https", "public">>}),
         Len(dialled') + (After[source] + 1) * Hops <= 3 * Spent(l)
  PROVE  DialledOK'
<1>1. fetch' = [url |-> "https", hops |-> 0, source |-> source]
  BY DEF Fetching
<1>2. fetch' # NoFetch /\ FetchT(fetch')
  BY <1>1, EvidenceAssumption DEF FetchT, NoFetch
<1>3. Owed(fetch') = (After[source] + 1) * Hops
  <2>1. /\ Owed(fetch') = After[source] * Hops + (Hops - 0)
        /\ Hops \in Nat /\ After[source] \in {0, 1, 2}
    BY <1>1, SpentType DEF Owed, After
  <2>. QED  BY <2>1
<1>. QED  BY <1>2, <1>3 DEF DialledOK

LEMMA StartFetchInv == EInv /\ StartFetch => EInv'
<1>. SUFFICES ASSUME EInv, StartFetch PROVE EInv'
  OBVIOUS
<1>1. /\ pc = "read" /\ fetch = NoFetch /\ Typed /\ left \in 1..max_full_text /\ left' = left - 1
      /\ left' \in 0..max_full_text /\ DialledOK
      /\ UNCHANGED <<pc, attempt, calls, dialled, missed>>
  BY EvidenceAssumption DEF EInv, Typed, StartFetch
<1>2. /\ Len(dialled) <= 3 * Spent(left) /\ Spent(left') = Spent(left) + Hops
      /\ Spent(left) \in Nat /\ Spent(left') \in Nat /\ Hops \in Nat /\ Len(dialled) \in Nat
      /\ dialled \in Seq({<<"https", "public">>})
  BY <1>1, SpentType DEF DialledOK
<1>3. CASE \E level : AddPassage(level)
  <2>1. PICK level : AddPassage(level)
    BY <1>3
  <2>2. DialledOK'
    BY <1>1, <1>2, <2>1, AddPassageKeeps, OwedType DEF DialledOK
  <2>. QED  BY <1>1, <2>1, <2>2, AddPassageKeeps, ReadingKeeps
<1>4. ASSUME NEW source \in {"arxiv", "europepmc"}, Fetching(source)
      PROVE  EInv'
  <2>1. Len(dialled') + (After[source] + 1) * Hops <= 3 * Spent(left')
    BY <1>1, <1>2 DEF After
  <2>2. DialledOK'
    BY <1>1, <1>2, <1>4, <2>1, FetchStarts DEF After
  <2>. QED  BY <1>1, <1>4, <2>2, ReadingKeeps DEF Fetching, Typed
<1>. QED  BY <1>3, <1>4 DEF StartFetch

(* Every address that is pinned is a public one. *)
LEMMA PinnedPublic ==
  \A answers \in {<<>>, <<"public">>, <<"internal">>, <<"public", "internal">>} :
    Pinned(answers) \in {"none", "public"}
<1>1. Pinned(<<>>) = "none" /\ Pinned(<<"public">>) \in {"none", "public"}
  BY DEF Pinned, BlockedAddress
<1>2. Pinned(<<"internal">>) = "none"
  <2>1. 1 \in 1..Len(<<"internal">>) /\ BlockedAddress(<<"internal">>[1])
    BY DEF BlockedAddress
  <2>. QED  BY <2>1 DEF Pinned
<1>3. Pinned(<<"public", "internal">>) = "none"
  <2>1. 2 \in 1..Len(<<"public", "internal">>) /\ BlockedAddress(<<"public", "internal">>[2])
    BY DEF BlockedAddress
  <2>. QED  BY <2>1 DEF Pinned
<1>. QED  BY <1>1, <1>2, <1>3

(* An answer that is of no use leads on to the next source or to the       *)
(* abstract.                                                               *)
LEMMA AbsentInv ==
  ASSUME EInv, fetch # NoFetch, Absent, UNCHANGED <<pc, attempt, calls, left, missed>>,
         dialled' \in Seq({<<"https", "public">>}), Len(dialled') <= Len(dialled) + 1
  PROVE  EInv'
<1>1. /\ pc = "read" /\ Typed /\ left \in 0..max_full_text /\ DialledOK /\ FetchT(fetch)
      /\ Len(dialled) + Owed(fetch) <= 3 * Spent(left)
      /\ Spent(left) \in Nat /\ Hops \in Nat /\ Hops > 0 /\ Len(dialled) \in Nat /\ Len(dialled') \in Nat
  BY SpentType DEF EInv, Typed, DialledOK
<1>2. /\ fetch.source \in DOMAIN After /\ Hops - fetch.hops \in Nat /\ Hops - fetch.hops > 0
      /\ Owed(fetch) = After[fetch.source] * Hops + (Hops - fetch.hops) /\ After[fetch.source] * Hops \in Nat
  BY <1>1, OwedType
<1>3. Len(dialled') + After[fetch.source] * Hops <= 3 * Spent(left)
  BY <1>1, <1>2
<1>4. CASE fetch.source = "arxiv" /\ Fetching("europepmc")
  <2>1. After["arxiv"] = 2 /\ After["europepmc"] = 1 /\ "europepmc" \in DOMAIN After
    BY DEF After
  <2>2. DialledOK'
    BY <1>1, <1>3, <1>4, <2>1, FetchStarts
  <2>. QED  BY <1>1, <1>4, <2>2, ReadingKeeps DEF Fetching, Typed
<1>5. CASE \E level : AddPassage(level)
  <2>1. PICK level : AddPassage(level)
    BY <1>5
  <2>2. Len(dialled') <= 3 * Spent(left)
    BY <1>1, <1>2, <1>3
  <2>3. DialledOK'
    BY <1>1, <2>1, <2>2, AddPassageKeeps, OwedType DEF DialledOK
  <2>. QED  BY <1>1, <2>1, <2>3, AddPassageKeeps, ReadingKeeps
<1>. QED  BY <1>4, <1>5 DEF Absent

LEMMA FetchHopInv == EInv /\ FetchHop => EInv'
<1>. SUFFICES ASSUME EInv, FetchHop PROVE EInv'
  OBVIOUS
<1>1. /\ fetch # NoFetch /\ pc = "read" /\ Typed /\ left \in 0..max_full_text /\ DialledOK /\ FetchT(fetch)
      /\ UNCHANGED <<pc, attempt, calls, left, missed>>
      /\ Len(dialled) + Owed(fetch) <= 3 * Spent(left)
      /\ Spent(left) \in Nat /\ Hops \in Nat /\ Hops > 0
      /\ dialled \in Seq({<<"https", "public">>}) /\ Len(dialled) \in Nat
  BY SpentType DEF EInv, Typed, DialledOK, FetchHop
<1>2. PICK answers \in {<<>>, <<"public">>, <<"internal">>, <<"public", "internal">>} :
         IF Pinned(answers) = "none" THEN Absent /\ UNCHANGED dialled
         ELSE /\ Dial(answers)
              /\ \/ IF fetch.source = "europepmc" THEN Fetching("pmc")
                    ELSE \E level \in TextLevels(Head(chosen)) : AddPassage(level)
                 \/ Absent
                 \/ \E to \in {"https", "http", "refused"} :
                      IF fetch.hops < MAX_REDIRECTS /\ Checked(fetch.url, to)
                      THEN fetch' = [fetch EXCEPT !.url = to, !.hops = @ + 1] /\ UNCHANGED <<result, chosen>>
                      ELSE Absent
  BY DEF FetchHop
<1>3. CASE Pinned(answers) = "none"
  BY <1>1, <1>2, <1>3, AbsentInv
<1>4. CASE Pinned(answers) # "none"
  <2>1. fetch.url = "https" /\ Pinned(answers) = "public"
    BY <1>1, <1>2, <1>4, PinnedPublic DEF FetchT
  <2>2. dialled' = Append(dialled, <<"https", "public">>)
    BY <1>2, <1>4, <2>1 DEF Dial
  <2>3. dialled' \in Seq({<<"https", "public">>}) /\ Len(dialled') = Len(dialled) + 1
    BY <1>1, <2>2
  <2>4. /\ fetch.source \in DOMAIN After /\ Hops - fetch.hops \in Nat /\ Hops - fetch.hops > 0
        /\ fetch.hops \in Nat /\ After[fetch.source] * Hops \in Nat /\ Owed(fetch) \in Nat
    BY <1>1, OwedType
  <2>5. Owed(fetch) = After[fetch.source] * Hops + (Hops - fetch.hops)
    BY <1>1, OwedType
  <2>6. Len(dialled') + After[fetch.source] * Hops <= 3 * Spent(left)
    <3>1. /\ Len(dialled) + (After[fetch.source] * Hops + (Hops - fetch.hops)) <= 3 * Spent(left)
          /\ 3 * Spent(left) \in Nat
      BY <1>1, <2>5
    <3>2. Len(dialled) + 1 + After[fetch.source] * Hops <= 3 * Spent(left)
      BY <1>1, <2>4, <3>1, Room
    <3>. QED  BY <2>3, <3>2
  <2>7. CASE Absent
    BY <1>1, <2>3, <2>7, AbsentInv
  <2>8. CASE fetch.source = "europepmc" /\ Fetching("pmc")
    <3>1. After["europepmc"] = 1 /\ After["pmc"] = 0 /\ "pmc" \in DOMAIN After
      BY DEF After
    <3>2. DialledOK'
      BY <1>1, <2>3, <2>6, <2>8, <3>1, FetchStarts
    <3>. QED  BY <1>1, <2>8, <3>2, ReadingKeeps DEF Fetching, Typed
  <2>9. CASE \E level : AddPassage(level)
    <3>1. PICK level : AddPassage(level)
      BY <2>9
    <3>2. Len(dialled') <= 3 * Spent(left)
      BY <1>1, <2>3, <2>4, <2>6
    <3>3. DialledOK'
      BY <1>1, <2>3, <3>1, <3>2, AddPassageKeeps, OwedType DEF DialledOK
    <3>. QED  BY <1>1, <3>1, <3>3, AddPassageKeeps, ReadingKeeps
  <2>10. ASSUME NEW to \in {"https", "http", "refused"}, fetch.hops < MAX_REDIRECTS, Checked(fetch.url, to),
                fetch' = [fetch EXCEPT !.url = to, !.hops = @ + 1], UNCHANGED <<result, chosen>>
         PROVE  EInv'
    <3>1. to = "https"
      BY <2>1, <2>10 DEF Checked
    <3>2. fetch' = [url |-> "https", hops |-> fetch.hops + 1, source |-> fetch.source]
      BY <1>1, <2>10, <3>1 DEF FetchT
    <3>3. FetchT(fetch') /\ fetch' # NoFetch
      <4>1. MAX_REDIRECTS \in Nat /\ fetch.hops + 1 \in 0..MAX_REDIRECTS
        BY <2>4, <2>10, EvidenceAssumption
      <4>. QED  BY <2>4, <3>2, <4>1 DEF FetchT, NoFetch
    <3>4. Owed(fetch') = After[fetch.source] * Hops + (Hops - (fetch.hops + 1))
      BY <3>2 DEF Owed
    <3>5. Owed(fetch') = Owed(fetch) - 1
      <4>. DEFINE a == After[fetch.source] * Hops
      <4>1. a \in Nat /\ Owed(fetch) = a + (Hops - fetch.hops) /\ Owed(fetch') = a + (Hops - (fetch.hops + 1))
        BY <2>4, <2>5, <3>4
      <4>2. Hops \in Int /\ fetch.hops \in Int
        BY <1>1, <2>4
      <4>. HIDE DEF a
      <4>3. \A h \in Int, k \in Int, n \in Nat : n + (h - (k + 1)) = (n + (h - k)) - 1
        OBVIOUS
      <4>. QED  BY <4>1, <4>2, <4>3
    <3>6. Len(dialled') + Owed(fetch') <= 3 * Spent(left)
      BY <1>1, <2>3, <2>4, <3>5
    <3>7. DialledOK'
      BY <1>1, <2>3, <3>3, <3>6 DEF DialledOK
    <3>. QED  BY <1>1, <2>10, <3>7, ReadingKeeps DEF Typed
  <2>. QED  BY <1>2, <1>4, <2>7, <2>8, <2>9, <2>10
<1>. QED  BY <1>3, <1>4

-----------------------------------------------------------------------------
(* Publishing, interruptions and assessment *)

LEMMA RetrievedInv == EInv /\ Retrieved => EInv'
<1>. SUFFICES ASSUME EInv, Retrieved PROVE EInv'
  OBVIOUS
<1>1. /\ pc \in {"read", "retrieved"} /\ fetch = NoFetch /\ pc' = "assess" /\ attempt' = 0 /\ calls' = 0
      /\ dialled' = <<>> /\ UNCHANGED <<result, left, fetch, missed>>
  BY DEF EInv, DialledOK, Retrieved
<1>2. Typed'
  BY <1>1 DEF EInv, Typed, Stages
<1>3. CallsOK'
  <2>1. result.used \in Nat /\ result.used <= 2 /\ max_llm_calls \in Nat /\ max_llm_calls >= 2
    BY <1>1, EvidenceAssumption DEF EInv, CallsOK, Typed, ResultT
  <2>. QED  BY <1>1, <2>1 DEF CallsOK
<1>4. SearchesOK'
  BY <1>1 DEF EInv, SearchesOK, Incomplete
<1>5. DialledOK'
  <2>1. <<>> \in Seq({<<"https", "public">>}) /\ Len(<<>>) = 0
    OBVIOUS
  <2>2. Spent(left) \in Nat
    BY SpentType DEF EInv, Typed
  <2>. QED  BY <1>1, <2>1, <2>2 DEF EInv, DialledOK
<1>. QED  BY <1>1, <1>2, <1>3, <1>4, <1>5 DEF EInv, LabelHonest

LEMMA RestartInv == EInv /\ Restart => EInv'
<1>. SUFFICES ASSUME EInv, Restart PROVE EInv'
  OBVIOUS
<1>1. /\ calls' = 0 /\ attempt' = 0 /\ fetch' = NoFetch /\ dialled' = <<>> /\ pc # "done"
      /\ \/ pc = "assess" /\ UNCHANGED <<pc, result, left, missed>>
         \/ pc' = "plan" /\ result' = NewResult /\ left' = max_full_text /\ ~missed' /\ missed' \in BOOLEAN
  BY DEF Restart
<1>2. Typed'
  <2>1. max_full_text \in 0..max_full_text
    BY EvidenceAssumption
  <2>. QED  BY <1>1, <2>1, NewResultType DEF EInv, Typed, Stages
<1>3. CallsOK'
  BY <1>1, EvidenceAssumption DEF EInv, CallsOK, Typed, ResultT
<1>4. SearchesOK'
  BY <1>1 DEF EInv, SearchesOK, Incomplete, NewResult
<1>5. DialledOK'
  <2>1. <<>> \in Seq({<<"https", "public">>}) /\ Len(<<>>) = 0
    OBVIOUS
  <2>2. left' \in 0..max_full_text
    BY <1>2 DEF Typed
  <2>3. Spent(left') \in Nat
    BY <2>2, SpentType
  <2>. QED  BY <1>1, <2>1, <2>3, OwedType DEF DialledOK
<1>. QED  BY <1>1, <1>2, <1>3, <1>4, <1>5 DEF EInv, LabelHonest

(* What is counted is what the router said, unless the source is retracted *)
(* or withdrawn; the verdict follows from it.                              *)
LEMMA AssessedHonest ==
  ASSUME NEW n \in Nat, Len(result.passages) = n, NEW labels \in [1..n -> Labels], Assessed(labels),
         UNCHANGED <<result, missed>>, missed <=> Incomplete, missed \in BOOLEAN, Incomplete \in BOOLEAN,
         result.failed < result.queries
  PROVE  LabelHonest'
<1>. DEFINE relations == [i \in 1..n |-> Counted(result.passages[i], labels[i])]
            says(l) == \E i \in 1..n : result.passages[i].retraction \notin {"retracted", "withdrawn"} /\ labels[i] = l
            pairs == [i \in 1..n |-> <<Origin(result.passages[i].paper), labels[i]>>]
<1>1. Len(labels) = n
  OBVIOUS
<1>2. claim_outcome' = [assessed |-> TRUE, reason |-> "none", overall |-> Overall(relations),
                  relations |-> pairs, incomplete |-> Incomplete]
  BY <1>1 DEF Assessed
<1>3. /\ \A i \in 1..n : Counted(result.passages[i], labels[i]) \in {"support", "challenge", "qualify", "insufficient"}
      /\ \A i \in 1..n : Counted(result.passages[i], labels[i]) = "support" <=>
           result.passages[i].retraction \notin {"retracted", "withdrawn"} /\ labels[i] = "supports"
      /\ \A i \in 1..n : Counted(result.passages[i], labels[i]) = "challenge" <=>
           result.passages[i].retraction \notin {"retracted", "withdrawn"} /\ labels[i] = "challenges"
      /\ \A i \in 1..n : Counted(result.passages[i], labels[i]) = "qualify" <=>
           result.passages[i].retraction \notin {"retracted", "withdrawn"} /\ labels[i] = "qualifies"
  <2>. SUFFICES ASSUME NEW i \in 1..n
                PROVE  LET k == Counted(result.passages[i], labels[i])
                           counts == result.passages[i].retraction \notin {"retracted", "withdrawn"}
                       IN /\ k \in {"support", "challenge", "qualify", "insufficient"}
                          /\ k = "support" <=> counts /\ labels[i] = "supports"
                          /\ k = "challenge" <=> counts /\ labels[i] = "challenges"
                          /\ k = "qualify" <=> counts /\ labels[i] = "qualifies"
    BY Zenon
  <2>1. labels[i] \in {"supports", "challenges", "qualifies", "context", "cannot_assess"}
    BY EvidenceAssumption
  <2>. QED  BY <2>1 DEF Counted, LABELS
<1>4. \A k : k \in ToSet(relations) <=> \E i \in 1..n : Counted(result.passages[i], labels[i]) = k
  BY DEF ToSet
<1>5. /\ "support" \in ToSet(relations) <=> says("supports")
      /\ "challenge" \in ToSet(relations) <=> says("challenges")
      /\ "qualify" \in ToSet(relations) <=> says("qualifies")
  BY <1>3, <1>4
<1>. HIDE DEF relations
<1>6. /\ Overall(relations) = "supported" <=> says("supports") /\ ~says("challenges") /\ ~says("qualifies")
      /\ Overall(relations) \in {"challenged", "mixed"} <=> says("challenges")
  <2>. DEFINE a == "support" \in ToSet(relations)
              b == "challenge" \in ToSet(relations)
              c == "qualify" \in ToSet(relations)
  <2>1. Overall(relations) = IF b /\ (a \/ c) THEN "mixed" ELSE IF b THEN "challenged"
                             ELSE IF c THEN "qualified" ELSE IF a THEN "supported" ELSE "insufficient_evidence"
    BY DEF Overall
  <2>2. (a <=> says("supports")) /\ (b <=> says("challenges")) /\ (c <=> says("qualifies"))
    BY <1>5
  <2>. HIDE DEF a, b, c, says
  <2>. QED  BY <2>1, <2>2
<1>7. \A l : says(l) <=> \E i \in 1..Len(result'.passages) :
                            /\ result'.passages[i].retraction \notin {"retracted", "withdrawn"}
                            /\ claim_outcome'.relations[i][2] = l
  <2>1. claim_outcome'.relations = pairs /\ \A i \in 1..n : pairs[i][2] = labels[i]
    BY <1>2
  <2>2. result' = result /\ Len(result.passages) = n
    OBVIOUS
  <2>. SUFFICES ASSUME NEW l
                PROVE  says(l) <=> \E i \in 1..n : /\ result.passages[i].retraction \notin {"retracted", "withdrawn"}
                                                  /\ claim_outcome'.relations[i][2] = l
    BY <2>2
  <2>. HIDE DEF pairs
  <2>. QED  BY <2>1
<1>. HIDE DEF says, pairs
<1>8. /\ claim_outcome'.assessed /\ claim_outcome'.reason = "none" /\ claim_outcome'.overall = Overall(relations)
      /\ claim_outcome'.incomplete = missed'
  BY <1>2
<1>. QED  BY <1>6, <1>7, <1>8 DEF LabelHonest

LEMMA AssessInv == EInv /\ AssessClaim => EInv'
<1>. SUFFICES ASSUME EInv, AssessClaim PROVE EInv'
  OBVIOUS
<1>1. /\ pc = "assess" /\ pc' \in {"assess", "done"} /\ attempt' \in {0, 1} /\ calls' \in {calls, calls + 1}
      /\ UNCHANGED <<result, left, fetch, dialled, missed>> /\ Typed /\ ResultT(result)
  BY DEF EInv, Typed, AssessClaim, CallRouter
<1>2. calls' = calls \/ (calls' = calls + 1 /\ Remaining > 0)
  BY DEF AssessClaim, CallRouter
<1>3. Typed'
  BY <1>1 DEF Typed, Stages
<1>4. CallsOK'
  <2>1. /\ result.used \in Nat /\ calls \in Nat /\ max_llm_calls \in Nat
        /\ result.used + calls <= max_llm_calls
    BY <1>1, EvidenceAssumption DEF EInv, CallsOK, Typed, ResultT
  <2>. QED  BY <1>1, <1>2, <2>1 DEF CallsOK, Remaining
<1>5. SearchesOK' /\ DialledOK'
  BY <1>1 DEF EInv, SearchesOK, Incomplete, DialledOK
<1>6. LabelHonest'
  <2>1. CASE \E reason : reason # "none" /\ Unassessed(reason)
    <3>1. ~claim_outcome'.assessed /\ claim_outcome'.assessed = FALSE /\ claim_outcome'.reason # "none"
      BY <2>1 DEF Unassessed, NoOutcome
    <3>. QED  BY <3>1, Zenon DEF LabelHonest
  <2>2. CASE result.status = "retrieved" /\ \E labels \in Replies : Assessed(labels)
    <3>1. PICK labels \in Replies : Assessed(labels)
      BY <2>2
    <3>2. /\ Len(result.passages) \in Nat /\ labels \in [1..Len(result.passages) -> Labels]
          /\ result.failed < result.queries
      BY <1>1, <2>2, <3>1, AppendSeq DEF EInv, SearchesOK, ResultT, Replies
    <3>3. (missed <=> Incomplete) /\ missed \in BOOLEAN
      BY <1>1 DEF EInv, SearchesOK, Typed
    <3>4. Incomplete \in BOOLEAN
      BY DEF Incomplete
    <3>. QED  BY <1>1, <3>1, <3>2, <3>3, <3>4, AssessedHonest
  <2>3. CASE result.status = "retrieved" /\ result.passages = <<>> /\ Assessed(<<>>)
    <3>1. <<>> \in Replies
      BY <2>3 DEF Replies
    <3>. QED  BY <2>2, <2>3, <3>1
  <2>4. CASE pc' = "assess"
    BY <2>4 DEF LabelHonest
  <2>5. result.status = "retrieved" \/ (result.reason # "none" /\ result.passages = <<>>)
    BY <1>1 DEF EInv, SearchesOK, ResultT
  <2>. QED  BY <1>1, <2>1, <2>2, <2>3, <2>4, <2>5 DEF AssessClaim
<1>. QED  BY <1>3, <1>4, <1>5, <1>6 DEF EInv

-----------------------------------------------------------------------------
(* dedupe() *)

LEMMA Smallest ==
  ASSUME NEW T \in SUBSET Nat, T # {}
  PROVE  \E x \in T : \A y \in T : x <= y
<1>. DEFINE R == OpToRel(<, Nat)
<1>1. IsWellFoundedOn(R, Nat)
  BY NatLessThanWellFounded
<1>. HIDE DEF R
<1>2. PICK x \in T : \A y \in T : ~(<<y, x>> \in R)
  BY <1>1, WFMin
<1>3. \A y \in T : <<y, x>> \in R <=> y < x
  BY DEF R, OpToRel
<1>4. \A y \in T : ~(y < x)
  BY <1>2, <1>3
<1>5. x \in Nat /\ \A y \in T : y \in Nat
  OBVIOUS
<1>6. \A y \in T : x <= y
  BY <1>4, <1>5
<1>. QED  BY <1>6

(* A set that has a number and with every number the next one has all. *)
LEMMA Climb ==
  ASSUME NEW T, 0 \in T, NEW n \in Nat, \A k \in Nat : k < n /\ k \in T => k + 1 \in T
  PROVE  \A k \in 0..n : k \in T
<1>. SUFFICES ASSUME NEW k \in 0..n, k \notin T PROVE FALSE
  OBVIOUS
<1>. DEFINE Missing == {m \in 0..n : m \notin T}
<1>1. Missing \in SUBSET Nat /\ Missing # {}
  OBVIOUS
<1>2. PICK m \in Missing : \A l \in Missing : m <= l
  BY <1>1, Smallest
<1>3. m \in Nat /\ m # 0 /\ m <= n /\ m \notin T
  BY <1>2
<1>4. m - 1 \in Nat /\ m - 1 < n /\ m - 1 \in T
  BY <1>2, <1>3
<1>. QED  BY <1>3, <1>4

(* The largest of the first numbers *)
LEMMA MaxFirst ==
  ASSUME NEW k \in Nat
  PROVE  Max(1..(k + 1)) = k + 1 /\ (1..(k + 1)) \ {k + 1} = 1..k /\ 1..(k + 1) # {}
<1>1. \A x \in 1..(k + 1) : (\A y \in 1..(k + 1) : x >= y) <=> x = k + 1
  OBVIOUS
<1>2. k + 1 \in 1..(k + 1)
  OBVIOUS
<1>. QED  BY <1>1, <1>2 DEF Max

LEMMA MaxType ==
  ASSUME NEW n \in Nat, NEW s \in SUBSET (1..n), s # {}
  PROVE  Max(s) \in s /\ \A y \in s : Max(s) >= y
<1>. DEFINE U == {m \in Nat : \E x \in s : m = n - x}
<1>1. PICK x \in s : TRUE
  OBVIOUS
<1>2. U \in SUBSET Nat /\ n - x \in U
  BY <1>1
<1>3. PICK m \in U : \A l \in U : m <= l
  BY <1>2, Smallest
<1>4. PICK x0 \in s : m = n - x0
  BY <1>3
<1>5. ASSUME NEW y \in s PROVE x0 >= y
  <2>1. n - y \in U /\ y \in Nat /\ x0 \in Nat
    OBVIOUS
  <2>2. n - x0 <= n - y
    BY <1>3, <1>4, <2>1
  <2>. QED  BY <2>1, <2>2
<1>. QED  BY <1>5 DEF Max

(* dedupe(): a hit joins its work *)
Better(new, old) == new.version > old.version \/ (~old.summary /\ new.summary)
Joined(acc, hit) ==
  LET at == {i \in 1..Len(acc) : Origin(acc[i]) = Origin(hit[2])} IN
  IF at = {} THEN Append(acc, hit[2])
  ELSE [i \in 1..Len(acc) |-> IF i \in at /\ Better(hit[2], acc[i]) THEN hit[2] ELSE acc[i]]

(* The fold over the first hits, as the library defines it on sets of      *)
(* positions                                                               *)
Folded(hits, k, f) ==
  f = [s \in SUBSET (1..k) |-> IF s = {} THEN <<>> ELSE Joined(f[s \ {Max(s)}], hits[Max(s)])]

LEMMA FoldExists ==
  ASSUME NEW hits, NEW n \in Nat
  PROVE  \E f : Folded(hits, n, f)
<1>. DEFINE T == {k \in Nat : \E f : Folded(hits, k, f)}
<1>1. 0 \in T
  <2>. DEFINE f == [s \in SUBSET (1..0) |-> <<>>]
  <2>1. \A s \in SUBSET (1..0) : s = {}
    OBVIOUS
  <2>2. Folded(hits, 0, f)
    BY <2>1 DEF Folded
  <2>. QED  BY <2>2
<1>2. ASSUME NEW k \in Nat, k < n, k \in T
      PROVE  k + 1 \in T
  <2>1. PICK f : Folded(hits, k, f)
    BY <1>2
  <2>. DEFINE g == [s \in SUBSET (1..(k + 1)) |->
                      IF s = {} THEN <<>> ELSE Joined(f[s \ {Max(s)}], hits[Max(s)])]
  <2>2. ASSUME NEW s \in SUBSET (1..(k + 1)), s # {}
        PROVE  s \ {Max(s)} \in SUBSET (1..k)
    <3>1. k + 1 \in Nat
      OBVIOUS
    <3>2. Max(s) \in s /\ \A y \in s : Max(s) >= y
      BY <2>2, <3>1, MaxType
    <3>3. ASSUME NEW y \in s, y # Max(s) PROVE y \in 1..k
      <4>1. y \in 1..(k + 1) /\ Max(s) \in 1..(k + 1) /\ Max(s) >= y
        BY <3>2
      <4>. QED  BY <3>3, <4>1
    <3>. QED  BY <3>3
  <2>3. ASSUME NEW s \in SUBSET (1..k)
        PROVE  g[s] = f[s]
    <3>1. s \in SUBSET (1..(k + 1))
      OBVIOUS
    <3>2. f[s] = IF s = {} THEN <<>> ELSE Joined(f[s \ {Max(s)}], hits[Max(s)])
      BY <2>1 DEF Folded
    <3>. QED  BY <3>1, <3>2
  <2>4. \A s \in SUBSET (1..(k + 1)) :
          g[s] = IF s = {} THEN <<>> ELSE Joined(g[s \ {Max(s)}], hits[Max(s)])
    BY <2>2, <2>3
  <2>5. Folded(hits, k + 1, g)
    BY <2>4 DEF Folded
  <2>. QED  BY <2>5
<1>. HIDE DEF T
<1>3. n \in T
  BY <1>1, <1>2, Climb
<1>. QED  BY <1>3 DEF T

(* An older version stands for a work only where a version at least as     *)
(* late as the one it is kept before was found without an abstract.        *)
Fair(p, hits, k) ==
  \A h \in 1..k : Origin(hits[h][2]) = Origin(p) /\ hits[h][2].version > p.version =>
    \E g \in 1..k : /\ Origin(hits[g][2]) = Origin(p)
                    /\ hits[g][2].version >= hits[h][2].version /\ ~hits[g][2].summary

(* What the fold has made of the first k hits *)
Collapsed(acc, hits, k) ==
  /\ acc \in Seq(Papers)
  /\ \A i, j \in 1..Len(acc) : i # j => Origin(acc[i]) # Origin(acc[j])
  /\ \A i \in 1..Len(acc) : Fair(acc[i], hits, k) /\ \E g \in 1..k : acc[i] = hits[g][2]
  /\ \A g \in 1..k : \E i \in 1..Len(acc) : Origin(acc[i]) = Origin(hits[g][2])

(* One more hit of another work changes nothing for a work; one that is    *)
(* not better, or that replaces the paper it is better than, is fair too.  *)
LEMMA JoinedFair ==
  ASSUME NEW hits, NEW k \in Nat, \A h \in 1..(k + 1) : hits[h][2] \in Papers,
         NEW p \in Papers, Fair(p, hits, k), \E g \in 1..k : p = hits[g][2]
  PROVE  LET new == hits[k + 1][2] IN
         /\ ~(Origin(p) = Origin(new) /\ Better(new, p)) => Fair(p, hits, k + 1)
         /\ Origin(p) = Origin(new) /\ Better(new, p) => Fair(new, hits, k + 1)
<1>. DEFINE new == hits[k + 1][2]
<1>1. /\ \A h \in 1..(k + 1) : hits[h][2].version \in Nat
      /\ p.version \in Nat /\ 1..k \subseteq 1..(k + 1) /\ k + 1 \in 1..(k + 1)
      /\ \A h \in 1..(k + 1) : h \in 1..k \/ h = k + 1
  <2>1. \A q \in Papers : q.version \in Nat
    BY EvidenceAssumption DEF Paper
  <2>. QED  BY <2>1
<1>2. ASSUME ~(Origin(p) = Origin(new) /\ Better(new, p))
      PROVE  Fair(p, hits, k + 1)
  <2>. SUFFICES ASSUME NEW h \in 1..(k + 1), Origin(hits[h][2]) = Origin(p), hits[h][2].version > p.version
                PROVE  \E g \in 1..(k + 1) : /\ Origin(hits[g][2]) = Origin(p)
                                             /\ hits[g][2].version >= hits[h][2].version /\ ~hits[g][2].summary
    BY DEF Fair
  <2>1. h # k + 1
    BY <1>2 DEF Better
  <2>. QED  BY <1>1, <2>1 DEF Fair
<1>3. ASSUME Origin(p) = Origin(new), Better(new, p)
      PROVE  Fair(new, hits, k + 1)
  <2>. SUFFICES ASSUME NEW h \in 1..(k + 1), Origin(hits[h][2]) = Origin(new), hits[h][2].version > new.version
                PROVE  \E g \in 1..(k + 1) : /\ Origin(hits[g][2]) = Origin(new)
                                             /\ hits[g][2].version >= hits[h][2].version /\ ~hits[g][2].summary
    BY DEF Fair
  <2>1. h \in 1..k
    BY <1>1
  <2>2. CASE hits[h][2].version > p.version
    BY <1>1, <1>3, <2>1, <2>2 DEF Fair
  <2>3. CASE ~(hits[h][2].version > p.version)
    <3>1. ~(new.version > p.version) /\ p.version >= hits[h][2].version
      BY <1>1, <2>3
    <3>2. ~p.summary
      BY <1>3, <3>1 DEF Better
    <3>3. PICK g \in 1..k : p = hits[g][2]
      OBVIOUS
    <3>. QED  BY <1>1, <1>3, <3>1, <3>2, <3>3
  <2>. QED  BY <2>2, <2>3
<1>. QED  BY <1>2, <1>3

LEMMA JoinedKeeps ==
  ASSUME NEW hits, NEW k \in Nat, \A h \in 1..(k + 1) : hits[h][2] \in Papers,
         NEW acc, Collapsed(acc, hits, k)
  PROVE  Collapsed(Joined(acc, hits[k + 1]), hits, k + 1)
<1>. DEFINE new == hits[k + 1][2]
            at == {i \in 1..Len(acc) : Origin(acc[i]) = Origin(new)}
            r == Joined(acc, hits[k + 1])
<1>1. /\ acc \in Seq(Papers) /\ Len(acc) \in Nat /\ new \in Papers
      /\ 1..k \subseteq 1..(k + 1) /\ k + 1 \in 1..(k + 1)
      /\ \A h \in 1..(k + 1) : h \in 1..k \/ h = k + 1
  BY DEF Collapsed
<1>2. CASE at = {}
  <2>1. r = Append(acc, new)
    BY <1>2 DEF Joined
  <2>2. /\ r \in Seq(Papers) /\ Len(r) = Len(acc) + 1 /\ r[Len(acc) + 1] = new
        /\ \A i \in 1..Len(acc) : r[i] = acc[i]
        /\ \A i \in 1..Len(r) : i \in 1..Len(acc) \/ i = Len(acc) + 1
        /\ 1..Len(acc) \subseteq 1..Len(r) /\ Len(acc) + 1 \in 1..Len(r)
    BY <1>1, <2>1
  <2>3. \A i \in 1..Len(acc) : Origin(acc[i]) # Origin(new)
    BY <1>2
  <2>4. \A i, j \in 1..Len(r) : i # j => Origin(r[i]) # Origin(r[j])
    <3>1. ASSUME NEW i \in 1..Len(r), NEW j \in 1..Len(r), i # j
          PROVE  Origin(r[i]) # Origin(r[j])
      <4>1. CASE i \in 1..Len(acc) /\ j \in 1..Len(acc)
        BY <2>2, <3>1, <4>1 DEF Collapsed
      <4>2. CASE i = Len(acc) + 1 /\ j \in 1..Len(acc)
        BY <2>2, <2>3, <4>2
      <4>3. CASE j = Len(acc) + 1 /\ i \in 1..Len(acc)
        BY <2>2, <2>3, <4>3
      <4>. QED  BY <2>2, <3>1, <4>1, <4>2, <4>3
    <3>. QED  BY <3>1
  <2>5. ASSUME NEW i \in 1..Len(acc)
        PROVE  Fair(r[i], hits, k + 1) /\ \E g \in 1..(k + 1) : r[i] = hits[g][2]
    <3>1. acc[i] \in Papers /\ Fair(acc[i], hits, k) /\ \E g \in 1..k : acc[i] = hits[g][2]
      BY <1>1 DEF Collapsed
    <3>2. Fair(acc[i], hits, k + 1)
      BY <2>3, <3>1, JoinedFair
    <3>. QED  BY <1>1, <2>2, <3>1, <3>2
  <2>6. Fair(new, hits, k + 1)
    <3>. SUFFICES ASSUME NEW h \in 1..(k + 1), Origin(hits[h][2]) = Origin(new), hits[h][2].version > new.version
                  PROVE  FALSE
      BY DEF Fair
    <3>1. new.version \in Nat
      BY <1>1, EvidenceAssumption DEF Paper
    <3>2. h \in 1..k
      BY <1>1, <3>1
    <3>. QED  BY <2>3, <3>2 DEF Collapsed
  <2>7. \A g \in 1..(k + 1) : \E i \in 1..Len(r) : Origin(r[i]) = Origin(hits[g][2])
    <3>1. \A g \in 1..k : \E i \in 1..Len(acc) : Origin(acc[i]) = Origin(hits[g][2])
      BY DEF Collapsed
    <3>. QED  BY <1>1, <2>2, <3>1
  <2>. QED  BY <1>1, <2>2, <2>4, <2>5, <2>6, <2>7 DEF Collapsed
<1>3. CASE at # {}
  <2>1. r = [i \in 1..Len(acc) |-> IF i \in at /\ Better(new, acc[i]) THEN new ELSE acc[i]]
    BY <1>3 DEF Joined
  <2>2. \A i \in 1..Len(acc) : r[i] = IF i \in at /\ Better(new, acc[i]) THEN new ELSE acc[i]
    BY <2>1
  <2>3. \A i \in 1..Len(acc) : acc[i] \in Papers
    BY <1>1
  <2>4. r \in Seq(Papers) /\ Len(r) = Len(acc)
    BY <1>1, <2>1, <2>3
  <2>5. \A i \in 1..Len(acc) : Origin(r[i]) = Origin(acc[i])
    BY <2>2
  <2>6. ASSUME NEW i \in 1..Len(acc)
        PROVE  Fair(r[i], hits, k + 1) /\ \E g \in 1..(k + 1) : r[i] = hits[g][2]
    <3>1. acc[i] \in Papers /\ Fair(acc[i], hits, k) /\ \E g \in 1..k : acc[i] = hits[g][2]
      BY <1>1 DEF Collapsed
    <3>2. CASE i \in at /\ Better(new, acc[i])
      <4>1. r[i] = new /\ Fair(new, hits, k + 1)
        BY <2>2, <3>1, <3>2, JoinedFair
      <4>. QED  BY <1>1, <4>1
    <3>3. CASE ~(i \in at /\ Better(new, acc[i]))
      <4>1. r[i] = acc[i] /\ Fair(acc[i], hits, k + 1)
        BY <2>2, <3>1, <3>3, JoinedFair
      <4>. QED  BY <1>1, <3>1, <4>1
    <3>. QED  BY <3>2, <3>3
  <2>7. \A g \in 1..(k + 1) : \E i \in 1..Len(acc) : Origin(acc[i]) = Origin(hits[g][2])
    <3>1. \A g \in 1..k : \E i \in 1..Len(acc) : Origin(acc[i]) = Origin(hits[g][2])
      BY DEF Collapsed
    <3>2. \E i \in 1..Len(acc) : Origin(acc[i]) = Origin(new)
      BY <1>3
    <3>. QED  BY <1>1, <3>1, <3>2
  <2>8. \A i, j \in 1..Len(acc) : i # j => Origin(acc[i]) # Origin(acc[j])
    BY DEF Collapsed
  <2>9. \A q : /\ q \in Seq(Papers) /\ Len(q) = Len(acc)
               /\ \A i \in 1..Len(acc) : Origin(q[i]) = Origin(acc[i])
               /\ \A i \in 1..Len(acc) : Fair(q[i], hits, k + 1) /\ \E g \in 1..(k + 1) : q[i] = hits[g][2]
               => Collapsed(q, hits, k + 1)
    BY <2>7, <2>8 DEF Collapsed
  <2>. QED  BY <2>4, <2>5, <2>6, <2>9
<1>. QED  BY <1>2, <1>3

(* dedupe() leaves one fair paper of every work. *)
LEMMA DedupeFair ==
  ASSUME NEW K, NEW hits \in Seq(K \X Papers)
  PROVE  Collapsed(Dedupe(hits), hits, Len(hits))
<1>. DEFINE n == Len(hits)
            Step(f) == [s \in SUBSET (1..n) |-> IF s = {} THEN <<>> ELSE Joined(f[s \ {Max(s)}], hits[Max(s)])]
            iter == CHOOSE f : f = Step(f)
<1>1. n \in Nat /\ DOMAIN hits = 1..n /\ \A h \in 1..n : hits[h][2] \in Papers
  OBVIOUS
<1>2. Dedupe(hits) = iter[1..n]
  <2>1. Dedupe(hits) = LET f == CHOOSE f : f = [s \in SUBSET (DOMAIN hits) |->
                                  IF s = {} THEN <<>> ELSE Joined(f[s \ {Max(s)}], hits[Max(s)])]
                       IN f[DOMAIN hits]
    BY DEF Dedupe, FoldLeft, MapThenFoldSet, Joined, Better
  <2>. QED  BY <1>1, <2>1
<1>3. iter = Step(iter)
  <2>1. \E f : f = Step(f)
    BY <1>1, FoldExists DEF Folded
  <2>. HIDE DEF Step
  <2>. QED  BY <2>1
<1>. DEFINE T == {k \in 0..n : Collapsed(iter[1..k], hits, k)}
<1>. HIDE DEF iter
<1>4. 0 \in T
  <2>1. 1..0 = {} /\ 1..0 \in SUBSET (1..n)
    BY <1>1
  <2>2. iter[1..0] = <<>>
    BY <1>3, <2>1
  <2>3. <<>> \in Seq(Papers) /\ Len(<<>>) = 0 /\ 0 \in 0..n
    BY <1>1
  <2>. QED  BY <2>1, <2>2, <2>3 DEF Collapsed
<1>5. ASSUME NEW k \in Nat, k < n, k \in T
      PROVE  k + 1 \in T
  <2>1. 1..(k + 1) \in SUBSET (1..n) /\ k + 1 \in 0..n
    BY <1>1, <1>5
  <2>2. Max(1..(k + 1)) = k + 1 /\ (1..(k + 1)) \ {k + 1} = 1..k /\ 1..(k + 1) # {}
    BY MaxFirst
  <2>3. iter[1..(k + 1)] = Joined(iter[1..k], hits[k + 1])
    BY <1>3, <2>1, <2>2
  <2>4. Collapsed(iter[1..k], hits, k) /\ \A h \in 1..(k + 1) : hits[h][2] \in Papers
    BY <1>1, <1>5, <2>1
  <2>5. Collapsed(iter[1..(k + 1)], hits, k + 1)
    BY <2>3, <2>4, JoinedKeeps
  <2>. QED  BY <2>1, <2>5
<1>. HIDE DEF T, n
<1>6. n \in T
  <2>1. \A k \in 0..n : k \in T
    BY <1>1, <1>4, <1>5, Climb
  <2>. QED  BY <1>1, <2>1
<1>. QED  BY <1>2, <1>6 DEF T, n

-----------------------------------------------------------------------------
(* rank() *)

Earlier(papers, i, j) ==
  papers[i].score > papers[j].score \/ (papers[i].score = papers[j].score /\ i < j)

Order(papers, s, n, o) ==
  o \in [1..n -> s] /\ \A i, j \in 1..n : i < j => Earlier(papers, o[i], o[j])

(* Of any papers one comes last: of the lowest score, the last. *)
LEMMA SomeLast ==
  ASSUME NEW papers \in Seq(Papers), NEW s \in SUBSET (1..Len(papers)), s # {}
  PROVE  \E m \in s : \A i \in s : i # m => Earlier(papers, i, m)
<1>1. \A i \in s : papers[i].score \in Nat /\ i \in Nat
  BY EvidenceAssumption DEF Paper
<1>. DEFINE U == {x \in Nat : \E i \in s : x = papers[i].score}
<1>2. U \in SUBSET Nat /\ U # {}
  BY <1>1
<1>3. PICK x \in U : \A y \in U : x <= y
  BY <1>2, Smallest
<1>. DEFINE L == {i \in s : papers[i].score = x}
<1>4. Len(papers) \in Nat /\ L \in SUBSET (1..Len(papers)) /\ L # {}
  <2>1. PICK i \in s : x = papers[i].score
    BY <1>3
  <2>2. i \in L /\ L \subseteq s
    BY <2>1
  <2>3. Len(papers) \in Nat
    OBVIOUS
  <2>. HIDE DEF L
  <2>. QED  BY <2>2, <2>3
<1>5. Max(L) \in L /\ \A y \in L : Max(L) >= y
  BY <1>4, MaxType
<1>6. ASSUME NEW i \in s, i # Max(L)
      PROVE  Earlier(papers, i, Max(L))
  <2>1. papers[i].score \in U
    BY <1>1
  <2>2. papers[i].score >= x /\ x \in Nat /\ papers[Max(L)].score = x /\ Max(L) \in Nat
    BY <1>1, <1>3, <1>5, <2>1
  <2>3. CASE papers[i].score = x
    <3>1. i \in L
      BY <2>3
    <3>2. Max(L) >= i
      BY <1>5, <3>1
    <3>. QED  BY <1>1, <1>6, <2>2, <2>3, <3>2 DEF Earlier
  <2>4. CASE papers[i].score # x
    BY <1>1, <2>2, <2>4 DEF Earlier
  <2>. QED  BY <2>3, <2>4
<1>. QED  BY <1>5, <1>6

LEMMA OrderExists ==
  ASSUME NEW papers \in Seq(Papers), NEW s \in SUBSET (1..Len(papers))
  PROVE  IsFiniteSet(s) /\ \E o : Order(papers, s, Cardinality(s), o)
<1>. DEFINE T == {k \in Nat : \A t \in SUBSET (1..Len(papers)) :
                     Cardinality(t) = k => \E o : Order(papers, t, k, o)}
<1>1. \A t \in SUBSET (1..Len(papers)) : IsFiniteSet(t) /\ Cardinality(t) \in Nat
  <2>1. Len(papers) \in Int /\ 1 \in Int
    OBVIOUS
  <2>2. IsFiniteSet(1..Len(papers))
    BY <2>1, FS_Interval
  <2>. QED  BY <2>2, FS_Subset, FS_CardinalityType
<1>2. 0 \in T
  <2>1. \A t : [i \in 1..0 |-> 0] \in [1..0 -> t]
    OBVIOUS
  <2>2. \A t : Order(papers, t, 0, [i \in 1..0 |-> 0])
    BY <2>1 DEF Order
  <2>. QED  BY <2>2
<1>3. ASSUME NEW k \in Nat, k < Cardinality(s), k \in T
      PROVE  k + 1 \in T
  <2>. SUFFICES ASSUME NEW t \in SUBSET (1..Len(papers)), Cardinality(t) = k + 1
                PROVE  \E o : Order(papers, t, k + 1, o)
    OBVIOUS
  <2>1. t # {}
    BY FS_EmptySet, <1>1
  <2>2. PICK m \in t : \A i \in t : i # m => Earlier(papers, i, m)
    BY <2>1, SomeLast
  <2>3. Cardinality(t \ {m}) = k /\ t \ {m} \in SUBSET (1..Len(papers))
    BY <1>1, <2>2, FS_RemoveElement
  <2>4. PICK o : Order(papers, t \ {m}, k, o)
    BY <1>3, <2>3
  <2>. DEFINE q == [i \in 1..(k + 1) |-> IF i = k + 1 THEN m ELSE o[i]]
  <2>5. \A i \in 1..(k + 1) : i # k + 1 => i \in 1..k
    OBVIOUS
  <2>6. \A i \in 1..k : o[i] \in t /\ o[i] # m
    BY <2>4 DEF Order
  <2>7. q \in [1..(k + 1) -> t]
    BY <2>2, <2>5, <2>6
  <2>8. ASSUME NEW i \in 1..(k + 1), NEW j \in 1..(k + 1), i < j
        PROVE  Earlier(papers, q[i], q[j])
    <3>1. i \in 1..k /\ q[i] = o[i]
      BY <2>8
    <3>2. CASE j = k + 1
      BY <2>2, <2>6, <3>1, <3>2
    <3>3. CASE j # k + 1
      BY <2>4, <2>5, <2>8, <3>1, <3>3 DEF Order
    <3>. QED  BY <3>2, <3>3
  <2>9. Order(papers, t, k + 1, q)
    BY <2>7, <2>8 DEF Order
  <2>. QED  BY <2>9
<1>. HIDE DEF T
<1>4. Cardinality(s) \in T
  <2>1. Cardinality(s) \in Nat /\ Cardinality(s) \in 0..Cardinality(s)
    BY <1>1
  <2>2. \A k \in 0..Cardinality(s) : k \in T
    BY <1>2, <1>3, <2>1, Climb
  <2>. QED  BY <2>1, <2>2
<1>. QED  BY <1>1, <1>4 DEF T

(* Papers that each stand for a work of their own, and fairly *)
OneEach(papers, hits) ==
  /\ papers \in Seq(Papers)
  /\ \A i, j \in 1..Len(papers) : i # j => Origin(papers[i]) # Origin(papers[j])
  /\ \A i \in 1..Len(papers) : Fair(papers[i], hits, Len(hits))

LEMMA RankedKeeps ==
  ASSUME NEW hits, NEW papers, OneEach(papers, hits)
  PROVE  OneEach(Ranked(papers), hits)
<1>. DEFINE sharing == {i \in 1..Len(papers) : papers[i].score > 0}
            n == Cardinality(sharing)
            o == CHOOSE f \in [1..n -> sharing] : \A i, j \in 1..n : i < j => Earlier(papers, f[i], f[j])
<1>1. papers \in Seq(Papers) /\ sharing \in SUBSET (1..Len(papers)) /\ Len(papers) \in Nat
  BY DEF OneEach
<1>2. n \in Nat /\ Order(papers, sharing, n, o)
  <2>1. IsFiniteSet(sharing) /\ \E f : Order(papers, sharing, n, f)
    BY <1>1, OrderExists
  <2>2. \E f \in [1..n -> sharing] : \A i, j \in 1..n : i < j => Earlier(papers, f[i], f[j])
    BY <2>1 DEF Order
  <2>3. n \in Nat
    BY <2>1, FS_CardinalityType
  <2>. HIDE DEF sharing, n
  <2>. QED  BY <2>2, <2>3 DEF Order
<1>3. Ranked(papers) = [i \in 1..n |-> papers[o[i]]]
  BY DEF Ranked, Earlier
<1>. HIDE DEF o, n, sharing
<1>4. \A i \in 1..n : o[i] \in 1..Len(papers)
  BY <1>1, <1>2 DEF Order
<1>5. \A i, j \in 1..n : i # j => o[i] # o[j]
  <2>1. \A i \in 1..Len(papers) : ~Earlier(papers, i, i)
    <3>1. \A i \in 1..Len(papers) : papers[i].score \in Nat /\ i \in Nat
      BY <1>1, EvidenceAssumption DEF Paper
    <3>. QED  BY <3>1 DEF Earlier
  <2>2. \A i, j \in 1..n : i < j => o[i] # o[j]
    BY <1>2, <1>4, <2>1 DEF Order
  <2>3. \A i, j \in 1..n : i # j => i < j \/ j < i
    BY <1>2
  <2>. QED  BY <2>2, <2>3
<1>6. Ranked(papers) \in Seq(Papers) /\ Len(Ranked(papers)) = n
  BY <1>1, <1>2, <1>3, <1>4
<1>7. \A i \in 1..n : Ranked(papers)[i] = papers[o[i]]
  BY <1>3
<1>8. \A i \in 1..n : Fair(Ranked(papers)[i], hits, Len(hits))
  BY <1>4, <1>7 DEF OneEach
<1>9. \A i, j \in 1..n : i # j => Origin(Ranked(papers)[i]) # Origin(Ranked(papers)[j])
  BY <1>4, <1>5, <1>7 DEF OneEach
<1>. QED  BY <1>6, <1>8, <1>9 DEF OneEach

LEMMA CappedKeeps ==
  ASSUME NEW hits, NEW papers, OneEach(papers, hits), NEW n \in Nat
  PROVE  OneEach(Capped(papers, n), hits)
<1>. DEFINE m == IF Len(papers) < n THEN Len(papers) ELSE n
<1>1. papers \in Seq(Papers) /\ Len(papers) \in Nat /\ m \in 0..Len(papers) /\ Capped(papers, n) = SubSeq(papers, 1, m)
  BY DEF OneEach, Capped
<1>. HIDE DEF m
<1>2. /\ Capped(papers, n) \in Seq(Papers) /\ Len(Capped(papers, n)) = m
      /\ \A i \in 1..m : Capped(papers, n)[i] = papers[i] /\ i \in 1..Len(papers)
  BY <1>1
<1>. QED  BY <1>2 DEF OneEach

-----------------------------------------------------------------------------
(* One vote for every work, from the hits to the passages *)

VotesOK ==
  LET read == result.passages IN
  /\ \E K : found \in Seq(K \X Papers)
  /\ \A i \in 1..Len(read) : Fair(read[i].paper, found, Len(found))
  /\ \A i, j \in 1..Len(read) : i # j => Origin(read[i].paper) # Origin(read[j].paper)
  /\ fetch # NoFetch => chosen # <<>>
  /\ pc = "read" => /\ OneEach(chosen, found)
                    /\ \A i \in 1..Len(read), j \in 1..Len(chosen) : Origin(read[i].paper) # Origin(chosen[j])

(* Without a passage only the hits and the fetch matter. *)
LEMMA NothingRead ==
  ASSUME result'.passages = <<>>, \E K : found' \in Seq(K \X Papers), fetch' # NoFetch => chosen' # <<>>,
         pc' = "read" => OneEach(chosen', found')
  PROVE  VotesOK'
<1>1. Len(<<>>) = 0 /\ 1..0 = {}
  OBVIOUS
<1>. QED  BY <1>1 DEF VotesOK

LEMMA VotesInit == EInit => VotesOK
<1>. SUFFICES ASSUME EInit PROVE VotesOK
  OBVIOUS
<1>1. <<>> \in Seq({} \X Papers) /\ Len(<<>>) = 0 /\ 1..0 = {}
  OBVIOUS
<1>. QED  BY <1>1 DEF EInit, NewResult, VotesOK

LEMMA PlanVotes == EInv /\ VotesOK /\ (Plan \/ OverClaimLimit) => VotesOK'
<1>. SUFFICES ASSUME EInv, VotesOK, Plan \/ OverClaimLimit PROVE VotesOK'
  OBVIOUS
<1>1. /\ pc' # "read" /\ UNCHANGED <<found, chosen, fetch>> /\ result = NewResult
      /\ result'.passages = result.passages
  <2>1. pc = "plan" /\ result = NewResult
    BY DEF EInv, CallsOK, Plan, OverClaimLimit
  <2>2. CASE OverClaimLimit
    BY <2>1, <2>2 DEF OverClaimLimit, NewResult
  <2>3. CASE Plan
    BY <2>1, <2>3 DEF Plan, Fallback, NewResult
  <2>. QED  BY <2>2, <2>3
<1>2. result'.passages = <<>>
  BY <1>1 DEF NewResult
<1>3. (\E K : found' \in Seq(K \X Papers)) /\ (fetch' # NoFetch => chosen' # <<>>)
  BY <1>1 DEF VotesOK
<1>. QED  BY <1>1, <1>2, <1>3, NothingRead

LEMMA SearchVotes == EInv /\ VotesOK /\ Search => VotesOK'
<1>. SUFFICES ASSUME EInv, VotesOK, Search PROVE VotesOK'
  OBVIOUS
<1>1. /\ pc = "search" /\ pc' = "search" /\ UNCHANGED <<chosen, fetch>> /\ ResultT(result)
      /\ result.passages = <<>>
  BY DEF EInv, Typed, SearchesOK, Search
<1>2. result'.passages = <<>>
  BY <1>1 DEF Search, ResultT
<1>3. \E K : found' \in Seq(K \X Papers)
  <2>1. PICK K : found \in Seq(K \X Papers)
    BY DEF VotesOK
  <2>2. CASE UNCHANGED found
    BY <2>1, <2>2
  <2>3. ASSUME NEW hits \in Hits, found' = found \o [i \in 1..Len(hits) |-> <<Head(queries), hits[i]>>]
        PROVE  \E J : found' \in Seq(J \X Papers)
    <3>. DEFINE J == K \cup {Head(queries)}
                more == [i \in 1..Len(hits) |-> <<Head(queries), hits[i]>>]
    <3>1. hits \in Seq(Papers)
      BY EvidenceAssumption
    <3>2. more \in Seq(J \X Papers)
      BY <3>1
    <3>3. found \in Seq(J \X Papers)
      BY <2>1
    <3>. HIDE DEF J, more
    <3>4. found \o more \in Seq(J \X Papers)
      BY <3>2, <3>3
    <3>. QED  BY <2>3, <3>4 DEF more
  <2>. QED  BY <2>2, <2>3 DEF Search
<1>. QED  BY <1>1, <1>2, <1>3, NothingRead DEF VotesOK

LEMMA SearchedVotes == EInv /\ VotesOK /\ Searched => VotesOK'
<1>. SUFFICES ASSUME EInv, VotesOK, Searched PROVE VotesOK'
  OBVIOUS
<1>1. /\ pc = "search" /\ UNCHANGED <<found, fetch>> /\ ResultT(result) /\ result.passages = <<>>
      /\ fetch = NoFetch
  BY DEF EInv, Typed, SearchesOK, DialledOK, Searched
<1>2. result'.passages = <<>>
  BY <1>1 DEF Searched, ResultT
<1>3. PICK K : found \in Seq(K \X Papers)
  BY DEF VotesOK
<1>4. pc' = "read" => OneEach(chosen', found')
  <2>. SUFFICES ASSUME pc' = "read" PROVE OneEach(chosen', found')
    OBVIOUS
  <2>1. chosen' = Capped(Ranked(Capped(Dedupe(found), max_candidates)), max_passages)
    BY DEF Searched
  <2>2. OneEach(Dedupe(found), found)
    BY <1>3, DedupeFair DEF Collapsed, OneEach
  <2>3. max_candidates \in Nat /\ max_passages \in Nat
    BY EvidenceAssumption
  <2>4. OneEach(Ranked(Capped(Dedupe(found), max_candidates)), found)
    BY <2>2, <2>3, CappedKeeps, RankedKeeps
  <2>. QED  BY <1>1, <2>1, <2>3, <2>4, CappedKeeps
<1>. QED  BY <1>1, <1>2, <1>3, <1>4, NothingRead

(* Reading moves the first chosen paper to the passages, or leaves both. *)
LEMMA ReadingVotes ==
  ASSUME EInv, VotesOK, pc = "read", pc' = "read", UNCHANGED found,
         \/ UNCHANGED <<result, chosen>> /\ (fetch' # NoFetch => chosen # <<>>)
         \/ chosen # <<>> /\ \E level : AddPassage(level)
  PROVE  VotesOK'
<1>1. CASE UNCHANGED <<result, chosen>> /\ (fetch' # NoFetch => chosen # <<>>)
  BY <1>1 DEF VotesOK
<1>2. CASE chosen # <<>> /\ \E level : AddPassage(level)
  <2>1. PICK level : AddPassage(level)
    BY <1>2
  <2>2. PICK status : result' = [result EXCEPT !.passages =
                         Append(@, [paper |-> Head(chosen), level |-> level, retraction |-> status])]
    BY <2>1 DEF AddPassage
  <2>. DEFINE new == [paper |-> Head(chosen), level |-> level, retraction |-> status]
              read == result.passages
              n == Len(read)
  <2>3. chosen \in Seq(Papers) /\ chosen' = Tail(chosen) /\ fetch' = NoFetch /\ OneEach(chosen, found)
    BY <2>1 DEF VotesOK, AddPassage, OneEach
  <2>4. /\ Len(chosen) \in Nat /\ Len(chosen) > 0 /\ Head(chosen) = chosen[1]
        /\ chosen' \in Seq(Papers) /\ Len(chosen') = Len(chosen) - 1
        /\ \A j \in 1..Len(chosen') : chosen'[j] = chosen[j + 1] /\ j + 1 \in 1..Len(chosen) /\ j + 1 # 1
        /\ 1 \in 1..Len(chosen)
    BY <1>2, <2>3
  <2>5. result'.passages = Append(read, new)
    BY <2>2 DEF EInv, Typed, ResultT
  <2>6. PICK T : read \in Seq(T)
    BY DEF EInv, Typed, ResultT, IsSeq
  <2>7. read \in Seq(T \cup {new})
    BY <2>6
  <2>8. /\ n \in Nat /\ Len(result'.passages) = n + 1 /\ result'.passages[n + 1] = new
        /\ \A i \in 1..n : result'.passages[i] = read[i]
        /\ \A i \in 1..(n + 1) : i \in 1..n \/ i = n + 1
    BY <2>5, <2>7
  <2>. HIDE DEF n
  <2>9. new.paper = chosen[1]
    BY <2>4
  <2>10. \A i \in 1..n : Origin(read[i].paper) # Origin(new.paper)
    BY <2>4, <2>9 DEF VotesOK, n
  <2>. HIDE DEF new
  <2>11. \A i \in 1..(n + 1) : Fair(result'.passages[i].paper, found, Len(found))
    BY <2>3, <2>4, <2>8, <2>9 DEF VotesOK, n, OneEach
  <2>12. ASSUME NEW i \in 1..(n + 1), NEW j \in 1..(n + 1), i # j
         PROVE  Origin(result'.passages[i].paper) # Origin(result'.passages[j].paper)
    <3>1. CASE i \in 1..n /\ j \in 1..n
      BY <2>8, <2>12, <3>1 DEF VotesOK, n
    <3>2. CASE i = n + 1 /\ j \in 1..n
      BY <2>8, <2>10, <3>2
    <3>3. CASE j = n + 1 /\ i \in 1..n
      BY <2>8, <2>10, <3>3
    <3>. QED  BY <2>8, <2>12, <3>1, <3>2, <3>3
  <2>13. OneEach(chosen', found)
    <3>1. ASSUME NEW i \in 1..Len(chosen'), NEW j \in 1..Len(chosen'), i # j
          PROVE  Origin(chosen'[i]) # Origin(chosen'[j])
      <4>1. i + 1 # j + 1
        BY <3>1
      <4>. QED  BY <2>3, <2>4, <4>1 DEF OneEach
    <3>. QED  BY <2>3, <2>4, <3>1 DEF OneEach
  <2>14. ASSUME NEW i \in 1..(n + 1), NEW j \in 1..Len(chosen')
         PROVE  Origin(result'.passages[i].paper) # Origin(chosen'[j])
    <3>1. chosen'[j] = chosen[j + 1] /\ j + 1 \in 1..Len(chosen) /\ j + 1 # 1
      BY <2>4
    <3>2. CASE i \in 1..n
      <4>1. Origin(read[i].paper) # Origin(chosen[j + 1])
        BY <3>1, <3>2 DEF VotesOK, n
      <4>. QED  BY <2>8, <3>1, <3>2, <4>1
    <3>3. CASE i = n + 1
      <4>1. Origin(chosen[1]) # Origin(chosen[j + 1])
        BY <2>3, <2>4, <3>1 DEF OneEach
      <4>. QED  BY <2>8, <2>9, <3>1, <3>3, <4>1
    <3>. QED  BY <2>8, <3>2, <3>3
  <2>15. \E K : found' \in Seq(K \X Papers)
    BY DEF VotesOK
  <2>. QED  BY <2>3, <2>8, <2>11, <2>12, <2>13, <2>14, <2>15 DEF VotesOK
<1>. QED  BY <1>1, <1>2

LEMMA ReadVotes == EInv /\ VotesOK /\ (Read \/ StartFetch \/ FetchHop) => VotesOK'
<1>. SUFFICES ASSUME EInv, VotesOK, Read \/ StartFetch \/ FetchHop PROVE VotesOK'
  OBVIOUS
<1>1. pc = "read" /\ pc' = "read" /\ UNCHANGED found /\ chosen # <<>>
  BY DEF EInv, DialledOK, VotesOK, Read, StartFetch, FetchHop
<1>2. UNCHANGED <<result, chosen>> \/ \E level : AddPassage(level)
  BY DEF Read, StartFetch, FetchHop, Fetching, Absent
<1>. QED  BY <1>1, <1>2, ReadingVotes

LEMMA LaterVotes == EInv /\ VotesOK /\ (Retrieved \/ Restart \/ AssessClaim) => VotesOK'
<1>1. ASSUME EInv, VotesOK, Retrieved
      PROVE  VotesOK'
  <2>1. found' = <<>> /\ pc' = "assess" /\ UNCHANGED <<result, chosen, fetch>>
    BY <1>1 DEF Retrieved
  <2>2. <<>> \in Seq({} \X Papers) /\ Len(<<>>) = 0 /\ 1..0 = {}
    OBVIOUS
  <2>. QED  BY <1>1, <2>1, <2>2 DEF VotesOK, Fair
<1>2. ASSUME EInv, VotesOK, Restart
      PROVE  VotesOK'
  <2>1. CASE pc = "assess"
    BY <1>2, <2>1 DEF Restart, VotesOK
  <2>2. CASE pc # "assess"
    <3>1. /\ pc' = "plan" /\ result'.passages = <<>> /\ fetch' = NoFetch /\ found' = <<>>
      BY <1>2, <2>2 DEF Restart, NewResult
    <3>2. <<>> \in Seq({} \X Papers)
      OBVIOUS
    <3>. QED  BY <3>1, <3>2, NothingRead
  <2>. QED  BY <2>1, <2>2
<1>3. ASSUME EInv, VotesOK, AssessClaim
      PROVE  VotesOK'
  BY <1>3 DEF AssessClaim, VotesOK
<1>. QED  BY <1>1, <1>2, <1>3

LEMMA VotesStep == EInv /\ VotesOK /\ [ENext]_evars => VotesOK'
<1>1. EInv /\ VotesOK /\ UNCHANGED evars => VotesOK'
  BY DEF evars, VotesOK
<1>. QED  BY <1>1, PlanVotes, SearchVotes, SearchedVotes, ReadVotes, LaterVotes DEF ENext

-----------------------------------------------------------------------------
(* Theorems *)

LEMMA EvidenceStep == EInv /\ [ENext]_evars => EInv'
<1>. SUFFICES ASSUME EInv, [ENext]_evars PROVE EInv'
  OBVIOUS
<1>1. CASE UNCHANGED evars
  BY <1>1 DEF evars, EInv, Typed, CallsOK, SearchesOK, Incomplete, DialledOK, LabelHonest
<1>. QED  BY <1>1, PlanInv, OverClaimLimitInv, SearchInv, SearchedInv, ReadInv, StartFetchInv,
              FetchHopInv, RetrievedInv, RestartInv, AssessInv DEF ENext

(* The invariant of the evidence stages holds in every behaviour. *)
THEOREM EvidenceInvariance == ESpec => []EInv
  BY EvidenceInit, EvidenceStep, PTL DEF ESpec

(* What the running stage has cost so far, with what retrieval used, and   *)
(* that everything billed before it was lost to an interruption            *)
Running == (IF pc \in {"assess", "done"} THEN result.used ELSE 0) + calls

CostOK == billed \in Nat /\ restarts \in Nat /\ billed <= restarts * max_llm_calls + Running

LEMMA RunningBound == EInv => Running \in Nat /\ Running <= max_llm_calls
<1>. SUFFICES ASSUME EInv PROVE Running \in Nat /\ Running <= max_llm_calls
  OBVIOUS
<1>1. /\ pc \in Stages /\ attempt \in {0, 1} /\ calls \in Nat /\ result.used \in Nat /\ CallsOK
  BY DEF EInv, Typed, ResultT
<1>2. max_llm_calls \in Nat /\ max_llm_calls >= 2
  BY EvidenceAssumption
<1>. QED  BY <1>1, <1>2 DEF CallsOK, Running, Stages

(* What was billed stays within the runs that were lost and the running one. *)
LEMMA LostRun ==
  ASSUME NEW b \in Nat, NEW n \in Nat, NEW m \in Nat, NEW r \in Nat, NEW q \in Nat, r <= m, b <= n * m + r
  PROVE  b <= (n + 1) * m + q /\ b <= (n + 1) * m /\ b + 1 <= n * m + (r + 1)
<1>1. PICK x \in Nat : x = n * m
  OBVIOUS
<1>2. (n + 1) * m = n * m + m
  OBVIOUS
<1>3. b <= x + r /\ (n + 1) * m = x + m
  BY <1>1, <1>2
<1>4. b <= x + m /\ b <= (x + m) + q /\ b + 1 <= x + (r + 1)
  BY <1>3
<1>. QED  BY <1>1, <1>3, <1>4

(* A step costs what it calls, moves what was used from one stage to the   *)
(* next, or loses the run to an interruption.                              *)
LEMMA StepCosts ==
  ASSUME EInv, EInv', [ENext]_evars
  PROVE  \/ billed' = billed + 1 /\ Running' = Running + 1 /\ restarts' = restarts
         \/ billed' = billed /\ Running' = Running /\ restarts' = restarts
         \/ billed' = billed /\ restarts' = restarts + 1
<1>1. /\ calls \in Nat /\ result.used \in Nat /\ result'.used \in Nat /\ CallsOK /\ CallsOK' /\ ResultT(result)
      /\ ResultT(result')
  BY DEF EInv, Typed, ResultT
<1>2. CASE UNCHANGED evars
  BY <1>2 DEF evars, Running
<1>3. CASE Plan
  BY <1>1, <1>3 DEF Plan, Fallback, CallRouter, Running
<1>4. CASE OverClaimLimit \/ Search \/ Searched
  BY <1>1, <1>4 DEF OverClaimLimit, Search, Searched, Running
<1>5. CASE Read \/ StartFetch \/ FetchHop
  <2>1. pc = "read"
    BY <1>5 DEF EInv, DialledOK, Read, StartFetch, FetchHop
  <2>. QED  BY <1>1, <1>5, <2>1 DEF Read, StartFetch, FetchHop, Running
<1>6. CASE Retrieved
  BY <1>1, <1>6 DEF Retrieved, CallsOK, Running
<1>7. CASE Restart
  BY <1>7 DEF Restart
<1>8. CASE AssessClaim
  BY <1>1, <1>8 DEF AssessClaim, CallRouter, Running
<1>. QED  BY <1>2, <1>3, <1>4, <1>5, <1>6, <1>7, <1>8 DEF ENext

(* One run of both stages makes at most max_llm_calls router calls for a   *)
(* claim, repairs included, and every run that was interrupted costs at    *)
(* most that many more.                                                    *)
THEOREM CallsStayInBudget == ESpec => []CallsBound
<1>1. EInv /\ CostOK => CallsBound
  <2>. SUFFICES ASSUME EInv, CostOK PROVE CallsBound
    OBVIOUS
  <2>1. /\ Running \in Nat /\ Running <= max_llm_calls /\ restarts \in Nat /\ billed \in Nat
        /\ max_llm_calls \in Nat /\ billed <= restarts * max_llm_calls + Running
    BY RunningBound, EvidenceAssumption DEF CostOK
  <2>2. billed <= (restarts + 1) * max_llm_calls
    BY <2>1, LostRun
  <2>. QED  BY <2>1, <2>2 DEF CallsBound, Running
<1>2. EInit => EInv /\ CostOK
  BY EvidenceInit, EvidenceAssumption DEF EInit, CostOK, Running
<1>3. EInv /\ CostOK /\ [ENext]_evars => (EInv /\ CostOK)'
  <2>. SUFFICES ASSUME EInv, CostOK, [ENext]_evars PROVE EInv' /\ CostOK'
    OBVIOUS
  <2>1. EInv'
    BY EvidenceStep
  <2>2. /\ Running \in Nat /\ Running' \in Nat /\ Running <= max_llm_calls /\ restarts \in Nat
        /\ billed \in Nat /\ max_llm_calls \in Nat /\ billed <= restarts * max_llm_calls + Running
    <3>1. Running' \in Nat
      BY <2>1 DEF EInv, Typed, ResultT, Running
    <3>. QED  BY <3>1, RunningBound, EvidenceAssumption DEF CostOK
  <2>3. \/ billed' = billed + 1 /\ Running' = Running + 1 /\ restarts' = restarts
        \/ billed' = billed /\ Running' = Running /\ restarts' = restarts
        \/ billed' = billed /\ restarts' = restarts + 1
    BY <2>1, StepCosts
  <2>4. /\ billed <= (restarts + 1) * max_llm_calls + Running'
        /\ billed + 1 <= restarts * max_llm_calls + (Running + 1)
    BY <2>2, LostRun
  <2>. QED  BY <2>1, <2>2, <2>3, <2>4 DEF CostOK
<1>. QED  BY <1>1, <1>2, <1>3, PTL DEF ESpec

(* Whatever resolvers and servers answer, connections go to public         *)
(* addresses over https, and no more of them than the redirects of the     *)
(* three sources of every full text.                                       *)
THEOREM EgressIsGuarded == ESpec => []EgressGuarded
<1>1. EInv => EgressGuarded
  <2>. SUFFICES ASSUME EInv PROVE EgressGuarded
    OBVIOUS
  <2>1. dialled \in Seq({<<"https", "public">>}) /\ FetchT(fetch) /\ left \in 0..max_full_text
    BY DEF EInv, Typed, DialledOK
  <2>2. \A i \in 1..Len(dialled) : dialled[i] = <<"https", "public">>
    BY <2>1
  <2>3. Len(dialled) \in Nat /\ Spent(left) \in Nat /\ Spent(left) <= max_full_text * Hops
    BY <2>1, SpentType
  <2>4. Len(dialled) <= 3 * Spent(left)
    <3>1. CASE fetch = NoFetch
      BY <3>1 DEF EInv, DialledOK
    <3>2. CASE fetch # NoFetch
      <4>1. Owed(fetch) \in Nat /\ Len(dialled) + Owed(fetch) <= 3 * Spent(left)
        BY <2>1, <3>2, OwedType DEF EInv, DialledOK
      <4>. QED  BY <2>3, <4>1
    <3>. QED  BY <3>1, <3>2
  <2>5. 3 * Spent(left) <= 3 * max_full_text * (MAX_REDIRECTS + 1)
    <3>1. max_full_text \in Nat /\ MAX_REDIRECTS \in Nat
      BY EvidenceAssumption
    <3>2. max_full_text * Hops \in Nat
      BY <3>1, SpentType
    <3>3. 3 * (max_full_text * Hops) = 3 * max_full_text * (MAX_REDIRECTS + 1)
      BY <3>1 DEF Hops
    <3>. QED  BY <2>3, <3>2, <3>3
  <2>. QED  BY <2>2, <2>3, <2>4, <2>5, EvidenceAssumption DEF EgressGuarded
<1>. QED  BY <1>1, EvidenceInvariance, PTL

(* What a claim is called follows from works, told by Paper.origin, that   *)
(* each count once: the label says what the counted sources say, passages  *)
(* are of distinct works, and an older version is read only where one at   *)
(* least as late as the one it stands for was found without an abstract.   *)
THEOREM VerdictsAreHonest == ESpec => []VerdictHonest
<1>1. EInv /\ VotesOK => VerdictHonest
  BY DEF EInv, VotesOK, Fair, VerdictHonest, OneVotePerWork
<1>2. EInit => EInv /\ VotesOK
  BY EvidenceInit, VotesInit
<1>3. EInv /\ VotesOK /\ [ENext]_evars => (EInv /\ VotesOK)'
  BY EvidenceStep, VotesStep
<1>. QED  BY <1>1, <1>2, <1>3, PTL DEF ESpec

(* What a claim costs and reaches stays bounded over both stages and every *)
(* run of them (CallBudget, fetch_public).                                 *)
THEOREM OutsideIsBounded == ESpec => []OutsideBounded
BY CallsStayInBudget, EgressIsGuarded, PTL DEF OutsideBounded
=============================================================================
