-------------------------------- MODULE Budget --------------------------------
(***************************************************************************)
(* The provider budgets that every API and worker process shares through   *)
(* PostgreSQL: token buckets, the request slots of providers/budget.py and *)
(* the admission of language model requests of provider_budgets.py.        *)
(*                                                                         *)
(* A "request" caller is TokenBucket.request() around one call of the      *)
(* evidence clients (providers/router.py, providers/papers.py), repeated   *)
(* after a 429; an "admit" caller is LlmAdmission around one request of    *)
(* extraction or reconciliation.  Time is a number of ticks, and is kept   *)
(* as what remains of every wait, so no bound on the clock is needed.      *)
(***************************************************************************)
EXTENDS Integers, FiniteSets

CONSTANTS
  Requesters,     \* processes that call TokenBucket.request()
  Admitters,      \* processes that call LlmAdmission.acquire()
  Buckets,        \* the provider_buckets rows
  Shared,         \* the bucket that request() and admission have in common
  per_hour,       \* per_hour[b]: capacity
  per_tick,       \* per_tick[b]: units refilled in a tick
  Costs,          \* the cost vectors of admission, over Buckets
  concurrency,    \* shared request slots
  max_wait,       \* max_wait_seconds
  request_timeout,\* request_timeout_seconds
  SlotGrace,      \* a slot's lease outlives the request's deadline by this
  MaxLag,         \* how late a process may start the call it has a slot for
  NoOne,          \* the holder of a slot without a lease
  RetryAfter,     \* the Retry-After values a provider sends
  RATE_LIMIT_ATTEMPTS

ASSUME BudgetAssumption ==
  /\ Requesters \cap Admitters = {} /\ NoOne \notin Requesters \cup Admitters /\ Shared \in Buckets
  /\ per_hour \in [Buckets -> Nat \ {0}] /\ per_tick \in [Buckets -> Nat \ {0}]
  /\ Costs \subseteq [Buckets -> Nat]
  /\ {concurrency, max_wait, request_timeout, SlotGrace, RATE_LIMIT_ATTEMPTS} \subseteq Nat \ {0}
  /\ MaxLag \in 0..(SlotGrace - 1) /\ RetryAfter \subseteq Nat

Callers == Requesters \cup Admitters
Slots == 0..(concurrency - 1)

VARIABLES
  bucket,  \* provider_buckets: the refilled balance and what is left of a hold
  slot,    \* provider_slots: the lease's holder and what is left of it
  caller,  \* caller[c]: where it is, what is left of its current wait, ...
  quotas_enabled, \* the setting all processes start with; slots need it
  pause    \* pause[b]: what is left of the last Retry-After, and the units
           \* that were taken less those given back meanwhile (history)

bvars == <<bucket, slot, caller, pause, quotas_enabled>>

-----------------------------------------------------------------------------
(* State *)

Idle == [pc |-> "idle", left |-> 0, slot |-> 0, tries |-> 0, wait |-> 0, owed |-> [b \in Buckets |-> 0]]

Free == [lease |-> NoOne, left |-> 0]

BInit ==
  /\ bucket = [b \in Buckets |-> [tokens |-> per_hour[b], held |-> 0]]
  /\ slot = [s \in Slots |-> Free]
  /\ caller = [c \in Callers |-> Idle]
  /\ pause = [b \in Buckets |-> [left |-> 0, net |-> 0]]
  /\ quotas_enabled \in BOOLEAN

At(c, pc) == caller[c].pc = pc
Positive(n) == IF n > 0 THEN n ELSE 0
Lower(m, n) == IF m < n THEN m ELSE n

(* charges(): one unit of the shared bucket, or a cost vector clamped to   *)
(* the capacities                                                          *)
One == [b \in Buckets |-> IF b = Shared THEN 1 ELSE 0]
Charges(costs) == [b \in Buckets |-> Lower(costs[b], per_hour[b])]

(* The wait _take() answers with is longer than t ticks: a bucket that is  *)
(* charged is held longer, or is refilled later.  At 0 it cannot be taken. *)
WaitPasses(t, charge) ==
  \E b \in Buckets :
    charge[b] > 0 /\ (bucket[b].held > t \/ bucket[b].tokens + t * per_tick[b] < charge[b])

(* The units that moved while the provider asked for a pause *)
Moved(charge, sign) ==
  [b \in Buckets |-> IF pause[b].left > 0 THEN [pause[b] EXCEPT !.net = @ + sign * charge[b]] ELSE pause[b]]

(* _take(), under the locks of all its rows: all or nothing *)
Take(charge) ==
  /\ ~WaitPasses(0, charge)
  /\ bucket' = [b \in Buckets |-> [bucket[b] EXCEPT !.tokens = @ - charge[b]]]
  /\ pause' = Moved(charge, 1)

(* _refund() *)
GiveBack(b, amount) ==
  bucket' = [bucket EXCEPT ![b].tokens = Lower(per_hour[b], @ + amount)]

Paused(b, seconds) ==
  pause' = [pause EXCEPT ![b] = [left |-> IF seconds > @.left THEN seconds ELSE @.left,
                                 net |-> IF @.left > 0 THEN @.net ELSE 0]]

-----------------------------------------------------------------------------
(* TokenBucket.request() *)

(* With quotas on, the deadline of the total wait starts with the first    *)
(* attempt to take; without them, concurrency is 0 and request() is        *)
(* acquire(), which has no deadline.                                       *)
Attempt == IF quotas_enabled THEN "tokens" ELSE "acquire"

Request(c) ==
  /\ At(c, "idle")
  /\ caller' = [caller EXCEPT ![c] = [Idle EXCEPT !.pc = Attempt, !.left = max_wait]]
  /\ UNCHANGED <<bucket, slot, pause, quotas_enabled>>

TakeUnit(c) ==
  /\ At(c, "tokens") /\ Take(One)
  /\ caller' = [caller EXCEPT ![c].pc = "slot", ![c].owed = One]
  /\ UNCHANGED <<slot, quotas_enabled>>

(* acquire() without a deadline: each single wait is bounded by max_wait,  *)
(* the call needs no slot and has no deadline of the bucket's.             *)
Acquire(c) ==
  /\ At(c, "acquire") /\ Take(One)
  /\ caller' = [caller EXCEPT ![c].pc = "unslotted", ![c].left = 0]
  /\ UNCHANGED <<slot, quotas_enabled>>

LimitedAcquire(c) ==
  /\ At(c, "acquire") /\ WaitPasses(max_wait, One)
  /\ caller' = [caller EXCEPT ![c] = Idle]
  /\ UNCHANGED <<bucket, slot, pause, quotas_enabled>>

AnswerUnslotted(c) ==
  /\ At(c, "unslotted")
  /\ \/ caller' = [caller EXCEPT ![c] = Idle]
     \/ \E seconds \in RetryAfter :
          caller' = [caller EXCEPT ![c].pc = "block", ![c].wait = seconds, ![c].tries = @ + 1]
  /\ UNCHANGED <<bucket, slot, pause, quotas_enabled>>

(* Mutant: each single wait is measured against the whole allowance. *)
LimitedUnitEach(c) ==
  /\ At(c, "tokens") /\ WaitPasses(max_wait, One)
  /\ caller' = [caller EXCEPT ![c] = Idle]
  /\ UNCHANGED <<bucket, slot, pause, quotas_enabled>>

(* A wait that would pass the deadline is RateLimited, and costs nothing.  *)
LimitedUnit(c) ==
  /\ At(c, "tokens") /\ WaitPasses(caller[c].left, One)
  /\ caller' = [caller EXCEPT ![c] = Idle]
  /\ UNCHANGED <<bucket, slot, pause, quotas_enabled>>

(* _slot(): the first slot that is free, or whose lease has expired *)
FreeSlots == {s \in Slots : slot[s].left = 0}
TakeSlot(c) ==
  /\ At(c, "slot")
  /\ \E s \in FreeSlots :
     /\ \A t \in FreeSlots : s <= t
     /\ slot' = [slot EXCEPT ![s] = [lease |-> c, left |-> request_timeout + SlotGrace]]
     /\ caller' = [caller EXCEPT ![c].pc = "granted", ![c].slot = s, ![c].left = MaxLag]
  /\ UNCHANGED <<bucket, pause, quotas_enabled>>

(* No slot came free in time: the unit goes back. *)
GiveUp(c) ==
  /\ At(c, "slot") /\ FreeSlots = {} /\ caller[c].left = 0
  /\ caller' = [caller EXCEPT ![c].pc = "refund"]
  /\ UNCHANGED <<bucket, slot, pause, quotas_enabled>>

(* The call itself, under its own deadline *)
Call(c) ==
  /\ At(c, "granted")
  /\ caller' = [caller EXCEPT ![c].pc = "calling", ![c].left = request_timeout, ![c].owed = [b \in Buckets |-> 0]]
  /\ UNCHANGED <<bucket, slot, pause, quotas_enabled>>

(* An answer, an error or the deadline: only a 429 is tried again. *)
Answer(c) ==
  /\ At(c, "calling")
  /\ \/ caller' = [caller EXCEPT ![c].pc = "release", ![c].left = 0, ![c].wait = 0, ![c].tries = 0]
     \/ /\ caller[c].left > 0
        /\ \E seconds \in RetryAfter :
             caller' = [caller EXCEPT ![c].pc = "release", ![c].left = 0,
                                      ![c].wait = seconds, ![c].tries = @ + 1]
  /\ UNCHANGED <<bucket, slot, pause, quotas_enabled>>

(* The task is cancelled, for a lost lease or a shutdown: the unit that    *)
(* was not used goes back, and so does the slot.                           *)
Cancelled(c) ==
  /\ caller[c].pc \in {"slot", "granted", "calling"}
  /\ caller' = [caller EXCEPT ![c] = [@ EXCEPT !.pc = IF At(c, "slot") THEN "refund" ELSE "release",
                                              !.left = 0, !.tries = 0]]
  /\ UNCHANGED <<bucket, slot, pause, quotas_enabled>>

(* Mutant: whatever lease the slot carries is removed. *)
ReleasedAny(c) ==
  [slot EXCEPT ![caller[c].slot] = Free]

(* Only the caller's own lease is removed. *)
Released(c) ==
  IF slot[caller[c].slot].lease = c
  THEN [slot EXCEPT ![caller[c].slot] = Free]
  ELSE slot

Release(c) ==
  /\ At(c, "release")
  /\ slot' = Released(c)
  /\ caller' = [caller EXCEPT ![c] = IF @.tries > 0 THEN [@ EXCEPT !.pc = "block"] ELSE Idle]
  /\ UNCHANGED <<bucket, pause, quotas_enabled>>

(* block(): the balance is driven below zero for the pause's refill.       *)
Blocked(b, seconds) ==
  [bucket EXCEPT ![b].tokens = Lower(@, -seconds * per_tick[b])]

(* _complete() and _post(): block everybody, then try again or give up. *)
Block(c) ==
  /\ At(c, "block")
  /\ bucket' = Blocked(Shared, caller[c].wait)
  /\ Paused(Shared, caller[c].wait)
  /\ caller' = [caller EXCEPT ![c] = IF @.tries = RATE_LIMIT_ATTEMPTS THEN Idle
                                     ELSE [@ EXCEPT !.pc = Attempt, !.left = max_wait, !.wait = 0]]
  /\ UNCHANGED <<slot, quotas_enabled>>

-----------------------------------------------------------------------------
(* LlmAdmission *)

Ask(c, costs) ==
  /\ At(c, "idle")
  /\ caller' = [caller EXCEPT ![c] = [Idle EXCEPT !.pc = "admit", !.owed = Charges(costs)]]
  /\ UNCHANGED <<bucket, slot, pause, quotas_enabled>>

(* SharedBudget.acquire(): each single wait is bounded by max_wait. *)
Admit(c) ==
  /\ At(c, "admit") /\ Take(caller[c].owed)
  /\ caller' = [caller EXCEPT ![c].pc = "admitted"]
  /\ UNCHANGED <<slot, quotas_enabled>>

LimitedAdmit(c) ==
  /\ At(c, "admit") /\ WaitPasses(max_wait, caller[c].owed)
  /\ caller' = [caller EXCEPT ![c] = Idle]
  /\ UNCHANGED <<bucket, slot, pause, quotas_enabled>>

(* The per-input budget or a cancellation refuses it before it is sent ... *)
Refuse(c) ==
  /\ At(c, "admitted")
  /\ caller' = [caller EXCEPT ![c].pc = "refund"]
  /\ UNCHANGED <<bucket, slot, pause, quotas_enabled>>

(* ... or it is recorded and sent; a 429 holds every bucket it charged.    *)
Dispatch(c) ==
  /\ At(c, "admitted")
  /\ \/ caller' = [caller EXCEPT ![c] = Idle]
     \/ \E seconds \in RetryAfter : caller' = [caller EXCEPT ![c].pc = "hold", ![c].wait = seconds]
  /\ UNCHANGED <<bucket, slot, pause, quotas_enabled>>

(* hold(): the longer of two holds stays, and the balance is kept. *)
Held(b, seconds) == [bucket EXCEPT ![b].held = IF seconds > @ THEN seconds ELSE @]

(* block() and refund() go from bucket to bucket, a transaction each. *)
Settled(c, b) ==
  IF \A x \in Buckets \ {b} : caller[c].owed[x] = 0 THEN Idle ELSE [caller[c] EXCEPT !.owed[b] = 0]

Hold(c, b) ==
  /\ At(c, "hold") /\ caller[c].owed[b] > 0
  /\ bucket' = Held(b, caller[c].wait)
  /\ Paused(b, caller[c].wait)
  /\ caller' = [caller EXCEPT ![c] = Settled(c, b)]
  /\ UNCHANGED <<slot, quotas_enabled>>

Refund(c, b) ==
  /\ At(c, "refund") /\ caller[c].owed[b] > 0
  /\ GiveBack(b, caller[c].owed[b])
  /\ pause' = Moved([x \in Buckets |-> IF x = b THEN caller[c].owed[b] ELSE 0], -1)
  /\ caller' = [caller EXCEPT ![c] = Settled(c, b)]
  /\ UNCHANGED <<slot, quotas_enabled>>

-----------------------------------------------------------------------------

(* A process dies where it stands: units and slots it holds stay behind.   *)
Dies(c) ==
  /\ caller[c].pc # "idle"
  /\ caller' = [caller EXCEPT ![c] = Idle]
  /\ UNCHANGED <<bucket, slot, pause, quotas_enabled>>

(* A tick.  A call ends with its deadline and a granted slot is used at    *)
(* most MaxLag later; every other wait may last as long as it likes.       *)
Tick ==
  /\ \A c \in Callers : caller[c].pc \in {"granted", "calling"} => caller[c].left > 0
  /\ bucket' = [b \in Buckets |-> [tokens |-> Lower(per_hour[b], bucket[b].tokens + per_tick[b]),
                                   held |-> Positive(bucket[b].held - 1)]]
  /\ slot' = [s \in Slots |-> IF slot[s].left > 1 THEN [slot[s] EXCEPT !.left = @ - 1] ELSE Free]
  /\ caller' = [c \in Callers |-> [caller[c] EXCEPT !.left = Positive(@ - 1)]]
  /\ pause' = [b \in Buckets |-> [left |-> Positive(pause[b].left - 1),
                                  net |-> IF pause[b].left > 1 THEN pause[b].net ELSE 0]]
  /\ UNCHANGED quotas_enabled

-----------------------------------------------------------------------------
(* The steps a process takes by itself *)
Advance(c) ==
  \/ TakeUnit(c) \/ LimitedUnit(c) \/ TakeSlot(c) \/ GiveUp(c)
  \/ Acquire(c) \/ LimitedAcquire(c) \/ AnswerUnslotted(c)
  \/ Call(c) \/ Answer(c) \/ Release(c) \/ Block(c)
  \/ \E b \in Buckets : Refund(c, b)

BNext ==
  \/ Tick
  \/ \E c \in Callers : Dies(c)
  \/ \E c \in Requesters : Request(c) \/ Cancelled(c) \/ Advance(c)
  \/ \E c \in Admitters : \/ Admit(c) \/ LimitedAdmit(c) \/ Refuse(c) \/ Dispatch(c)
                          \/ \E costs \in Costs : Ask(c, costs)
                          \/ \E b \in Buckets : Hold(c, b) \/ Refund(c, b)

(* Time passes, and a process goes on with its own steps. *)
BFairness == WF_bvars(Tick) /\ \A c \in Requesters : WF_bvars(Advance(c))

BSpec == BInit /\ [][BNext]_bvars /\ BFairness

-----------------------------------------------------------------------------
(* Properties *)

(* With quotas on, no more calls are in flight than there are slots,       *)
(* although slots expire under crashed processes and a late release meets  *)
(* a successor's lease.                                                    *)
SlotsBound == Cardinality({c \in Requesters : At(c, "calling")}) <= concurrency

(* While a provider's Retry-After lasts, no more units are taken from a    *)
(* bucket than are given back to it, so only a refund can shorten a pause  *)
(* (see PausesLast).  And refunds that arrive after the bucket was         *)
(* refilled never leave room for a burst above capacity.                   *)
BudgetRespected ==
  \A b \in Buckets : pause[b].net <= 0 /\ bucket[b].tokens <= per_hour[b]

(* The two limits a provider sets, calls in flight and units taken.        *)
LimitsKept == SlotsBound /\ BudgetRespected

(* Process c takes units of bucket b in this step. *)
Takes(c, b) ==
  \/ b = Shared /\ \/ At(c, "tokens") /\ caller'[c].pc = "slot"
                   \/ At(c, "acquire") /\ caller'[c].pc = "unslotted"
  \/ At(c, "admit") /\ caller'[c].pc = "admitted" /\ caller[c].owed[b] > 0

(* "Every process pauses exactly that long": nobody takes a unit of a      *)
(* bucket while a Retry-After of its provider lasts.                       *)
PausesLast ==
  [][\A b \in Buckets : pause[b].left > 0 => \A c \in Callers : ~Takes(c, b)]_bvars

(* With quotas on, a request never waits for ever: it is sent, or it is    *)
(* refused within its total wait, whoever else takes the units and the     *)
(* slots.  Without quotas nothing bounds the total wait.                   *)
RequestsEnd == \A c \in Requesters : At(c, "tokens") ~> At(c, "calling") \/ At(c, "idle")
=============================================================================
