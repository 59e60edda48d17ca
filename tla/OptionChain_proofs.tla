------------------------- MODULE OptionChain_proofs -------------------------
(***************************************************************************)
(* The option chain client implements the rate limit for every number of   *)
(* concurrent handlers and every pause.                                    *)
(***************************************************************************)
EXTENDS OptionChain, TLAPS

-----------------------------------------------------------------------------
(* The invariant.  The lock is a queue of the handlers that are not idle,  *)
(* and everyone behind its first member waits.  The first one leaves       *)
(* asyncio.sleep only when the pause is over, and nobody can stamp a new   *)
(* answer before it sends its request.                                     *)

Queue == 1 .. Len(lock)

LockInv ==
  /\ \A i, j \in Queue : lock[i] = lock[j] => i = j
  /\ \A c \in Callers : pc[c] # "idle" => \E i \in Queue : lock[i] = c
  /\ \A i \in Queue : pc[lock[i]] # "idle"
  /\ \A i \in Queue : i # 1 => pc[lock[i]] = "waiting"

PauseInv ==
  /\ age = sinceAnswer
  /\ \A c \in Callers : pc[c] = "sleeping" => age + sleepLeft >= Interval
  /\ \A c \in Callers : pc[c] \in {"headers", "posting"} => age = Interval

IInv == TypeOK /\ LockInv /\ PauseInv

\* Who is neither idle nor waiting holds the lock.
Working(c) == pc[c] \in {"sleeping", "headers", "posting"}

LEMMA WorkingHolds ==
  ASSUME IInv, NEW c \in Callers, Working(c)
  PROVE  /\ lock # <<>> /\ lock[1] = c /\ Head(lock) = c
         /\ \A d \in Callers : Working(d) => d = c
<1>1. ASSUME NEW d \in Callers, Working(d) PROVE lock # <<>> /\ lock[1] = d
  <2>1. PICK i \in Queue : lock[i] = d
    BY <1>1 DEF Working, IInv, LockInv
  <2>2. i = 1
    BY <1>1, <2>1 DEF Working, IInv, LockInv
  <2>3. QED BY <2>1, <2>2 DEF Queue, IInv, TypeOK
<1>2. QED
  BY <1>1 DEF IInv, TypeOK

LEMMA InvInit == Init => IInv
BY OptionChainAssumption DEF Init, IInv, TypeOK, Places, LockInv, Queue, PauseInv

\* The queue when a handler arrives, and when its first member leaves it.
LEMMA AppendKeeps ==
  ASSUME IInv, NEW c \in Callers, pc[c] = "idle", lock' = Append(lock, c),
         pc' = [pc EXCEPT ![c] = "waiting"]
  PROVE  LockInv' /\ lock' \in Seq(Callers)
<1>1. lock \in Seq(Callers) /\ pc \in [Callers -> Places]
  BY DEF IInv, TypeOK
<1>2. /\ lock' \in Seq(Callers) /\ Len(lock') = Len(lock) + 1 /\ lock'[Len(lock) + 1] = c
      /\ \A i \in Queue : lock'[i] = lock[i] /\ lock[i] # c
  BY <1>1 DEF Queue, IInv, LockInv
<1>3. Queue' = Queue \cup {Len(lock) + 1} /\ Len(lock) \in Nat
  BY <1>1, <1>2 DEF Queue
<1>4. \A i \in Queue : lock[i] \in Callers
  BY <1>1 DEF Queue
<1>5. QED
  BY <1>1, <1>2, <1>3, <1>4 DEF IInv, LockInv, Queue, Places

LEMMA ReleaseKeeps ==
  ASSUME IInv, NEW c \in Callers, Working(c),
         \/ lock' = Tail(lock) /\ pc' = [pc EXCEPT ![c] = "idle"]
         \/ lock' = Append(Tail(lock), c) /\ pc' = [pc EXCEPT ![c] = "waiting"]
  PROVE  LockInv' /\ lock' \in Seq(Callers)
<1>1. lock \in Seq(Callers) /\ pc \in [Callers -> Places] /\ lock # <<>> /\ lock[1] = c
  BY WorkingHolds DEF IInv, TypeOK
<1>2. /\ Len(lock) \in Nat /\ Len(lock) > 0
      /\ Tail(lock) \in Seq(Callers) /\ Len(Tail(lock)) = Len(lock) - 1
      /\ \A i \in 1 .. Len(lock) - 1 : Tail(lock)[i] = lock[i + 1]
  BY <1>1
<1>3. \A i \in Queue : lock[i] \in Callers /\ (i # 1 => lock[i] # c)
  BY <1>1, <1>2 DEF Queue, IInv, LockInv
<1>4. CASE lock' = Tail(lock) /\ pc' = [pc EXCEPT ![c] = "idle"]
  <2>1. Queue' = 1 .. Len(lock) - 1
    BY <1>2, <1>4 DEF Queue
  <2>2. \A i \in Queue' : i + 1 \in Queue /\ lock'[i] = lock[i + 1] /\ lock'[i] # c
    BY <1>2, <1>3, <1>4, <2>1 DEF Queue
  <2>3. \A i \in Queue : i # 1 => i - 1 \in Queue' /\ lock'[i - 1] = lock[i]
    BY <1>2, <1>4, <2>1 DEF Queue
  <2>4. \A i, j \in Queue' : lock'[i] = lock'[j] => i = j
    BY <2>1, <2>2 DEF IInv, LockInv
  <2>5. ASSUME NEW d \in Callers, pc'[d] # "idle" PROVE \E i \in Queue' : lock'[i] = d
    <3>1. PICK i \in Queue : lock[i] = d /\ d # c
      BY <1>1, <1>4, <2>5 DEF IInv, LockInv
    <3>2. i # 1
      BY <1>1, <3>1
    <3>3. QED BY <2>3, <3>1, <3>2
  <2>6. \A i \in Queue' : pc'[lock'[i]] = "waiting"
    BY <1>1, <1>3, <1>4, <2>1, <2>2 DEF IInv, LockInv
  <2>7. QED BY <1>2, <1>4, <2>4, <2>5, <2>6 DEF LockInv
<1>5. CASE lock' = Append(Tail(lock), c) /\ pc' = [pc EXCEPT ![c] = "waiting"]
  <2>1. /\ lock' \in Seq(Callers) /\ Len(lock') = Len(lock) /\ lock'[Len(lock)] = c
        /\ \A i \in 1 .. Len(lock) - 1 : lock'[i] = lock[i + 1]
    BY <1>1, <1>2, <1>5
  <2>2. /\ Queue' = Queue /\ Len(lock) \in Queue
        /\ \A i \in Queue : i = Len(lock) \/ i \in 1 .. Len(lock) - 1
    <3>1. Queue' = 1 .. Len(lock) /\ Queue = 1 .. Len(lock)
      BY <2>1 DEF Queue
    <3>2. ASSUME NEW n \in Nat, n > 0
          PROVE  n \in 1 .. n /\ \A i \in 1 .. n : i = n \/ i \in 1 .. n - 1
      BY <3>2
    <3>3. QED BY <1>2, <3>1, <3>2
  <2>3. \A i \in 1 .. Len(lock) - 1 : i + 1 \in Queue /\ lock'[i] # c
    BY <1>2, <1>3, <2>1 DEF Queue
  <2>4. \A i, j \in Queue' : lock'[i] = lock'[j] => i = j
    <3>1. ASSUME NEW i \in 1 .. Len(lock) - 1, NEW j \in 1 .. Len(lock) - 1,
                 lock'[i] = lock'[j]
          PROVE  i = j
      <4>1. lock[i + 1] = lock[j + 1] /\ i + 1 \in Queue /\ j + 1 \in Queue
        BY <2>1, <2>3, <3>1
      <4>2. i + 1 = j + 1
        BY <4>1 DEF IInv, LockInv
      <4>3. QED BY <4>2
    <3>2. QED BY <2>1, <2>2, <2>3, <3>1
  <2>5. \A d \in Callers : pc'[d] # "idle" => \E i \in Queue' : lock'[i] = d
    <3> SUFFICES ASSUME NEW d \in Callers, pc'[d] # "idle" PROVE \E i \in Queue' : lock'[i] = d
      OBVIOUS
    <3>1. CASE d = c
      BY <2>1, <2>2, <3>1
    <3>2. CASE d # c
      <4>1. PICK i \in Queue : lock[i] = d
        BY <1>1, <1>5, <3>2 DEF IInv, LockInv
      <4>2. i # 1 /\ i - 1 \in 1 .. Len(lock) - 1 /\ i - 1 \in Queue
        BY <1>1, <1>2, <3>2, <4>1 DEF Queue
      <4>3. QED BY <2>1, <2>2, <4>1, <4>2
    <3>3. QED BY <3>1, <3>2
  <2>6. \A i \in Queue' : pc'[lock'[i]] = "waiting"
    BY <1>1, <1>3, <1>5, <2>1, <2>2, <2>3 DEF IInv, LockInv
  <2>7. QED BY <2>1, <2>4, <2>5, <2>6 DEF LockInv
<1>6. QED
  BY <1>4, <1>5

LEMMA TickKeeps == ASSUME IInv, Tick PROVE IInv'
<1> USE OptionChainAssumption
<1>1. /\ age \in 0 .. Interval /\ sinceAnswer \in 0 .. Interval /\ sleepLeft \in 0 .. Interval
      /\ UNCHANGED <<pc, calls, lock>> /\ age' = Older(age) /\ sinceAnswer' = Older(sinceAnswer)
      /\ sleepLeft' = IF sleepLeft > 0 THEN sleepLeft - 1 ELSE 0
  BY DEF Tick, IInv, TypeOK
<1>2. TypeOK'
  BY <1>1 DEF IInv, TypeOK, Older
<1>3. LockInv'
  BY <1>1 DEF IInv, LockInv, Queue
<1>4. PauseInv'
  BY <1>1 DEF IInv, PauseInv, Older
<1>5. QED
  BY <1>2, <1>3, <1>4 DEF IInv

LEMMA InvNext == ASSUME IInv, [Next]_vars PROVE IInv'
<1> USE OptionChainAssumption DEF IInv, TypeOK, Places, GoTo
<1>1. CASE Tick
  BY <1>1, TickKeeps
<1>2. ASSUME NEW c \in Callers, NEW n \in {1, 2}, Arrive(c, n) PROVE IInv'
  <2>1. LockInv' /\ lock' \in Seq(Callers)
    BY <1>2, AppendKeeps DEF Arrive
  <2>2. QED BY <1>2, <2>1 DEF Arrive, times, PauseInv
<1>3. ASSUME NEW c \in Callers, Acquire(c) PROVE IInv'
  <2>1. /\ Holds(c) /\ lock # <<>> /\ lock[1] = c /\ pc[c] = "waiting"
        /\ UNCHANGED <<calls, lock, age, sinceAnswer>>
        /\ \/ /\ age < Interval /\ sleepLeft' = Interval - age
              /\ pc' = [pc EXCEPT ![c] = "sleeping"]
           \/ /\ age = Interval /\ sleepLeft' = sleepLeft
              /\ pc' = [pc EXCEPT ![c] = "headers"]
    BY <1>3 DEF Acquire, Holds, Pause
  <2>2. \A i \in Queue : i # 1 => lock[i] # c
    BY <2>1 DEF LockInv, Queue
  <2>3. LockInv'
    BY <2>1, <2>2 DEF LockInv, Queue
  <2>4. \A d \in Callers : ~Working(d)
    BY <2>1, WorkingHolds DEF Working
  <2>5. PauseInv'
    BY <2>1, <2>4 DEF PauseInv, Working
  <2>6. QED BY <2>1, <2>3, <2>5
<1>4. ASSUME NEW c \in Callers, Wake(c) \/ Post(c) PROVE IInv'
  <2>1. /\ Working(c) /\ UNCHANGED <<calls, lock, age, sleepLeft, sinceAnswer>>
        /\ \/ pc[c] = "sleeping" /\ sleepLeft = 0 /\ pc' = [pc EXCEPT ![c] = "headers"]
           \/ pc[c] = "headers" /\ pc' = [pc EXCEPT ![c] = "posting"]
    BY <1>4 DEF Wake, Post, times, Working
  <2>2. lock[1] = c
    BY <2>1, WorkingHolds
  <2>3. LockInv'
    BY <2>1, <2>2 DEF LockInv, Queue
  <2>4. PauseInv'
    BY <2>1 DEF PauseInv
  <2>5. QED BY <2>1, <2>3, <2>4
<1>5. ASSUME NEW c \in Callers, NEW usable \in BOOLEAN, Answer(c, usable) PROVE IInv'
  <2>1. /\ Working(c) /\ age' = 0 /\ sinceAnswer' = 0 /\ sleepLeft' = sleepLeft
        /\ calls' \in [Callers -> 0 .. 2]
        /\ \/ lock' = Tail(lock) /\ pc' = [pc EXCEPT ![c] = "idle"]
           \/ lock' = Append(Tail(lock), c) /\ pc' = [pc EXCEPT ![c] = "waiting"]
    <3>1. Working(c) /\ age' = 0 /\ sinceAnswer' = 0 /\ sleepLeft' = sleepLeft
      BY <1>5 DEF Answer, Stamp, Working
    <3>2. calls \in [Callers -> 0 .. 2]
      BY DEF IInv, TypeOK
    <3>3. CASE usable /\ calls[c] = 2
      BY <1>5, <3>1, <3>2, <3>3 DEF Answer, Release
    <3>4. CASE ~(usable /\ calls[c] = 2)
      BY <1>5, <3>1, <3>2, <3>4 DEF Answer, Return, Release
    <3> QED
      BY <3>3, <3>4
  <2>0. \/ lock' = Tail(lock) /\ pc' = [pc EXCEPT ![c] = "idle"]
        \/ lock' = Append(Tail(lock), c) /\ pc' = [pc EXCEPT ![c] = "waiting"]
    BY <2>1
  <2>2. LockInv' /\ lock' \in Seq(Callers)
    BY <2>0, <2>1, ReleaseKeeps
  <2>3. \A d \in Callers : pc'[d] \notin {"sleeping", "headers", "posting"}
    BY <2>1, WorkingHolds DEF Working
  <2>4. QED BY <2>1, <2>2, <2>3 DEF PauseInv
<1>6. ASSUME NEW c \in Callers, Raise(c) PROVE IInv'
  <2>1. /\ Working(c) /\ UNCHANGED <<age, sleepLeft, sinceAnswer>>
        /\ calls' \in [Callers -> 0 .. 2]
        /\ lock' = Tail(lock) /\ pc' = [pc EXCEPT ![c] = "idle"]
    BY <1>6 DEF Raise, Return, Release, times, Working
  <2>2. LockInv' /\ lock' \in Seq(Callers)
    BY <2>1, ReleaseKeeps
  <2>3. QED BY <2>1, <2>2 DEF PauseInv
<1>7. CASE UNCHANGED vars
  BY <1>7 DEF vars, times, LockInv, Queue, PauseInv
<1>8. QED
  BY <1>1, <1>2, <1>3, <1>4, <1>5, <1>6, <1>7 DEF Next, Step

LEMMA InvHolds == Spec => []IInv
BY InvInit, InvNext, PTL DEF Spec

\* Every variable of the client keeps its type.
THEOREM TypeCorrect == Spec => []TypeOK
<1>1. IInv => TypeOK
  BY DEF IInv
<1>2. QED
  BY <1>1, InvHolds, PTL

\* asyncio.Lock keeps its promise through the second call of a handler, failing
\* requests and returns: one handler at a time is past the lock.
OneHolder == \A c, d \in Callers : Working(c) /\ Working(d) => c = d

THEOREM MutualExclusion == Spec => []OneHolder
<1>1. IInv => OneHolder
  BY WorkingHolds DEF OneHolder
<1>2. QED
  BY <1>1, InvHolds, PTL

-----------------------------------------------------------------------------
(* The refinement: a step of the client is a step of the rate limit or     *)
(* leaves it alone.                                                        *)

LEMMA LimitInit == Init => Limit!Init
BY DEF Init, Limit!Init

LEMMA LimitNext == ASSUME IInv, [Next]_vars PROVE [Limit!Next]_(Limit!vars)
<1> USE DEF Limit!Next, Limit!vars
<1>t. pc \in [Callers -> Places] /\ age = sinceAnswer
      /\ sinceAnswer \in 0 .. Interval /\ Interval \in Nat
  BY OptionChainAssumption DEF IInv, TypeOK, PauseInv
<1>1. CASE Tick
  BY <1>1, <1>t DEF Tick, Older, Limit!Wait
<1>2. ASSUME NEW c \in Callers, NEW n \in {1, 2}, Arrive(c, n)
      PROVE  [Limit!Next]_(Limit!vars)
  BY <1>2, <1>t DEF Arrive, GoTo, times
<1>3. ASSUME NEW c \in Callers, Acquire(c) PROVE [Limit!Next]_(Limit!vars)
  BY <1>3, <1>t DEF Acquire, GoTo
<1>4. ASSUME NEW c \in Callers, Wake(c) PROVE [Limit!Next]_(Limit!vars)
  BY <1>4, <1>t DEF Wake, GoTo, times
<1>5. ASSUME NEW c \in Callers, Post(c) PROVE [Limit!Next]_(Limit!vars)
  <2>1. pc[c] = "headers" /\ pc' = [pc EXCEPT ![c] = "posting"] /\ sinceAnswer' = sinceAnswer
    BY <1>5 DEF Post, GoTo, times
  <2>2. \A d \in Callers : pc[d] # "posting"
    BY <2>1, WorkingHolds DEF Working
  <2>3. sinceAnswer = Interval
    BY <1>t, <2>1 DEF IInv, PauseInv
  <2>4. pc'[c] = "posting"
    BY <1>t, <2>1
  <2>5. QED BY <2>1, <2>2, <2>3, <2>4 DEF Limit!Send
<1>6. ASSUME NEW c \in Callers, NEW usable \in BOOLEAN, Answer(c, usable)
      PROVE  [Limit!Next]_(Limit!vars)
  <2>1. /\ pc[c] = "posting" /\ sinceAnswer' = 0
        /\ \E place \in {"idle", "waiting"} : pc' = [pc EXCEPT ![c] = place]
    BY <1>6 DEF Answer, Return, GoTo
  <2>2. \A d \in Callers : pc'[d] # "posting"
    BY <1>t, <2>1, WorkingHolds DEF Working
  <2>3. QED BY <2>1, <2>2 DEF Limit!Answered
<1>7. ASSUME NEW c \in Callers, Raise(c) PROVE [Limit!Next]_(Limit!vars)
  <2>1. /\ pc[c] \in {"headers", "posting"} /\ sinceAnswer' = sinceAnswer
        /\ pc' = [pc EXCEPT ![c] = "idle"]
    BY <1>7 DEF Raise, Return, GoTo, times
  <2>2. \A d \in Callers : pc'[d] # "posting" /\ (pc[d] = "posting" => d = c)
    BY <1>t, <2>1, WorkingHolds DEF Working
  <2>3. QED BY <2>1, <2>2 DEF Limit!Failed
<1>8. CASE UNCHANGED vars
  BY <1>8 DEF vars, times
<1>9. QED
  BY <1>1, <1>2, <1>3, <1>4, <1>5, <1>6, <1>7, <1>8 DEF Next, Step

\* One request at a time, and a full pause after an answered one, whoever calls.
THEOREM RateLimitImplemented == Spec => ImplementsRateLimit
BY LimitInit, LimitNext, InvHolds, PTL DEF Spec, ImplementsRateLimit, Limit!Spec
=============================================================================
