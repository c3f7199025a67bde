--------------------------- MODULE LimiterProofs ---------------------------
(***************************************************************************)
(* The token bucket of Limiter for any rate, batch, call sizes, number of  *)
(* workers and clock: it never hands out more than it may over any         *)
(* interval, and a bucket that is large enough for every request never     *)
(* keeps a worker waiting when it is full, and lets every call end.  What  *)
(* the workers account is at any moment charged, being charged, pending    *)
(* or still owed by a call, which bounds how far a run is ahead of the     *)
(* bucket.                                                                 *)
(***************************************************************************)
EXTENDS Limiter, FiniteSetTheorems, TLAPS

\* What the bucket has handed out since the observer began, and still holds,
\* is within the allowance up to the last refill.
Accounted ==
    /\ last >= window.at =>
          charged - window.charged + tokens <= Burst + Rate * (last - window.at)
    /\ last < window.at => charged = window.charged

\* A worker makes one call more than MaxCalls only to flush.
LastCall == \A t \in Workers : calls[t] = MaxCalls + 1 => call[t] = "flush"

LInv == TypeOK /\ LastCall /\ Accounted

\* The mutex belongs to the worker in the bucket or asleep.
Holder == \A t \in Workers : pc[t] \in {"acquire", "sleep"} => owner = t

\* With an ample bucket, every request fits, and a sleeper lacks tokens.
Fits == /\ pending <= Burst
        /\ need <= Burst
        /\ \A t \in Workers : pc[t] = "sleep" /\ call[t] # "cpu" => tokens < need

-----------------------------------------------------------------------------
(* Arithmetic of the bucket.                                               *)

\* The worth of two intervals one after the other.
LEMMA Worth ==
    ASSUME NEW a \in Nat, NEW b \in Nat
    PROVE  Rate * (a + b) = Rate * a + Rate * b /\ Rate * a \in Nat
BY ConstantsAssumption

LEMMA BurstNat == Burst \in Nat
BY ConstantsAssumption DEF Burst

LEMMA RefilledBounds ==
    ASSUME TypeOK
    PROVE  /\ Refilled \in 0..Burst
           /\ Refilled <= tokens + Rate * (now - last)
<1>1. now - last \in Nat
  BY DEF TypeOK
<1>2. Rate * (now - last) \in Nat
  BY <1>1, Worth
<1> QED BY <1>2, BurstNat DEF Refilled, Lesser, TypeOK

LEMMA TicksForNat == \A n \in Nat : TicksFor(n) \in Nat
BY ConstantsAssumption DEF TicksFor

\* A charge out of a bucket that a refill has topped up: c was charged and k
\* held, c1 and k1 are after it.
LEMMA Transfer ==
    ASSUME NEW c \in Nat, NEW k \in Nat, NEW c1 \in Nat, NEW k1 \in Nat, NEW w \in Nat,
           NEW b \in Nat, NEW before \in Nat, NEW gained \in Nat, NEW topped \in Nat,
           c - w + k <= b + before, topped <= k + gained, c1 + k1 = c + topped
    PROVE  c1 - w + k1 <= b + (gained + before)
OBVIOUS

LEMMA ArgNat == ASSUME TypeOK PROVE \A t \in Workers : arg[t] \in Nat
<1>1. Sizes \union {0} \subseteq Nat
  BY ConstantsAssumption
<1>2. \A t \in Workers : arg[t] \in Sizes \union {0}
  BY DEF TypeOK
<1> QED BY <1>1, <1>2

-----------------------------------------------------------------------------
(* Types.                                                                  *)

\* A window keeps its type as time and the totals grow.
LEMMA WindowGrows ==
    ASSUME TypeOK, window' = window, now' \in Nat, accounted' \in Nat, charged' \in Nat,
           now <= now', accounted <= accounted', charged <= charged'
    PROVE  window' \in [at : 0..now', accounted : 0..accounted', charged : 0..charged']
BY DEF TypeOK

LEMMA AccountIoType ==
    ASSUME TypeOK, LastCall, NEW t \in Workers, AccountIo(t) PROVE (TypeOK /\ LastCall)'
<1> USE ConstantsAssumption DEF AccountIo, Request, Goto, bucket
<1>1. PICK n \in Sizes : arg' = [arg EXCEPT ![t] = n] /\ accounted' = accounted + n
  OBVIOUS
<1>2. window' \in [at : 0..now', accounted : 0..accounted', charged : 0..charged']
  BY <1>1, WindowGrows DEF TypeOK
<1>3. TypeOK'
  BY <1>1, <1>2 DEF TypeOK, PCs, Calls
<1>4. LastCall'
  BY DEF LastCall, TypeOK
<1> QED BY <1>3, <1>4

LEMMA AskType ==
    ASSUME TypeOK, LastCall, NEW t \in Workers, AskFlush(t) \/ AskCpuTick(t)
    PROVE  (TypeOK /\ LastCall)'
<1> USE ConstantsAssumption DEF AskFlush, AskCpuTick, Request, Goto, bucket
<1>1. PICK c \in {"flush", "cpu"} : Request(t, c)
  OBVIOUS
<1>2. UNCHANGED <<now, tokens, last, pending, owner, need, wake, arg, accounted, charged, window>>
  OBVIOUS
<1>3. calls[t] + 1 \in 0..(MaxCalls + 1)
  BY <1>1 DEF LastCall, TypeOK
<1>4. TypeOK'
  BY <1>1, <1>2, <1>3 DEF TypeOK, PCs, Calls
<1>5. LastCall'
  BY <1>1 DEF LastCall, TypeOK
<1> QED BY <1>4, <1>5

LEMMA EndType ==
    ASSUME TypeOK, LastCall, NEW t \in Workers, Done(t) \/ Fail(t)
    PROVE  (TypeOK /\ LastCall)'
BY DEF Done, Fail, Goto, bucket, TypeOK, PCs, LastCall

LEMMA AcquireIoType ==
    ASSUME TypeOK, LastCall, NEW t \in Workers, AcquireIo(t) PROVE (TypeOK /\ LastCall)'
<1> USE ConstantsAssumption DEF AcquireIo, Entered, Charge, Goto, bucket
<1>1. pending + arg[t] \in Nat
  BY ArgNat DEF TypeOK
<1>2. PICK place \in {"work", "acquire"} : pc' = [pc EXCEPT ![t] = place]
  OBVIOUS
<1>3. pending' \in 0..(Batch - 1) /\ need' \in Nat /\ owner' \in Workers \union {NoWorker}
  BY <1>1 DEF TypeOK
<1>4. UNCHANGED <<now, tokens, last, wake, call, calls, accounted, charged, window>>
  OBVIOUS
<1>5. arg' = [arg EXCEPT ![t] = 0]
  OBVIOUS
<1> QED BY <1>2, <1>3, <1>4, <1>5 DEF TypeOK, PCs, LastCall

LEMMA FlushIoType ==
    ASSUME TypeOK, LastCall, NEW t \in Workers, FlushIo(t) PROVE (TypeOK /\ LastCall)'
<1> USE ConstantsAssumption DEF FlushIo, Entered, Charge, Goto, bucket
<1>1. PICK place \in {"work", "acquire"} : pc' = [pc EXCEPT ![t] = place]
  OBVIOUS
<1>2. pending' \in 0..(Batch - 1) /\ need' \in Nat /\ owner' \in Workers \union {NoWorker}
  BY DEF TypeOK
<1>3. UNCHANGED <<now, tokens, last, wake, call, arg, calls, accounted, charged, window>>
  OBVIOUS
<1> QED BY <1>1, <1>2, <1>3 DEF TypeOK, PCs, LastCall

LEMMA CpuTickType ==
    ASSUME TypeOK, LastCall, NEW t \in Workers, CpuTick(t) PROVE (TypeOK /\ LastCall)'
<1> USE ConstantsAssumption DEF CpuTick, Entered, Goto, bucket
<1>1. PICK place \in {"work", "sleep"} : pc' = [pc EXCEPT ![t] = place]
  OBVIOUS
<1>2. wake' \in Nat /\ owner' \in Workers \union {NoWorker}
  BY DEF TypeOK
<1>3. UNCHANGED <<now, tokens, last, pending, need, call, arg, calls, accounted, charged, window>>
  OBVIOUS
<1> QED BY <1>1, <1>2, <1>3 DEF TypeOK, PCs, LastCall

LEMMA WakeType ==
    ASSUME TypeOK, LastCall, NEW t \in Workers, Wake(t) PROVE (TypeOK /\ LastCall)'
<1> USE DEF Wake, Goto, bucket
<1>1. PICK place \in {"work", "acquire"} : pc' = [pc EXCEPT ![t] = place]
  OBVIOUS
<1>2. wake' \in Nat /\ owner' \in Workers \union {NoWorker}
  BY DEF TypeOK
<1>3. UNCHANGED <<now, tokens, last, pending, need, call, arg, calls, accounted, charged, window>>
  OBVIOUS
<1> QED BY <1>1, <1>2, <1>3 DEF TypeOK, PCs, LastCall

\* A round of acquire either takes need tokens or leaves the bucket refilled.
LEMMA AcquireCases ==
    ASSUME NEW t \in Workers, Acquire(t)
    PROVE  \/ /\ Refilled >= need
              /\ tokens' = Refilled - need /\ charged' = charged + need /\ need' = 0
              /\ owner' = NoWorker /\ wake' = wake
              /\ pc' = [pc EXCEPT ![t] = "work"]
           \/ /\ ~(Refilled >= need)
              /\ tokens' = Refilled
              /\ wake' = now + Lesser(TicksFor(need - Refilled), Second)
              /\ pc' = [pc EXCEPT ![t] = "sleep"]
              /\ UNCHANGED <<charged, need, owner>>
BY DEF Acquire, Goto

LEMMA AcquireType ==
    ASSUME TypeOK, LastCall, NEW t \in Workers, Acquire(t) PROVE (TypeOK /\ LastCall)'
<1>1. Refilled \in 0..Burst /\ need \in Nat
  BY RefilledBounds DEF TypeOK
<1>2. PICK place \in {"work", "sleep"} : pc' = [pc EXCEPT ![t] = place]
  BY AcquireCases
<1>3. tokens' \in 0..Burst /\ charged' \in Nat /\ charged <= charged' /\ need' \in Nat
  BY <1>1, AcquireCases, BurstNat DEF TypeOK
<1>4. wake' \in Nat
  <2>1. CASE wake' = wake
    BY <2>1 DEF TypeOK
  <2>2. CASE wake' # wake
    <3>1. need - Refilled \in Nat /\ wake' = now + Lesser(TicksFor(need - Refilled), Second)
      BY <1>1, <2>2, AcquireCases
    <3>2. TicksFor(need - Refilled) \in Nat
      BY <3>1, TicksForNat
    <3> QED BY <3>1, <3>2, ConstantsAssumption DEF Lesser, TypeOK
  <2> QED BY <2>1, <2>2
<1>5. owner' \in Workers \union {NoWorker}
  BY AcquireCases DEF TypeOK
<1>6. UNCHANGED <<now, pending, call, arg, calls, accounted, window>> /\ last' = now
  BY DEF Acquire
<1>7. window' \in [at : 0..now', accounted : 0..accounted', charged : 0..charged']
  BY <1>3, <1>6, WindowGrows DEF TypeOK
<1> QED BY <1>2, <1>3, <1>4, <1>5, <1>6, <1>7 DEF TypeOK, PCs, LastCall

LEMMA TickType == ASSUME TypeOK, LastCall, Tick PROVE (TypeOK /\ LastCall)'
<1> USE DEF Tick, bucket, worker
<1>1. window' \in [at : 0..now', accounted : 0..accounted', charged : 0..charged']
  BY WindowGrows DEF TypeOK
<1> QED BY <1>1 DEF TypeOK, LastCall

LEMMA ObserveType == ASSUME TypeOK, LastCall, Observe PROVE (TypeOK /\ LastCall)'
BY DEF Observe, bucket, worker, TypeOK, LastCall

-----------------------------------------------------------------------------
(* The account of the bucket.                                              *)

\* A charge comes out of what the refill has brought the bucket to.
LEMMA AcquireAccounted ==
    ASSUME TypeOK, Accounted, NEW t \in Workers, Acquire(t) PROVE Accounted'
<1> DEFINE gained == Rate * (now - last)
<1>1. Refilled <= tokens + gained /\ Refilled <= Burst /\ Refilled \in Nat
  BY RefilledBounds, BurstNat
<1>2. last' = now /\ window' = window
  BY DEF Acquire
<1>3. charged' + tokens' = charged + Refilled /\ charged' \in Nat /\ tokens' \in Nat
  BY <1>1, AcquireCases DEF TypeOK
<1>4. now >= window.at /\ window.at \in Nat /\ window.charged \in Nat /\ gained \in Nat
  <2>1. now >= window.at /\ window.at \in Nat /\ window.charged \in Nat
    BY DEF TypeOK
  <2>2. now - last \in Nat
    BY DEF TypeOK
  <2>3. gained \in Nat
    BY <2>2, Worth
  <2> QED BY <2>1, <2>3
<1>5. CASE last >= window.at
  <2>1. last - window.at \in Nat /\ now - last \in Nat
    BY <1>4, <1>5 DEF TypeOK
  <2>2. (now - last) + (last - window.at) = now - window.at
    BY <1>4 DEF TypeOK
  <2>3. Rate * (now - window.at) = gained + Rate * (last - window.at)
    BY <2>1, <2>2, Worth
  <2>4. Rate * (last - window.at) \in Nat
    BY <2>1, Worth
  <2>5. charged - window.charged + tokens <= Burst + Rate * (last - window.at)
    BY <1>5 DEF Accounted
  <2>6. charged \in Nat /\ tokens \in Nat
    BY DEF TypeOK
  <2>7. charged' - window.charged + tokens' <= Burst + (gained + Rate * (last - window.at))
    <3> DEFINE before == Rate * (last - window.at)
    <3> HIDE DEF gained, before
    <3>1. /\ charged \in Nat /\ tokens \in Nat /\ charged' \in Nat /\ tokens' \in Nat
          /\ window.charged \in Nat /\ Burst \in Nat /\ before \in Nat /\ gained \in Nat
          /\ Refilled \in Nat /\ charged - window.charged + tokens <= Burst + before
          /\ Refilled <= tokens + gained /\ charged' + tokens' = charged + Refilled
      BY <1>1, <1>3, <1>4, <2>4, <2>5, <2>6, BurstNat DEF before
    <3>2. charged' - window.charged + tokens' <= Burst + (gained + before)
      BY ONLY <3>1, Transfer
    <3> QED
      BY <3>2 DEF before
  <2> HIDE DEF gained
  <2>8. charged' - window.charged + tokens' <= Burst + Rate * (now - window.at)
    BY <2>3, <2>7
  <2> QED BY <1>2, <1>4, <2>8 DEF Accounted, Burst, TypeOK
<1>6. CASE last < window.at
  <2>1. charged = window.charged
    BY <1>6 DEF Accounted
  <2>2. now - window.at \in Nat
    BY <1>4 DEF TypeOK
  <2>3. Rate * (now - window.at) \in Nat
    BY <2>2, Worth
  <2>4. charged' - window.charged + tokens' <= Burst + Rate * (now - window.at)
    BY <1>1, <1>3, <1>4, <2>1, <2>3, BurstNat DEF TypeOK
  <2> QED BY <1>2, <1>4, <2>4 DEF Accounted, Burst, TypeOK
<1> QED BY <1>5, <1>6 DEF TypeOK

LEMMA ObserveAccounted == ASSUME TypeOK, Accounted, Observe PROVE Accounted'
<1>1. window'.at = now /\ window'.charged = charged /\ UNCHANGED <<last, tokens, charged>>
  BY DEF Observe, bucket
<1>2. CASE last = now
  <2>1. Rate * (now - now) = 0
    BY ConstantsAssumption DEF TypeOK
  <2> QED BY <1>1, <1>2, <2>1, BurstNat DEF Accounted, Burst, TypeOK
<1>3. CASE last < now
  BY <1>1, <1>3 DEF Accounted, TypeOK
<1> QED BY <1>2, <1>3 DEF TypeOK

-----------------------------------------------------------------------------
LEMMA LInvInit == Init => LInv
<1> SUFFICES ASSUME Init PROVE LInv
  OBVIOUS
<1> USE ConstantsAssumption, BurstNat DEF Init
<1>1. TypeOK
  BY DEF TypeOK, PCs, Calls
<1>2. LastCall
  BY DEF LastCall
<1>3. Accounted
  <2>1. Rate * (0 - 0) = 0 OBVIOUS
  <2> QED BY <2>1 DEF Accounted, Burst
<1> QED BY <1>1, <1>2, <1>3 DEF LInv

LEMMA LInvNext == ASSUME LInv, [Next]_vars PROVE LInv'
<1> USE DEF LInv
<1>1. ASSUME NEW t \in Workers, WorkerStep(t) \/ Fail(t) PROVE LInv'
  <2>1. CASE Acquire(t)
    BY <2>1, AcquireType, AcquireAccounted
  <2>2. CASE ~Acquire(t)
    <3>1. (TypeOK /\ LastCall)'
      BY <1>1, <2>2, AccountIoType, AskType, EndType, AcquireIoType, FlushIoType,
         CpuTickType, WakeType DEF WorkerStep
    <3>2. UNCHANGED <<last, tokens, charged, window>>
      BY <1>1, <2>2 DEF WorkerStep, AccountIo, AskFlush, AskCpuTick, Done, Fail, AcquireIo,
         FlushIo, CpuTick, Wake, bucket
    <3> QED BY <3>1, <3>2 DEF Accounted
  <2> QED BY <2>1, <2>2
<1>2. CASE Tick
  BY <1>2, TickType DEF Tick, bucket, Accounted
<1>3. CASE Observe
  BY <1>3, ObserveType, ObserveAccounted
<1>4. CASE UNCHANGED vars
  BY <1>4 DEF vars, bucket, worker, TypeOK, LastCall, Accounted
<1> QED BY <1>1, <1>2, <1>3, <1>4 DEF Next

\* LInv holds of every state that an execution reaches.
THEOREM Invariance == Spec => []LInv
BY LInvInit, LInvNext, PTL DEF Spec

\* Every variable has its type: the bucket is never overdrawn or overfull,
\* and what is pending is always less than a batch.
THEOREM TypeCorrect == Spec => []TypeOK
<1>1. LInv => TypeOK BY DEF LInv
<1> QED BY <1>1, Invariance, PTL

\* Over any interval, the bucket hands out no more than a burst and the
\* rate's worth of the interval.
THEOREM RateLimit == Spec => []RateHeld
<1>1. LInv => RateHeld
  <2> SUFFICES ASSUME LInv PROVE RateHeld
    OBVIOUS
  <2> USE DEF LInv
  <2>1. window.at \in Nat /\ window.charged \in Nat /\ now - window.at \in Nat
    BY DEF TypeOK
  <2>2. Rate * (now - window.at) \in Nat
    BY <2>1, Worth
  <2>3. CASE last >= window.at
    <3>1. last - window.at \in Nat /\ now - last \in Nat
      BY <2>1, <2>3 DEF TypeOK
    <3>2. (now - last) + (last - window.at) = now - window.at
      BY <2>1 DEF TypeOK
    <3>3. /\ Rate * (now - window.at) = Rate * (now - last) + Rate * (last - window.at)
          /\ Rate * (now - last) \in Nat /\ Rate * (last - window.at) \in Nat
      BY <3>1, <3>2, Worth
    <3>4. charged - window.charged + tokens <= Burst + Rate * (last - window.at)
      BY <2>3 DEF Accounted
    <3> QED BY <2>1, <2>2, <3>3, <3>4, BurstNat DEF RateHeld, TypeOK
  <2>4. CASE last < window.at
    BY <2>1, <2>2, <2>4, BurstNat DEF RateHeld, Accounted, TypeOK
  <2> QED BY <2>1, <2>3, <2>4 DEF TypeOK
<1> QED BY <1>1, Invariance, PTL

-----------------------------------------------------------------------------
(* An ample bucket.                                                        *)

\* A request that a worker charges fits in an ample bucket.
LEMMA SumFits ==
    ASSUME Ample, TypeOK, Fits, NEW t \in Workers
    PROVE  pending + arg[t] <= Burst
<1>1. CASE arg[t] = 0
  BY <1>1 DEF Fits, TypeOK
<1>2. CASE arg[t] \in Sizes
  <2>1. Batch - 1 + arg[t] <= Burst
    BY <1>2 DEF Ample
  <2>2. pending <= Batch - 1 /\ pending \in Nat /\ Batch \in Nat /\ arg[t] \in Nat
    BY ConstantsAssumption, ArgNat DEF TypeOK
  <2> QED BY <2>1, <2>2, BurstNat
<1> QED BY <1>1, <1>2 DEF TypeOK

LEMMA AmpleStep ==
    ASSUME Ample, LInv, LInv', Holder, Fits, [Next]_vars PROVE (Holder /\ Fits)'
<1> USE ConstantsAssumption DEF LInv
<1>1. ASSUME NEW t \in Workers, AccountIo(t) \/ AskFlush(t) \/ AskCpuTick(t) \/ Done(t) \/ Fail(t)
      PROVE  (Holder /\ Fits)'
  <2>1. UNCHANGED <<tokens, pending, owner, need>>
    BY <1>1 DEF AccountIo, AskFlush, AskCpuTick, Done, Fail, bucket
  <2>2. pc[t] = "work" /\ pc'[t] \notin {"acquire", "sleep"}
    BY <1>1 DEF AccountIo, AskFlush, AskCpuTick, Done, Fail, Request, Goto, TypeOK
  <2>3. \A u \in Workers : u # t => pc'[u] = pc[u] /\ call'[u] = call[u]
    BY <1>1 DEF AccountIo, AskFlush, AskCpuTick, Done, Fail, Request, Goto, TypeOK
  <2> QED BY <2>1, <2>2, <2>3 DEF Holder, Fits
<1>2. ASSUME NEW t \in Workers, AcquireIo(t) \/ FlushIo(t) PROVE (Holder /\ Fits)'
  <2>1. \A u \in Workers : pc[u] \notin {"acquire", "sleep"}
    BY <1>2 DEF AcquireIo, FlushIo, Entered, Holder
  <2>2. pending' <= Burst /\ need' <= Burst
    BY <1>2, SumFits, BurstNat DEF AcquireIo, FlushIo, Charge, Fits, TypeOK
  <2>3. pc'[t] \in {"work", "acquire"} /\ (pc'[t] = "acquire" => owner' = t)
    BY <1>2 DEF AcquireIo, FlushIo, Charge, Goto, TypeOK
  <2>4. \A u \in Workers : u # t => pc'[u] = pc[u]
    BY <1>2 DEF AcquireIo, FlushIo, Charge, Goto, TypeOK
  <2> QED BY <2>1, <2>2, <2>3, <2>4 DEF Holder, Fits
<1>3. ASSUME NEW t \in Workers, CpuTick(t) PROVE (Holder /\ Fits)'
  <2>1. \A u \in Workers : pc[u] \notin {"acquire", "sleep"}
    BY <1>3 DEF CpuTick, Entered, Holder
  <2>2. UNCHANGED <<tokens, pending, need, call>> /\ call[t] = "cpu"
    BY <1>3 DEF CpuTick, Entered, bucket
  <2>3. pc'[t] \in {"work", "sleep"} /\ (pc'[t] = "sleep" => owner' = t)
    BY <1>3 DEF CpuTick, Goto, TypeOK
  <2>4. \A u \in Workers : u # t => pc'[u] = pc[u]
    BY <1>3 DEF CpuTick, Goto, TypeOK
  <2> QED BY <2>1, <2>2, <2>3, <2>4 DEF Holder, Fits
<1>4. ASSUME NEW t \in Workers, Acquire(t) PROVE (Holder /\ Fits)'
  <2>1. owner = t /\ \A u \in Workers : u # t => pc[u] \notin {"acquire", "sleep"}
    BY <1>4 DEF Acquire, Holder
  <2>2. \A u \in Workers : u # t => pc'[u] = pc[u]
    BY <1>4, AcquireCases DEF TypeOK
  <2>3. UNCHANGED <<pending, call>>
    BY <1>4 DEF Acquire
  <2>4. Refilled \in 0..Burst /\ need \in Nat
    BY RefilledBounds DEF TypeOK
  <2>5. CASE pc'[t] = "work"
    <3>1. need' = 0
      BY <1>4, <2>5, AcquireCases DEF TypeOK
    <3> QED BY <2>1, <2>2, <2>3, <2>5, <3>1, BurstNat DEF Holder, Fits
  <2>6. CASE pc'[t] = "sleep"
    <3>1. tokens' = Refilled /\ Refilled < need /\ need' = need /\ owner' = owner
      BY <1>4, <2>4, <2>6, AcquireCases DEF TypeOK
    <3> QED BY <2>1, <2>2, <2>3, <2>6, <3>1 DEF Holder, Fits
  <2> QED BY <1>4, <2>5, <2>6, AcquireCases DEF TypeOK
<1>5. ASSUME NEW t \in Workers, Wake(t) PROVE (Holder /\ Fits)'
  <2>1. owner = t /\ \A u \in Workers : u # t => pc[u] \notin {"acquire", "sleep"}
    BY <1>5 DEF Wake, Holder
  <2>2. \A u \in Workers : u # t => pc'[u] = pc[u]
    BY <1>5 DEF Wake, Goto, TypeOK
  <2>3. pc'[t] \in {"work", "acquire"} /\ (pc'[t] = "acquire" => owner' = owner)
    BY <1>5 DEF Wake, Goto, TypeOK
  <2>4. UNCHANGED <<tokens, pending, need, call>>
    BY <1>5 DEF Wake, bucket
  <2> QED BY <2>1, <2>2, <2>3, <2>4 DEF Holder, Fits
<1>6. CASE Tick \/ Observe \/ UNCHANGED vars
  BY <1>6 DEF Tick, Observe, vars, bucket, worker, Holder, Fits
<1> QED BY <1>1, <1>2, <1>3, <1>4, <1>5, <1>6 DEF Next, WorkerStep

\* If no request is larger than the bucket, a worker never waits for tokens
\* while the bucket is full: acquire's loop cannot go round for ever.
THEOREM NoWaitOnFullBucket == ASSUME Ample PROVE Spec => []BlocksOnlyWhenExhausted
<1>1. Init => Holder /\ Fits
  BY BurstNat DEF Init, Holder, Fits
<1>2. LInv /\ Fits => BlocksOnlyWhenExhausted
  BY BurstNat DEF LInv, TypeOK, Fits, BlocksOnlyWhenExhausted
<1> QED BY <1>1, <1>2, Invariance, AmpleStep, PTL DEF Spec

-----------------------------------------------------------------------------
(* Calls end.                                                              *)

\* What worker t has left to do, most significant first: its calls; how far it
\* is in one; what the bucket will lack at the next round of acquire's loop;
\* the sleep until then.
CallsLeft(t) == MaxCalls + 1 - calls[t]
Place(t) ==
    CASE pc[t] = "want" -> 3
      [] pc[t] \in {"acquire", "sleep"} -> 2
      [] pc[t] = "work" -> 1
      [] OTHER -> 0
NextRound(t) == IF pc[t] = "sleep" /\ now < wake THEN wake ELSE now
AtNextRound(t) == tokens + Rate * (NextRound(t) - last)
Lacking(t) == IF pc[t] \in {"acquire", "sleep"} /\ AtNextRound(t) < need
              THEN need - AtNextRound(t) ELSE 0
SleepLeft(t) == IF pc[t] = "sleep" THEN NextRound(t) - now + 1 ELSE 0

Nearer(t) ==
    \/ CallsLeft(t)' < CallsLeft(t)
    \/ /\ CallsLeft(t)' = CallsLeft(t)
       /\ \/ Place(t)' < Place(t)
          \/ /\ Place(t)' = Place(t)
             /\ \/ Lacking(t)' < Lacking(t)
                \/ Lacking(t)' = Lacking(t) /\ SleepLeft(t)' < SleepLeft(t)

AsFar(t) == UNCHANGED <<CallsLeft(t), Place(t), Lacking(t), SleepLeft(t)>>

\* Two rounds of the loop, w ticks apart: the second lacks less.
LEMMA SleepPays ==
    ASSUME NEW n \in Nat, NEW k \in Nat, NEW w \in Nat, w >= 1, k < n
    PROVE  /\ k + Rate * w \in Nat
           /\ n - (k + Rate * w) < n - k /\ 0 < n - k
<1>1. Rate * (1 + (w - 1)) = Rate * 1 + Rate * (w - 1) /\ Rate * (w - 1) \in Nat
  <2>1. 1 \in Nat /\ w - 1 \in Nat
    OBVIOUS
  <2> QED BY <2>1, Worth
<1>2. 1 + (w - 1) = w /\ Rate \in Nat /\ Rate >= 1 /\ Rate * 1 = Rate
  BY ConstantsAssumption
<1> DEFINE gain == Rate * w
           rest == Rate * (w - 1)
<1>3. gain = Rate + rest /\ rest \in Nat
  BY <1>1, <1>2
<1> HIDE DEF gain, rest
<1>4. /\ k + gain \in Nat
      /\ n - (k + gain) < n - k /\ 0 < n - k
  BY <1>2, <1>3
<1> QED BY <1>4 DEF gain

\* A sleep lasts a tick at least.
LEMMA SleepLasts ==
    ASSUME NEW n \in Nat, n >= 1
    PROVE  Lesser(TicksFor(n), Second) \in Nat /\ Lesser(TicksFor(n), Second) >= 1
<1>1. TicksFor(n) >= 1
  <2>1. Rate \in Nat /\ Rate >= 1
    BY ConstantsAssumption
  <2>2. (n + Rate - 1) \div Rate >= 1
    BY <2>1
  <2> QED BY <2>2 DEF TicksFor
<1>2. TicksFor(n) \in Nat /\ Second \in Nat /\ Second >= 1
  BY TicksForNat, ConstantsAssumption
<1> QED BY <1>1, <1>2 DEF Lesser

\* A worker outside the bucket is where it was, whatever others do with it.
LEMMA Outside ==
    ASSUME NEW t \in Workers, pc[t] \notin {"acquire", "sleep"},
           pc'[t] = pc[t], calls'[t] = calls[t]
    PROVE  AsFar(t)
BY DEF AsFar, CallsLeft, Place, Lacking, SleepLeft

LEMMA Untouched ==
    ASSUME NEW t \in Workers, pc'[t] = pc[t], calls'[t] = calls[t],
           UNCHANGED <<now, tokens, last, need, wake>>
    PROVE  AsFar(t)
BY DEF AsFar, CallsLeft, Place, Lacking, SleepLeft, AtNextRound, NextRound

LEMMA PlaceNearer ==
    ASSUME NEW t \in Workers, calls'[t] = calls[t],
           \/ pc[t] = "want" /\ pc'[t] \in {"work", "acquire", "sleep"}
           \/ pc[t] \in {"acquire", "sleep"} /\ pc'[t] = "work"
           \/ pc[t] = "work" /\ pc'[t] \in {"done", "failed"}
    PROVE  Nearer(t)
BY DEF Nearer, CallsLeft, Place

\* A round that lacks tokens sleeps until it lacks less.
LEMMA AcquireNearer ==
    ASSUME LInv, Fits, NEW t \in Workers, Acquire(t) PROVE Nearer(t)
<1>1. pc[t] = "acquire" /\ calls' = calls /\ pc \in [Workers -> PCs]
  BY DEF Acquire, LInv, TypeOK
<1>2. CASE Refilled >= need
  <2>1. pc'[t] = "work"
    BY <1>1, <1>2, AcquireCases
  <2> QED BY <1>1, <2>1, PlaceNearer
<1>3. CASE ~(Refilled >= need)
  <2>1. /\ tokens' = Refilled /\ need' = need /\ last' = now /\ now' = now /\ pc'[t] = "sleep"
        /\ wake' = now + Lesser(TicksFor(need - Refilled), Second)
    BY <1>1, <1>3, AcquireCases DEF Acquire
  <2>2. /\ Refilled \in Nat /\ need \in Nat /\ Burst \in Nat /\ need <= Burst /\ Refilled < need
        /\ now \in Nat
    BY <1>3, RefilledBounds, BurstNat DEF LInv, TypeOK, Fits
  <2>3. Refilled = tokens + Rate * (now - last)
    BY <2>2 DEF Refilled, Lesser
  <2> DEFINE w == Lesser(TicksFor(need - Refilled), Second)
             k == Refilled
  <2>4. w \in Nat /\ w >= 1
    BY <2>2, SleepLasts
  <2>5. Lacking(t) = need - k
    BY <1>1, <2>2, <2>3 DEF Lacking, AtNextRound, NextRound
  <2>6. AtNextRound(t)' = k + Rate * w
    <3> HIDE DEF w, k
    <3>1. wake' = now + w /\ tokens' = k
      BY <2>1 DEF w, k
    <3>2. NextRound(t)' = now + w
      BY <2>1, <2>2, <2>4, <3>1 DEF NextRound
    <3>3. NextRound(t)' - last' = w
      BY <2>1, <2>2, <2>4, <3>2
    <3> QED BY <3>1, <3>3 DEF AtNextRound
  <2> HIDE DEF w, k
  <2>7. k \in Nat /\ need \in Nat /\ k < need
    BY <2>2 DEF k
  <2>8. k + Rate * w \in Nat /\ need - (k + Rate * w) < need - k /\ 0 < need - k
    BY <2>4, <2>7, SleepPays
  <2>9. Lacking(t)' < Lacking(t)
    BY <2>1, <2>5, <2>6, <2>8 DEF Lacking
  <2>10. CallsLeft(t)' = CallsLeft(t) /\ Place(t)' = Place(t)
    BY <1>1, <2>1 DEF CallsLeft, Place
  <2> QED BY <2>9, <2>10 DEF Nearer
<1> QED BY <1>2, <1>3

LEMMA WakeNearer ==
    ASSUME LInv, NEW t \in Workers, Wake(t) PROVE Nearer(t)
<1>1. /\ pc[t] = "sleep" /\ now >= wake /\ pc'[t] \in {"work", "acquire"} /\ calls' = calls
      /\ UNCHANGED <<now, tokens, last, need>> /\ now \in Nat /\ wake \in Nat
  BY DEF Wake, Goto, bucket, LInv, TypeOK
<1>2. CASE pc'[t] = "work"
  BY <1>1, <1>2, PlaceNearer
<1>3. CASE pc'[t] = "acquire"
  <2>1. NextRound(t) = now /\ NextRound(t)' = now
    BY <1>1, <1>3 DEF NextRound
  <2>2. AtNextRound(t)' = AtNextRound(t)
    BY <1>1, <2>1 DEF AtNextRound
  <2>3. Lacking(t)' = Lacking(t)
    BY <1>1, <1>3, <2>2 DEF Lacking
  <2>4. SleepLeft(t)' < SleepLeft(t)
    BY <1>1, <1>3, <2>1 DEF SleepLeft
  <2>5. CallsLeft(t)' = CallsLeft(t) /\ Place(t)' = Place(t)
    BY <1>1, <1>3 DEF CallsLeft, Place
  <2> QED BY <2>3, <2>4, <2>5 DEF Nearer
<1> QED BY <1>1, <1>2, <1>3

\* Time brings a sleeper nearer to its next round, and nobody farther from it.
LEMMA TickNearer ==
    ASSUME LInv, NEW t \in Workers, Tick
    PROVE  /\ pc[t] = "sleep" /\ now < wake => Nearer(t)
           /\ Nearer(t) \/ AsFar(t)
<1>1. /\ now' = now + 1 /\ now \in Nat /\ last \in Nat /\ now - last \in Nat /\ wake \in Nat
      /\ need \in Nat /\ tokens \in Nat
      /\ UNCHANGED <<tokens, last, need, wake, pc, calls>>
  BY BurstNat DEF Tick, bucket, worker, LInv, TypeOK
<1>2. CallsLeft(t)' = CallsLeft(t) /\ Place(t)' = Place(t)
  BY <1>1 DEF CallsLeft, Place
<1>3. CASE pc[t] = "sleep" /\ now < wake
  <2>1. NextRound(t) = wake /\ NextRound(t)' = wake
    BY <1>1, <1>3 DEF NextRound
  <2>2. Lacking(t)' = Lacking(t)
    BY <1>1, <2>1 DEF Lacking, AtNextRound
  <2>3. SleepLeft(t)' < SleepLeft(t)
    BY <1>1, <1>3, <2>1 DEF SleepLeft
  <2> QED BY <1>2, <2>2, <2>3 DEF Nearer
<1>4. CASE ~(pc[t] = "sleep" /\ now < wake)
  <2>1. NextRound(t) = now /\ NextRound(t)' = now + 1
    BY <1>1, <1>4 DEF NextRound
  <2> DEFINE k == tokens + Rate * (now - last)
  <2>2. AtNextRound(t) = k /\ AtNextRound(t)' = k + Rate /\ k \in Nat /\ Rate \in Nat
    <3>1. 1 \in Nat
      OBVIOUS
    <3>2. Rate * ((now - last) + 1) = Rate * (now - last) + Rate * 1
          /\ Rate * (now - last) \in Nat
      BY <1>1, <3>1, Worth
    <3>3. (now + 1) - last = (now - last) + 1 /\ Rate \in Nat /\ Rate * 1 = Rate
      BY <1>1, ConstantsAssumption
    <3> DEFINE r == Rate * (now - last)
    <3>4. Rate * ((now + 1) - last) = r + Rate /\ r \in Nat
      BY <3>2, <3>3
    <3>5. AtNextRound(t) = tokens + r /\ AtNextRound(t)' = tokens + (r + Rate)
      BY <1>1, <2>1, <3>4 DEF AtNextRound
    <3> HIDE DEF r
    <3> QED BY <1>1, <3>3, <3>4, <3>5 DEF r
  <2> HIDE DEF k
  <2>3. Lacking(t)' < Lacking(t) \/ Lacking(t)' = Lacking(t)
    BY <1>1, <2>2 DEF Lacking
  <2>4. SleepLeft(t)' = SleepLeft(t)
    BY <1>1, <2>1 DEF SleepLeft
  <2> QED BY <1>2, <1>4, <2>3, <2>4 DEF Nearer, AsFar
<1> QED BY <1>3, <1>4

LEMMA WorkerNearer ==
    ASSUME LInv, Holder, Fits, NEW t \in Workers, WorkerStep(t) \/ Fail(t),
           NEW u \in Workers
    PROVE  IF u = t THEN Nearer(u) ELSE AsFar(u)
<1>0. /\ pc \in [Workers -> PCs] /\ calls \in [Workers -> 0..(MaxCalls + 1)]
      /\ MaxCalls \in Nat /\ NoWorker \notin Workers
  BY ConstantsAssumption DEF LInv, TypeOK
<1>1. CASE AccountIo(t) \/ AskFlush(t) \/ AskCpuTick(t)
  <2>1. /\ pc' = [pc EXCEPT ![t] = "want"] /\ calls' = [calls EXCEPT ![t] = @ + 1]
        /\ UNCHANGED <<now, tokens, last, need, wake>>
    BY <1>1 DEF AccountIo, AskFlush, AskCpuTick, Request, Goto, bucket
  <2>2. CASE u = t
    <3>1. calls'[u] = calls[u] + 1 /\ calls[u] \in Nat
      BY <1>0, <2>1, <2>2
    <3>2. CallsLeft(u)' < CallsLeft(u)
      BY <1>0, <3>1 DEF CallsLeft
    <3> QED BY <2>2, <3>2 DEF Nearer
  <2>3. CASE u # t
    <3>1. pc'[u] = pc[u] /\ calls'[u] = calls[u]
      BY <1>0, <2>1, <2>3
    <3> QED BY <2>1, <2>3, <3>1, Untouched
  <2> QED BY <2>2, <2>3
<1>2. CASE Done(t) \/ Fail(t)
  <2>1. /\ pc[t] = "work" /\ pc'[t] \in {"done", "failed"}
        /\ \A v \in Workers : v # t => pc'[v] = pc[v]
        /\ UNCHANGED <<now, tokens, last, need, wake, calls>>
    BY <1>0, <1>2 DEF Done, Fail, Goto, bucket
  <2> QED BY <2>1, PlaceNearer, Untouched
<1>3. CASE AcquireIo(t) \/ FlushIo(t) \/ CpuTick(t)
  <2>1. /\ pc[t] = "want" /\ pc'[t] \in {"work", "acquire", "sleep"} /\ calls' = calls
        /\ \A v \in Workers : v # t => pc'[v] = pc[v]
        /\ owner = NoWorker
    BY <1>0, <1>3 DEF AcquireIo, FlushIo, CpuTick, Entered, Charge, Goto
  <2>2. u # t => pc[u] \notin {"acquire", "sleep"}
    BY <1>0, <2>1 DEF Holder
  <2> QED BY <2>1, <2>2, PlaceNearer, Outside
<1>4. CASE Acquire(t) \/ Wake(t)
  <2>1. /\ pc[t] \in {"acquire", "sleep"} /\ calls' = calls
        /\ \A v \in Workers : v # t => pc'[v] = pc[v]
    <3>1. CASE Acquire(t)
      BY <1>0, <3>1, AcquireCases DEF Acquire
    <3>2. CASE Wake(t)
      BY <1>0, <3>2 DEF Wake, Goto
    <3> QED BY <1>4, <3>1, <3>2
  <2>2. u # t => pc[u] \notin {"acquire", "sleep"}
    BY <2>1 DEF Holder
  <2>3. Nearer(t)
    BY <1>4, AcquireNearer, WakeNearer
  <2> QED BY <2>1, <2>2, <2>3, Outside
<1> QED BY <1>1, <1>2, <1>3, <1>4 DEF WorkerStep

LEMMA LeftIsNat ==
    ASSUME LInv, NEW t \in Workers
    PROVE  {CallsLeft(t), Place(t), Lacking(t), SleepLeft(t)} \subseteq Nat
<1>1. /\ calls[t] \in 0..(MaxCalls + 1) /\ MaxCalls \in Nat
      /\ now \in Nat /\ wake \in Nat /\ now - last \in Nat /\ last \in Nat /\ last <= now
      /\ need \in Nat /\ tokens \in Nat
  BY ConstantsAssumption, BurstNat DEF LInv, TypeOK
<1>2. NextRound(t) \in Nat /\ NextRound(t) >= now
  BY <1>1 DEF NextRound
<1>3. Rate * (NextRound(t) - last) \in Nat
  <2>1. NextRound(t) - last \in Nat
    BY <1>1, <1>2
  <2> QED BY <2>1, Worth
<1>4. AtNextRound(t) \in Nat
  BY <1>1, <1>3 DEF AtNextRound
<1>5. Lacking(t) \in Nat
  BY <1>1, <1>4 DEF Lacking
<1>6. CallsLeft(t) \in Nat /\ Place(t) \in Nat /\ SleepLeft(t) \in Nat
  BY <1>1, <1>2 DEF CallsLeft, Place, SleepLeft
<1> QED BY <1>5, <1>6

\* If no request is larger than the bucket, calls end: each step of a worker, and
\* each tick of its sleep, leaves it less to do, and neither the clock nor the
\* other workers ever leave it more (acquire, acquire_io, flush_io, cpu_tick).
\* What is left are numbers, so it cannot become less for ever.
THEOREM CallsEnd ==
    ASSUME Ample
    PROVE  Spec => /\ [](\A t \in Workers :
                           {CallsLeft(t), Place(t), Lacking(t), SleepLeft(t)} \subseteq Nat)
                   /\ [][\A t \in Workers :
                           /\ WorkerStep(t) \/ Fail(t) => Nearer(t)
                           /\ Tick /\ pc[t] = "sleep" /\ now < wake => Nearer(t)
                           /\ Nearer(t) \/ AsFar(t)]_vars
<1> DEFINE Sinks == \A t \in Workers :
                       /\ WorkerStep(t) \/ Fail(t) => Nearer(t)
                       /\ Tick /\ pc[t] = "sleep" /\ now < wake => Nearer(t)
                       /\ Nearer(t) \/ AsFar(t)
<1>1. LInv /\ Holder /\ Fits /\ [Next]_vars => [Sinks]_vars
  <2> SUFFICES ASSUME LInv, Holder, Fits, Next, NEW t \in Workers
               PROVE  /\ WorkerStep(t) \/ Fail(t) => Nearer(t)
                      /\ Tick /\ pc[t] = "sleep" /\ now < wake => Nearer(t)
                      /\ Nearer(t) \/ AsFar(t)
    OBVIOUS
  <2>1. WorkerStep(t) \/ Fail(t) => Nearer(t)
    BY WorkerNearer
  <2>2. Tick => /\ pc[t] = "sleep" /\ now < wake => Nearer(t)
                /\ Nearer(t) \/ AsFar(t)
    BY TickNearer
  <2>3. (\E u \in Workers : WorkerStep(u) \/ Fail(u)) => Nearer(t) \/ AsFar(t)
    BY WorkerNearer
  <2>4. Observe => AsFar(t)
    BY Untouched DEF Observe, bucket, worker
  <2> QED BY <2>1, <2>2, <2>3, <2>4 DEF Next
<1>2. Init => Holder /\ Fits
  BY BurstNat DEF Init, Holder, Fits
<1> DEFINE Numbers == \A t \in Workers :
                        {CallsLeft(t), Place(t), Lacking(t), SleepLeft(t)} \subseteq Nat
<1>3. LInv => Numbers
  BY LeftIsNat
<1> HIDE DEF Sinks, Numbers
<1>4. Spec => []Numbers /\ [][Sinks]_vars
  BY <1>1, <1>2, <1>3, Invariance, AmpleStep, PTL DEF Spec
<1> QED BY <1>4 DEF Sinks, Numbers

-----------------------------------------------------------------------------
(* The ledger of bytes.                                                    *)

\* What calls owe, as a set, so that its size is their sum: f[t] of worker t.
Owing(f) == {x \in Workers \X (1..MaxSize) : x[2] <= f[x[1]]}

\* Its last call was a flush, which has got the mutex.
Clean(t) ==
    pc[t] = "done" \/ (call[t] = "flush" /\ pc[t] \in {"work", "acquire", "sleep"})

\* Every byte accounted is charged, being charged, pending or owed by a call.
Balanced == accounted = charged + need + pending + Cardinality(Owing(arg))

Owed == \A t \in Workers : arg[t] > 0 => pc[t] = "want" /\ call[t] = "io"

\* What is being charged belongs to the holder of the mutex, who owes nothing
\* else, and nothing is pending meanwhile.
Charging ==
    need > 0 => /\ owner \in Workers /\ pc[owner] \in {"acquire", "sleep"}
                /\ call[owner] # "cpu" /\ arg[owner] = 0
                /\ pending = 0
                /\ need <= Batch - 1 + MaxSize

\* Nothing is pending once all have flushed.
Flushed == (\A t \in Workers : Clean(t)) => pending = 0

\* The observer finds no more charged than accounted.
Behind == window.charged <= window.accounted

Ledger == Balanced /\ Owed /\ Charging /\ Flushed /\ Behind /\ Holder

LEMMA MaxSizeIsMax == MaxSize \in Sizes /\ \A n \in Sizes : n <= MaxSize
BY FiniteAssumption DEF MaxSize

LEMMA ArgRange == ASSUME TypeOK PROVE arg \in [Workers -> 0..MaxSize]
<1>1. MaxSize \in Nat /\ \A n \in Sizes \union {0} : n \in 0..MaxSize
  BY MaxSizeIsMax, ConstantsAssumption
<1> QED
  BY <1>1 DEF TypeOK

LEMMA OwingFinite ==
    ASSUME NEW f
    PROVE  IsFiniteSet(Owing(f)) /\ Cardinality(Owing(f)) \in Nat
<1>1. MaxSize \in Int
  BY MaxSizeIsMax, ConstantsAssumption
<1>2. IsFiniteSet(1..MaxSize)
  BY <1>1, FS_Interval
<1>3. IsFiniteSet(Workers \X (1..MaxSize))
  BY <1>2, FiniteAssumption, FS_Product
<1>4. Owing(f) \in SUBSET (Workers \X (1..MaxSize))
  BY DEF Owing
<1> QED
  BY <1>3, <1>4, FS_Subset, FS_CardinalityType

\* One worker's share of it.
LEMMA ShareSize ==
    ASSUME NEW t, NEW n \in Nat
    PROVE  IsFiniteSet({t} \X (1..n)) /\ Cardinality({t} \X (1..n)) = n
<1>1. IsFiniteSet({t}) /\ Cardinality({t}) = 1
  BY FS_Singleton
<1>2. IsFiniteSet(1..n) /\ Cardinality(1..n) = n
  BY FS_Interval
<1>3. /\ IsFiniteSet({t} \X (1..n))
      /\ Cardinality({t} \X (1..n)) = Cardinality({t}) * Cardinality(1..n)
  BY <1>1, <1>2, FS_Product
<1> QED
  BY <1>1, <1>2, <1>3

LEMMA OwingSplit ==
    ASSUME NEW f \in [Workers -> 0..MaxSize], NEW t \in Workers
    PROVE  Cardinality(Owing(f)) = Cardinality(Owing([f EXCEPT ![t] = 0])) + f[t]
<1> DEFINE rest == [f EXCEPT ![t] = 0]
           share == {t} \X (1..f[t])
<1>1. f[t] \in Nat /\ f[t] <= MaxSize /\ MaxSize \in Nat
  BY MaxSizeIsMax, ConstantsAssumption
<1>2. Owing(f) = Owing(rest) \union share
  <2>1. ASSUME NEW x \in Owing(f) PROVE x \in Owing(rest) \union share
    <3>1. CASE x[1] = t
      BY <2>1, <3>1, <1>1 DEF Owing
    <3>2. CASE x[1] # t
      BY <2>1, <3>2 DEF Owing
    <3> QED
      BY <3>1, <3>2
  <2>2. ASSUME NEW x \in Owing(rest) PROVE x \in Owing(f)
    <3>1. x[1] \in Workers /\ x[2] \in 1..MaxSize /\ x[2] <= rest[x[1]]
      BY DEF Owing
    <3>2. rest[x[1]] <= f[x[1]]
      BY <3>1, <1>1
    <3>3. x[2] <= f[x[1]]
      BY <3>1, <3>2, <1>1
    <3> QED
      BY <3>3 DEF Owing
  <2>3. ASSUME NEW x \in share PROVE x \in Owing(f)
    BY <1>1 DEF Owing
  <2> QED
    BY <2>1, <2>2, <2>3
<1>3. Owing(rest) \cap share = {}
  <2> SUFFICES ASSUME NEW x \in Owing(rest), x \in share PROVE FALSE
    OBVIOUS
  <2>1. x[1] = t /\ rest[t] = 0
    OBVIOUS
  <2>2. x[2] \in 1..MaxSize /\ x[2] <= rest[x[1]]
    BY DEF Owing
  <2> QED
    BY <2>1, <2>2, <1>1
<1>4. IsFiniteSet(share) /\ Cardinality(share) = f[t]
  BY <1>1, ShareSize
<1>5. IsFiniteSet(Owing(rest)) /\ Cardinality(Owing(rest)) \in Nat
  BY OwingFinite
<1> HIDE DEF rest, share
<1>6. Cardinality(Owing(rest) \union share) = Cardinality(Owing(rest)) + f[t]
  <2>1. Cardinality(Owing(rest) \union share)
           = Cardinality(Owing(rest)) + Cardinality(share) - Cardinality(Owing(rest) \cap share)
    BY <1>4, <1>5, FS_Union
  <2>2. Cardinality(Owing(rest) \cap share) = 0
    BY <1>3, FS_EmptySet
  <2> QED
    BY <2>1, <2>2, <1>1, <1>4, <1>5
<1> QED
  BY <1>2, <1>6 DEF rest

\* What is owed is bounded, the more so when a worker owes nothing.
LEMMA OwingBounds ==
    ASSUME TypeOK
    PROVE  /\ Cardinality(Owing(arg)) <= Cardinality(Workers) * MaxSize
           /\ \A t \in Workers : arg[t] = 0 =>
                 Cardinality(Owing(arg)) + MaxSize <= Cardinality(Workers) * MaxSize
<1>1. MaxSize \in Nat /\ IsFiniteSet(1..MaxSize) /\ Cardinality(1..MaxSize) = MaxSize
  BY MaxSizeIsMax, ConstantsAssumption, FS_Interval
<1>2. IsFiniteSet(Workers) /\ Cardinality(Workers) \in Nat
  BY FiniteAssumption, FS_CardinalityType
<1>3. ASSUME NEW W, IsFiniteSet(W), Owing(arg) \subseteq W \X (1..MaxSize)
      PROVE  Cardinality(Owing(arg)) <= Cardinality(W) * MaxSize
  <2>1. /\ IsFiniteSet(W \X (1..MaxSize))
        /\ Cardinality(W \X (1..MaxSize)) = Cardinality(W) * Cardinality(1..MaxSize)
    BY <1>1, <1>3, FS_Product
  <2>2. Cardinality(Owing(arg)) <= Cardinality(W \X (1..MaxSize))
    BY <1>3, <2>1, FS_Subset
  <2> QED
    BY <2>1, <2>2, <1>1
<1>4. Cardinality(Owing(arg)) <= Cardinality(Workers) * MaxSize
  <2>1. Owing(arg) \subseteq Workers \X (1..MaxSize)
    BY DEF Owing
  <2> QED
    BY <2>1, <1>2, <1>3
<1>5. ASSUME NEW t \in Workers, arg[t] = 0
      PROVE  Cardinality(Owing(arg)) + MaxSize <= Cardinality(Workers) * MaxSize
  <2> DEFINE W == Workers \ {t}
             w == Cardinality(Workers)
  <2>1. IsFiniteSet(W) /\ Cardinality(W) = w - 1
    BY <1>2, FS_RemoveElement
  <2>2. Owing(arg) \subseteq W \X (1..MaxSize)
    BY <1>5 DEF Owing
  <2>3. Cardinality(Owing(arg)) <= (w - 1) * MaxSize
    BY <2>1, <2>2, <1>3
  <2>4. (w - 1) * MaxSize = w * MaxSize - MaxSize
    BY <1>1, <1>2
  <2>5. w * MaxSize \in Nat /\ Cardinality(Owing(arg)) \in Nat
    BY <1>1, <1>2, OwingFinite
  <2> HIDE DEF w
  <2>6. Cardinality(Owing(arg)) + MaxSize <= w * MaxSize
    BY <2>3, <2>4, <2>5, <1>1
  <2> QED
    BY <2>6 DEF w
<1> QED
  BY <1>4, <1>5

LEMMA LedgerInit == Init => Ledger
<1> SUFFICES ASSUME Init PROVE Ledger
  OBVIOUS
<1>1. Owing(arg) = {}
  BY MaxSizeIsMax, ConstantsAssumption DEF Init, Owing
<1>2. Cardinality(Owing(arg)) = 0
  BY <1>1, FS_EmptySet
<1> QED
  BY <1>2 DEF Init, Ledger, Balanced, Owed, Charging, Flushed, Behind, Holder

\* A worker that begins a call or ends, without the mutex.
LEMMA OutsideLedger ==
    ASSUME TypeOK, Ledger, NEW t \in Workers,
           AccountIo(t) \/ AskFlush(t) \/ AskCpuTick(t) \/ Done(t) \/ Fail(t)
    PROVE  Ledger'
<1> USE DEF Ledger
<1>1. /\ UNCHANGED <<pending, owner, need, charged, window>>
      /\ pc[t] = "work"
      /\ \A u \in Workers : u # t => pc'[u] = pc[u] /\ call'[u] = call[u]
  BY DEF AccountIo, AskFlush, AskCpuTick, Done, Fail, Request, Goto, TypeOK
<1>2. pc'[t] \in {"want", "done", "failed"}
  BY DEF AccountIo, AskFlush, AskCpuTick, Done, Fail, Request, Goto, TypeOK
<1>3. arg[t] = 0 /\ (need > 0 => owner # t)
  <2>1. arg[t] = 0
    BY <1>1, ArgNat DEF Owed
  <2>2. need > 0 => owner # t
    BY <1>1 DEF Charging
  <2> QED
    BY <2>1, <2>2 DEF TypeOK
<1>4. \/ /\ call'[t] = "io" /\ pc'[t] = "want"
         /\ \E n \in Sizes : arg' = [arg EXCEPT ![t] = n] /\ accounted' = accounted + n
      \/ UNCHANGED <<arg, accounted>>
  BY DEF AccountIo, AskFlush, AskCpuTick, Done, Fail, Request, Goto, TypeOK
<1>5. Balanced'
  <2>1. CASE \E n \in Sizes : arg' = [arg EXCEPT ![t] = n] /\ accounted' = accounted + n
    <3> PICK n \in Sizes : arg' = [arg EXCEPT ![t] = n] /\ accounted' = accounted + n
      BY <2>1
    <3>1. n \in Nat /\ n \in 0..MaxSize
      BY MaxSizeIsMax, ConstantsAssumption
    <3>2. arg \in [Workers -> 0..MaxSize]
      BY ArgRange
    <3>3. arg' \in [Workers -> 0..MaxSize] /\ arg'[t] = n /\ arg = [arg' EXCEPT ![t] = 0]
      BY <3>1, <3>2, <1>3
    <3>4. Cardinality(Owing(arg')) = Cardinality(Owing(arg)) + n
      BY <3>3, OwingSplit
    <3>5. Cardinality(Owing(arg)) \in Nat
      BY OwingFinite
    <3> QED
      BY <1>1, <3>1, <3>4, <3>5 DEF Balanced, TypeOK
  <2>2. CASE UNCHANGED <<arg, accounted>>
    BY <1>1, <2>2 DEF Balanced
  <2> QED
    BY <1>4, <2>1, <2>2
<1>6. Owed'
  BY <1>1, <1>2, <1>3, <1>4, ArgNat DEF Owed, TypeOK
<1>7. Charging'
  BY <1>1, <1>3, <1>4 DEF Charging, TypeOK
<1>8. Flushed'
  <2>1. ASSUME Clean(t)' PROVE Clean(t)
    BY <1>1, <1>2, <2>1 DEF Clean, AccountIo, AskFlush, AskCpuTick, Done, Fail, Request, Goto,
                            TypeOK
  <2>2. \A u \in Workers : Clean(u)' => Clean(u)
    BY <1>1, <2>1 DEF Clean
  <2> QED
    BY <1>1, <2>2 DEF Flushed
<1>9. Behind' /\ Holder'
  BY <1>1, <1>2 DEF Behind, Holder
<1> QED
  BY <1>5, <1>6, <1>7, <1>8, <1>9

\* With the mutex, what a call owes becomes pending or is being charged.
LEMMA AcquireIoLedger ==
    ASSUME TypeOK, Ledger, NEW t \in Workers, AcquireIo(t) PROVE Ledger'
<1> USE DEF Ledger
<1> DEFINE n == arg[t]
<1>1. /\ pc[t] = "want" /\ call[t] = "io" /\ owner = NoWorker /\ need = 0
      /\ arg' = [arg EXCEPT ![t] = 0] /\ UNCHANGED <<call, accounted, charged, window>>
      /\ pending \in Nat /\ pending <= Batch - 1 /\ Batch \in Nat
      /\ n \in Nat /\ n <= MaxSize /\ MaxSize \in Nat
  <2>1. need = 0
    BY ConstantsAssumption DEF AcquireIo, Entered, Charging, TypeOK
  <2>2. n \in Nat /\ n <= MaxSize /\ MaxSize \in Nat
    BY ArgRange, MaxSizeIsMax, ConstantsAssumption
  <2> QED
    BY <2>1, <2>2, ConstantsAssumption DEF AcquireIo, Entered, TypeOK
<1>2. \/ /\ owner' = t /\ need' = pending + n /\ pending' = 0
         /\ pc' = [pc EXCEPT ![t] = "acquire"]
      \/ /\ pending' = pending + n /\ UNCHANGED <<owner, need>>
         /\ pc' = [pc EXCEPT ![t] = "work"]
  BY DEF AcquireIo, Charge, Goto
<1>3. Balanced'
  <2>1. Cardinality(Owing(arg)) = Cardinality(Owing(arg')) + n
    BY <1>1, ArgRange, OwingSplit
  <2>2. Cardinality(Owing(arg')) \in Nat
    BY OwingFinite
  <2> HIDE DEF n
  <2> QED
    BY <1>1, <1>2, <2>1, <2>2 DEF Balanced, TypeOK
<1>4. Owed'
  BY <1>1, <1>2 DEF Owed, TypeOK
<1>5. Charging'
  <2>1. CASE owner' = t /\ need' = pending + n /\ pending' = 0
             /\ pc' = [pc EXCEPT ![t] = "acquire"]
    <3>1. need' <= Batch - 1 + MaxSize
      BY <1>1, <2>1
    <3>2. pc'[t] = "acquire" /\ arg'[t] = 0 /\ call'[t] = "io"
      BY <1>1, <2>1 DEF TypeOK
    <3> QED
      BY <2>1, <3>1, <3>2 DEF Charging
  <2>2. CASE UNCHANGED <<owner, need>>
    BY <1>1, <2>2 DEF Charging
  <2> QED
    BY <1>2, <2>1, <2>2
<1>6. Flushed'
  <2>1. pc'[t] # "done" /\ call'[t] = "io"
    BY <1>1, <1>2 DEF TypeOK
  <2> QED
    BY <2>1 DEF Flushed, Clean
<1>7. Behind' /\ Holder'
  <2>1. \A u \in Workers : pc[u] \notin {"acquire", "sleep"}
    BY <1>1, ConstantsAssumption DEF Holder
  <2> QED
    BY <1>1, <1>2, <2>1 DEF Behind, Holder, TypeOK
<1> QED
  BY <1>3, <1>4, <1>5, <1>6, <1>7

LEMMA FlushIoLedger ==
    ASSUME TypeOK, Ledger, NEW t \in Workers, FlushIo(t) PROVE Ledger'
<1> USE DEF Ledger
<1>1. /\ pc[t] = "want" /\ call[t] = "flush" /\ owner = NoWorker /\ need = 0
      /\ UNCHANGED <<call, arg, accounted, charged, window>>
      /\ pending \in Nat /\ pending <= Batch - 1 /\ Batch \in Nat
      /\ arg[t] = 0 /\ MaxSize \in Nat
  <2>1. need = 0
    BY ConstantsAssumption DEF FlushIo, Entered, Charging, TypeOK
  <2>2. arg[t] = 0
    BY ArgNat DEF FlushIo, Entered, Owed
  <2>3. MaxSize \in Nat
    BY MaxSizeIsMax, ConstantsAssumption
  <2> QED
    BY <2>1, <2>2, <2>3, ConstantsAssumption DEF FlushIo, Entered, TypeOK
<1>2. pending' = 0
  BY <1>1 DEF FlushIo, Charge
<1>3. \/ owner' = t /\ need' = pending /\ pc' = [pc EXCEPT ![t] = "acquire"]
      \/ pending = 0 /\ UNCHANGED <<owner, need>> /\ pc' = [pc EXCEPT ![t] = "work"]
  BY <1>1 DEF FlushIo, Charge, Goto
<1>4. Balanced'
  <2>1. Cardinality(Owing(arg)) \in Nat
    BY OwingFinite
  <2> QED
    BY <1>1, <1>2, <1>3, <2>1 DEF Balanced, TypeOK
<1>5. Owed'
  BY <1>1, <1>3 DEF Owed, TypeOK
<1>6. Charging'
  <2>1. CASE owner' = t /\ need' = pending /\ pc' = [pc EXCEPT ![t] = "acquire"]
    <3>1. need' <= Batch - 1 + MaxSize
      BY <1>1, <2>1
    <3>2. pc'[t] = "acquire" /\ arg'[t] = 0 /\ call'[t] = "flush"
      BY <1>1, <2>1 DEF TypeOK
    <3> QED
      BY <1>2, <2>1, <3>1, <3>2 DEF Charging
  <2>2. CASE UNCHANGED <<owner, need>>
    BY <1>1, <2>2 DEF Charging
  <2> QED
    BY <1>3, <2>1, <2>2
<1>7. Flushed'
  BY <1>2 DEF Flushed
<1>8. Behind' /\ Holder'
  <2>1. \A u \in Workers : pc[u] \notin {"acquire", "sleep"}
    BY <1>1, ConstantsAssumption DEF Holder
  <2> QED
    BY <1>1, <1>3, <2>1 DEF Behind, Holder, TypeOK
<1> QED
  BY <1>4, <1>5, <1>6, <1>7, <1>8

LEMMA CpuTickLedger ==
    ASSUME TypeOK, Ledger, NEW t \in Workers, CpuTick(t) PROVE Ledger'
<1> USE DEF Ledger
<1>1. /\ pc[t] = "want" /\ call[t] = "cpu" /\ owner = NoWorker /\ need = 0
      /\ UNCHANGED <<pending, need, call, arg, accounted, charged, window>>
      /\ arg[t] = 0
  <2>1. need = 0
    BY ConstantsAssumption DEF CpuTick, Entered, Charging, TypeOK
  <2>2. arg[t] = 0
    BY ArgNat DEF CpuTick, Entered, Owed
  <2> QED
    BY <2>1, <2>2 DEF CpuTick, Entered
<1>2. \/ owner' = owner /\ pc' = [pc EXCEPT ![t] = "work"]
      \/ owner' = t /\ pc' = [pc EXCEPT ![t] = "sleep"]
  BY DEF CpuTick, Goto
<1>3. Balanced' /\ Charging' /\ Behind'
  BY <1>1 DEF Balanced, Charging, Behind
<1>4. Owed'
  BY <1>1, <1>2 DEF Owed, TypeOK
<1>5. Flushed'
  <2>1. pc'[t] # "done" /\ call'[t] = "cpu"
    BY <1>1, <1>2 DEF TypeOK
  <2> QED
    BY <2>1 DEF Flushed, Clean
<1>6. Holder'
  <2>1. \A u \in Workers : pc[u] \notin {"acquire", "sleep"}
    BY <1>1, ConstantsAssumption DEF Holder
  <2> QED
    BY <1>1, <1>2, <2>1 DEF Holder, TypeOK
<1> QED
  BY <1>3, <1>4, <1>5, <1>6

LEMMA AcquireLedger ==
    ASSUME TypeOK, Ledger, NEW t \in Workers, Acquire(t) PROVE Ledger'
<1> USE DEF Ledger
<1>1. /\ pc[t] = "acquire" /\ owner = t
      /\ \A u \in Workers : u # t => pc[u] \notin {"acquire", "sleep"}
      /\ UNCHANGED <<pending, call, arg, accounted, window>>
      /\ need \in Nat /\ charged \in Nat /\ arg[t] = 0
  <2>1. pc[t] = "acquire" /\ UNCHANGED <<pending, call, arg, accounted, window>>
    BY DEF Acquire
  <2>2. arg[t] = 0
    BY <2>1, ArgNat DEF Owed
  <2> QED
    BY <2>1, <2>2 DEF Holder, TypeOK
<1>2. \/ /\ charged' = charged + need /\ need' = 0 /\ owner' = NoWorker
         /\ pc' = [pc EXCEPT ![t] = "work"]
      \/ pc' = [pc EXCEPT ![t] = "sleep"] /\ UNCHANGED <<charged, need, owner>>
  BY AcquireCases
<1>3. Balanced'
  <2>1. Cardinality(Owing(arg)) \in Nat
    BY OwingFinite
  <2> QED
    BY <1>1, <1>2, <2>1 DEF Balanced, TypeOK
<1>4. Owed'
  BY <1>1, <1>2 DEF Owed, TypeOK
<1>5. Charging'
  BY <1>1, <1>2 DEF Charging, TypeOK
<1>6. Flushed'
  <2>1. \A u \in Workers : Clean(u)' => Clean(u)
    BY <1>1, <1>2 DEF Clean, TypeOK
  <2> QED
    BY <1>1, <2>1 DEF Flushed
<1>7. Behind' /\ Holder'
  BY <1>1, <1>2 DEF Behind, Holder, TypeOK
<1> QED
  BY <1>3, <1>4, <1>5, <1>6, <1>7

LEMMA WakeLedger ==
    ASSUME TypeOK, Ledger, NEW t \in Workers, Wake(t) PROVE Ledger'
<1> USE DEF Ledger
<1>1. /\ pc[t] = "sleep" /\ owner = t
      /\ \A u \in Workers : u # t => pc[u] \notin {"acquire", "sleep"}
      /\ UNCHANGED <<pending, need, call, arg, accounted, charged, window>>
      /\ arg[t] = 0
  <2>1. pc[t] = "sleep" /\ UNCHANGED <<pending, need, call, arg, accounted, charged, window>>
    BY DEF Wake
  <2>2. arg[t] = 0
    BY <2>1, ArgNat DEF Owed
  <2> QED
    BY <2>1, <2>2 DEF Holder, TypeOK
<1>2. \/ /\ call[t] = "cpu" /\ owner' = NoWorker /\ pc' = [pc EXCEPT ![t] = "work"]
      \/ /\ call[t] # "cpu" /\ owner' = owner /\ pc' = [pc EXCEPT ![t] = "acquire"]
  BY DEF Wake, Goto
<1>3. Balanced' /\ Behind'
  BY <1>1 DEF Balanced, Behind
<1>4. Owed'
  BY <1>1, <1>2 DEF Owed, TypeOK
<1>5. Charging'
  BY <1>1, <1>2 DEF Charging, TypeOK
<1>6. Flushed'
  <2>1. \A u \in Workers : Clean(u)' => Clean(u)
    BY <1>1, <1>2 DEF Clean, TypeOK
  <2> QED
    BY <1>1, <2>1 DEF Flushed
<1>7. Holder'
  BY <1>1, <1>2 DEF Holder, TypeOK
<1> QED
  BY <1>3, <1>4, <1>5, <1>6, <1>7

\* Nothing is charged that was not accounted, so an observer may begin any time.
LEMMA ObserveLedger == ASSUME TypeOK, Ledger, Observe PROVE Ledger'
<1> USE DEF Ledger
<1>1. UNCHANGED <<pending, owner, need, pc, call, arg, accounted, charged>>
  BY DEF Observe, worker
<1>2. charged <= accounted
  <2>1. Cardinality(Owing(arg)) \in Nat
    BY OwingFinite
  <2> QED
    BY <2>1 DEF Balanced, TypeOK
<1>3. Behind'
  BY <1>2 DEF Observe, Behind
<1>4. Balanced' /\ Owed' /\ Charging' /\ Flushed' /\ Holder'
  BY <1>1 DEF Balanced, Owed, Charging, Flushed, Clean, Holder
<1> QED
  BY <1>3, <1>4

LEMMA LedgerNext == ASSUME LInv, Ledger, [Next]_vars PROVE Ledger'
<1>0. TypeOK
  BY DEF LInv
<1>1. ASSUME NEW t \in Workers, WorkerStep(t) \/ Fail(t) PROVE Ledger'
  BY <1>0, <1>1, OutsideLedger, AcquireIoLedger, FlushIoLedger, CpuTickLedger, AcquireLedger,
     WakeLedger DEF WorkerStep
<1>2. CASE Tick \/ UNCHANGED vars
  BY <1>2 DEF Tick, vars, bucket, worker, Ledger, Balanced, Owed, Charging, Flushed, Clean,
              Behind, Holder
<1>3. CASE Observe
  BY <1>0, <1>3, ObserveLedger
<1> QED
  BY <1>1, <1>2, <1>3 DEF Next

\* Every byte accounted is charged, being charged, pending or owed, at any moment.
THEOREM LedgerHolds == Spec => []Ledger
BY LedgerInit, LedgerNext, Invariance, PTL DEF Spec

\* When all workers have ended without an error, every byte that they have
\* accounted has been charged, whoever it was that charged it.
THEOREM NothingUncharged == Spec => []AllCharged
<1>1. LInv /\ Ledger => AllCharged
  <2> SUFFICES ASSUME LInv, Ledger, \A t \in Workers : pc[t] = "done" PROVE charged = accounted
    BY DEF AllCharged
  <2>1. TypeOK
    BY DEF LInv
  <2>2. need = 0
    BY <2>1 DEF Ledger, Charging, TypeOK
  <2>3. pending = 0
    BY DEF Ledger, Flushed, Clean
  <2>4. Owing(arg) = {}
    <3>1. \A t \in Workers : arg[t] = 0
      BY <2>1, ArgNat DEF Ledger, Owed
    <3>2. \A k \in 1..MaxSize : ~(k <= 0)
      BY MaxSizeIsMax, ConstantsAssumption
    <3> QED
      BY <3>1, <3>2 DEF Owing
  <2>5. Cardinality(Owing(arg)) = 0
    BY <2>4, FS_EmptySet
  <2> QED
    BY <2>1, <2>2, <2>3, <2>5 DEF Ledger, Balanced, TypeOK
<1> QED
  BY <1>1, LedgerHolds, Invariance, PTL

\* From whatever moment one measures, the bytes accounted keep the cap,
\* but for a burst, less than a batch, and one call of each worker.
THEOREM CapHeld == Spec => []AccountedCapped
<1>1. LInv /\ Ledger /\ RateHeld => AccountedCapped
  <2> SUFFICES ASSUME LInv, Ledger, RateHeld PROVE AccountedCapped
    OBVIOUS
  <2> DEFINE owing == Cardinality(Owing(arg))
             most == Cardinality(Workers) * MaxSize
             gained == Rate * (now - window.at)
  <2>1. TypeOK
    BY DEF LInv
  <2>2. /\ owing \in Nat /\ MaxSize \in Nat /\ Batch \in Nat /\ Batch >= 1
        /\ pending \in Nat /\ pending <= Batch - 1 /\ need \in Nat
        /\ accounted \in Nat /\ charged \in Nat
        /\ window.accounted \in Nat /\ window.charged \in Nat
        /\ window.charged <= window.accounted
    BY <2>1, OwingFinite, MaxSizeIsMax, ConstantsAssumption DEF TypeOK, Ledger, Behind
  <2>3. gained \in Int /\ Burst \in Nat /\ most \in Nat
    <3>1. now - window.at \in Int /\ Rate \in Int
      BY <2>1, ConstantsAssumption DEF TypeOK
    <3>2. Cardinality(Workers) \in Nat
      BY FiniteAssumption, FS_CardinalityType
    <3> QED
      BY <2>2, <3>1, <3>2, BurstNat
  <2>4. need + pending + owing <= Batch - 1 + most
    <3>1. CASE need = 0
      <4>1. owing <= most
        BY <2>1, OwingBounds
      <4> HIDE DEF owing, most
      <4> QED
        BY <3>1, <4>1, <2>2, <2>3
    <3>2. CASE need # 0
      <4>1. /\ owner \in Workers /\ arg[owner] = 0 /\ pending = 0
            /\ need <= Batch - 1 + MaxSize
        BY <3>2, <2>2 DEF Ledger, Charging
      <4>2. owing + MaxSize <= most
        BY <4>1, <2>1, OwingBounds
      <4> HIDE DEF owing, most
      <4> QED
        BY <4>1, <4>2, <2>2, <2>3
    <3> QED
      BY <3>1, <3>2
  <2>5. accounted = charged + need + pending + owing
    BY DEF Ledger, Balanced
  <2>6. charged - window.charged <= Burst + gained
    BY DEF RateHeld
  <2> HIDE DEF owing, most, gained
  <2>7. accounted - window.accounted <= Burst + gained + Batch - 1 + most
    BY <2>2, <2>3, <2>4, <2>5, <2>6
  <2> QED
    BY <2>7 DEF AccountedCapped, gained, most
<1> QED
  BY <1>1, LedgerHolds, RateLimit, Invariance, PTL
=============================================================================
