------------------------------ MODULE Limiter ------------------------------
(***************************************************************************)
(* The resource limits that the workers of one run share (limit.rs, and    *)
(* the calls that pcap_io.rs makes): a token bucket for the bytes read and *)
(* written and a CPU governor, both behind one mutex that a throttled      *)
(* worker keeps while it sleeps.                                           *)
(*                                                                         *)
(* Time passes in ticks, bytes come in chunks, and the bucket gains Rate   *)
(* chunks a tick.  Bytes are accounted once a pass has taken them from its *)
(* read buffer or put them into its write buffer, and charged to the       *)
(* bucket in batches.  What the buffers (4 MiB each, pcap_io.rs) read      *)
(* ahead from the disk or write to it later is outside this module: it     *)
(* speaks of accounted bytes.  How much CPU a run uses is left open: the   *)
(* governor may send a worker to sleep at any sample.                      *)
(***************************************************************************)
EXTENDS Integers, FiniteSets

CONSTANTS
    Workers,
    NoWorker,
    Rate,       \* --max-io-mbps, in chunks per tick
    Second,     \* ticks in a second
    Batch,      \* IO_BATCH_BYTES
    Sizes,      \* the sizes that a call accounts
    MaxCalls,   \* bound on the calls of a worker
    MaxTime,    \* bound on the ticks that pass with no worker asleep
    Watch       \* the times at which an observer may begin to measure

ASSUME ConstantsAssumption ==
    /\ NoWorker \notin Workers
    /\ Rate \in Nat \ {0}
    /\ Second \in Nat \ {0}
    /\ Batch \in Nat \ {0}
    /\ Sizes \subseteq Nat \ {0}
    /\ MaxCalls \in Nat
    /\ MaxTime \in Nat
    /\ Watch \subseteq Nat

\* The pool has so many workers; a call accounts a record at most.
ASSUME FiniteAssumption ==
    /\ IsFiniteSet(Workers)
    /\ \E n \in Sizes : \A m \in Sizes : m <= n

VARIABLES
    now,
    tokens, last,   \* IoBucket: tokens and last_refill
    pending,        \* io_pending
    owner,          \* the worker that has the mutex while it acquires or sleeps
    need, wake,     \* what it acquires, and when it next wakes up
    pc,             \* pc[t]: where worker t is
    call, arg,      \* its last call into the limits, and the bytes it accounts
    calls,          \* its number of calls
    accounted,      \* all bytes that the passes have accounted so far
    charged,        \* all bytes taken from the bucket so far
    window          \* when an observer began to watch, and the totals then

bucket  == <<tokens, last>>
worker  == <<pc, call, arg, calls>>
vars    == <<now, bucket, pending, owner, need, wake, worker, accounted, charged, window>>

PCs   == {"work", "want", "acquire", "sleep", "done", "failed"}
Calls == {"none", "io", "flush", "cpu"}

\* IoBucket::new: two seconds of tokens, which is also where it starts.
Burst == 2 * Rate * Second

Lesser(m, n) == IF m < n THEN m ELSE n

\* Whole ticks that it takes to gain n tokens.
TicksFor(n) == (n + Rate - 1) \div Rate

Init ==
    /\ now = 0
    /\ tokens = Burst
    /\ last = 0
    /\ pending = 0
    /\ owner = NoWorker
    /\ need = 0
    /\ wake = 0
    /\ pc = [t \in Workers |-> "work"]
    /\ call = [t \in Workers |-> "none"]
    /\ arg = [t \in Workers |-> 0]
    /\ calls = [t \in Workers |-> 0]
    /\ accounted = 0
    /\ charged = 0
    /\ window = [at |-> 0, accounted |-> 0, charged |-> 0]

-----------------------------------------------------------------------------
(* What a worker calls.                                                    *)

Goto(t, place) == pc' = [pc EXCEPT ![t] = place]

Request(t, c) ==
    /\ pc[t] = "work"
    /\ calls[t] < MaxCalls \/ (c = "flush" /\ call[t] # "flush")
    /\ Goto(t, "want")
    /\ call' = [call EXCEPT ![t] = c]
    /\ calls' = [calls EXCEPT ![t] = @ + 1]

\* t has taken n bytes from its read buffer, or put them into its write
\* buffer, and accounts them.
AccountIo(t) ==
    /\ Request(t, "io")
    /\ \E n \in Sizes : arg' = [arg EXCEPT ![t] = n] /\ accounted' = accounted + n
    /\ UNCHANGED <<now, bucket, pending, owner, need, wake, charged, window>>

\* Every pass over a file ends with flush_io, and so does every job; every
\* 64 packets there is a cpu_tick.
AskFlush(t) ==
    /\ Request(t, "flush")
    /\ UNCHANGED <<now, bucket, pending, owner, need, wake, arg, accounted, charged, window>>

AskCpuTick(t) ==
    /\ Request(t, "cpu")
    /\ UNCHANGED <<now, bucket, pending, owner, need, wake, arg, accounted, charged, window>>

\* The worker's files are done.
Done(t) ==
    /\ pc[t] = "work"
    /\ call[t] = "flush"
    /\ Goto(t, "done")
    /\ UNCHANGED <<now, bucket, pending, owner, need, wake, call, arg, calls, accounted,
                   charged, window>>

\* An error ends the worker's last job, which does not flush.
Fail(t) ==
    /\ pc[t] = "work"
    /\ Goto(t, "failed")
    /\ UNCHANGED <<now, bucket, pending, owner, need, wake, call, arg, calls, accounted,
                   charged, window>>

-----------------------------------------------------------------------------
(* What the call does once it has the mutex.                               *)

Entered(t, c) == pc[t] = "want" /\ call[t] = c /\ owner = NoWorker

\* t keeps the mutex to take n from the bucket; no bytes are pending.
Charge(t, n) ==
    /\ owner' = t
    /\ need' = n
    /\ pending' = 0
    /\ Goto(t, "acquire")

\* Variant: io_pending is reset before it is read.
AcquireIoClearsFirst(t) ==
    /\ Entered(t, "io")
    /\ LET sum == pending + arg[t] IN
       IF sum >= Batch
       THEN Charge(t, 0)
       ELSE pending' = sum /\ Goto(t, "work") /\ UNCHANGED <<owner, need>>
    /\ arg' = [arg EXCEPT ![t] = 0]
    /\ UNCHANGED <<now, bucket, wake, call, calls, accounted, charged, window>>

\* acquire_io: a full batch is charged, a smaller one waits.
AcquireIo(t) ==
    /\ Entered(t, "io")
    /\ LET sum == pending + arg[t] IN
       IF sum >= Batch
       THEN Charge(t, sum)
       ELSE pending' = sum /\ Goto(t, "work") /\ UNCHANGED <<owner, need>>
    /\ arg' = [arg EXCEPT ![t] = 0]
    /\ UNCHANGED <<now, bucket, wake, call, calls, accounted, charged, window>>

\* Variant: what is less than a batch is dropped.
FlushIoDrops(t) ==
    /\ Entered(t, "flush")
    /\ IF pending >= Batch
       THEN Charge(t, pending)
       ELSE pending' = 0 /\ Goto(t, "work") /\ UNCHANGED <<owner, need>>
    /\ UNCHANGED <<now, bucket, wake, call, arg, calls, accounted, charged, window>>

\* flush_io: whatever is pending is charged.
FlushIo(t) ==
    /\ Entered(t, "flush")
    /\ IF pending > 0
       THEN Charge(t, pending)
       ELSE Goto(t, "work") /\ UNCHANGED <<owner, need, pending>>
    /\ UNCHANGED <<now, bucket, wake, call, arg, calls, accounted, charged, window>>

\* Variant: the mutex is not released at the end of the call.
CpuTickKeepsMutex(t) ==
    /\ Entered(t, "cpu")
    /\ owner' = t
    /\ Goto(t, "work")
    /\ UNCHANGED <<now, bucket, pending, need, wake, call, arg, calls, accounted, charged,
                   window>>

\* cpu_tick: over its target, the process sleeps for up to half a second.
CpuTick(t) ==
    /\ Entered(t, "cpu")
    /\ \/ Goto(t, "work") /\ UNCHANGED <<owner, wake>>
       \/ /\ \E s \in 1..((Second + 1) \div 2) : wake' = now + s
          /\ owner' = t
          /\ Goto(t, "sleep")
    /\ UNCHANGED <<now, bucket, pending, need, call, arg, calls, accounted, charged, window>>

\* Variant: the bucket is not capped.
RefilledUncapped == tokens + Rate * (now - last)

\* refill: the bucket gains what the time since the last refill is worth.
Refilled == Lesser(tokens + Rate * (now - last), Burst)

\* Variant: last_refill stays what it was.
AcquireKeepsLast(t) ==
    /\ pc[t] = "acquire"
    /\ last' = last
    /\ IF Refilled >= need
       THEN /\ tokens' = Refilled - need
            /\ charged' = charged + need
            /\ need' = 0
            /\ owner' = NoWorker
            /\ Goto(t, "work")
            /\ UNCHANGED wake
       ELSE /\ tokens' = Refilled
            /\ wake' = now + Lesser(TicksFor(need - Refilled), Second)
            /\ Goto(t, "sleep")
            /\ UNCHANGED <<charged, need, owner>>
    /\ UNCHANGED <<now, pending, call, arg, calls, accounted, window>>

\* Variant: the tokens are compared before the refill.
AcquireBeforeRefill(t) ==
    /\ pc[t] = "acquire"
    /\ last' = now
    /\ IF tokens >= need
       THEN /\ tokens' = Refilled - need
            /\ charged' = charged + need
            /\ need' = 0
            /\ owner' = NoWorker
            /\ Goto(t, "work")
            /\ UNCHANGED wake
       ELSE /\ tokens' = Refilled
            /\ wake' = now + Lesser(TicksFor(need - tokens), Second)
            /\ Goto(t, "sleep")
            /\ UNCHANGED <<charged, need, owner>>
    /\ UNCHANGED <<now, pending, call, arg, calls, accounted, window>>

\* One round of acquire's loop: take the tokens, or sleep until there may be
\* enough of them, for a second at most.
Acquire(t) ==
    /\ pc[t] = "acquire"
    /\ last' = now
    /\ IF Refilled >= need
       THEN /\ tokens' = Refilled - need
            /\ charged' = charged + need
            /\ need' = 0
            /\ owner' = NoWorker
            /\ Goto(t, "work")
            /\ UNCHANGED wake
       ELSE /\ tokens' = Refilled
            /\ wake' = now + Lesser(TicksFor(need - Refilled), Second)
            /\ Goto(t, "sleep")
            /\ UNCHANGED <<charged, need, owner>>
    /\ UNCHANGED <<now, pending, call, arg, calls, accounted, window>>

\* The sleep is over: the next round, or the end of a cpu_tick.
Wake(t) ==
    /\ pc[t] = "sleep"
    /\ now >= wake
    /\ wake' = 0
    /\ IF call[t] = "cpu"
       THEN Goto(t, "work") /\ owner' = NoWorker
       ELSE Goto(t, "acquire") /\ UNCHANGED owner
    /\ UNCHANGED <<now, bucket, pending, need, call, arg, calls, accounted, charged, window>>

-----------------------------------------------------------------------------
Sleeping == \E t \in Workers : pc[t] = "sleep"

Tick ==
    /\ now < MaxTime \/ (Sleeping /\ now < wake)
    /\ now' = now + 1
    /\ UNCHANGED <<bucket, pending, owner, need, wake, worker, accounted, charged, window>>

\* An observer begins to measure what the run accounts and is charged.
Observe ==
    /\ now \in Watch
    /\ window' = [at |-> now, accounted |-> accounted, charged |-> charged]
    /\ UNCHANGED <<now, bucket, pending, owner, need, wake, worker, accounted, charged>>

WorkerStep(t) ==
    \/ AccountIo(t) \/ AskFlush(t) \/ AskCpuTick(t) \/ Done(t)
    \/ AcquireIo(t) \/ FlushIo(t) \/ CpuTick(t) \/ Acquire(t) \/ Wake(t)

Next == \/ \E t \in Workers : WorkerStep(t) \/ Fail(t)
        \/ Tick
        \/ Observe

Spec == Init /\ [][Next]_vars

\* Threads run and time passes.  A thread's calls are finite in number, so a
\* waiting worker gets the mutex though it need not be a fair one.
FairSpec == Spec /\ WF_vars(Tick) /\ \A t \in Workers : WF_vars(WorkerStep(t))

-----------------------------------------------------------------------------
(* Properties.                                                             *)

\* The largest request is no larger than the bucket.
Ample == \A n \in Sizes : Batch - 1 + n <= Burst

TypeOK ==
    /\ now \in Nat
    /\ tokens \in 0..Burst
    /\ last \in 0..now
    /\ pending \in 0..(Batch - 1)
    /\ owner \in Workers \union {NoWorker}
    /\ need \in Nat
    /\ wake \in Nat
    /\ pc \in [Workers -> PCs]
    /\ call \in [Workers -> Calls]
    /\ arg \in [Workers -> Sizes \union {0}]
    /\ calls \in [Workers -> 0..(MaxCalls + 1)]
    /\ accounted \in Nat
    /\ charged \in Nat
    /\ window \in [at : 0..now, accounted : 0..accounted, charged : 0..charged]

\* Whenever one starts to watch, the bucket hands out no more than a burst
\* and the rate's worth of the time passed (refill and acquire).
RateHeld == charged - window.charged <= Burst + Rate * (now - window.at)

\* The cap on what the passes account: bytes are accounted after the fact and
\* charged in batches, so a run may be ahead of the bucket by less than a
\* batch and one call per worker (acquire_io).  The disk may see a read
\* buffer and a write buffer more of each worker.
MaxSize == CHOOSE n \in Sizes : \A m \in Sizes : m <= n

AccountedCapped ==
    accounted - window.accounted <=
       Burst + Rate * (now - window.at) + Batch - 1 + Cardinality(Workers) * MaxSize

\* When all workers have ended without an error, every byte accounted has
\* been charged: whoever flushes last also charges what the others have left
\* pending.
AllCharged == (\A t \in Workers : pc[t] = "done") => charged = accounted

\* A worker waits for tokens only while the bucket is not full: it blocks
\* only when the budget is exhausted.
BlocksOnlyWhenExhausted ==
    \A t \in Workers : pc[t] = "sleep" /\ call[t] # "cpu" => tokens < Burst

\* Every call returns: no worker sleeps or waits for ever.
EveryCallReturns ==
    \A t \in Workers : pc[t] \in {"want", "acquire", "sleep"} ~> pc[t] = "work"
=============================================================================
