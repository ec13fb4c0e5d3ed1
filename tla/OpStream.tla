------------------------------ MODULE OpStream ------------------------------
(***************************************************************************)
(* The operation pipeline: the Redis stream feed:ops with its consumer     *)
(* group, the sorted set ops:retry, the outstanding counter of one route,  *)
(* and the loop every feed worker runs on them.  Where a post is placed is *)
(* the business of FeedQueues; here a fan-out has one of its outcomes.     *)
(*                                                                         *)
(* One action is one Redis command or script.  Time advances by Tick, one  *)
(* FEED_RETRY_INTERVAL_SECONDS at a time; a deadline is kept as the number *)
(* of ticks left until it, so that it needs no clock.  The group delivers  *)
(* entries in any order, which contains the order of the stream.           *)
(***************************************************************************)
EXTENDS Naturals, FiniteSets

CONSTANTS
    Ops,          \* operations that may be minted (ghost identity)
    Workers,      \* feed worker processes
    Ids,          \* identities of stream entries and of ops:retry members
    NoId,
    MaxAge,       \* FEED_RETRY_MAX_AGE_SECONDS, in ticks
    Unset,        \* the expires_at of an operation that was never parked
    ReclaimCount, \* FEED_STREAM_RECLAIM_COUNT
    MaxFaults     \* bound: crashes, failed iterations, and times two live
                  \* workers get to hold one entry or member

ASSUME MaxAgeAssumption == MaxAge \in Nat \ {0}
ASSUME UnsetAssumption == Unset \notin Nat
ASSUME NoIdAssumption == NoId \notin Ids
ASSUME ReclaimAssumption == ReclaimCount \in Nat \ {0}

VARIABLES
    minted,      \* operations enqueue_operation has written to the stream
    uncounted,   \* of those, the ones whose HINCRBY is still to come
    outstanding, \* feed:ops:outstanding of the route
    stream,      \* feed:ops: the entries, each with its fields
    unread,      \* ids of the entries the group has not delivered yet
    pel,         \* ids pending in the group: delivered and not acknowledged
    idle,        \* pending longer than FEED_STREAM_CLAIM_MIN_IDLE_MS
    retry,       \* ops:retry: the members, each with its payload
    due,         \* ids of the members whose score has passed
    pc,          \* per worker: the command it sends next
    hand,        \* per worker: id of the entry or member being handled
    claims,      \* per worker: entries read or reclaimed, not confirmed yet
    sweep,       \* per worker: due members still to handle: late and timely
    phase,       \* per worker: the loop step its claims came from
    outcome,     \* history: terminal outcomes of each operation
    faults       \* how many of the bounded faults have happened

workerVars == <<pc, hand, claims, sweep, phase>>
redisVars == <<outstanding, stream, unread, pel, idle, retry, due>>
vars == <<minted, uncounted, outstanding, stream, unread, pel, idle, retry,
          due, pc, hand, claims, sweep, phase, outcome, faults>>

\* A stream entry or an ops:retry member: id, operation, ticks to its deadline.
Copy == [id : Ids, op : Ops, left : 0..MaxAge \cup {Unset}]

Calls == {"reclaim", "due", "sweep", "zrem", "expired", "read",
          "work", "retire", "xdel", "xack"}

TypeOK ==
    /\ minted \subseteq Ops
    /\ uncounted \subseteq minted
    /\ outstanding \in Nat
    /\ stream \subseteq Copy
    /\ unread \subseteq Ids /\ pel \subseteq Ids /\ idle \subseteq pel
    /\ retry \subseteq Copy
    /\ due \subseteq Ids
    /\ pc \in [Workers -> Calls]
    /\ hand \in [Workers -> Ids \cup {NoId}]
    /\ claims \in [Workers -> SUBSET Copy]
    /\ sweep \in [Workers -> [late : SUBSET Copy, timely : SUBSET Copy]]
    /\ phase \in [Workers -> {"reclaim", "read"}]
    /\ outcome \in [Ops -> SUBSET {"delivered", "abandoned"}]
    /\ faults \in Nat

NoSweep == [late |-> {}, timely |-> {}]

Init ==
    /\ minted = {} /\ uncounted = {} /\ outstanding = 0
    /\ stream = {} /\ unread = {} /\ pel = {} /\ idle = {}
    /\ retry = {} /\ due = {}
    /\ pc = [w \in Workers |-> "reclaim"]
    /\ hand = [w \in Workers |-> NoId]
    /\ claims = [w \in Workers |-> {}]
    /\ sweep = [w \in Workers |-> NoSweep]
    /\ phase = [w \in Workers |-> "reclaim"]
    /\ outcome = [o \in Ops |-> {}]
    /\ faults = 0

---------------------------------------------------------------------------
(* Helpers *)

IdsOf(S) == {x.id : x \in S}
OpsOf(S) == {x.op : x \in S}

Swept(w) == sweep[w].late \cup sweep[w].timely

\* A new entry id or member uuid: no entry, pending record, member or copy in
\* a worker's memory has it.
UsedIds ==
    IdsOf(stream) \cup pel \cup IdsOf(retry)
        \cup UNION {IdsOf(claims[w]) \cup IdsOf(Swept(w)) : w \in Workers}
FreshIds == Ids \ UsedIds
NewId == CHOOSE i \in Ids : i \in FreshIds

Goto(w, c) == pc' = [pc EXCEPT ![w] = c]

\* XADD: append an entry for operation o with expires_at field left.
AddToStream(o, left) ==
    /\ FreshIds # {}
    /\ stream' = stream \cup {[id |-> NewId, op |-> o, left |-> left]}
    /\ unread' = unread \cup {NewId}

\* Mutant: the guard of the Lua script is dropped.
RetireUnguarded == outstanding' = outstanding - 1

\* retire_operation: decrement the route's count, not below zero.
RetireOperation == outstanding' = IF outstanding = 0 THEN 0 ELSE outstanding - 1

---------------------------------------------------------------------------
(* The API: enqueue_operation, XADD and then HINCRBY *)

Mint(o) ==
    /\ o \notin minted
    /\ AddToStream(o, Unset)
    /\ minted' = minted \cup {o}
    /\ uncounted' = uncounted \cup {o}
    /\ UNCHANGED <<outstanding, pel, idle, retry, due, pc, hand, claims, sweep,
                   phase, outcome, faults>>

CountMint(o) ==
    /\ o \in uncounted
    /\ uncounted' = uncounted \ {o}
    /\ outstanding' = outstanding + 1
    /\ UNCHANGED <<minted, stream, unread, pel, idle, retry, due, pc, hand,
                   claims, sweep, phase, outcome, faults>>

---------------------------------------------------------------------------
(* reclaim_orphaned_operations and consume_once *)

\* XAUTOCLAIM takes on the entries T: the ones still in the stream are handed over.
TakeOver(w, T) ==
    LET C == {x \in stream : x.id \in T} IN
    /\ Cardinality(T) <= ReclaimCount
    /\ claims' = [claims EXCEPT ![w] = C]
    /\ idle' = idle \ T
    /\ Goto(w, IF C = {} THEN "due" ELSE "work")
    /\ UNCHANGED <<minted, uncounted, outstanding, stream, unread, retry, due,
                   hand, sweep, phase, outcome, faults>>

\* Mutant: entries deleted before their ack are left pending.
ReclaimLiveOnly(w) ==
    /\ pc[w] = "reclaim"
    /\ \E T \in SUBSET (idle \cap IdsOf(stream)) :
        /\ T = {} => idle \cap IdsOf(stream) = {}
        /\ TakeOver(w, T)
    /\ UNCHANGED pel

\* Some of the idle entries, and perhaps of the deleted ones that are not idle yet;
\* the deleted ones are dropped from the pending list.
Reclaim(w) ==
    /\ pc[w] = "reclaim"
    /\ \E T \in SUBSET (idle \cup (pel \ IdsOf(stream))) :
        /\ T = {} => idle = {}
        /\ TakeOver(w, T)
        /\ pel' = pel \ (T \ IdsOf(stream))

\* XREADGROUP > with count 1; with nothing unread it times out.
ConsumeOnce(w) ==
    /\ pc[w] = "read"
    /\ \/ \E x \in stream :
            /\ x.id \in unread
            /\ claims' = [claims EXCEPT ![w] = {x}]
            /\ unread' = unread \ {x.id}
            /\ pel' = pel \cup {x.id}
            /\ phase' = [phase EXCEPT ![w] = "read"]
            /\ Goto(w, "work")
       \/ /\ unread = {}
          /\ Goto(w, "reclaim")
          /\ UNCHANGED <<claims, unread, pel, phase>>
    /\ UNCHANGED <<minted, uncounted, outstanding, stream, idle, retry, due,
                   hand, sweep, outcome, faults>>

---------------------------------------------------------------------------
(* process_operation and _fan_out_and_retire *)

\* Delivered to somebody, or abandoned (the post is deleted, the route has run
\* out of readers): the operation's count is retired next.
FanOutEnds(w, x, result) ==
    /\ pc[w] = "work"
    /\ x \in claims[w]
    /\ hand' = [hand EXCEPT ![w] = x.id]
    /\ outcome' = [outcome EXCEPT ![x.op] = @ \cup {result}]
    /\ Goto(w, "retire")
    /\ UNCHANGED <<minted, uncounted, outstanding, stream, unread, pel, idle,
                   retry, due, claims, sweep, phase, faults>>

\* Mutant: every park starts a new deadline.
DeadlineReset(left) == MaxAge

\* schedule_retry: the deadline is set by the first park and carried afterwards.
Deadline(left) == IF left = Unset THEN MaxAge ELSE left

\* Nobody was eligible right now: park the operation in ops:retry.
ScheduleRetry(w, x) ==
    /\ pc[w] = "work"
    /\ x \in claims[w]
    /\ FreshIds # {}
    /\ hand' = [hand EXCEPT ![w] = x.id]
    /\ retry' = retry \cup {[id |-> NewId, op |-> x.op, left |-> Deadline(x.left)]}
    /\ Goto(w, "xdel")
    /\ UNCHANGED <<minted, uncounted, outstanding, stream, unread, pel, idle,
                   due, claims, sweep, phase, outcome, faults>>

Retire(w) ==
    /\ pc[w] = "retire"
    /\ RetireOperation
    /\ Goto(w, "xdel")
    /\ UNCHANGED <<minted, uncounted, stream, unread, pel, idle, retry, due,
                   hand, claims, sweep, phase, outcome, faults>>

\* Mutant: XACK is sent where XDEL should be.
XAckFirst(w) ==
    /\ pc[w] = "xdel"
    /\ pel' = pel \ {hand[w]}
    /\ idle' = idle \ {hand[w]}
    /\ Goto(w, "xack")
    /\ UNCHANGED <<minted, uncounted, outstanding, stream, unread, retry, due,
                   hand, claims, sweep, phase, outcome, faults>>

\* XDEL, and then XACK: the order in which an entry is confirmed.
XDel(w) ==
    /\ pc[w] = "xdel"
    /\ stream' = {x \in stream : x.id # hand[w]}
    /\ Goto(w, "xack")
    /\ UNCHANGED <<minted, uncounted, outstanding, unread, pel, idle, retry,
                   due, hand, claims, sweep, phase, outcome, faults>>

\* After the last claim the loop goes on from where the claims came from.
AfterClaims(w, left) ==
    IF left # {} THEN "work" ELSE IF phase[w] = "reclaim" THEN "due" ELSE "reclaim"

XAck(w) ==
    LET left == {x \in claims[w] : x.id # hand[w]} IN
    /\ pc[w] = "xack"
    /\ pel' = pel \ {hand[w]}
    /\ idle' = idle \ {hand[w]}
    /\ claims' = [claims EXCEPT ![w] = left]
    /\ hand' = [hand EXCEPT ![w] = NoId]
    /\ phase' = IF left = {} THEN [phase EXCEPT ![w] = "reclaim"] ELSE phase
    /\ Goto(w, AfterClaims(w, left))
    /\ UNCHANGED <<minted, uncounted, outstanding, stream, unread, retry, due,
                   sweep, outcome, faults>>

---------------------------------------------------------------------------
(* reschedule_due_retries *)

\* Members another worker has read and not finished with: reading them as well
\* is an overlap.
SweptByOthers(w) == UNION {IdsOf(Swept(v)) : v \in Workers \ {w}}

\* ZRANGEBYSCORE up to now; whether a deadline has passed is judged by the same
\* now for the whole sweep.
ReadDue(w) ==
    LET found == {m \in retry : m.id \in due}
        late == {m \in found : m.left = 0}
        shared == IdsOf(found) \cap SweptByOthers(w) # {}
    IN
    /\ pc[w] = "due"
    /\ shared => faults < MaxFaults
    /\ faults' = IF shared THEN faults + 1 ELSE faults
    /\ sweep' = [sweep EXCEPT ![w] = [late |-> late, timely |-> found \ late]]
    /\ Goto(w, IF found = {} THEN "read" ELSE "sweep")
    /\ UNCHANGED <<minted, uncounted, outstanding, stream, unread, pel, idle,
                   retry, due, hand, claims, phase, outcome>>

\* Past its deadline: ZREM, then retire_operation.
Expire(w, m) ==
    /\ pc[w] = "sweep"
    /\ m \in sweep[w].late
    /\ retry' = {x \in retry : x.id # m.id}
    /\ due' = due \ {m.id}
    /\ outcome' = [outcome EXCEPT ![m.op] = @ \cup {"abandoned"}]
    /\ hand' = [hand EXCEPT ![w] = m.id]
    /\ Goto(w, "expired")
    /\ UNCHANGED <<minted, uncounted, outstanding, stream, unread, pel, idle,
                   claims, sweep, phase, faults>>

\* Mutant: ZREM first.  The member is gone and the entry is not there yet.
ReAddAfterRemoval(w, m) ==
    /\ pc[w] = "sweep"
    /\ m \in sweep[w].timely
    /\ hand' = [hand EXCEPT ![w] = m.id]
    /\ retry' = {x \in retry : x.id # m.id}
    /\ due' = due \ {m.id}
    /\ Goto(w, "zrem")
    /\ UNCHANGED <<minted, uncounted, outstanding, stream, unread, pel, idle,
                   claims, sweep, phase, outcome, faults>>

\* Not yet past it: XADD to the stream first ...
ReAdd(w, m) ==
    /\ pc[w] = "sweep"
    /\ m \in sweep[w].timely
    /\ hand' = [hand EXCEPT ![w] = m.id]
    /\ AddToStream(m.op, m.left)
    /\ Goto(w, "zrem")
    /\ UNCHANGED <<minted, uncounted, outstanding, pel, idle, retry, due,
                   claims, sweep, phase, outcome, faults>>

\* The member in hand is done with; the sweep or the loop goes on.
SweepOn(w) ==
    LET late == {m \in sweep[w].late : m.id # hand[w]}
        timely == {m \in sweep[w].timely : m.id # hand[w]}
    IN
    /\ sweep' = [sweep EXCEPT ![w] = [late |-> late, timely |-> timely]]
    /\ hand' = [hand EXCEPT ![w] = NoId]
    /\ Goto(w, IF late \cup timely = {} THEN "read" ELSE "sweep")

\* ... ZREM afterwards.
ZRem(w) ==
    /\ pc[w] = "zrem"
    /\ retry' = {x \in retry : x.id # hand[w]}
    /\ due' = due \ {hand[w]}
    /\ SweepOn(w)
    /\ UNCHANGED <<minted, uncounted, outstanding, stream, unread, pel, idle,
                   claims, phase, outcome, faults>>

RetireExpired(w) ==
    /\ pc[w] = "expired"
    /\ RetireOperation
    /\ SweepOn(w)
    /\ UNCHANGED <<minted, uncounted, stream, unread, pel, idle, retry, due,
                   claims, phase, outcome, faults>>

---------------------------------------------------------------------------
(* Crashes, slowness and time *)

\* The process dies and a new one joins, or run_consumer logs an exception and
\* starts its loop again: what was in memory is lost, Redis keeps the rest.
Abort(w) ==
    /\ pc[w] \notin {"reclaim", "due", "read"}
    /\ faults < MaxFaults
    /\ faults' = faults + 1
    /\ Goto(w, "reclaim")
    /\ hand' = [hand EXCEPT ![w] = NoId]
    /\ claims' = [claims EXCEPT ![w] = {}]
    /\ sweep' = [sweep EXCEPT ![w] = NoSweep]
    /\ phase' = [phase EXCEPT ![w] = "reclaim"]
    /\ UNCHANGED <<minted, uncounted, outstanding, stream, unread, pel, idle,
                   retry, due, outcome>>

Orphaned(i) == \A w \in Workers : i \notin IdsOf(claims[w])

\* An entry nobody is working on has been pending for the minimum idle time.
GoIdle(i) ==
    /\ i \in pel \ idle
    /\ Orphaned(i)
    /\ idle' = idle \cup {i}
    /\ UNCHANGED <<minted, uncounted, outstanding, stream, unread, pel, retry,
                   due, workerVars, outcome, faults>>

\* A worker takes longer than the minimum idle time over an entry it holds.
GoIdleWhileWorked(i) ==
    /\ i \in pel \ idle
    /\ ~Orphaned(i)
    /\ faults < MaxFaults
    /\ faults' = faults + 1
    /\ idle' = idle \cup {i}
    /\ UNCHANGED <<minted, uncounted, outstanding, stream, unread, pel, retry,
                   due, workerVars, outcome>>

\* The copies of S one tick later.
Older(S) ==
    {[x EXCEPT !.left = IF @ = Unset THEN Unset ELSE IF @ = 0 THEN 0 ELSE @ - 1] : x \in S}

Tick ==
    /\ stream' = Older(stream)
    /\ retry' = Older(retry)
    /\ due' = IdsOf(retry)
    /\ claims' = [w \in Workers |-> Older(claims[w])]
    /\ sweep' = [w \in Workers |->
                    [late |-> Older(sweep[w].late), timely |-> Older(sweep[w].timely)]]
    /\ UNCHANGED <<minted, uncounted, outstanding, unread, pel, idle, pc, hand,
                   phase, outcome, faults>>

---------------------------------------------------------------------------

\* What worker w's loop does next, failures aside.
WorkerStep(w) ==
    \/ Reclaim(w)
    \/ ReadDue(w)
    \/ \E m \in sweep[w].late : Expire(w, m)
    \/ \E m \in sweep[w].timely : ReAdd(w, m)
    \/ ZRem(w)
    \/ RetireExpired(w)
    \/ ConsumeOnce(w)
    \/ \E x \in claims[w] : ScheduleRetry(w, x)
    \/ \E x \in claims[w], result \in {"delivered", "abandoned"} : FanOutEnds(w, x, result)
    \/ Retire(w)
    \/ XDel(w)
    \/ XAck(w)

Next ==
    \/ \E o \in Ops : Mint(o) \/ CountMint(o)
    \/ \E w \in Workers : WorkerStep(w) \/ Abort(w)
    \/ \E i \in pel : GoIdle(i) \/ GoIdleWhileWorked(i)
    \/ Tick

\* Workers keep looping, abandoned entries keep ageing and time keeps passing.
\* Nothing makes a client call the API, and nothing makes a failure happen.
Fairness ==
    /\ \A w \in Workers : WF_vars(WorkerStep(w))
    /\ \A i \in Ids : WF_vars(GoIdle(i))
    /\ WF_vars(Tick)

Spec == Init /\ [][Next]_vars
FairSpec == Spec /\ Fairness

---------------------------------------------------------------------------
(* Properties *)

\* An operation that has been minted and has not reached an outcome is still in
\* Redis, whatever crashed and in whichever step: the order of XADD and ZREM,
\* of ZADD, XDEL and XACK never leaves it in a worker's memory only.
NoOpLost ==
    \A o \in minted : outcome[o] = {} => o \in OpsOf(stream) \cup OpsOf(retry)

\* Every entry of the stream can still be got at: the group has yet to deliver
\* it, or it is pending and can be reclaimed.
NoEntryStranded == IdsOf(stream) \subseteq unread \cup pel

\* What the outstanding counter is for: with no failure, no overlap and no
\* request in flight, a route with no operation left has none outstanding.
NoPhantomBacklog ==
    faults = 0 /\ uncounted = {} /\ stream = {} /\ retry = {}
        /\ (\A w \in Workers : pc[w] \in {"reclaim", "due", "read"})
    => outstanding = 0

\* An entry deleted before its acknowledgement was sent does not stay pending:
\* the next reclaim clears it, however often workers die in between.
PendingClears == \A i \in Ids : i \in pel \ IdsOf(stream) ~> i \notin pel

\* Some copy of operation o is in Redis or in the memory of a worker.
Held(o) ==
    \/ o \in OpsOf(stream) \cup OpsOf(retry)
    \/ \E w \in Workers : o \in OpsOf(claims[w]) \cup OpsOf(Swept(w))

DeliveryStatus ==
    [o \in Ops |-> CASE o \notin minted -> "unborn"
                    [] o \in minted /\ Held(o) -> "pending"
                    [] OTHER -> "settled"]

Delivery == INSTANCE OpDelivery WITH status <- DeliveryStatus

\* The pipeline implements OpDelivery: every operation is let go of eventually,
\* only after an outcome, and for good.
ImplementsDelivery == Delivery!Spec

\* The safety half of it, which OpStream_proofs proves for any number of operations,
\* workers and faults: no copy of an operation is dropped before it has an outcome,
\* and none turns up after the last one was dropped.
StepsImplementDelivery == Delivery!SafeSpec
=============================================================================
