------------------------- MODULE FeedQueues_proofs -------------------------
(***************************************************************************)
(* What holds of FeedQueues for every set of readers, posts and workers,   *)
(* every number of slots and every fan-out.                                *)
(*                                                                         *)
(* Every action is disposed of once, into the few ways in which it can     *)
(* touch the feed's keys (KeyStep) or the recipients a worker holds        *)
(* (WorkStep); the invariants are then proved from those cases.            *)
(***************************************************************************)
EXTENDS FeedQueues, FiniteSetTheorems, TLAPS

---------------------------------------------------------------------------
(* Types *)

\* A worker in the middle of an operation has a post in hand, which is what makes
\* TypeOK inductive: `place` pushes that post.
InHand == \A w \in Workers : pc[w] \in WorkerCalls => post[w] \in Posts

TypeInv == TypeOK /\ InHand

\* Placing a post of Posts with a reader of Users keeps the feed's keys in type.
LEMMA PlaceType ==
  ASSUME FeedKeysType, NEW u \in Users, NEW p \in Posts, Place(u, p)
  PROVE  FeedKeysType'
BY DEF FeedKeysType, Place, feedKeys

\* Every step keeps the types, and the post in the hand of a busy worker.
LEMMA TypeStep == TypeInv /\ [Next]_vars => TypeInv'
<1> SUFFICES ASSUME TypeInv, [Next]_vars PROVE TypeInv'
  OBVIOUS
<1> USE DEF TypeInv, TypeOK, InHand, Ready, WorkerCalls, workerVars, probeVars
<1>1. ASSUME NEW w \in Workers, NEW p \in Posts, TakeOp(w, p) PROVE TypeInv'
  BY <1>1, ZenonT(60) DEF TakeOp, EndOperation, Goto, FeedKeysType
<1>2. ASSUME NEW w \in Workers, Sample(w) PROVE TypeInv'
  BY <1>2 DEF Sample, Narrow, Goto, Draws, FeedKeysType
<1>3. ASSUME NEW w \in Workers, FilterFree(w) PROVE TypeInv'
  BY <1>3 DEF FilterFree, Narrow, Goto, FeedKeysType
<1>4. ASSUME NEW w \in Workers, FilterSeen(w) PROVE TypeInv'
  BY <1>4 DEF FilterSeen, Narrow, Goto, Draws, FeedKeysType
<1>5. ASSUME NEW w \in Workers, NEW u \in Users, PlaceOne(w, u) PROVE TypeInv'
  <2>1. FeedKeysType'
    BY <1>5, PlaceType DEF PlaceOne, PlacePost
  <2>2. had' \in [Posts -> SUBSET Users]
    BY <1>5 DEF PlaceOne, PlacePost
  <2>3. /\ pc' \in [Workers -> Ready \cup WorkerCalls]
        /\ post' \in [Workers -> Posts \cup {NoPost}]
        /\ todo' \in [Workers -> SUBSET Users]
        /\ landed' \in [Workers -> BOOLEAN]
    BY <1>5, ZenonT(60) DEF PlaceOne, EndOperation, Goto, Refuses
  <2>4. InHand'
    BY <1>5 DEF PlaceOne, EndOperation, Goto
  <2>5. QED
    BY <1>5, <2>1, <2>2, <2>3, <2>4 DEF PlaceOne
<1>6. ASSUME NEW w \in Workers, Gate(w) PROVE TypeInv'
  BY <1>6, ZenonT(60) DEF Gate, EndOperation, Goto, FeedKeysType
<1>7. ASSUME NEW w \in Workers, Diff(w) PROVE TypeInv'
  BY <1>7 DEF Diff, EndOperation, Goto, FeedKeysType
<1>8. ASSUME NEW w \in Workers, Abort(w) PROVE TypeInv'
  BY <1>8 DEF Abort, EndOperation, Goto, FeedKeysType
<1>9. ASSUME NEW u \in Users, UserRequest(u) PROVE TypeInv'
  <2> USE DEF FeedKeysType
  <2>1. ASSUME NEW p \in Posts, ClaimFromQueue(u, p) PROVE TypeInv'
    BY <2>1 DEF ClaimFromQueue, Claim
  <2>2. CASE SubscribeAdd(u)
    BY <2>2 DEF SubscribeAdd
  <2>3. CASE SubscribeEnsureFree(u)
    BY <2>3 DEF SubscribeEnsureFree, EnsureFree
  <2>4. CASE UnsubscribeRemove(u)
    BY <2>4 DEF UnsubscribeRemove
  <2>5. CASE PurgeFeed(u)
    BY <2>5 DEF PurgeFeed
  <2>6. QED
    BY <1>9, <2>1, <2>2, <2>3, <2>4, <2>5 DEF UserRequest
<1>10. ASSUME NEW p \in Posts, PostEnds(p) PROVE TypeInv'
  BY <1>10 DEF PostEnds, MarkDeleted, SeenExpires, FeedKeysType
<1>11. ASSUME NEW r \in Reviews, ReviewStep(r) PROVE TypeInv'
  <2>1. ASSUME NEW u \in Users, ProbeRoom(r, u) PROVE TypeInv'
    BY <2>1 DEF ProbeRoom, FeedKeysType
  <2>2. ASSUME NEW p \in Probes, PlaceProbe(r, p) PROVE TypeInv'
    <3>1. p \in Posts /\ minting[r] \in Users
      BY <2>2, ProbesAssumption DEF PlaceProbe
    <3>2. FeedKeysType'
      BY <2>2, <3>1, PlaceType DEF PlaceProbe, PlacePost
    <3>3. had' \in [Posts -> SUBSET Users]
      BY <2>2, <3>1 DEF PlaceProbe, PlacePost
    <3>4. QED
      BY <2>2, <3>2, <3>3 DEF PlaceProbe
  <2>3. CASE ProbeFails(r)
    BY <2>3 DEF ProbeFails, FeedKeysType
  <2>4. QED
    BY <1>11, <2>1, <2>2, <2>3 DEF ReviewStep
<1>12. CASE UNCHANGED vars
  BY <1>12 DEF vars, FeedKeysType
<1>13. QED
  BY <1>1, <1>2, <1>3, <1>4, <1>5, <1>6, <1>7, <1>8, <1>9, <1>10, <1>11, <1>12
  DEF Next, WorkerStep

THEOREM TypeInvariant == Spec => []TypeInv
<1>1. Init => TypeInv
  BY DEF Init, TypeInv, TypeOK, InHand, FeedKeysInit, FeedKeysType, Ready, WorkerCalls
<1>2. QED
  BY <1>1, TypeStep, PTL DEF Spec

\* Every variable of FeedQueues keeps its type.
THEOREM TypeCorrect == Spec => []TypeOK
BY TypeInvariant, PTL DEF TypeInv

---------------------------------------------------------------------------
(* free_queue and the queues it stands for *)

\* The steps that touch the keys free_queue has to agree with.
KeyStep ==
    \/ \E u \in Users, p \in Posts : Place(u, p) /\ UNCHANGED <<audience, joining>>
    \/ \E u \in Users, p \in Posts : ClaimFromQueue(u, p)
    \/ \E u \in Users : \/ SubscribeAdd(u)
                        \/ SubscribeEnsureFree(u)
                        \/ UnsubscribeRemove(u)
                        \/ PurgeFeed(u)
    \/ UNCHANGED <<queue, freeQueue, audience, joining>>

LEMMA OnlyKeySteps == TypeInv /\ [Next]_vars => KeyStep
<1> SUFFICES ASSUME TypeInv, [Next]_vars PROVE KeyStep
  OBVIOUS
<1>1. ASSUME NEW w \in Workers, NEW u \in Users, PlaceOne(w, u) PROVE KeyStep
  BY <1>1 DEF PlaceOne, PlacePost, TypeInv, InHand, WorkerCalls, KeyStep
<1>2. ASSUME NEW r \in Reviews, NEW p \in Probes, PlaceProbe(r, p) PROVE KeyStep
  BY <1>2, ProbesAssumption DEF PlaceProbe, PlacePost, KeyStep
<1>3. QED
  BY <1>1, <1>2 DEF KeyStep, vars, Next, WorkerStep, UserRequest, ReviewStep,
    PostEnds, TakeOp, Sample, FilterFree, FilterSeen, Narrow, Gate, Diff, Abort,
    MarkDeleted, SeenExpires, ProbeRoom, ProbeFails

\* The cardinality that Full compares is a number only for a finite set.
QueuesFinite == \A u \in Users : IsFiniteSet(queue[u])

\* A set with as much in it as a full queue is full.
LEMMA FullGrows ==
  ASSUME NEW S, NEW T, IsFiniteSet(T), S \subseteq T, Full(S)
  PROVE  Full(T)
BY FS_Subset, FS_CardinalityType, MaxSlotsAssumption DEF Full

QueueInv == QueuesFinite /\ FreeHasRoom /\ RoomIsFree

\* `place`, `claim`, `ensure_free` and the purge each keep free_queue exact.
LEMMA QueueStep == TypeInv /\ QueueInv /\ [Next]_vars => QueueInv'
<1> SUFFICES ASSUME TypeInv, QueueInv, KeyStep PROVE QueueInv'
  BY OnlyKeySteps
<1> USE DEF QueueInv, QueuesFinite, FreeHasRoom, RoomIsFree
<1>0. queue \in [Users -> SUBSET Posts] /\ audience \subseteq Users
  BY DEF TypeInv, TypeOK, FeedKeysType
<1>1. ASSUME NEW u \in Users, NEW p \in Posts,
             Place(u, p), UNCHANGED <<audience, joining>>
      PROVE  QueueInv'
  <2>2. CASE Pushes(u, p)
    <3>1. /\ queue' = [queue EXCEPT ![u] = @ \cup {p}]
          /\ freeQueue' = IF Full(queue[u] \cup {p}) THEN freeQueue \ {u} ELSE freeQueue
      BY <1>1, <2>2 DEF Place, LeavesFreeQueue
    <3>2. QueuesFinite'
      BY <1>0, <3>1, FS_AddElement
    <3>3. FreeHasRoom'
      BY <1>0, <3>1
    <3>4. RoomIsFree'
      BY <1>0, <1>1, <3>1, <3>2, FullGrows
    <3>5. QED
      BY <3>2, <3>3, <3>4
  <2>3. CASE ~Pushes(u, p)
    BY <1>1, <2>3 DEF Place, feedKeys
  <2>4. QED
    BY <2>2, <2>3
<1>2. ASSUME NEW u \in Users, NEW p \in Posts, ClaimFromQueue(u, p) PROVE QueueInv'
  <2>1. /\ queue' = [queue EXCEPT ![u] = @ \ {p}]
        /\ freeQueue' = IF Full(queue[u] \ {p}) THEN freeQueue ELSE freeQueue \cup {u}
        /\ UNCHANGED <<audience, joining>>
    BY <1>2 DEF ClaimFromQueue, Claim
  <2>2. QueuesFinite'
    BY <1>0, <2>1, FS_RemoveElement
  <2>3. Full(queue[u] \ {p}) => Full(queue[u])
    BY FullGrows
  <2>4. FreeHasRoom' /\ RoomIsFree'
    BY <1>0, <2>1, <2>3
  <2>5. QED
    BY <2>2, <2>4
<1>3. ASSUME NEW u \in Users, SubscribeAdd(u) PROVE QueueInv'
  BY <1>0, <1>3 DEF SubscribeAdd
<1>4. ASSUME NEW u \in Users, SubscribeEnsureFree(u) PROVE QueueInv'
  BY <1>0, <1>4 DEF SubscribeEnsureFree, EnsureFree
<1>5. ASSUME NEW u \in Users, UnsubscribeRemove(u) PROVE QueueInv'
  BY <1>0, <1>5 DEF UnsubscribeRemove
<1>6. ASSUME NEW u \in Users, PurgeFeed(u) PROVE QueueInv'
  <2>1. QueuesFinite'
    BY <1>0, <1>6, FS_EmptySet DEF PurgeFeed
  <2>2. FreeHasRoom' /\ RoomIsFree'
    BY <1>0, <1>6 DEF PurgeFeed
  <2>3. QED
    BY <2>1, <2>2
<1>7. CASE UNCHANGED <<queue, freeQueue, audience, joining>>
  BY <1>7
<1>8. QED
  BY <1>1, <1>2, <1>3, <1>4, <1>5, <1>6, <1>7 DEF KeyStep

THEOREM QueueInvariant == Spec => []QueueInv
<1>1. Init => QueueInv
  BY FS_EmptySet DEF Init, FeedKeysInit, QueueInv, QueuesFinite, FreeHasRoom, RoomIsFree
<1>2. QED
  BY <1>1, QueueStep, TypeInvariant, PTL DEF Spec

\* Fan-out never selects a reader whose queue has no room: free_queue names only
\* readers with room, whatever order the steps of their callers come in.
THEOREM FreeQueueSound == Spec => []FreeHasRoom
BY QueueInvariant, PTL DEF QueueInv

\* No subscriber with room is forgotten by fan-out, except between the two round
\* trips of their own sync_subscribe.
THEOREM FreeQueueComplete == Spec => []RoomIsFree
BY QueueInvariant, PTL DEF QueueInv

---------------------------------------------------------------------------
(* An author's own post *)

\* The steps that touch a queue or what a worker is about to place in it.
WorkStep ==
    \/ \E w \in Workers, p \in Posts : TakeOp(w, p)
    \/ \E w \in Workers : \/ Sample(w)
                          \/ FilterFree(w)
                          \/ FilterSeen(w)
                          \/ Gate(w)
                          \/ Diff(w)
                          \/ Abort(w)
    \/ \E w \in Workers, u \in Users : PlaceOne(w, u)
    \/ \E u \in Users, p \in Posts : ClaimFromQueue(u, p)
    \/ \E u \in Users : PurgeFeed(u)
    \/ \E r \in Reviews : \/ \E u \in Users : ProbeRoom(r, u)
                          \/ \E p \in Probes : PlaceProbe(r, p)
                          \/ ProbeFails(r)
    \/ UNCHANGED <<queue, workerVars, minting>>

LEMMA OnlyWorkSteps == [Next]_vars => WorkStep
BY DEF WorkStep, vars, probeVars, Next, WorkerStep, UserRequest, ReviewStep, PostEnds,
  SubscribeAdd, SubscribeEnsureFree, EnsureFree, UnsubscribeRemove, MarkDeleted, SeenExpires

\* Nobody `place` is called for is the author: it does not look itself.  A worker
\* that has no operation has nobody to place anything with.
AuthorFiltered ==
    \A w \in Workers :
        /\ pc[w] \in WorkerCalls => AuthorOf[post[w]] \notin todo[w]
        /\ pc[w] \in Ready \cup {"select"} => todo[w] = {}

AuthorInv == NeverOwnPost /\ AuthorFiltered

LEMMA AuthorStep == TypeInv /\ AuthorInv /\ [Next]_vars => AuthorInv'
<1> SUFFICES ASSUME TypeInv, AuthorInv, WorkStep PROVE AuthorInv'
  BY OnlyWorkSteps
<1> USE DEF AuthorInv, NeverOwnPost, AuthorFiltered, Ready, WorkerCalls, workerVars
<1>0. /\ queue \in [Users -> SUBSET Posts]
      /\ pc \in [Workers -> Ready \cup WorkerCalls]
      /\ post \in [Workers -> Posts \cup {NoPost}]
      /\ todo \in [Workers -> SUBSET Users]
      /\ InHand
  BY DEF TypeInv, TypeOK, FeedKeysType
<1>1. ASSUME NEW w \in Workers, NEW p \in Posts, TakeOp(w, p) PROVE AuthorInv'
  BY <1>0, <1>1 DEF TakeOp, EndOperation, Goto
<1>2. ASSUME NEW w \in Workers, Sample(w) PROVE AuthorInv'
  BY <1>0, <1>2 DEF Sample, Narrow, Goto, Own, InHand
<1>3. ASSUME NEW w \in Workers, FilterFree(w) PROVE AuthorInv'
  BY <1>0, <1>3 DEF FilterFree, Narrow, Goto
<1>4. ASSUME NEW w \in Workers, FilterSeen(w) PROVE AuthorInv'
  BY <1>0, <1>4 DEF FilterSeen, Narrow, Goto, Draws
<1>5. ASSUME NEW w \in Workers, Gate(w) \/ Diff(w) \/ Abort(w) PROVE AuthorInv'
  BY <1>0, <1>5 DEF Gate, Diff, Abort, EndOperation, Goto
<1>6. ASSUME NEW w \in Workers, NEW u \in Users, PlaceOne(w, u) PROVE AuthorInv'
  <2>1. post[w] \in Posts /\ u # AuthorOf[post[w]]
    BY <1>0, <1>6 DEF PlaceOne, InHand
  <2>2. NeverOwnPost'
    BY <1>0, <1>6, <2>1 DEF PlaceOne, PlacePost, Place, feedKeys
  <2>3. AuthorFiltered'
    BY <1>0, <1>6 DEF PlaceOne, EndOperation, Goto
  <2>4. QED
    BY <2>2, <2>3
<1>7. ASSUME NEW u \in Users, NEW p \in Posts, ClaimFromQueue(u, p) PROVE AuthorInv'
  BY <1>0, <1>7 DEF ClaimFromQueue, Claim
<1>8. ASSUME NEW u \in Users, PurgeFeed(u) PROVE AuthorInv'
  BY <1>0, <1>8 DEF PurgeFeed
<1>9. ASSUME NEW r \in Reviews, NEW p \in Probes, PlaceProbe(r, p) PROVE AuthorInv'
  <2>1. p \in Posts /\ AuthorOf[p] \notin Users
    BY ProbesAssumption
  <2>2. QED
    BY <1>0, <1>9, <2>1 DEF PlaceProbe, PlacePost, Place, feedKeys
<1>10. ASSUME NEW r \in Reviews, ProbeFails(r) \/ \E u \in Users : ProbeRoom(r, u)
       PROVE  AuthorInv'
  BY <1>0, <1>10 DEF ProbeFails, ProbeRoom
<1>11. CASE UNCHANGED <<queue, workerVars, minting>>
  BY <1>11
<1>12. QED
  BY <1>1, <1>2, <1>3, <1>4, <1>5, <1>6, <1>7, <1>8, <1>9, <1>10, <1>11 DEF WorkStep

\* No author is handed their own post, although `place` never checks for it: what
\* reaches it has been through the author filter of the same operation.
THEOREM AuthorsSkipped == Spec => []NeverOwnPost
<1>1. Init => AuthorInv
  BY DEF Init, FeedKeysInit, AuthorInv, NeverOwnPost, AuthorFiltered, WorkerCalls
<1>2. QED
  BY <1>1, AuthorStep, TypeInvariant, PTL DEF Spec, AuthorInv

---------------------------------------------------------------------------
(* One delivery per reader, and exhaustion *)

\* The seen set is exactly the deliveries of its lifetime: `place` records in the
\* same step it pushes, and the two are forgotten together.
HadIsSeen == ExcludeSeen => had = seen

LEMMA HadStep == TypeInv /\ HadIsSeen /\ [Next]_vars => HadIsSeen'
<1> SUFFICES ASSUME TypeInv, HadIsSeen, [Next]_vars, ExcludeSeen PROVE had' = seen'
  BY DEF HadIsSeen
<1>0. had = seen
  BY DEF HadIsSeen
<1>1. ASSUME NEW w \in Workers, NEW u \in Users, PlaceOne(w, u) PROVE had' = seen'
  <2>1. post[w] \in Posts
    BY <1>1 DEF PlaceOne, TypeInv, InHand, WorkerCalls
  <2>2. QED
    BY <1>0, <1>1, <2>1 DEF PlaceOne, PlacePost, Place, feedKeys
<1>2. ASSUME NEW p \in Posts, PostEnds(p) PROVE had' = seen'
  BY <1>0, <1>2 DEF PostEnds, MarkDeleted, SeenExpires
<1>3. ASSUME NEW r \in Reviews, NEW p \in Probes, PlaceProbe(r, p) PROVE had' = seen'
  BY <1>0, <1>3 DEF PlaceProbe, PlacePost, Place, feedKeys
<1>4. ASSUME UNCHANGED <<had, seen>> PROVE had' = seen'
  BY <1>0, <1>4
<1>5. QED
  BY <1>1, <1>2, <1>3, <1>4 DEF vars, Next, WorkerStep, UserRequest, ReviewStep, TakeOp,
    Sample, FilterFree, FilterSeen, Narrow, Gate, Diff, Abort, ClaimFromQueue, Claim,
    SubscribeAdd, SubscribeEnsureFree, EnsureFree, UnsubscribeRemove, PurgeFeed,
    ProbeRoom, ProbeFails

THEOREM SeenInvariant == Spec => []HadIsSeen
<1>1. Init => HadIsSeen
  BY DEF Init, FeedKeysInit, HadIsSeen
<1>2. QED
  BY <1>1, HadStep, TypeInvariant, PTL DEF Spec

\* However many workers hold copies of its operations, a post is pushed to a reader
\* at most once in the life of its seen set.
THEOREM OneDelivery == Spec => DeliveredOnce
<1>1. TypeInv /\ HadIsSeen /\ [Next]_vars => [DeliveredOnceStep]_vars
  <2> SUFFICES ASSUME TypeInv, HadIsSeen, KeyStep, ExcludeSeen,
                      NEW u \in Users, NEW p \in Posts, p \in queue'[u] \ queue[u]
               PROVE  u \notin had[p]
    BY OnlyKeySteps DEF DeliveredOnceStep
  <2>0. queue \in [Users -> SUBSET Posts]
    BY DEF TypeInv, TypeOK, FeedKeysType
  <2>1. ~ \E v \in Users, q \in Posts : ClaimFromQueue(v, q)
    BY <2>0 DEF ClaimFromQueue, Claim
  <2>2. ~ \E v \in Users : PurgeFeed(v)
    BY <2>0 DEF PurgeFeed
  <2>3. PICK v \in Users, q \in Posts : Place(v, q)
    BY <2>1, <2>2 DEF KeyStep, SubscribeAdd, SubscribeEnsureFree, EnsureFree,
      UnsubscribeRemove
  <2>4. v = u /\ q = p /\ Pushes(u, p)
    BY <2>0, <2>3 DEF Place, feedKeys
  <2>5. QED
    BY <2>4 DEF Pushes, Refuses, HadIsSeen
<1>2. QED
  BY <1>1, TypeInvariant, SeenInvariant, PTL DEF Spec, DeliveredOnce

\* The cheap gate is sound: when it is open on an audience that exists, the SDIFF
\* it saves would have found somebody.
LEMMA GateSound ==
  ASSUME NEW p \in Posts, IsFiniteSet(audience), IsFiniteSet(seen[p]),
         audience # {}, GateOpen(p)
  PROVE  Remaining(p) # {}
<1> DEFINE read == IF ExcludeSeen THEN seen[p] ELSE {}
<1>1. IsFiniteSet(read) /\ Cardinality(read) + 1 < Cardinality(audience)
  BY FS_EmptySet DEF GateOpen
<1>2. /\ IsFiniteSet(read \cup Own(p))
      /\ Cardinality(read \cup Own(p)) <= Cardinality(read) + 1
  <2> DEFINE a == AuthorOf[p]
  <2>1. read \cup Own(p) = read \cup {a}
    BY DEF Own
  <2>2. /\ IsFiniteSet(read \cup {a})
        /\ Cardinality(read \cup {a}) =
             IF a \in read THEN Cardinality(read) ELSE Cardinality(read) + 1
        /\ Cardinality(read) \in Nat
    <3> HIDE DEF read, a
    <3>1. QED
      BY <1>1, FS_AddElement, FS_CardinalityType
  <2> HIDE DEF read, a
  <2>3. QED
    BY <2>1, <2>2
<1>3. ~(audience \subseteq read \cup Own(p))
  <2> SUFFICES ASSUME audience \subseteq read \cup Own(p) PROVE FALSE
    OBVIOUS
  <2>1. Cardinality(audience) <= Cardinality(read \cup Own(p))
    BY <1>2, FS_Subset
  <2>2. QED
    BY <1>1, <1>2, <2>1, FS_CardinalityType
<1>4. QED
  BY <1>3 DEF Remaining

---------------------------------------------------------------------------
(* How far a queue can be pushed past its slots *)

\* What a worker may place in u's queue and what is in it already do not grow.
Shrinks(u) == queue'[u] \subseteq queue[u] /\ HeldBy(u)' \subseteq HeldBy(u)

LEMMA HeldByFinite ==
  ASSUME NEW u
  PROVE  /\ IsFiniteSet(HeldBy(u)) /\ Cardinality(HeldBy(u)) \in Nat
         /\ Cardinality(HeldBy(u)) <= Cardinality(Placers)
         /\ Cardinality(Placers) \in Nat
<1>1. HeldBy(u) \in SUBSET Placers
  BY DEF HeldBy, Placers
<1>2. IsFiniteSet(Placers)
  BY PlacersAssumption, FS_Union DEF Placers
<1>3. QED
  BY <1>1, <1>2, FS_Subset, FS_CardinalityType

LEMMA HeldByFiniteNext ==
  ASSUME NEW u
  PROVE  /\ IsFiniteSet(HeldBy(u)') /\ Cardinality(HeldBy(u)') \in Nat
         /\ Cardinality(HeldBy(u)') <= Cardinality(Placers)
<1>1. HeldBy(u)' \in SUBSET Placers
  BY DEF HeldBy, Placers
<1>2. IsFiniteSet(Placers)
  BY PlacersAssumption, FS_Union DEF Placers
<1>3. QED
  BY <1>1, <1>2, FS_Subset, FS_CardinalityType

\* The bound on one reader's queue.
Bounded(u) ==
    Cardinality(queue[u]) + Cardinality(HeldBy(u)) <= MaxSlots - 1 + Cardinality(Placers)

LEMMA ShrinkingStaysBounded ==
  ASSUME NEW u \in Users, IsFiniteSet(queue[u]), Bounded(u), Shrinks(u)
  PROVE  Bounded(u)'
<1>1. Cardinality(queue'[u]) <= Cardinality(queue[u]) /\ Cardinality(queue'[u]) \in Nat
  BY FS_Subset, FS_CardinalityType DEF Shrinks
<1>2. Cardinality(HeldBy(u)') <= Cardinality(HeldBy(u))
  BY HeldByFinite, FS_Subset DEF Shrinks
<1>3. Cardinality(queue[u]) \in Nat
  BY FS_CardinalityType
<1>4. QED
  BY <1>1, <1>2, <1>3, HeldByFinite, HeldByFiniteNext, MaxSlotsAssumption DEF Bounded

\* A claim on the queue that starts while there is room keeps within the bound.
LEMMA RoomBounds ==
  ASSUME NEW u \in Users, IsFiniteSet(queue[u]), ~Full(queue[u]), queue' = queue
  PROVE  Bounded(u)'
<1>1. Cardinality(queue[u]) \in Nat /\ Cardinality(queue[u]) <= MaxSlots - 1
  BY FS_CardinalityType, MaxSlotsAssumption DEF Full
<1>2. QED
  BY <1>1, HeldByFinite, HeldByFiniteNext, MaxSlotsAssumption DEF Bounded

\* A push uses up the claim on the queue of whoever makes it.
LEMMA PushBounds ==
  ASSUME NEW u \in Users, NEW p, NEW x,
         IsFiniteSet(queue[u]), Bounded(u), queue'[u] \subseteq queue[u] \cup {p},
         x \in HeldBy(u), HeldBy(u)' \subseteq HeldBy(u) \ {x}
  PROVE  Bounded(u)'
<1> DEFINE held == HeldBy(u)
           q == queue[u]
<1>1. Cardinality(held') <= Cardinality(held) - 1
  <2>1. IsFiniteSet(held) /\ x \in held /\ held' \in SUBSET (held \ {x})
    BY HeldByFinite
  <2> HIDE DEF held
  <2>2. IsFiniteSet(held \ {x}) /\ Cardinality(held \ {x}) = Cardinality(held) - 1
    BY <2>1, FS_RemoveElement
  <2>3. Cardinality(held') <= Cardinality(held \ {x})
    BY <2>1, <2>2, FS_Subset
  <2>4. QED
    BY <2>2, <2>3
<1>2. /\ IsFiniteSet(q \cup {p}) /\ Cardinality(q) \in Nat
      /\ Cardinality(q \cup {p}) <= Cardinality(q) + 1
  <2>1. IsFiniteSet(q)
    OBVIOUS
  <2> HIDE DEF q
  <2>2. /\ IsFiniteSet(q \cup {p}) /\ Cardinality(q) \in Nat
        /\ Cardinality(q \cup {p}) = IF p \in q THEN Cardinality(q) ELSE Cardinality(q) + 1
    BY <2>1, FS_AddElement, FS_CardinalityType
  <2>3. QED
    BY <2>2
<1>3. Cardinality(queue'[u]) <= Cardinality(queue[u]) + 1 /\ Cardinality(queue'[u]) \in Nat
  BY <1>2, FS_Subset, FS_CardinalityType
<1>4. QED
  BY <1>1, <1>2, <1>3, HeldByFinite, HeldByFiniteNext, MaxSlotsAssumption DEF Bounded

\* A worker or a review claims the queue while it has room, and gives up its claim
\* with the push it makes.
LEMMA OvershootStep ==
  TypeInv /\ QueueInv /\ OvershootBounded /\ [Next]_vars => OvershootBounded'
<1> SUFFICES ASSUME TypeInv, QueueInv, OvershootBounded, WorkStep, NEW u \in Users
             PROVE  Bounded(u)'
  BY OnlyWorkSteps DEF OvershootBounded, Bounded
<1>0. /\ queue \in [Users -> SUBSET Posts]
      /\ pc \in [Workers -> Ready \cup WorkerCalls]
      /\ todo \in [Workers -> SUBSET Users]
      /\ minting \in [Reviews -> Users \cup {NoUser}]
      /\ Workers \cap Reviews = {} /\ NoUser \notin Users
  BY PlacersAssumption, NoUserAssumption DEF TypeInv, TypeOK, FeedKeysType
<1>1. IsFiniteSet(queue[u]) /\ Bounded(u)
  BY DEF QueueInv, QueuesFinite, OvershootBounded, Bounded
<1>2. Shrinks(u) => Bounded(u)'
  BY <1>1, ShrinkingStaysBounded
<1> USE DEF probeVars, workerVars
<1>3. ASSUME NEW w \in Workers, NEW p \in Posts, TakeOp(w, p) PROVE Shrinks(u)
  BY <1>0, <1>3 DEF TakeOp, EndOperation, Goto, Shrinks, HeldBy
<1>4. ASSUME NEW w \in Workers, Sample(w) \/ FilterSeen(w) PROVE Shrinks(u)
  BY <1>0, <1>4 DEF Sample, FilterSeen, Narrow, Goto, Draws, Shrinks, HeldBy
<1>5. ASSUME NEW w \in Workers, Gate(w) \/ Diff(w) \/ Abort(w) PROVE Shrinks(u)
  BY <1>0, <1>5 DEF Gate, Diff, Abort, EndOperation, Goto, Shrinks, HeldBy
<1>6. ASSUME NEW w \in Workers, FilterFree(w) PROVE Bounded(u)'
  <2>1. CASE u \in freeQueue
    BY <1>1, <1>6, <2>1, RoomBounds DEF FilterFree, Narrow, QueueInv, FreeHasRoom
  <2>2. CASE u \notin freeQueue
    <3>1. Shrinks(u)
      BY <1>0, <1>6, <2>2 DEF FilterFree, Narrow, Goto, Shrinks, HeldBy
    <3>2. QED
      BY <1>2, <3>1
  <2>3. QED
    BY <2>1, <2>2
<1>7. ASSUME NEW w \in Workers, NEW v \in Users, PlaceOne(w, v) PROVE Bounded(u)'
  <2>1. CASE u = v
    <3>1. w \in HeldBy(u) /\ HeldBy(u)' \subseteq HeldBy(u) \ {w}
      BY <1>0, <1>7, <2>1 DEF PlaceOne, EndOperation, Goto, HeldBy
    <3>2. queue'[u] \subseteq queue[u] \cup {post[w]}
      BY <1>0, <1>7, <2>1 DEF PlaceOne, PlacePost, Place, feedKeys
    <3>3. QED
      BY <1>1, <3>1, <3>2, PushBounds
  <2>2. CASE u # v
    <3>1. Shrinks(u)
      BY <1>0, <1>7, <2>2
      DEF PlaceOne, PlacePost, Place, feedKeys, EndOperation, Goto, Shrinks, HeldBy
    <3>2. QED
      BY <1>2, <3>1
  <2>3. QED
    BY <2>1, <2>2
<1>8. ASSUME NEW r \in Reviews, NEW v \in Users, ProbeRoom(r, v) PROVE Bounded(u)'
  <2>1. CASE u = v
    BY <1>1, <1>8, <2>1, RoomBounds DEF ProbeRoom
  <2>2. CASE u # v
    <3>1. Shrinks(u)
      BY <1>0, <1>8, <2>2 DEF ProbeRoom, Shrinks, HeldBy
    <3>2. QED
      BY <1>2, <3>1
  <2>3. QED
    BY <2>1, <2>2
<1>9. ASSUME NEW r \in Reviews, NEW p \in Probes, PlaceProbe(r, p) PROVE Bounded(u)'
  <2>1. CASE minting[r] = u
    <3>1. r \in HeldBy(u) /\ HeldBy(u)' \subseteq HeldBy(u) \ {r}
      BY <1>0, <1>9, <2>1 DEF PlaceProbe, HeldBy
    <3>2. queue'[u] \subseteq queue[u] \cup {p}
      BY <1>0, <1>9, <2>1 DEF PlaceProbe, PlacePost, Place, feedKeys
    <3>3. QED
      BY <1>1, <3>1, <3>2, PushBounds
  <2>2. CASE minting[r] # u
    <3>1. Shrinks(u)
      BY <1>0, <1>9, <2>2 DEF PlaceProbe, PlacePost, Place, feedKeys, Shrinks, HeldBy
    <3>2. QED
      BY <1>2, <3>1
  <2>3. QED
    BY <2>1, <2>2
<1>10. ASSUME NEW r \in Reviews, ProbeFails(r) PROVE Shrinks(u)
  BY <1>0, <1>10 DEF ProbeFails, Shrinks, HeldBy
<1>11. ASSUME NEW v \in Users, NEW p \in Posts, ClaimFromQueue(v, p) PROVE Shrinks(u)
  BY <1>0, <1>11 DEF ClaimFromQueue, Claim, Shrinks, HeldBy
<1>12. ASSUME NEW v \in Users, PurgeFeed(v) PROVE Shrinks(u)
  BY <1>0, <1>12 DEF PurgeFeed, Shrinks, HeldBy
<1>13. ASSUME UNCHANGED <<queue, workerVars, minting>> PROVE Shrinks(u)
  BY <1>13 DEF Shrinks, HeldBy
<1>14. QED
  BY <1>2, <1>3, <1>4, <1>5, <1>6, <1>7, <1>8, <1>9, <1>10, <1>11, <1>12, <1>13
  DEF WorkStep

\* A queue can overrun FEED_QUEUE_MAX_SLOTS, but by less than the number of workers
\* and reviews, and one that nobody is about to place in overruns no further.
THEOREM OvershootIsBounded == Spec => []OvershootBounded
<1>1. Init => OvershootBounded
  <2> SUFFICES ASSUME Init, NEW u \in Users PROVE Bounded(u)
    BY DEF OvershootBounded, Bounded
  <2>1. queue[u] = {} /\ HeldBy(u) = {}
    BY NoUserAssumption DEF Init, FeedKeysInit, HeldBy
  <2>2. QED
    BY <2>1, HeldByFinite, FS_EmptySet, MaxSlotsAssumption DEF Bounded
<1>2. QED
  BY <1>1, OvershootStep, TypeInvariant, QueueInvariant, PTL DEF Spec
=============================================================================
