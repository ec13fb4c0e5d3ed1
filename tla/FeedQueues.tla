----------------------------- MODULE FeedQueues -----------------------------
(***************************************************************************)
(* Fan-out into the readers' queues: what several workers, the readers     *)
(* emptying their queues, subscriptions and erasures do to the keys of     *)
(* FeedScripts when their Redis calls interleave.                          *)
(*                                                                         *)
(* The one route modelled is a channel's plain audience, which only        *)
(* subscribing, unsubscribing and erasure change.  A worker may be handed  *)
(* an operation for any post a member wrote, at any time: which operations *)
(* exist is the business of OpStream.  A test post is made by a review     *)
(* request and placed by it, for its own reader.                           *)
(*                                                                         *)
(* One action is one Redis round trip, except that the two SCARDs of       *)
(* has_eligible_recipient are taken together.  FEED_EXCLUDE_OWN_POSTS is   *)
(* on.  Left out: the expiry of a tombstone, the trust gates that decide   *)
(* whether a review mints a test post (here any review may), and the       *)
(* placements of rebuild_from_pg.                                          *)
(***************************************************************************)
EXTENDS FeedScripts

CONSTANTS
    Workers,     \* feed worker processes
    Reviews,     \* review requests the API can be in the middle of
    Probes,      \* the test posts mint_probe may create
    NoUser,      \* a review that is not about to place a test post
    NoPost,      \* a worker between operations
    AuthorOf,    \* the author_id an operation of each post carries
    Fanout,      \* recipients one operation is worth
    SampleSize   \* fanout * FEED_FANOUT_SAMPLE_MULTIPLIER

ASSUME FanoutAssumption == Fanout \in Nat \ {0}
ASSUME SampleAssumption == SampleSize \in Nat /\ SampleSize >= Fanout
ASSUME PlacersAssumption ==
    IsFiniteSet(Workers) /\ IsFiniteSet(Reviews) /\ Workers \cap Reviews = {}
ASSUME ProbesAssumption ==
    Probes \subseteq Posts /\ \A p \in Probes : AuthorOf[p] \notin Users
ASSUME NoUserAssumption == NoUser \notin Users
ASSUME NoPostAssumption == NoPost \notin Posts

VARIABLES
    audience,    \* the route's audience set: users subscribed to it
    tombstones,  \* deleted:{post}
    joining,     \* users whose sync_subscribe is between SADD and ensure_free
    pc,          \* per worker: the call it makes next, or one of Ready
    post,        \* per worker: the post being fanned out
    todo,        \* per worker: candidates, then recipients still to be placed
    landed,      \* per worker: some placement of this operation was not refused
    minting,     \* per review: the reader mint_probe has found room for
    unminted,    \* test posts that do not exist yet
    had          \* history: users a post was pushed to since its seen set began

workerVars == <<pc, post, todo, landed>>
probeVars == <<minting, unminted>>
vars == <<queue, freeQueue, seen, audience, tombstones, joining,
          workerVars, probeVars, had>>

\* The worker is ready for an operation: its last one was given up for want of
\* readers, or ended in any other way (delivered, parked, deleted, forgotten).
Ready == {"idle", "exhausted"}
WorkerCalls == {"select", "free", "seen", "place", "gate", "diff"}

TypeOK ==
    /\ FeedKeysType
    /\ audience \subseteq Users
    /\ tombstones \subseteq Posts
    /\ joining \subseteq Users
    /\ pc \in [Workers -> Ready \cup WorkerCalls]
    /\ post \in [Workers -> Posts \cup {NoPost}]
    /\ todo \in [Workers -> SUBSET Users]
    /\ landed \in [Workers -> BOOLEAN]
    /\ minting \in [Reviews -> Users \cup {NoUser}]
    /\ unminted \subseteq Probes
    /\ had \in [Posts -> SUBSET Users]

Init ==
    /\ FeedKeysInit
    /\ audience = {}
    /\ tombstones = {}
    /\ joining = {}
    /\ pc = [w \in Workers |-> "idle"]
    /\ post = [w \in Workers |-> NoPost]
    /\ todo = [w \in Workers |-> {}]
    /\ landed = [w \in Workers |-> FALSE]
    /\ minting = [r \in Reviews |-> NoUser]
    /\ unminted = Probes
    /\ had = [p \in Posts |-> {}]

---------------------------------------------------------------------------
(* process_operation *)

\* The worker goes on to call c, with rest still to be placed.
Goto(w, c) == pc' = [pc EXCEPT ![w] = c]

\* The operation is over and nothing of it stays in memory.
EndOperation(w, ready) ==
    /\ Goto(w, ready)
    /\ post' = [post EXCEPT ![w] = NoPost]
    /\ todo' = [todo EXCEPT ![w] = {}]
    /\ landed' = [landed EXCEPT ![w] = FALSE]

\* An operation is read from the stream and the tombstone looked up: that is its
\* first round trip on the feed's keys.
TakeOp(w, p) ==
    /\ pc[w] \in Ready
    /\ IF p \in tombstones
       THEN EndOperation(w, "idle")
       ELSE /\ Goto(w, "select")
            /\ post' = [post EXCEPT ![w] = p]
            /\ UNCHANGED <<todo, landed>>
    /\ UNCHANGED <<queue, freeQueue, seen, audience, tombstones, joining, probeVars, had>>

\* min(n, |S|) of the elements of S, whichever the random draw put first.
Draws(S, n) ==
    {R \in SUBSET S : Cardinality(R) = IF Cardinality(S) < n THEN Cardinality(S) ELSE n}

\* The author, who may be in the audience but is never in a seen set.
Own(p) == {AuthorOf[p]}

\* select_recipients narrows the candidates in three round trips, each on what
\* the one before it left.  With nobody left the worker goes on to the gate.
Narrow(w, rest, c) ==
    /\ todo' = [todo EXCEPT ![w] = rest]
    /\ Goto(w, IF rest = {} THEN "gate" ELSE c)
    /\ UNCHANGED <<queue, freeQueue, seen, audience, tombstones, joining,
                   post, landed, probeVars, had>>

\* Mutant: the author is left among the candidates.
SampleWithAuthor(w) ==
    /\ pc[w] = "select"
    /\ \E sample \in Draws(audience, SampleSize) : Narrow(w, sample, "free")

\* SRANDMEMBER of the audience, without the author.
Sample(w) ==
    /\ pc[w] = "select"
    /\ \E sample \in Draws(audience, SampleSize) :
         Narrow(w, sample \ Own(post[w]), "free")

\* SMISMEMBER of free_queue.
FilterFree(w) ==
    /\ pc[w] = "free"
    /\ Narrow(w, todo[w] \cap freeQueue, "seen")

\* SMISMEMBER of the seen set, and the cut to the fan-out.
FilterSeen(w) ==
    LET unseen == IF ExcludeSeen THEN todo[w] \ seen[post[w]] ELSE todo[w] IN
    /\ pc[w] = "seen"
    /\ \E chosen \in Draws(unseen, Fanout) : Narrow(w, chosen, "place")

\* place_post, remembering a push.
PlacePost(u, p) ==
    /\ Place(u, p)
    /\ had' = IF Pushes(u, p) THEN [had EXCEPT ![p] = @ \cup {u}] ELSE had

\* place_post for one recipient.  After the last one the operation is either
\* delivered, or every placement was refused and it is handled like an empty
\* selection.
PlaceOne(w, u) ==
    /\ pc[w] = "place"
    /\ u \in todo[w]
    /\ PlacePost(u, post[w])
    /\ LET ok == landed[w] \/ ~Refuses(u, post[w]) IN
         \/ /\ todo[w] # {u}
            /\ todo' = [todo EXCEPT ![w] = @ \ {u}]
            /\ landed' = [landed EXCEPT ![w] = ok]
            /\ UNCHANGED <<pc, post>>
         \/ /\ todo[w] = {u} /\ ok
            /\ EndOperation(w, "idle")
         \/ /\ todo[w] = {u} /\ ~ok
            /\ Goto(w, "gate")
            /\ todo' = [todo EXCEPT ![w] = {}]
            /\ UNCHANGED <<post, landed>>
    /\ UNCHANGED <<audience, tombstones, joining, probeVars>>

---------------------------------------------------------------------------
(* has_eligible_recipient, and what process_operation does with the answer *)

\* The cheap gate: no audience at all, or too many members for the seen set
\* and the author to cover.
GateOpen(p) ==
    \/ audience = {}
    \/ Cardinality(IF ExcludeSeen THEN seen[p] ELSE {}) + 1 < Cardinality(audience)

Gate(w) ==
    /\ pc[w] = "gate"
    /\ IF GateOpen(post[w])
       THEN EndOperation(w, "idle")
       ELSE Goto(w, "diff") /\ UNCHANGED <<post, todo, landed>>
    /\ UNCHANGED <<queue, freeQueue, seen, audience, tombstones, joining, probeVars, had>>

\* SDIFF of the audience and the seen set, without the author.
Remaining(p) == (IF ExcludeSeen THEN audience \ seen[p] ELSE audience) \ Own(p)

Diff(w) ==
    /\ pc[w] = "diff"
    /\ EndOperation(w, IF Remaining(post[w]) = {} THEN "exhausted" ELSE "idle")
    /\ UNCHANGED <<queue, freeQueue, seen, audience, tombstones, joining, probeVars, had>>

\* The worker dies, or its loop logs an exception and starts over: either way
\* the operation in hand is forgotten (its stream entry stays pending).
Abort(w) ==
    /\ pc[w] \in WorkerCalls
    /\ EndOperation(w, "idle")
    /\ UNCHANGED <<queue, freeQueue, seen, audience, tombstones, joining, probeVars, had>>

---------------------------------------------------------------------------
(* Requests *)

\* claim_from_queue, from review_post or dismiss_missing_post.
ClaimFromQueue(u, p) ==
    /\ Claim(u, p)
    /\ UNCHANGED <<audience, tombstones, joining, workerVars, probeVars, had>>

\* sync_subscribe: first the SADDs, in a later round trip ensure_free.
SubscribeAdd(u) ==
    /\ audience' = audience \cup {u}
    /\ joining' = joining \cup {u}
    /\ UNCHANGED <<queue, freeQueue, seen, tombstones, workerVars, probeVars, had>>

SubscribeEnsureFree(u) ==
    /\ u \in joining
    /\ EnsureFree(u)
    /\ joining' = joining \ {u}
    /\ UNCHANGED <<audience, tombstones, workerVars, probeVars, had>>

UnsubscribeRemove(u) ==
    /\ audience' = audience \ {u}
    /\ UNCHANGED <<queue, freeQueue, seen, tombstones, joining,
                   workerVars, probeVars, had>>

\* mark_posts_deleted: one transaction per erasure.
MarkDeleted(p) ==
    /\ tombstones' = tombstones \cup {p}
    /\ seen' = [seen EXCEPT ![p] = {}]
    /\ had' = [had EXCEPT ![p] = {}]
    /\ UNCHANGED <<queue, freeQueue, audience, joining, workerVars, probeVars>>

\* The seen set's TTL runs out, FEED_SEEN_TTL_SECONDS after its last delivery.
SeenExpires(p) ==
    /\ seen[p] # {}
    /\ seen' = [seen EXCEPT ![p] = {}]
    /\ had' = [had EXCEPT ![p] = {}]
    /\ UNCHANGED <<queue, freeQueue, audience, tombstones, joining,
                   workerVars, probeVars>>

\* purge_user's transaction, for an account subscribed to this channel.
PurgeFeed(u) ==
    /\ queue' = [queue EXCEPT ![u] = {}]
    /\ freeQueue' = freeQueue \ {u}
    /\ audience' = audience \ {u}
    /\ UNCHANGED <<seen, tombstones, joining, workerVars, probeVars, had>>

WorkerStep(w) ==
    \/ \E p \in Posts \ Probes : TakeOp(w, p)
    \/ Sample(w)
    \/ FilterFree(w)
    \/ FilterSeen(w)
    \/ \E u \in Users : PlaceOne(w, u)
    \/ Gate(w)
    \/ Diff(w)
    \/ Abort(w)

\* Mutant: the post row is committed first, and the length is not looked at.
ProbeRoomUnchecked(r, u) ==
    /\ minting[r] = NoUser
    /\ minting' = [minting EXCEPT ![r] = u]
    /\ UNCHANGED <<queue, freeQueue, seen, audience, tombstones, joining,
                   workerVars, unminted, had>>

\* mint_probe finds room in the reader's queue; what it goes on with is Postgres.
ProbeRoom(r, u) ==
    /\ minting[r] = NoUser
    /\ ~Full(queue[u])
    /\ minting' = [minting EXCEPT ![r] = u]
    /\ UNCHANGED <<queue, freeQueue, seen, audience, tombstones, joining,
                   workerVars, unminted, had>>

\* The new post is committed, and placed.
PlaceProbe(r, p) ==
    /\ minting[r] \in Users
    /\ p \in unminted
    /\ PlacePost(minting[r], p)
    /\ minting' = [minting EXCEPT ![r] = NoUser]
    /\ unminted' = unminted \ {p}
    /\ UNCHANGED <<audience, tombstones, joining, workerVars>>

\* The request fails in between; the review it belongs to is not affected.
ProbeFails(r) ==
    /\ minting[r] \in Users
    /\ minting' = [minting EXCEPT ![r] = NoUser]
    /\ UNCHANGED <<queue, freeQueue, seen, audience, tombstones, joining,
                   workerVars, unminted, had>>

UserRequest(u) ==
    \/ \E p \in Posts : ClaimFromQueue(u, p)
    \/ SubscribeAdd(u)
    \/ SubscribeEnsureFree(u)
    \/ UnsubscribeRemove(u)
    \/ PurgeFeed(u)

ReviewStep(r) ==
    \/ \E u \in Users : ProbeRoom(r, u)
    \/ \E p \in Probes : PlaceProbe(r, p)
    \/ ProbeFails(r)

\* A test post has no author who could have it erased.
PostEnds(p) == (p \notin Probes /\ MarkDeleted(p)) \/ SeenExpires(p)

Next ==
    \/ \E w \in Workers : WorkerStep(w)
    \/ \E u \in Users : UserRequest(u)
    \/ \E r \in Reviews : ReviewStep(r)
    \/ \E p \in Posts : PostEnds(p)

Spec == Init /\ [][Next]_vars

---------------------------------------------------------------------------
(* Properties *)

\* free_queue never names a reader without room, so a full reader is never
\* selected: `place`, `claim`, `ensure_free` and the purge keep the set exact
\* whatever order their callers' steps come in.
FreeHasRoom == \A u \in freeQueue : ~Full(queue[u])

\* The converse, for the readers fan-out can sample: a subscriber with room is
\* selectable, unless their sync_subscribe still has its ensure_free to make.
\* A subscriber this fails for would stop receiving posts for good.
RoomIsFree == \A u \in audience : u \in freeQueue \/ u \in joining \/ Full(queue[u])

\* The workers and reviews that have found room in u's queue, and may still
\* place a post there.
Placers == Workers \cup Reviews
HeldBy(u) ==
    {w \in Workers : pc[w] \in {"seen", "place"} /\ u \in todo[w]}
        \cup {r \in Reviews : minting[r] = u}

\* A queue can be pushed past FEED_QUEUE_MAX_SLOTS, because `place` does not
\* refuse a full one, but only by the workers and reviews that had already
\* looked at it when the last slot went.
OvershootBounded ==
    \A u \in Users :
        Cardinality(queue[u]) + Cardinality(HeldBy(u)) <= MaxSlots - 1 + Cardinality(Placers)

\* What posts.py says of the queue: it never holds more than its slots.
QueueCapped == \A u \in Users : Cardinality(queue[u]) <= MaxSlots

\* What service.py says of the tombstones: no queue gains a post that has one.
NoGhostsStep == \A u \in Users, p \in tombstones : p \in queue'[u] => p \in queue[u]
NoGhosts == [][NoGhostsStep]_vars

\* Fan-out never hands an author their own post, although `place` itself does
\* not look: no path may reach it with the author.
NeverOwnPost == \A p \in Posts : \A u \in Users : u = AuthorOf[p] => p \notin queue[u]

\* Reclaimed operations, parked copies and several workers may all deliver one
\* post, and still a reader is handed it at most once in the life of its seen
\* set: a push only ever goes to somebody who has not had the post.
DeliveredOnceStep ==
    ExcludeSeen =>
        \A u \in Users, p \in Posts :
            p \in queue'[u] \ queue[u] => u \notin had[p]
DeliveredOnce == [][DeliveredOnceStep]_vars

\* What service.py says of exhaustion: an audience exists, and every one of them
\* is already excluded.  Without an audience an operation stays eligible.
AudienceExhaustedStep ==
    \A w \in Workers : pc[w] # "exhausted" /\ pc'[w] = "exhausted" => audience # {}
AudienceExhausted == [][AudienceExhaustedStep]_vars
=============================================================================
