------------------------------ MODULE Reviews ------------------------------
(***************************************************************************)
(* The economy of posts and reviews: publishing spends tokens, reviewing   *)
(* earns one, forwarding makes the post travel on.  Requests of one or     *)
(* several users interleave, and may fail, between any two calls they make *)
(* to Redis or Postgres; a Postgres transaction is one action, since it    *)
(* takes effect when it commits.                                           *)
(*                                                                         *)
(* How a post gets into a queue is the business of FeedQueues: here the    *)
(* fan-out may hand any published post to anybody but its author, again    *)
(* and again (the seen set that prevents this expires and can be lost),    *)
(* and a test post once to one reader.  Accounts and posts are not         *)
(* erased, and rate limits are left out.                                   *)
(***************************************************************************)
EXTENDS Naturals, FiniteSets

CONSTANTS
    Users,
    Superusers,     \* users whose posts are free
    Publishers,     \* users who publish
    Posts,          \* posts they may publish
    Audience,       \* for each post, the readers fan-out may deliver it to
    Probes,         \* test posts
    Requests,       \* review and publish requests the API can be in the middle of
    Prices,         \* what a post may cost at the time it is paid for
    StartingTokens, \* FEED_STARTING_TOKENS
    MaxFaults,      \* bound: requests that fail
    NoUser,
    NoPost

ASSUME UsersAssumption == Superusers \subseteq Users /\ Publishers \subseteq Users
ASSUME AudienceAssumption == Audience \in [Posts -> SUBSET Users]
ASSUME PricesAssumption == Prices \subseteq Nat
ASSUME StartingTokensAssumption == StartingTokens \in Nat
ASSUME NoUserAssumption == NoUser \notin Users
ASSUME PostsAssumption == Posts \cap Probes = {} /\ NoPost \notin Posts \cup Probes
ASSUME RequestsAssumption == IsFiniteSet(Requests)

VARIABLES
    queue,     \* Redis: queue:{user}
    tokens,    \* Redis: tokens:{user}
    ops,       \* operations enqueued for a post so far
    author,    \* Postgres: posts.author_id, NoUser while there is no such row
    reader,    \* who a test post was made for, NoUser while there is no such row
    reviews,   \* Postgres: the rows of post_reviews
    total,     \* Postgres: users.reviewed_count, forwarded_count, dropped_count
    marks,     \* Postgres: posts.forwarded_count, dropped_count, gifted_count
    req,       \* the requests
    tested,    \* history: test posts whose answer has been taken
    spent,     \* history: tokens spent on posts
    forgone,   \* history: tokens owed by a request that failed
    faults     \* how many requests have failed

redisVars == <<queue, tokens, ops>>
postgresVars == <<author, reader, reviews, total, marks>>
history == <<tested, spent, forgone, faults>>
vars == <<redisVars, postgresVars, req, history>>

Kinds == {"forward", "drop"}
UserCounters == Kinds \cup {"reviewed"}
PostCounters == Kinds \cup {"gifted"}
Review == [user : Users, post : Posts, kind : Kinds, gifted : BOOLEAN]

Calls == {"claim", "answer", "commit", "earn", "forward", "publish", "announce"}
Request ==
    [pc : Calls \cup {"idle"}, user : Users \cup {NoUser},
     post : Posts \cup Probes \cup {NoPost}, kind : Kinds, gift : BOOLEAN,
     read : [UserCounters -> Nat]]

TypeOK ==
    /\ queue \in [Users -> SUBSET (Posts \cup Probes)]
    /\ tokens \in [Users -> Nat]
    /\ ops \in [Posts -> Nat]
    /\ author \in [Posts -> Users \cup {NoUser}]
    /\ reader \in [Probes -> Users \cup {NoUser}]
    /\ reviews \subseteq Review
    /\ total \in [Users -> [UserCounters -> Nat]]
    /\ marks \in [Posts -> [PostCounters -> Nat]]
    /\ req \in [Requests -> Request]
    /\ tested \subseteq Probes
    /\ spent \in [Users -> Nat]
    /\ forgone \in [Users -> Nat]
    /\ faults \in Nat

NoCounts == [c \in UserCounters |-> 0]
Idle == [pc |-> "idle", user |-> NoUser, post |-> NoPost, kind |-> "drop",
         gift |-> FALSE, read |-> NoCounts]

Init ==
    /\ queue = [u \in Users |-> {}]
    /\ tokens = [u \in Users |-> StartingTokens]
    /\ ops = [p \in Posts |-> 0]
    /\ author = [p \in Posts |-> NoUser]
    /\ reader = [p \in Probes |-> NoUser]
    /\ reviews = {}
    /\ total = [u \in Users |-> NoCounts]
    /\ marks = [p \in Posts |-> [c \in PostCounters |-> 0]]
    /\ req = [r \in Requests |-> Idle]
    /\ tested = {}
    /\ spent = [u \in Users |-> 0]
    /\ forgone = [u \in Users |-> 0]
    /\ faults = 0

---------------------------------------------------------------------------
(* Helpers *)

At(r, c) == req[r].pc = c
Goto(r, c) == req' = [req EXCEPT ![r].pc = c]
Finish(r) == req' = [req EXCEPT ![r] = Idle]

\* Whom the token of the review in request q goes to.
Payee(q) == IF q.gift THEN author[q.post] ELSE q.user

\* enqueue_operation: the operation of post p enters the pipeline of OpStream.
EnqueueOperation(p) == ops' = [ops EXCEPT ![p] = @ + 1]

---------------------------------------------------------------------------
(* create_post *)

\* Mutant: the balance is not compared with the price.
SpendUnchecked(u, price) == tokens' = [tokens EXCEPT ![u] = @ - price]

\* spend_tokens: one script, which compares and subtracts.
Spend(u, price) ==
    /\ tokens[u] >= price
    /\ tokens' = [tokens EXCEPT ![u] = @ - price]

\* Bound: no more posts are under way than there are ids left for them.
PostsLeft ==
    Cardinality({r \in Requests : At(r, "publish")}) < Cardinality({p \in Posts : author[p] = NoUser})

\* The price is looked up and paid, except by a superuser.
PayForPost(r, u, price) ==
    /\ At(r, "idle")
    /\ PostsLeft
    /\ IF u \in Superusers
       THEN UNCHANGED <<tokens, spent>>
       ELSE /\ Spend(u, price)
            /\ spent' = [spent EXCEPT ![u] = @ + price]
    /\ req' = [req EXCEPT ![r] = [Idle EXCEPT !.pc = "publish", !.user = u]]
    /\ UNCHANGED <<queue, ops, postgresVars, tested, forgone, faults>>

\* The media have been stored; the post is committed with its blocks.
PublishPost(r, p) ==
    /\ At(r, "publish")
    /\ author[p] = NoUser
    /\ author' = [author EXCEPT ![p] = req[r].user]
    /\ req' = [req EXCEPT ![r].pc = "announce", ![r].post = p]
    /\ UNCHANGED <<redisVars, reader, reviews, total, marks, history>>

Announce(r) ==
    /\ At(r, "announce")
    /\ EnqueueOperation(req[r].post)
    /\ Finish(r)
    /\ UNCHANGED <<queue, tokens, postgresVars, history>>

---------------------------------------------------------------------------
(* review_post *)

\* A gift is refused for a test post and for the reviewer's own post.
GiftAllowed(u, p) == p \in Posts /\ author[p] # u

Exists(p) == IF p \in Posts THEN author[p] # NoUser ELSE reader[p] # NoUser

\* The caller is authenticated, which reads their row, and the post's row is read.
BeginReview(r, u, p, kind, gift) ==
    /\ At(r, "idle")
    /\ Exists(p)
    /\ gift => kind = "forward" /\ GiftAllowed(u, p)
    /\ req' = [req EXCEPT ![r] = [pc |-> "claim", user |-> u, post |-> p, kind |-> kind,
                                  gift |-> gift, read |-> total[u]]]
    /\ UNCHANGED <<redisVars, postgresVars, history>>

\* claim_from_queue; a post that is not in the queue cannot be reviewed.
ClaimPost(r) ==
    LET u == req[r].user
        p == req[r].post IN
    /\ At(r, "claim")
    /\ queue' = [queue EXCEPT ![u] = @ \ {p}]
    /\ IF p \in queue[u]
       THEN Goto(r, IF p \in Probes THEN "answer" ELSE "commit")
       ELSE Finish(r)
    /\ UNCHANGED <<tokens, ops, postgresVars, history>>

\* probes.answer: the answer is recorded, or the test is found to be unscorable.
AnswerProbe(r) ==
    /\ At(r, "answer")
    /\ tested' = tested \cup {req[r].post}
    /\ Goto(r, "earn")
    /\ UNCHANGED <<redisVars, postgresVars, spent, forgone, faults>>

\* The unique constraint on (user_id, post_id).
AlreadyReviewed(u, p) == \E x \in reviews : x.user = u /\ x.post = p

RowOf(q) == [user |-> q.user, post |-> q.post, kind |-> q.kind, gifted |-> q.gift]

\* The reviewer's counters become what the request read, plus one; the others of
\* the row's columns are not written.
CountForUser(q) ==
    total' = [total EXCEPT ![q.user] =
        [c \in UserCounters |-> IF c \in {"reviewed", q.kind} THEN q.read[c] + 1 ELSE @[c]]]

\* The post's are incremented by the database.
CountForPost(q) ==
    marks' = [marks EXCEPT ![q.post] =
        [c \in PostCounters |-> IF c = q.kind \/ (c = "gifted" /\ q.gift) THEN @[c] + 1 ELSE @[c]]]

\* Mutant: a re-delivered post pays again.
CommitOrPay(r) ==
    LET q == req[r] IN
    /\ At(r, "commit")
    /\ IF AlreadyReviewed(q.user, q.post)
       THEN UNCHANGED <<reviews, total, marks>>
       ELSE /\ reviews' = reviews \cup {RowOf(q)}
            /\ CountForUser(q)
            /\ CountForPost(q)
    /\ Goto(r, "earn")
    /\ UNCHANGED <<redisVars, author, reader, history>>

\* Mutant: the counters are committed before the row that may be refused.
CommitCountsAnyway(r) ==
    LET q == req[r] IN
    /\ At(r, "commit")
    /\ CountForUser(q)
    /\ CountForPost(q)
    /\ IF AlreadyReviewed(q.user, q.post)
       THEN Finish(r) /\ UNCHANGED reviews
       ELSE /\ reviews' = reviews \cup {RowOf(q)}
            /\ Goto(r, "earn")
    /\ UNCHANGED <<redisVars, author, reader, history>>

\* The review's transaction, which the unique constraint may roll back.
CommitReview(r) ==
    LET q == req[r] IN
    /\ At(r, "commit")
    /\ IF AlreadyReviewed(q.user, q.post)
       THEN Finish(r) /\ UNCHANGED <<reviews, total, marks>>
       ELSE /\ reviews' = reviews \cup {RowOf(q)}
            /\ CountForUser(q)
            /\ CountForPost(q)
            /\ Goto(r, "earn")
    /\ UNCHANGED <<redisVars, author, reader, history>>

\* Mutant: a drop travels on like a forward.
EarnAndForward(r) ==
    LET q == req[r] IN
    /\ At(r, "earn")
    /\ tokens' = [tokens EXCEPT ![Payee(q)] = @ + 1]
    /\ IF q.post \in Posts THEN Goto(r, "forward") ELSE Finish(r)
    /\ UNCHANGED <<queue, ops, postgresVars, history>>

\* earn_token, for the author of a gifted post or for the reviewer.
Earn(r) ==
    LET q == req[r] IN
    /\ At(r, "earn")
    /\ tokens' = [tokens EXCEPT ![Payee(q)] = @ + 1]
    /\ IF q.kind = "forward" /\ q.post \in Posts THEN Goto(r, "forward") ELSE Finish(r)
    /\ UNCHANGED <<queue, ops, postgresVars, history>>

Forward(r) ==
    /\ At(r, "forward")
    /\ EnqueueOperation(req[r].post)
    /\ Finish(r)
    /\ UNCHANGED <<queue, tokens, postgresVars, history>>

---------------------------------------------------------------------------
(* Failures and the fan-out *)

\* The process dies, or a call raises: what was done so far stays done.
Abort(r) ==
    /\ ~At(r, "idle")
    /\ faults < MaxFaults
    /\ faults' = faults + 1
    /\ forgone' = IF At(r, "earn")
                  THEN [forgone EXCEPT ![Payee(req[r])] = @ + 1]
                  ELSE forgone
    /\ Finish(r)
    /\ UNCHANGED <<redisVars, postgresVars, tested, spent>>

Deliver(u, p) ==
    /\ ops[p] > 0
    /\ u \in Audience[p] \ {author[p]}
    /\ queue' = [queue EXCEPT ![u] = @ \cup {p}]
    /\ UNCHANGED <<tokens, ops, postgresVars, req, history>>

DeliverProbe(u, p) ==
    /\ reader[p] = NoUser
    /\ reader' = [reader EXCEPT ![p] = u]
    /\ queue' = [queue EXCEPT ![u] = @ \cup {p}]
    /\ UNCHANGED <<tokens, ops, author, reviews, total, marks, req, history>>

RequestStep(r) ==
    \/ \E u \in Publishers, price \in Prices : PayForPost(r, u, price)
    \/ \E p \in Posts : PublishPost(r, p)
    \/ Announce(r)
    \/ \E u \in Users, p \in Posts \cup Probes, kind \in Kinds, gift \in BOOLEAN :
         BeginReview(r, u, p, kind, gift)
    \/ ClaimPost(r)
    \/ AnswerProbe(r)
    \/ CommitReview(r)
    \/ Earn(r)
    \/ Forward(r)
    \/ Abort(r)

Next ==
    \/ \E r \in Requests : RequestStep(r)
    \/ \E u \in Users : \/ \E p \in Posts : Deliver(u, p)
                        \/ \E p \in Probes : DeliverProbe(u, p)

Spec == Init /\ [][Next]_vars

---------------------------------------------------------------------------
(* Properties *)

Owed(u) == {r \in Requests : At(r, "earn") /\ Payee(req[r]) = u}
KeptBy(u) == {x \in reviews : x.user = u /\ ~x.gifted}
GiftedTo(u) == {x \in reviews : x.gifted /\ author[x.post] = u}
TestsOf(u) == {p \in tested : reader[p] = u}

\* The books balance for every user: what they hold, have spent, are owed by a
\* request in progress or lost to one that failed is what they started with and
\* one token for every review they kept, every gift they were made and every
\* test they answered.  No interleaving, retry or re-delivery pays twice, pays the
\* wrong person or lets a balance be spent twice.
BalanceExact ==
    \A u \in Users :
        tokens[u] + spent[u] + forgone[u] + Cardinality(Owed(u))
            = StartingTokens + Cardinality(KeptBy(u)) + Cardinality(GiftedTo(u))
                + Cardinality(TestsOf(u))

\* The crowd's verdict shown after a review is the one in the reviews, however
\* many readers review the post at once.
PostCountersExact ==
    \A p \in Posts :
        /\ \A k \in Kinds : marks[p][k] = Cardinality({x \in reviews : x.post = p /\ x.kind = k})
        /\ marks[p]["gifted"] = Cardinality({x \in reviews : x.post = p /\ x.gifted})

\* A post never travels further than was paid for: every operation stands for its
\* publication or for one reader's one forward.
Announcing(p) == {r \in Requests : req[r].post = p /\ req[r].pc \in {"announce", "forward"}}
OpsBacked ==
    \A p \in Posts :
        ops[p] + Cardinality(Announcing(p))
            <= (IF author[p] = NoUser THEN 0 ELSE 1)
                 + Cardinality({x \in reviews : x.post = p /\ x.kind = "forward"})

\* What review_post and ProbeResponse say of a user's counters: reviewed_count is
\* forwarded_count plus dropped_count is the number of the user's review rows.
ReviewsOf(u, c) == {x \in reviews : x.user = u /\ c \in {"reviewed", x.kind}}
UserCountersExact ==
    \A u \in Users, c \in UserCounters : total[u][c] = Cardinality(ReviewsOf(u, c))

\* What can be relied on instead: a counter never says more than the reviews do, so
\* neither the gate a reader is shown as unlocked (REVIEW_GATE) nor the balance that
\* rebuild_from_pg derives from reviewed_count credits a review that was not made.
UserCountersNeverOver ==
    \A u \in Users, c \in UserCounters : total[u][c] <= Cardinality(ReviewsOf(u, c))
=============================================================================
