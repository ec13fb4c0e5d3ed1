--------------------------- MODULE Reviews_proofs ---------------------------
(***************************************************************************)
(* What holds of Reviews for any number of users, posts, prices, requests  *)
(* and failures: its types, the post's counters, the bound on the user's,  *)
(* that operations are paid for, and that every token is accounted for.    *)
(***************************************************************************)
EXTENDS Reviews, FiniteSetTheorems, TLAPS

---------------------------------------------------------------------------
(* Types *)

\* Where a review request is between its start and its end.
ReviewCalls == {"claim", "answer", "commit", "earn", "forward"}

\* What a request that is under way works on.
RequestSound(q) ==
    /\ q.pc # "idle" => q.user \in Users
    /\ q.pc \in {"commit", "forward", "announce"} => q.post \in Posts
    /\ q.pc = "answer" => q.post \in Probes
    /\ q.pc \in ReviewCalls => q.post \in Posts \cup Probes
    /\ q.pc \in ReviewCalls /\ q.gift => q.post \in Posts /\ q.kind = "forward"

RequestsSound == \A r \in Requests : RequestSound(req[r])

TypeInv == TypeOK /\ RequestsSound

LEMMA IdleType == Idle \in Request /\ RequestSound(Idle)
BY DEF Idle, Request, NoCounts, Kinds, RequestSound, ReviewCalls

LEMMA RequestType ==
  ASSUME TypeInv, NEW r \in Requests
  PROVE  /\ req[r] \in Request
         /\ RequestSound(req[r])
         /\ req[r].pc \in Calls \cup {"idle"}
         /\ req[r].user \in Users \cup {NoUser}
         /\ req[r].post \in Posts \cup Probes \cup {NoPost}
         /\ req[r].kind \in Kinds
         /\ req[r].gift \in BOOLEAN
         /\ req[r].read \in [UserCounters -> Nat]
BY DEF TypeInv, TypeOK, RequestsSound, Request

\* A request whose next call is another one.
LEMMA NextCall ==
  ASSUME NEW q \in Request, NEW c \in Calls \cup {"idle"}
  PROVE  /\ [q EXCEPT !.pc = c] \in Request
         /\ [q EXCEPT !.pc = c].pc = c
         /\ [q EXCEPT !.pc = c].user = q.user
         /\ [q EXCEPT !.pc = c].post = q.post
         /\ [q EXCEPT !.pc = c].kind = q.kind
         /\ [q EXCEPT !.pc = c].gift = q.gift
         /\ [q EXCEPT !.pc = c].read = q.read
BY DEF Request

LEMMA PutRequest ==
  ASSUME TypeInv, NEW r \in Requests, NEW q \in Request, RequestSound(q),
         req' = [req EXCEPT ![r] = q]
  PROVE  req' \in [Requests -> Request] /\ RequestsSound'
BY DEF TypeInv, TypeOK, RequestsSound, RequestSound, ReviewCalls

\* The next state of the request that makes a step, which all of them put in place
\* of its old one.
LEMMA RequestsStep == TypeInv /\ [Next]_vars => req' \in [Requests -> Request] /\ RequestsSound'
<1> SUFFICES ASSUME TypeInv, [Next]_vars
             PROVE  req' \in [Requests -> Request] /\ RequestsSound'
  OBVIOUS
<1> DEFINE Goal == req' \in [Requests -> Request] /\ RequestsSound'
<1>0. ASSUME req' = req PROVE Goal
  BY <1>0 DEF TypeInv, TypeOK, RequestsSound, RequestSound, ReviewCalls
<1>f. ASSUME NEW r \in Requests, Finish(r) PROVE Goal
  BY <1>f, IdleType, PutRequest DEF Finish
<1>g. ASSUME NEW r \in Requests, NEW c \in Calls, Goto(r, c),
             \A q \in Request : q.pc = c /\ q.user = req[r].user /\ q.post = req[r].post
                  /\ q.kind = req[r].kind /\ q.gift = req[r].gift => RequestSound(q)
      PROVE  Goal
  <2> DEFINE n == [req[r] EXCEPT !.pc = c]
  <2>0. /\ n \in Request /\ n.pc = c /\ n.user = req[r].user /\ n.post = req[r].post
        /\ n.kind = req[r].kind /\ n.gift = req[r].gift
    BY RequestType, NextCall
  <2>2. req' = [req EXCEPT ![r] = n]
    BY <1>g DEF Goto
  <2> HIDE DEF n
  <2>1. n \in Request /\ RequestSound(n)
    BY <2>0, <1>g
  <2>3. QED
    BY <2>1, <2>2, PutRequest
<1>1. ASSUME NEW r \in Requests, NEW u \in Publishers, NEW price \in Prices,
             PayForPost(r, u, price)
      PROVE  Goal
  <2> DEFINE n == [Idle EXCEPT !.pc = "publish", !.user = u]
  <2>1. n \in Request /\ RequestSound(n)
    BY UsersAssumption DEF Idle, Request, NoCounts, Kinds, RequestSound, ReviewCalls, Calls
  <2>2. req' = [req EXCEPT ![r] = n]
    BY <1>1 DEF PayForPost
  <2> HIDE DEF n
  <2>3. QED
    BY <2>1, <2>2, PutRequest
<1>2. ASSUME NEW r \in Requests, NEW p \in Posts, PublishPost(r, p) PROVE Goal
  <2> DEFINE n == [req[r] EXCEPT !.pc = "announce", !.post = p]
  <2>1. n \in Request /\ RequestSound(n)
    BY <1>2, RequestType DEF PublishPost, At, Request, RequestSound, ReviewCalls, Calls
  <2>2. req' = [req EXCEPT ![r] = n]
    BY <1>2, RequestType DEF PublishPost, TypeInv, TypeOK, Request
  <2> HIDE DEF n
  <2>3. QED
    BY <2>1, <2>2, PutRequest
<1>3. ASSUME NEW r \in Requests, NEW u \in Users, NEW p \in Posts \cup Probes,
             NEW kind \in Kinds, NEW gift \in BOOLEAN, BeginReview(r, u, p, kind, gift)
      PROVE  Goal
  <2> DEFINE n == [pc |-> "claim", user |-> u, post |-> p, kind |-> kind,
                   gift |-> gift, read |-> total[u]]
  <2>1. n \in Request /\ RequestSound(n)
    BY <1>3 DEF BeginReview, GiftAllowed, Request, RequestSound, ReviewCalls, Calls,
      TypeInv, TypeOK
  <2>2. req' = [req EXCEPT ![r] = n]
    BY <1>3 DEF BeginReview
  <2> HIDE DEF n
  <2>3. QED
    BY <2>1, <2>2, PutRequest
<1>4. ASSUME NEW r \in Requests, ClaimPost(r) PROVE Goal
  <2>1. CASE req[r].post \notin queue[req[r].user]
    BY <1>4, <2>1, <1>f DEF ClaimPost
  <2>2. CASE req[r].post \in queue[req[r].user]
    <3>1. Goto(r, IF req[r].post \in Probes THEN "answer" ELSE "commit")
      BY <1>4, <2>2 DEF ClaimPost
    <3>2. /\ req[r].user \in Users
          /\ req[r].post \in Posts \cup Probes
          /\ req[r].gift => req[r].post \in Posts /\ req[r].kind = "forward"
      BY <1>4, RequestType DEF ClaimPost, At, RequestSound, ReviewCalls
    <3>3. CASE req[r].post \in Probes
      BY <3>1, <3>2, <3>3, <1>g DEF RequestSound, ReviewCalls, Calls
    <3>4. CASE req[r].post \notin Probes
      BY <3>1, <3>2, <3>4, <1>g DEF RequestSound, ReviewCalls, Calls
    <3>5. QED
      BY <3>3, <3>4
  <2>3. QED
    BY <2>1, <2>2
<1>5. ASSUME NEW r \in Requests, AnswerProbe(r) \/ CommitReview(r) \/ Earn(r) PROVE Goal
  <2>1. /\ req[r].user \in Users
        /\ req[r].post \in Posts \cup Probes
        /\ req[r].gift => req[r].post \in Posts /\ req[r].kind = "forward"
    BY <1>5, RequestType DEF AnswerProbe, CommitReview, Earn, At, RequestSound, ReviewCalls
  <2>2. \/ Finish(r)
        \/ Goto(r, "earn")
        \/ req[r].post \in Posts /\ Goto(r, "forward")
    BY <1>5 DEF AnswerProbe, CommitReview, Earn
  <2>3. CASE Goto(r, "earn")
    BY <2>1, <2>3, <1>g DEF RequestSound, ReviewCalls, Calls
  <2>4. CASE req[r].post \in Posts /\ Goto(r, "forward")
    BY <2>1, <2>4, <1>g DEF RequestSound, ReviewCalls, Calls
  <2>5. QED
    BY <2>2, <2>3, <2>4, <1>f
<1>6. ASSUME NEW r \in Requests, Announce(r) \/ Forward(r) \/ Abort(r) PROVE Goal
  BY <1>6, <1>f DEF Announce, Forward, Abort
<1>7. ASSUME NEW u \in Users, NEW p, Deliver(u, p) \/ DeliverProbe(u, p) PROVE Goal
  BY <1>7, <1>0 DEF Deliver, DeliverProbe
<1>8. CASE UNCHANGED vars
  BY <1>8, <1>0 DEF vars
<1>9. Goal
  <2>1. ASSUME NEW r \in Requests, RequestStep(r) PROVE Goal
    BY <2>1, <1>1, <1>2, <1>3, <1>4, <1>5, <1>6, Zenon DEF RequestStep
  <2>2. QED
    BY <2>1, <1>7, <1>8 DEF Next
<1>10. QED
  BY <1>9

\* Counting one more for x.
LEMMA OneMore ==
  ASSUME NEW S, NEW f \in [S -> Nat], NEW x
  PROVE  [f EXCEPT ![x] = @ + 1] \in [S -> Nat]
<1>1. CASE x \in S
  BY <1>1
<1>2. CASE x \notin S
  BY <1>2
<1>3. QED
  BY <1>1, <1>2

LEMMA TypeStep == TypeInv /\ [Next]_vars => TypeInv'
<1> SUFFICES ASSUME TypeInv, [Next]_vars PROVE TypeInv'
  OBVIOUS
<1> USE DEF TypeInv, TypeOK, redisVars, postgresVars, history
<1>0. req' \in [Requests -> Request] /\ RequestsSound'
  BY RequestsStep
<1>1. ASSUME NEW r \in Requests, NEW u \in Publishers, NEW price \in Prices,
             PayForPost(r, u, price)
      PROVE  TypeInv'
  <2>1. u \in Users /\ price \in Nat
    BY UsersAssumption, PricesAssumption
  <2>2. tokens' \in [Users -> Nat] /\ spent' \in [Users -> Nat]
    <3>1. CASE u \in Superusers
      BY <1>1, <3>1 DEF PayForPost
    <3>2. CASE /\ tokens[u] >= price
               /\ tokens' = [tokens EXCEPT ![u] = @ - price]
               /\ spent' = [spent EXCEPT ![u] = @ + price]
      <4>1. tokens[u] - price \in Nat /\ spent[u] + price \in Nat
        BY <2>1, <3>2
      <4>2. QED
        BY <2>1, <3>2, <4>1
    <3>3. QED
      BY <1>1, <3>1, <3>2 DEF PayForPost, Spend
  <2>3. QED
    BY <1>0, <1>1, <2>2 DEF PayForPost
<1>2. ASSUME NEW r \in Requests, NEW p \in Posts, PublishPost(r, p) PROVE TypeInv'
  BY <1>0, <1>2, RequestType DEF PublishPost
<1>3. ASSUME NEW r \in Requests, Announce(r) \/ Forward(r) PROVE TypeInv'
  BY <1>0, <1>3 DEF Announce, Forward, EnqueueOperation
<1>4. ASSUME NEW r \in Requests, NEW u \in Users, NEW p \in Posts \cup Probes,
             NEW kind \in Kinds, NEW gift \in BOOLEAN, BeginReview(r, u, p, kind, gift)
      PROVE  TypeInv'
  BY <1>0, <1>4 DEF BeginReview
<1>5. ASSUME NEW r \in Requests, ClaimPost(r) PROVE TypeInv'
  BY <1>0, <1>5 DEF ClaimPost
<1>6. ASSUME NEW r \in Requests, AnswerProbe(r) PROVE TypeInv'
  BY <1>0, <1>6, RequestType DEF AnswerProbe, At, RequestSound
<1>7. ASSUME NEW r \in Requests, CommitReview(r) PROVE TypeInv'
  <2>1. CASE UNCHANGED <<reviews, total, marks>>
    BY <1>0, <1>7, <2>1 DEF CommitReview
  <2>2. CASE /\ reviews' = reviews \cup {RowOf(req[r])}
             /\ CountForUser(req[r])
             /\ CountForPost(req[r])
    <3>1. RowOf(req[r]) \in Review
      BY <1>7, RequestType DEF CommitReview, At, RequestSound, ReviewCalls, RowOf, Review
    <3>2. total' \in [Users -> [UserCounters -> Nat]]
      <4>1. \A c \in UserCounters : req[r].read[c] + 1 \in Nat
        BY RequestType
      <4>2. QED
        BY <2>2, <4>1 DEF CountForUser
    <3>3. marks' \in [Posts -> [PostCounters -> Nat]]
      <4> DEFINE n == [c \in PostCounters |->
                         IF c = req[r].kind \/ (c = "gifted" /\ req[r].gift)
                         THEN marks[req[r].post][c] + 1 ELSE marks[req[r].post][c]]
      <4>1. req[r].post \in Posts => n \in [PostCounters -> Nat]
        OBVIOUS
      <4>2. marks' = [marks EXCEPT ![req[r].post] = n]
        BY <2>2 DEF CountForPost
      <4>3. QED
        BY <4>1, <4>2
    <3>4. QED
      BY <1>0, <1>7, <2>2, <3>1, <3>2, <3>3 DEF CommitReview
  <2>3. QED
    BY <1>7, <2>1, <2>2 DEF CommitReview
<1>8. ASSUME NEW r \in Requests, Earn(r) PROVE TypeInv'
  <2>1. tokens' \in [Users -> Nat]
    <3>1. tokens' = [tokens EXCEPT ![Payee(req[r])] = @ + 1]
      BY <1>8 DEF Earn
    <3>2. QED
      BY <3>1, OneMore
  <2>2. QED
    BY <1>0, <1>8, <2>1 DEF Earn
<1>9. ASSUME NEW r \in Requests, Abort(r) PROVE TypeInv'
  <2>1. forgone' \in [Users -> Nat]
    <3>1. \/ forgone' = [forgone EXCEPT ![Payee(req[r])] = @ + 1]
          \/ forgone' = forgone
      BY <1>9 DEF Abort
    <3>2. QED
      BY <3>1
  <2>2. faults' \in Nat
    BY <1>9 DEF Abort
  <2>3. QED
    BY <1>0, <1>9, <2>1, <2>2 DEF Abort
<1>10. ASSUME NEW u \in Users, NEW p \in Posts, Deliver(u, p) PROVE TypeInv'
  BY <1>0, <1>10 DEF Deliver
<1>11. ASSUME NEW u \in Users, NEW p \in Probes, DeliverProbe(u, p) PROVE TypeInv'
  BY <1>0, <1>11 DEF DeliverProbe
<1>12. CASE UNCHANGED vars
  BY <1>0, <1>12 DEF vars
<1>13. ASSUME NEW r \in Requests, RequestStep(r) PROVE TypeInv'
  BY <1>13, <1>1, <1>2, <1>3, <1>4, <1>5, <1>6, <1>7, <1>8, <1>9, Zenon DEF RequestStep
<1>14. QED
  BY <1>10, <1>11, <1>12, <1>13, Zenon DEF Next

THEOREM TypeInvariant == Spec => []TypeInv
<1>1. Init => TypeInv
  BY IdleType, StartingTokensAssumption DEF Init, TypeInv, TypeOK, RequestsSound, NoCounts
<1>2. QED
  BY <1>1, TypeStep, PTL DEF Spec

\* Every variable of Reviews keeps its type; in particular no balance goes below zero.
THEOREM TypeCorrect == Spec => []TypeOK
BY TypeInvariant, PTL DEF TypeInv

---------------------------------------------------------------------------
(* The counters *)

\* The one step that records a review: its row is new.
Records(r) ==
    /\ At(r, "commit") /\ Goto(r, "earn")
    /\ ~AlreadyReviewed(req[r].user, req[r].post)
    /\ reviews' = reviews \cup {RowOf(req[r])}
    /\ CountForUser(req[r])
    /\ CountForPost(req[r])
    /\ UNCHANGED <<redisVars, author, reader, history>>

LEMMA OnlyCommitsRecord ==
  [Next]_vars => UNCHANGED <<reviews, total, marks>> \/ \E r \in Requests : Records(r)
<1> SUFFICES ASSUME [Next]_vars
             PROVE  UNCHANGED <<reviews, total, marks>> \/ \E r \in Requests : Records(r)
  OBVIOUS
<1> USE DEF postgresVars
<1>1. ASSUME NEW r \in Requests, RequestStep(r), ~CommitReview(r)
      PROVE  UNCHANGED <<reviews, total, marks>>
  BY <1>1 DEF RequestStep, PayForPost, PublishPost, Announce, BeginReview, ClaimPost,
    AnswerProbe, Earn, Forward, Abort
<1>2. ASSUME NEW r \in Requests, CommitReview(r)
      PROVE  UNCHANGED <<reviews, total, marks>> \/ Records(r)
  BY <1>2 DEF CommitReview, Records
<1>3. ASSUME NEW u, NEW p, Deliver(u, p) \/ DeliverProbe(u, p)
      PROVE  UNCHANGED <<reviews, total, marks>>
  BY <1>3 DEF Deliver, DeliverProbe
<1>4. CASE UNCHANGED vars
  BY <1>4 DEF vars
<1>5. QED
  BY <1>1, <1>2, <1>3, <1>4 DEF Next

\* The row is of the requesting user, of the post and of the kind, and new.
LEMMA NewRow ==
  ASSUME TypeInv, NEW r \in Requests, Records(r)
  PROVE  /\ req[r].user \in Users /\ req[r].post \in Posts /\ req[r].kind \in Kinds
         /\ RowOf(req[r]) \notin reviews
         /\ RowOf(req[r]).user = req[r].user
         /\ RowOf(req[r]).post = req[r].post
         /\ RowOf(req[r]).kind = req[r].kind
         /\ RowOf(req[r]).gifted = req[r].gift
BY RequestType DEF Records, At, RequestSound, ReviewCalls, RowOf, AlreadyReviewed

ReviewsFinite == IsFiniteSet(reviews)

LEMMA FiniteStep == ReviewsFinite /\ [Next]_vars => ReviewsFinite'
BY OnlyCommitsRecord, FS_AddElement DEF ReviewsFinite, Records

THEOREM FiniteInvariant == Spec => []ReviewsFinite
<1>1. Init => ReviewsFinite
  BY FS_EmptySet DEF Init, ReviewsFinite
<1>2. QED
  BY <1>1, FiniteStep, PTL DEF Spec

\* A set of review rows that gains one, or none.
LEMMA CountOneMore ==
  ASSUME ReviewsFinite, NEW S \in SUBSET reviews, NEW x, x \notin reviews
  PROVE  /\ Cardinality(S) \in Nat
         /\ Cardinality(S \cup {x}) = Cardinality(S) + 1
BY FS_Subset, FS_AddElement, FS_CardinalityType DEF ReviewsFinite

OfKind(p, k) == {x \in reviews : x.post = p /\ x.kind = k}
GiftsOf(p) == {x \in reviews : x.post = p /\ x.gifted}

LEMMA PostCountersStep ==
  TypeInv /\ ReviewsFinite /\ PostCountersExact /\ [Next]_vars => PostCountersExact'
<1> SUFFICES ASSUME TypeInv, ReviewsFinite, PostCountersExact, [Next]_vars
             PROVE  PostCountersExact'
  OBVIOUS
<1>0. /\ marks \in [Posts -> [PostCounters -> Nat]]
      /\ \A p \in Posts : /\ \A k \in Kinds : marks[p][k] = Cardinality(OfKind(p, k))
                          /\ marks[p]["gifted"] = Cardinality(GiftsOf(p))
  BY DEF TypeInv, TypeOK, PostCountersExact, OfKind, GiftsOf
<1>1. CASE UNCHANGED <<reviews, marks>>
  BY <1>0, <1>1 DEF PostCountersExact, OfKind, GiftsOf
<1>2. ASSUME NEW r \in Requests, Records(r) PROVE PostCountersExact'
  <2> DEFINE q == req[r]
             n == [c \in PostCounters |->
                      IF c = q.kind \/ (c = "gifted" /\ q.gift)
                      THEN marks[q.post][c] + 1 ELSE marks[q.post][c]]
  <2>1. /\ marks' = [marks EXCEPT ![q.post] = n]
        /\ reviews' = reviews \cup {RowOf(q)}
    BY <1>2 DEF Records, CountForPost
  <2>2. /\ q.post \in Posts /\ q.kind \in Kinds /\ RowOf(q) \notin reviews
        /\ RowOf(q).post = q.post /\ RowOf(q).kind = q.kind /\ RowOf(q).gifted = q.gift
    BY <1>2, NewRow
  <2> HIDE DEF q
  <2>3. ASSUME NEW p \in Posts, NEW k \in Kinds
        PROVE  marks'[p][k] = Cardinality({x \in reviews' : x.post = p /\ x.kind = k})
    <3>1. CASE p = q.post /\ k = q.kind
      <4>1. {x \in reviews' : x.post = p /\ x.kind = k} = OfKind(p, k) \cup {RowOf(q)}
        BY <2>1, <2>2, <3>1 DEF OfKind
      <4>2. marks'[p][k] = marks[p][k] + 1
        BY <1>0, <2>1, <2>2, <3>1 DEF PostCounters
      <4>3. OfKind(p, k) \in SUBSET reviews
        BY DEF OfKind
      <4>4. QED
        BY <1>0, <2>2, <4>1, <4>2, <4>3, CountOneMore
    <3>2. CASE ~(p = q.post /\ k = q.kind)
      <4>1. {x \in reviews' : x.post = p /\ x.kind = k} = OfKind(p, k)
        BY <2>1, <2>2, <3>2 DEF OfKind
      <4>2. marks'[p][k] = marks[p][k]
        BY <1>0, <2>1, <2>2, <3>2 DEF PostCounters, Kinds
      <4>3. QED
        BY <1>0, <4>1, <4>2
    <3>3. QED
      BY <3>1, <3>2
  <2>4. ASSUME NEW p \in Posts
        PROVE  marks'[p]["gifted"] = Cardinality({x \in reviews' : x.post = p /\ x.gifted})
    <3>1. CASE p = q.post /\ q.gift
      <4>1. {x \in reviews' : x.post = p /\ x.gifted} = GiftsOf(p) \cup {RowOf(q)}
        BY <2>1, <2>2, <3>1 DEF GiftsOf
      <4>2. marks'[p]["gifted"] = marks[p]["gifted"] + 1
        BY <1>0, <2>1, <2>2, <3>1 DEF PostCounters
      <4>3. GiftsOf(p) \in SUBSET reviews
        BY DEF GiftsOf
      <4>4. QED
        BY <1>0, <2>2, <4>1, <4>2, <4>3, CountOneMore
    <3>2. CASE ~(p = q.post /\ q.gift)
      <4>1. {x \in reviews' : x.post = p /\ x.gifted} = GiftsOf(p)
        BY <2>1, <2>2, <3>2 DEF GiftsOf
      <4>2. marks'[p]["gifted"] = marks[p]["gifted"]
        BY <1>0, <2>1, <2>2, <3>2 DEF PostCounters, Kinds
      <4>3. QED
        BY <1>0, <4>1, <4>2
    <3>3. QED
      BY <3>1, <3>2
  <2>5. QED
    BY <2>3, <2>4 DEF PostCountersExact
<1>3. QED
  BY <1>1, <1>2, OnlyCommitsRecord

\* The verdicts and gifts counted on a post are its review rows: the constraint, the
\* increments in SQL and the rollback keep them equal for any number of requests.
THEOREM VerdictsExact == Spec => []PostCountersExact
<1>1. Init => PostCountersExact
  BY FS_EmptySet DEF Init, PostCountersExact, PostCounters
<1>2. QED
  BY <1>1, PostCountersStep, TypeInvariant, FiniteInvariant, PTL DEF Spec

\* What a request read of its user's counters was true of some earlier state, so
\* it is not more than the reviews there are now.
ReadInPast ==
    \A r \in Requests : req[r].pc \in ReviewCalls =>
        \A c \in UserCounters : req[r].read[c] <= Cardinality(ReviewsOf(req[r].user, c))

UserInv == ReadInPast /\ UserCountersNeverOver

\* A request in the middle of a review is one that was, or begins with what it reads.
LEMMA ReadsFrom ==
  ASSUME TypeInv, [Next]_vars, NEW r \in Requests, req'[r].pc \in ReviewCalls
  PROVE  \/ req[r].pc \in ReviewCalls /\ req'[r].read = req[r].read /\ req'[r].user = req[r].user
         \/ req'[r].read = total[req'[r].user] /\ req'[r].user \in Users
<1> DEFINE Goal ==
      \/ req[r].pc \in ReviewCalls /\ req'[r].read = req[r].read /\ req'[r].user = req[r].user
      \/ req'[r].read = total[req'[r].user] /\ req'[r].user \in Users
<1>0. req \in [Requests -> Request] /\ Idle.pc \notin ReviewCalls
  BY DEF TypeInv, TypeOK, Idle, ReviewCalls
<1>1. ASSUME req'[r] = req[r] PROVE Goal
  BY <1>1
<1>2. ASSUME Finish(r) PROVE FALSE
  BY <1>0, <1>2 DEF Finish
<1>3. ASSUME NEW c, Goto(r, c), req[r].pc \in ReviewCalls PROVE Goal
  <2>1. req'[r] = [req[r] EXCEPT !.pc = c]
    BY <1>0, <1>3 DEF Goto
  <2>2. req'[r].read = req[r].read /\ req'[r].user = req[r].user
    BY <1>0, <2>1 DEF Request
  <2>3. QED
    BY <1>3, <2>2
<1>4. ASSUME NEW s \in Requests, RequestStep(s) PROVE Goal
  <2>1. CASE s # r
    <3>1. req'[r] = req[r]
      BY <1>0, <1>4, <2>1 DEF RequestStep, PayForPost, PublishPost, Announce, BeginReview,
        ClaimPost, AnswerProbe, CommitReview, Earn, Forward, Abort, Goto, Finish
    <3>2. QED
      BY <3>1, <1>1
  <2>2. ASSUME NEW u \in Publishers, NEW price \in Prices, PayForPost(r, u, price) PROVE FALSE
    <3>1. req'[r].pc = "publish"
      BY <1>0, <2>2 DEF PayForPost, Idle
    <3>2. QED
      BY <3>1 DEF ReviewCalls
  <2>3. ASSUME NEW p \in Posts, PublishPost(r, p) PROVE FALSE
    <3>1. req'[r].pc = "announce"
      BY <1>0, <2>3 DEF PublishPost, Request
    <3>2. QED
      BY <3>1 DEF ReviewCalls
  <2>4. ASSUME NEW u \in Users, NEW p, NEW kind, NEW gift, BeginReview(r, u, p, kind, gift)
        PROVE  Goal
    BY <1>0, <2>4 DEF BeginReview
  <2>5. ASSUME ClaimPost(r) \/ AnswerProbe(r) \/ CommitReview(r) \/ Earn(r) PROVE Goal
    <3>1. req[r].pc \in ReviewCalls
      BY <2>5 DEF ClaimPost, AnswerProbe, CommitReview, Earn, At, ReviewCalls
    <3>2. Finish(r) \/ \E c \in Calls : Goto(r, c)
      BY <2>5 DEF ClaimPost, AnswerProbe, CommitReview, Earn, Calls
    <3>3. QED
      BY <1>2, <1>3, <3>1, <3>2
  <2>6. ASSUME Announce(r) \/ Forward(r) \/ Abort(r) PROVE FALSE
    BY <1>2, <2>6 DEF Announce, Forward, Abort
  <2>7. CASE s = r
    <3>1. RequestStep(r)
      BY <1>4, <2>7
    <3>2. QED
      BY <3>1, <2>2, <2>3, <2>4, <2>5, <2>6, Zenon DEF RequestStep
  <2>8. QED
    BY <2>1, <2>7
<1>5. ASSUME NEW u, NEW p, Deliver(u, p) \/ DeliverProbe(u, p) PROVE Goal
  BY <1>5 DEF Deliver, DeliverProbe
<1>6. CASE UNCHANGED vars
  BY <1>6 DEF vars
<1>7. QED
  BY <1>4, <1>5, <1>6 DEF Next

\* Reviews are only added, so no count of them goes down.
Rows(S, u, c) == {x \in S : x.user = u /\ c \in {"reviewed", x.kind}}

LEMMA ReviewsGrow ==
  ASSUME ReviewsFinite, [Next]_vars, NEW u, NEW c
  PROVE  /\ Cardinality(Rows(reviews, u, c)) \in Nat
         /\ Cardinality(Rows(reviews', u, c)) \in Nat
         /\ Cardinality(Rows(reviews, u, c)) <= Cardinality(Rows(reviews', u, c))
<1>1. ReviewsFinite'
  BY FiniteStep
<1>2. reviews \subseteq reviews'
  BY OnlyCommitsRecord DEF Records
<1>3. /\ Rows(reviews, u, c) \subseteq Rows(reviews', u, c)
      /\ Rows(reviews', u, c) \subseteq reviews'
  BY <1>2 DEF Rows
<1>4. IsFiniteSet(Rows(reviews', u, c))
  BY <1>1, <1>3, FS_Subset DEF ReviewsFinite
<1>5. QED
  BY <1>3, <1>4, FS_Subset, FS_CardinalityType

LEMMA UserStep == TypeInv /\ ReviewsFinite /\ UserInv /\ [Next]_vars => UserInv'
<1> SUFFICES ASSUME TypeInv, ReviewsFinite, UserInv, [Next]_vars PROVE UserInv'
  OBVIOUS
<1>0. /\ total \in [Users -> [UserCounters -> Nat]]
      /\ req' \in [Requests -> Request]
      /\ \A u \in Users, c \in UserCounters : total[u][c] <= Cardinality(Rows(reviews, u, c))
      /\ \A r \in Requests : req[r].pc \in ReviewCalls =>
            \A c \in UserCounters : req[r].read[c] <= Cardinality(Rows(reviews, req[r].user, c))
  BY RequestsStep DEF TypeInv, TypeOK, UserInv, ReadInPast, UserCountersNeverOver, ReviewsOf, Rows
<1>1. ReadInPast'
  <2>1. ASSUME NEW r \in Requests, req'[r].pc \in ReviewCalls, NEW c \in UserCounters
        PROVE  req'[r].read[c] <= Cardinality(Rows(reviews', req'[r].user, c))
    <3>1. req'[r].read[c] <= Cardinality(Rows(reviews, req'[r].user, c))
      BY <1>0, <2>1, ReadsFrom
    <3>2. req'[r].read[c] \in Nat
      BY <1>0 DEF Request
    <3>3. QED
      BY <3>1, <3>2, ReviewsGrow
  <2>2. QED
    BY <2>1 DEF ReadInPast, ReviewsOf, Rows
<1>2. UserCountersNeverOver'
  <2>1. ASSUME NEW u \in Users, NEW c \in UserCounters
        PROVE  total'[u][c] <= Cardinality(Rows(reviews', u, c))
    <3>1. CASE UNCHANGED <<reviews, total, marks>>
      BY <1>0, <3>1
    <3>2. ASSUME NEW r \in Requests, Records(r)
          PROVE  total'[u][c] <= Cardinality(Rows(reviews', u, c))
      <4> DEFINE q == req[r]
      <4>1. /\ reviews' = reviews \cup {RowOf(q)} /\ RowOf(q) \notin reviews
            /\ RowOf(q).user = q.user /\ RowOf(q).kind = q.kind /\ q.user \in Users
        BY <3>2, NewRow DEF Records
      <4>2. q.read \in [UserCounters -> Nat] /\ q.read[c] <= Cardinality(Rows(reviews, q.user, c))
        BY <1>0, <3>2, RequestType DEF Records, At, ReviewCalls
      <4>3. CASE u = q.user /\ c \in {"reviewed", q.kind}
        <5>1. total'[u][c] = q.read[c] + 1
          BY <1>0, <3>2, <4>1, <4>3 DEF Records, CountForUser
        <5>2. Rows(reviews', u, c) = Rows(reviews, u, c) \cup {RowOf(q)}
          BY <4>1, <4>3 DEF Rows
        <5>3. Rows(reviews, u, c) \in SUBSET reviews
          BY DEF Rows
        <5>4. /\ Cardinality(Rows(reviews, u, c)) \in Nat
              /\ Cardinality(Rows(reviews', u, c)) = Cardinality(Rows(reviews, u, c)) + 1
          BY <4>1, <5>2, <5>3, CountOneMore
        <5>5. q.read[c] \in Nat /\ q.read[c] <= Cardinality(Rows(reviews, u, c))
          BY <4>2, <4>3
        <5> HIDE DEF q
        <5>6. QED
          BY <5>1, <5>4, <5>5
      <4>4. CASE ~(u = q.user /\ c \in {"reviewed", q.kind})
        <5>1. total'[u][c] = total[u][c]
          BY <1>0, <3>2, <4>1, <4>4 DEF Records, CountForUser
        <5>2. QED
          BY <1>0, <5>1, ReviewsGrow
      <4>5. QED
        BY <4>3, <4>4
    <3>3. QED
      BY <3>1, <3>2, OnlyCommitsRecord
  <2>2. QED
    BY <2>1 DEF UserCountersNeverOver, ReviewsOf, Rows
<1>3. QED
  BY <1>1, <1>2 DEF UserInv

\* However many reviews of one reader are lost from their counters, none is counted
\* that was not made.
THEOREM CountersNeverOver == Spec => []UserCountersNeverOver
<1>1. Init => UserInv
  <2>1. ASSUME Init PROVE UserCountersNeverOver
    BY <2>1, FS_EmptySet DEF Init, UserCountersNeverOver, ReviewsOf, NoCounts
  <2>2. ASSUME Init PROVE ReadInPast
    BY <2>2 DEF Init, ReadInPast, Idle, ReviewCalls
  <2>3. QED
    BY <2>1, <2>2 DEF UserInv
<1>2. Spec => []UserInv
  BY <1>1, UserStep, TypeInvariant, FiniteInvariant, PTL DEF Spec
<1>3. QED
  BY <1>2, PTL DEF UserInv

---------------------------------------------------------------------------
(* Authors and test posts *)

\* What a step does to the requests.
LEMMA MoveGoto ==
  ASSUME TypeInv, NEW r \in Requests, NEW c, Goto(r, c)
  PROVE  /\ \A s \in Requests \ {r} : req'[s] = req[s]
         /\ req'[r].pc = c
         /\ req'[r].user = req[r].user
         /\ req'[r].post = req[r].post
         /\ req'[r].kind = req[r].kind
         /\ req'[r].gift = req[r].gift
<1>0. req \in [Requests -> Request]
  BY DEF TypeInv, TypeOK
<1>1. /\ req'[r] = [req[r] EXCEPT !.pc = c]
      /\ \A s \in Requests \ {r} : req'[s] = req[s]
  BY <1>0 DEF Goto
<1>2. QED
  BY <1>0, <1>1 DEF Request

LEMMA MoveFinish ==
  ASSUME TypeInv, NEW r \in Requests, Finish(r)
  PROVE  req'[r].pc = "idle" /\ \A s \in Requests \ {r} : req'[s] = req[s]
BY DEF Finish, TypeInv, TypeOK, Idle

\* A post that is being reviewed, announced or has been reviewed has an author.
AuthorsKnown ==
    /\ \A r \in Requests :
         req[r].pc \in ReviewCalls \cup {"announce"} /\ req[r].post \in Posts
            => author[req[r].post] \in Users
    /\ \A x \in reviews : author[x.post] \in Users

LEMMA AuthorsStep == TypeInv /\ AuthorsKnown /\ [Next]_vars => AuthorsKnown'
<1> SUFFICES ASSUME TypeInv, AuthorsKnown, [Next]_vars PROVE AuthorsKnown'
  OBVIOUS
<1> USE DEF AuthorsKnown, postgresVars
<1>0. /\ author \in [Posts -> Users \cup {NoUser}]
      /\ req \in [Requests -> Request]
      /\ reviews \subseteq Review
  BY DEF TypeInv, TypeOK
<1>1. ASSUME NEW r \in Requests, NEW u \in Publishers, NEW price, PayForPost(r, u, price)
      PROVE  AuthorsKnown'
  BY <1>0, <1>1 DEF PayForPost, Idle, ReviewCalls
<1>2. ASSUME NEW r \in Requests, NEW p \in Posts, PublishPost(r, p) PROVE AuthorsKnown'
  <2>1. req[r].user \in Users
    BY <1>2, RequestType DEF PublishPost, At, RequestSound
  <2>2. /\ req'[r].post = p
        /\ \A s \in Requests \ {r} : req'[s] = req[s]
    BY <1>0, <1>2 DEF PublishPost, Request
  <2>3. author'[p] \in Users /\ \A x \in Posts \ {p} : author'[x] = author[x]
    BY <1>0, <1>2, <2>1 DEF PublishPost
  <2>4. reviews' = reviews /\ \A x \in reviews : x.post \in Posts
    BY <1>0, <1>2 DEF PublishPost, Review
  <2>5. QED
    BY <2>2, <2>3, <2>4
<1>3. ASSUME NEW r \in Requests, Finish(r), UNCHANGED <<author, reviews>> PROVE AuthorsKnown'
  <2>1. req'[r].pc \notin ReviewCalls \cup {"announce"}
    BY <1>3, MoveFinish DEF ReviewCalls
  <2>2. QED
    BY <1>3, <2>1, MoveFinish
<1>4. ASSUME NEW r \in Requests, NEW u \in Users, NEW p \in Posts \cup Probes, NEW kind, NEW gift,
             BeginReview(r, u, p, kind, gift)
      PROVE  AuthorsKnown'
  BY <1>0, <1>4 DEF BeginReview, Exists
<1>5. ASSUME NEW r \in Requests, NEW c, Goto(r, c), req[r].pc \in ReviewCalls, author' = author,
             reviews' = reviews \/ Records(r)
      PROVE  AuthorsKnown'
  <2>1. \A s \in Requests :
          req'[s].pc \in ReviewCalls \cup {"announce"} /\ req'[s].post \in Posts
            => author'[req'[s].post] \in Users
    BY <1>5, MoveGoto
  <2>2. CASE Records(r)
    <3>1. /\ RowOf(req[r]).post = req[r].post
          /\ author[req[r].post] \in Users
          /\ reviews' = reviews \cup {RowOf(req[r])}
      BY <1>5, <2>2, NewRow DEF Records
    <3>2. QED
      BY <1>5, <2>1, <3>1
  <2>3. QED
    BY <1>5, <2>1, <2>2
<1>6. ASSUME NEW r \in Requests, ClaimPost(r) \/ AnswerProbe(r) \/ Earn(r) PROVE AuthorsKnown'
  <2>1. req[r].pc \in ReviewCalls /\ UNCHANGED <<author, reviews>>
    BY <1>6 DEF ClaimPost, AnswerProbe, Earn, At, ReviewCalls
  <2>2. Finish(r) \/ \E c \in Calls : Goto(r, c)
    BY <1>6 DEF ClaimPost, AnswerProbe, Earn, Calls
  <2>3. QED
    BY <1>3, <1>5, <2>1, <2>2
<1>7. ASSUME NEW r \in Requests, CommitReview(r) PROVE AuthorsKnown'
  <2>1. author' = author /\ req[r].pc \in ReviewCalls
    BY <1>7 DEF CommitReview, At, ReviewCalls
  <2>2. \/ Finish(r) /\ reviews' = reviews
        \/ Goto(r, "earn") /\ Records(r)
    BY <1>7 DEF CommitReview, Records
  <2>3. QED
    BY <1>3, <1>5, <2>1, <2>2
<1>8. ASSUME NEW r \in Requests, Announce(r) \/ Forward(r) \/ Abort(r) PROVE AuthorsKnown'
  BY <1>3, <1>8 DEF Announce, Forward, Abort
<1>9. ASSUME NEW u, NEW p, Deliver(u, p) \/ DeliverProbe(u, p) PROVE AuthorsKnown'
  BY <1>9 DEF Deliver, DeliverProbe
<1>10. CASE UNCHANGED vars
  BY <1>10 DEF vars
<1>11. ASSUME NEW r \in Requests, RequestStep(r) PROVE AuthorsKnown'
  BY <1>11, <1>1, <1>2, <1>4, <1>6, <1>7, <1>8, Zenon DEF RequestStep
<1>12. QED
  BY <1>9, <1>10, <1>11 DEF Next

\* A test post is its reader's alone, and is answered once: it is in their queue, or
\* one request of theirs is recording the answer, or it has been answered.
TestsSound ==
    /\ \A u \in Users : \A p \in queue[u] \cap Probes : reader[p] = u /\ p \notin tested
    /\ \A r \in Requests : At(r, "answer") =>
         /\ reader[req[r].post] = req[r].user
         /\ req[r].post \notin tested
         /\ req[r].post \notin queue[req[r].user]
         /\ \A s \in Requests \ {r} : At(s, "answer") => req[s].post # req[r].post
    /\ \A p \in tested : reader[p] \in Users

LEMMA TestsStep == TypeInv /\ TestsSound /\ [Next]_vars => TestsSound'
<1> SUFFICES ASSUME TypeInv, TestsSound, [Next]_vars PROVE TestsSound'
  OBVIOUS
<1> USE DEF TestsSound, At
<1>0. /\ queue \in [Users -> SUBSET (Posts \cup Probes)]
      /\ reader \in [Probes -> Users \cup {NoUser}]
      /\ req \in [Requests -> Request]
      /\ tested \subseteq Probes
      /\ \A r \in Requests : req[r].pc = "answer" => req[r].post \in Probes /\ req[r].user \in Users
  BY DEF TypeInv, TypeOK, RequestsSound, RequestSound
<1>1. ASSUME \A u \in Users : queue'[u] \cap Probes = queue[u] \cap Probes,
             UNCHANGED <<reader, tested>>,
             \A r \in Requests : req'[r].pc = "answer" => req'[r] = req[r]
      PROVE  TestsSound'
  BY <1>0, <1>1
<1>2. ASSUME NEW r \in Requests, ClaimPost(r) PROVE TestsSound'
  <2> DEFINE u == req[r].user
             p == req[r].post
  <2>1. /\ u \in Users /\ p \in Posts \cup Probes /\ req[r].pc = "claim"
        /\ queue' = [queue EXCEPT ![u] = @ \ {p}]
        /\ UNCHANGED <<reader, tested>>
    BY <1>2, RequestType DEF ClaimPost, postgresVars, history, RequestSound, ReviewCalls
  <2>2. /\ queue'[u] = queue[u] \ {p}
        /\ \A v \in Users : queue'[v] \subseteq queue[v]
    BY <1>0, <2>1
  <2>3. CASE p \in queue[u] \cap Probes
    <3>1. Goto(r, "answer")
      BY <1>2, <2>3 DEF ClaimPost
    <3>2. /\ reader[p] = u /\ p \notin tested
          /\ \A s \in Requests : req[s].pc = "answer" => req[s].post # p
      BY <2>1, <2>3
    <3>3. /\ req'[r].user = u /\ req'[r].post = p
          /\ \A s \in Requests \ {r} : req'[s] = req[s]
      BY <3>1, MoveGoto
    <3> HIDE DEF u, p
    <3>4. QED
      BY <1>0, <2>1, <2>2, <3>2, <3>3
  <2>4. CASE p \notin queue[u] \cap Probes
    <3>1. \A v \in Users : queue'[v] \cap Probes = queue[v] \cap Probes
      BY <1>0, <2>1, <2>4
    <3>2. Finish(r) \/ Goto(r, "commit")
      BY <1>2, <2>4 DEF ClaimPost
    <3>3. \A s \in Requests : req'[s].pc = "answer" => req'[s] = req[s]
      BY <3>2, MoveGoto, MoveFinish
    <3>4. QED
      BY <1>1, <2>1, <3>1, <3>3
  <2>5. QED
    BY <2>3, <2>4
<1>3. ASSUME NEW r \in Requests, AnswerProbe(r) PROVE TestsSound'
  <2> DEFINE p == req[r].post
  <2>1. /\ req[r].pc = "answer" /\ p \in Probes
        /\ tested' = tested \cup {p}
        /\ UNCHANGED <<queue, reader>>
    BY <1>0, <1>3 DEF AnswerProbe, redisVars, postgresVars
  <2>2. req'[r].pc = "earn" /\ \A s \in Requests \ {r} : req'[s] = req[s]
    BY <1>3, MoveGoto DEF AnswerProbe
  <2>3. /\ reader[p] \in Users /\ p \notin queue[reader[p]]
        /\ \A s \in Requests \ {r} : req[s].pc = "answer" => req[s].post # p
    BY <1>0, <2>1
  <2> HIDE DEF p
  <2>4. QED
    BY <1>0, <2>1, <2>2, <2>3
<1>4. ASSUME NEW u \in Users, NEW p \in Probes, DeliverProbe(u, p) PROVE TestsSound'
  <2>1. /\ reader[p] = NoUser
        /\ reader' = [reader EXCEPT ![p] = u]
        /\ queue' = [queue EXCEPT ![u] = @ \cup {p}]
        /\ UNCHANGED <<req, tested>>
    BY <1>4 DEF DeliverProbe, history
  <2>2. p \notin tested /\ \A s \in Requests : req[s].pc = "answer" => req[s].post # p
    BY <1>0, <2>1, NoUserAssumption
  <2>3. \A v \in Users : p \notin queue[v]
    BY <1>0, <2>1, NoUserAssumption
  <2>4. /\ reader'[p] = u
        /\ \A x \in Probes \ {p} : reader'[x] = reader[x]
        /\ queue'[u] = queue[u] \cup {p}
        /\ \A v \in Users \ {u} : queue'[v] = queue[v]
    BY <1>0, <2>1
  <2>5. QED
    BY <1>0, <2>1, <2>2, <2>3, <2>4
<1>5. ASSUME NEW u \in Users, NEW p \in Posts, Deliver(u, p) PROVE TestsSound'
  <2>1. /\ queue' = [queue EXCEPT ![u] = @ \cup {p}] /\ p \notin Probes
        /\ UNCHANGED <<reader, tested, req>>
    BY <1>5, PostsAssumption DEF Deliver, postgresVars, history
  <2>2. \A v \in Users : queue'[v] \cap Probes = queue[v] \cap Probes
    BY <1>0, <2>1
  <2>3. QED
    BY <1>1, <2>1, <2>2
<1>6. ASSUME NEW r \in Requests, RequestStep(r), ~ClaimPost(r), ~AnswerProbe(r) PROVE TestsSound'
  <2>1. UNCHANGED <<queue, reader, tested>>
    BY <1>6 DEF RequestStep, PayForPost, PublishPost, Announce, BeginReview, CommitReview, Earn,
      Forward, Abort, redisVars, postgresVars, history
  <2>2. \A s \in Requests : req'[s].pc = "answer" => req'[s] = req[s]
    <3>1. ASSUME NEW q, q.pc # "answer", req' = [req EXCEPT ![r] = q]
          PROVE  \A s \in Requests : req'[s].pc = "answer" => req'[s] = req[s]
      BY <1>0, <3>1
    <3>2. ASSUME NEW u \in Publishers, NEW price \in Prices, PayForPost(r, u, price)
          PROVE  \E q : q.pc # "answer" /\ req' = [req EXCEPT ![r] = q]
      BY <3>2 DEF PayForPost, Idle
    <3>3. ASSUME NEW p \in Posts, PublishPost(r, p)
          PROVE  req'[r].pc = "announce" /\ \A s \in Requests \ {r} : req'[s] = req[s]
      BY <1>0, <3>3 DEF PublishPost, Request
    <3>4. ASSUME NEW u \in Users, NEW p \in Posts \cup Probes, NEW kind \in Kinds,
                 NEW gift \in BOOLEAN, BeginReview(r, u, p, kind, gift)
          PROVE  \E q : q.pc # "answer" /\ req' = [req EXCEPT ![r] = q]
      BY <3>4 DEF BeginReview
    <3>5. ASSUME Announce(r) \/ CommitReview(r) \/ Earn(r) \/ Forward(r) \/ Abort(r)
          PROVE  Finish(r) \/ \E c \in {"earn", "forward"} : Goto(r, c)
      BY <3>5 DEF Announce, CommitReview, Earn, Forward, Abort
    <3>6. CASE Finish(r) \/ \E c \in {"earn", "forward"} : Goto(r, c)
      BY <3>6, MoveFinish, MoveGoto
    <3>7. QED
      BY <1>6, <3>1, <3>2, <3>3, <3>4, <3>5, <3>6 DEF RequestStep
  <2>3. QED
    BY <1>1, <2>1, <2>2
<1>7. CASE UNCHANGED vars
  BY <1>1, <1>7 DEF vars, redisVars, postgresVars, history
<1>8. QED
  BY <1>2, <1>3, <1>4, <1>5, <1>6, <1>7 DEF Next

---------------------------------------------------------------------------
(* The books *)

TestedFinite == IsFiniteSet(tested)

LEMMA TestedStep == TestedFinite /\ [Next]_vars => TestedFinite'
<1> SUFFICES ASSUME TestedFinite, [Next]_vars PROVE TestedFinite'
  OBVIOUS
<1>1. tested' = tested \/ \E p : tested' = tested \cup {p}
  <2>1. ASSUME NEW r \in Requests, RequestStep(r), ~AnswerProbe(r) PROVE tested' = tested
    BY <2>1 DEF RequestStep, PayForPost, PublishPost, Announce, BeginReview, ClaimPost,
      CommitReview, Earn, Forward, Abort, history
  <2>2. ASSUME NEW r \in Requests, AnswerProbe(r) PROVE tested' = tested \cup {req[r].post}
    BY <2>2 DEF AnswerProbe
  <2>3. ASSUME NEW u, NEW p, Deliver(u, p) \/ DeliverProbe(u, p) PROVE tested' = tested
    BY <2>3 DEF Deliver, DeliverProbe, history
  <2>4. CASE UNCHANGED vars
    BY <2>4 DEF vars, history
  <2>5. QED
    BY <2>1, <2>2, <2>3, <2>4 DEF Next
<1>2. QED
  BY <1>1, FS_AddElement DEF TestedFinite

\* The token of a review in progress goes to somebody.
LEMMA PayeeIsUser ==
  ASSUME TypeInv, AuthorsKnown, NEW r \in Requests, req[r].pc \in ReviewCalls
  PROVE  Payee(req[r]) \in Users
BY RequestType DEF RequestSound, AuthorsKnown, Payee, ReviewCalls

\* A step that ends or begins no debt, and takes an author or a reader from nobody.
LEMMA SameDebts ==
  ASSUME TypeInv, AuthorsKnown, TestsSound,
         \A s \in Requests : req'[s] = req[s] \/ (req'[s].pc # "earn" /\ req[s].pc # "earn"),
         \A p \in Posts : author[p] \in Users => author'[p] = author[p],
         \A p \in Probes : reader[p] \in Users => reader'[p] = reader[p],
         UNCHANGED <<reviews, tested>>,
         NEW u \in Users
  PROVE  /\ Owed(u)' = Owed(u)
         /\ KeptBy(u)' = KeptBy(u)
         /\ GiftedTo(u)' = GiftedTo(u)
         /\ TestsOf(u)' = TestsOf(u)
<1>1. Owed(u)' = Owed(u)
  <2>1. ASSUME NEW r \in Requests
        PROVE  (req'[r].pc = "earn" /\ Payee(req[r])' = u) <=> (req[r].pc = "earn" /\ Payee(req[r]) = u)
    <3>1. CASE req'[r].pc # "earn" /\ req[r].pc # "earn"
      BY <3>1
    <3>2. CASE req'[r] = req[r] /\ req[r].pc = "earn"
      <4>1. req[r].gift => author'[req[r].post] = author[req[r].post]
        BY <3>2, RequestType DEF RequestSound, AuthorsKnown, ReviewCalls
      <4>2. QED
        BY <3>2, <4>1 DEF Payee
    <3>3. QED
      BY <3>1, <3>2
  <2>2. QED
    BY <2>1 DEF Owed, At
<1>2. KeptBy(u)' = KeptBy(u)
  BY DEF KeptBy
<1>3. GiftedTo(u)' = GiftedTo(u)
  BY DEF GiftedTo, AuthorsKnown, TypeInv, TypeOK, Review
<1>4. TestsOf(u)' = TestsOf(u)
  BY DEF TestsOf, TestsSound, TypeInv, TypeOK
<1>5. QED
  BY <1>1, <1>2, <1>3, <1>4

\* The four sets are finite, so their cardinalities can be added and compared.
LEMMA BooksType ==
  ASSUME TypeInv, ReviewsFinite, TestedFinite, NEW u \in Users
  PROVE  /\ tokens[u] \in Nat /\ spent[u] \in Nat /\ forgone[u] \in Nat
         /\ IsFiniteSet(Owed(u)) /\ Cardinality(Owed(u)) \in Nat
         /\ IsFiniteSet(KeptBy(u)) /\ Cardinality(KeptBy(u)) \in Nat
         /\ IsFiniteSet(GiftedTo(u)) /\ Cardinality(GiftedTo(u)) \in Nat
         /\ IsFiniteSet(TestsOf(u)) /\ Cardinality(TestsOf(u)) \in Nat
<1>1. /\ Owed(u) \subseteq Requests
      /\ KeptBy(u) \subseteq reviews
      /\ GiftedTo(u) \subseteq reviews
      /\ TestsOf(u) \subseteq tested
  BY DEF Owed, KeptBy, GiftedTo, TestsOf
<1>2. /\ IsFiniteSet(Owed(u))
      /\ IsFiniteSet(KeptBy(u))
      /\ IsFiniteSet(GiftedTo(u))
      /\ IsFiniteSet(TestsOf(u))
  BY <1>1, RequestsAssumption, FS_Subset DEF ReviewsFinite, TestedFinite
<1>3. /\ Cardinality(Owed(u)) \in Nat
      /\ Cardinality(KeptBy(u)) \in Nat
      /\ Cardinality(GiftedTo(u)) \in Nat
      /\ Cardinality(TestsOf(u)) \in Nat
  BY <1>2, FS_CardinalityType
<1>4. tokens[u] \in Nat /\ spent[u] \in Nat /\ forgone[u] \in Nat
  BY DEF TypeInv, TypeOK
<1>5. QED
  BY <1>2, <1>3, <1>4

\* A step after which nobody has come into or lost a token: debts are as SameDebts says.
LEMMA SameBooks ==
  ASSUME TypeInv, AuthorsKnown, TestsSound, BalanceExact,
         \A s \in Requests : req'[s] = req[s] \/ (req'[s].pc # "earn" /\ req[s].pc # "earn"),
         \A p \in Posts : author[p] \in Users => author'[p] = author[p],
         \A p \in Probes : reader[p] \in Users => reader'[p] = reader[p],
         UNCHANGED <<reviews, tested>>,
         \A u \in Users : tokens'[u] + spent'[u] + forgone'[u] = tokens[u] + spent[u] + forgone[u]
  PROVE  BalanceExact'
<1>1. ASSUME NEW u \in Users
      PROVE  /\ Owed(u)' = Owed(u)
             /\ KeptBy(u)' = KeptBy(u)
             /\ GiftedTo(u)' = GiftedTo(u)
             /\ TestsOf(u)' = TestsOf(u)
  BY SameDebts
<1>2. QED
  BY <1>1 DEF BalanceExact

\* A request that starts to owe its payee a token, having recorded what for.
LEMMA NewDebt ==
  ASSUME TypeInv, AuthorsKnown, TestsSound, NEW r \in Requests,
         req[r].pc \in ReviewCalls \ {"earn"}, Goto(r, "earn"), author' = author, NEW u \in Users
  PROVE  Owed(u)' = (IF u = Payee(req[r]) THEN Owed(u) \cup {r} ELSE Owed(u)) /\ r \notin Owed(u)
<1>1. /\ \A s \in Requests \ {r} : req'[s] = req[s]
      /\ req'[r].pc = "earn" /\ req'[r].user = req[r].user
      /\ req'[r].post = req[r].post /\ req'[r].gift = req[r].gift
  BY MoveGoto
<1>2. QED
  BY <1>1 DEF Owed, At, Payee

\* A request that stops owing it.
LEMMA DebtEnds ==
  ASSUME TypeInv, NEW r \in Requests, req[r].pc = "earn", author' = author,
         req'[r].pc # "earn", \A s \in Requests \ {r} : req'[s] = req[s], NEW u \in Users
  PROVE  /\ Owed(u)' = Owed(u) \ {r}
         /\ r \in Owed(u) <=> u = Payee(req[r])
BY DEF Owed, At, Payee

BookInv == ReviewsFinite /\ TestedFinite /\ AuthorsKnown /\ TestsSound /\ BalanceExact

\* A review is recorded: its row and the debt for it appear together.
LEMMA BooksRecord ==
  ASSUME TypeInv, BookInv, NEW r \in Requests, Records(r)
  PROVE  BalanceExact'
<1> USE DEF BookInv
<1> DEFINE q == req[r]
           x == RowOf(q)
<1>1. /\ reviews' = reviews \cup {x} /\ x \notin reviews
      /\ x.user = q.user /\ x.post = q.post /\ x.gifted = q.gift
      /\ UNCHANGED <<author, tokens, spent, forgone, tested, reader>>
  BY NewRow DEF Records, redisVars, history
<1>2. \A u \in Users : Owed(u)' = (IF u = Payee(q) THEN Owed(u) \cup {r} ELSE Owed(u)) /\ r \notin Owed(u)
  BY NewDebt DEF Records, At, ReviewCalls
<1>3. q.gift \in BOOLEAN
  BY RequestType
<1>4. Payee(q) = IF q.gift THEN author[q.post] ELSE q.user
  BY DEF Payee
<1> HIDE DEF q, x
<1>5. ASSUME NEW u \in Users
      PROVE  /\ KeptBy(u)' = IF u = q.user /\ ~q.gift THEN KeptBy(u) \cup {x} ELSE KeptBy(u)
             /\ GiftedTo(u)' = IF q.gift /\ author[q.post] = u THEN GiftedTo(u) \cup {x} ELSE GiftedTo(u)
             /\ TestsOf(u)' = TestsOf(u)
             /\ x \notin KeptBy(u) /\ x \notin GiftedTo(u)
  BY <1>1, <1>3 DEF KeptBy, GiftedTo, TestsOf
<1>6. ASSUME NEW u \in Users
      PROVE  tokens[u] + spent[u] + forgone[u] + Cardinality(Owed(u)')
               = StartingTokens + Cardinality(KeptBy(u)') + Cardinality(GiftedTo(u)')
                   + Cardinality(TestsOf(u)')
  <2>1. /\ tokens[u] \in Nat /\ spent[u] \in Nat /\ forgone[u] \in Nat
        /\ IsFiniteSet(Owed(u)) /\ Cardinality(Owed(u)) \in Nat
        /\ IsFiniteSet(KeptBy(u)) /\ Cardinality(KeptBy(u)) \in Nat
        /\ IsFiniteSet(GiftedTo(u)) /\ Cardinality(GiftedTo(u)) \in Nat
        /\ Cardinality(TestsOf(u)) \in Nat
    BY BooksType
  <2>2. /\ Cardinality(Owed(u) \cup {r}) = Cardinality(Owed(u)) + 1
        /\ Cardinality(KeptBy(u) \cup {x}) = Cardinality(KeptBy(u)) + 1
        /\ Cardinality(GiftedTo(u) \cup {x}) = Cardinality(GiftedTo(u)) + 1
    BY <1>2, <1>5, <2>1, FS_AddElement
  <2>3. tokens[u] + spent[u] + forgone[u] + Cardinality(Owed(u))
          = StartingTokens + Cardinality(KeptBy(u)) + Cardinality(GiftedTo(u)) + Cardinality(TestsOf(u))
    BY DEF BalanceExact
  <2>4. TestsOf(u)' = TestsOf(u)
    BY <1>5
  <2>5. CASE u = Payee(q)
    <3> DEFINE a == tokens[u] + spent[u] + forgone[u]
               o == Cardinality(Owed(u))
               k == Cardinality(KeptBy(u))
               g == Cardinality(GiftedTo(u))
               t == Cardinality(TestsOf(u))
    <3>1. a \in Nat /\ o \in Nat /\ k \in Nat /\ g \in Nat /\ t \in Nat
      BY <2>1
    <3>2. a + o = StartingTokens + k + g + t
      BY <2>3
    <3>3. /\ Cardinality(Owed(u)') = o + 1
          /\ Cardinality(TestsOf(u)') = t
          /\ \/ Cardinality(KeptBy(u)') = k /\ Cardinality(GiftedTo(u)') = g + 1
             \/ Cardinality(KeptBy(u)') = k + 1 /\ Cardinality(GiftedTo(u)') = g
      <4>1. CASE q.gift
        BY <1>2, <1>4, <1>5, <2>2, <2>4, <2>5, <4>1
      <4>2. CASE ~q.gift
        BY <1>2, <1>4, <1>5, <2>2, <2>4, <2>5, <4>2
      <4>3. QED
        BY <4>1, <4>2
    <3> HIDE DEF a, o, k, g, t
    <3>4. a + (o + 1) = StartingTokens + k + (g + 1) + t /\ a + (o + 1) = StartingTokens + (k + 1) + g + t
      BY <3>1, <3>2, StartingTokensAssumption
    <3>5. a + Cardinality(Owed(u)')
            = StartingTokens + Cardinality(KeptBy(u)') + Cardinality(GiftedTo(u)') + Cardinality(TestsOf(u)')
      BY <3>3, <3>4
    <3>6. QED
      BY <3>5 DEF a
  <2>6. CASE u # Payee(q)
    <3>1. Owed(u)' = Owed(u) /\ KeptBy(u)' = KeptBy(u) /\ GiftedTo(u)' = GiftedTo(u)
      BY <1>2, <1>3, <1>4, <1>5, <2>6
    <3>2. QED
      BY <2>3, <2>4, <3>1
  <2>7. QED
    BY <2>5, <2>6
<1>7. QED
  BY <1>1, <1>6 DEF BalanceExact

\* A test is answered: it counts from now on, and the debt appears with it.
LEMMA BooksAnswer ==
  ASSUME TypeInv, BookInv, NEW r \in Requests, AnswerProbe(r)
  PROVE  BalanceExact'
<1> USE DEF BookInv
<1> DEFINE q == req[r]
<1>1. /\ tested' = tested \cup {q.post} /\ q.post \notin tested /\ reader[q.post] = q.user
      /\ q.post \in Probes /\ q.pc = "answer" /\ ~q.gift
      /\ UNCHANGED <<author, reviews, reader, tokens, spent, forgone>>
  BY RequestType, PostsAssumption
    DEF AnswerProbe, At, redisVars, postgresVars, RequestSound, ReviewCalls, TestsSound
<1>2. \A u \in Users : Owed(u)' = (IF u = q.user THEN Owed(u) \cup {r} ELSE Owed(u)) /\ r \notin Owed(u)
  <2>1. Payee(q) = q.user
    BY <1>1 DEF Payee
  <2>2. Goto(r, "earn")
    BY DEF AnswerProbe
  <2>3. QED
    BY <1>1, <2>1, <2>2, NewDebt DEF ReviewCalls
<1> HIDE DEF q
<1>3. ASSUME NEW u \in Users
      PROVE  /\ KeptBy(u)' = KeptBy(u)
             /\ GiftedTo(u)' = GiftedTo(u)
             /\ TestsOf(u)' = (IF u = q.user THEN TestsOf(u) \cup {q.post} ELSE TestsOf(u))
             /\ q.post \notin TestsOf(u)
  BY <1>1 DEF KeptBy, GiftedTo, TestsOf
<1>4. ASSUME NEW u \in Users
      PROVE  tokens[u] + spent[u] + forgone[u] + Cardinality(Owed(u)')
               = StartingTokens + Cardinality(KeptBy(u)') + Cardinality(GiftedTo(u)')
                   + Cardinality(TestsOf(u)')
  <2>1. tokens[u] + spent[u] + forgone[u] + Cardinality(Owed(u))
          = StartingTokens + Cardinality(KeptBy(u)) + Cardinality(GiftedTo(u)) + Cardinality(TestsOf(u))
    BY DEF BalanceExact
  <2>2. CASE u # q.user
    BY <1>2, <1>3, <2>1, <2>2
  <2>3. CASE u = q.user
    <3> DEFINE a == tokens[u] + spent[u] + forgone[u]
               o == Cardinality(Owed(u))
               k == Cardinality(KeptBy(u))
               g == Cardinality(GiftedTo(u))
               t == Cardinality(TestsOf(u))
    <3>1. a \in Nat /\ o \in Nat /\ k \in Nat /\ g \in Nat /\ t \in Nat
      BY BooksType
    <3>2. a + o = StartingTokens + k + g + t
      BY <2>1
    <3>3. /\ Cardinality(Owed(u)') = o + 1 /\ Cardinality(TestsOf(u)') = t + 1
          /\ Cardinality(KeptBy(u)') = k /\ Cardinality(GiftedTo(u)') = g
      <4>1. IsFiniteSet(Owed(u)) /\ IsFiniteSet(TestsOf(u))
        BY BooksType
      <4>2. /\ Owed(u)' = Owed(u) \cup {r} /\ r \notin Owed(u)
            /\ TestsOf(u)' = TestsOf(u) \cup {q.post} /\ q.post \notin TestsOf(u)
            /\ KeptBy(u)' = KeptBy(u) /\ GiftedTo(u)' = GiftedTo(u)
        BY <1>2, <1>3, <2>3
      <4>3. /\ Cardinality(Owed(u) \cup {r}) = o + 1
            /\ Cardinality(TestsOf(u) \cup {q.post}) = t + 1
        BY <4>1, <4>2, FS_AddElement
      <4>4. QED
        BY <4>2, <4>3
    <3> HIDE DEF a, o, k, g, t
    <3>4. a + Cardinality(Owed(u)')
            = StartingTokens + Cardinality(KeptBy(u)') + Cardinality(GiftedTo(u)') + Cardinality(TestsOf(u)')
      BY <3>1, <3>2, <3>3, StartingTokensAssumption
    <3>5. QED
      BY <3>4 DEF a
  <2>4. QED
    BY <2>2, <2>3
<1>5. QED
  BY <1>1, <1>4 DEF BalanceExact

\* The debt is paid, or lost with the request: one token for one debt.
LEMMA BooksSettle ==
  ASSUME TypeInv, BookInv, NEW r \in Requests, req[r].pc = "earn", Earn(r) \/ Abort(r)
  PROVE  BalanceExact'
<1> USE DEF BookInv
<1> DEFINE v == Payee(req[r])
<1>1. v \in Users
  BY PayeeIsUser DEF ReviewCalls
<1>2. /\ UNCHANGED <<author, reviews, reader, tested, spent>>
      /\ \/ tokens' = [tokens EXCEPT ![v] = @ + 1] /\ forgone' = forgone
         \/ forgone' = [forgone EXCEPT ![v] = @ + 1] /\ tokens' = tokens
  BY DEF Earn, Abort, At, redisVars, postgresVars, history
<1>3. req'[r].pc # "earn" /\ \A s \in Requests \ {r} : req'[s] = req[s]
  <2>1. Finish(r) \/ Goto(r, "forward")
    BY DEF Earn, Abort
  <2>2. QED
    BY <2>1, MoveFinish, MoveGoto
<1>4. \A u \in Users : Owed(u)' = Owed(u) \ {r} /\ (r \in Owed(u) <=> u = v)
  BY <1>2, <1>3, DebtEnds
<1> HIDE DEF v
<1>5. ASSUME NEW u \in Users
      PROVE  KeptBy(u)' = KeptBy(u) /\ GiftedTo(u)' = GiftedTo(u) /\ TestsOf(u)' = TestsOf(u)
  BY <1>2 DEF KeptBy, GiftedTo, TestsOf
<1>6. ASSUME NEW u \in Users
      PROVE  tokens'[u] + spent[u] + forgone'[u] + Cardinality(Owed(u)')
               = tokens[u] + spent[u] + forgone[u] + Cardinality(Owed(u))
  <2>0. tokens \in [Users -> Nat] /\ forgone \in [Users -> Nat]
    BY DEF TypeInv, TypeOK
  <2>1. CASE u # v
    <3>1. Owed(u)' = Owed(u)
      BY <1>4, <2>1
    <3>2. tokens'[u] = tokens[u] /\ forgone'[u] = forgone[u]
      BY <1>1, <1>2, <2>0, <2>1
    <3>3. QED
      BY <3>1, <3>2
  <2>2. CASE u = v
    <3> DEFINE a == tokens[u]
               b == spent[u]
               c == forgone[u]
               o == Cardinality(Owed(u))
    <3>1. a \in Nat /\ b \in Nat /\ c \in Nat /\ o \in Nat
      BY BooksType
    <3>2. o = Cardinality(Owed(u)') + 1 /\ Cardinality(Owed(u)') \in Nat
      <4>1. IsFiniteSet(Owed(u)) /\ r \in Owed(u)
        BY <1>4, <2>2, BooksType
      <4>2. /\ Cardinality(Owed(u) \ {r}) = Cardinality(Owed(u)) - 1
            /\ IsFiniteSet(Owed(u) \ {r})
        BY <4>1, FS_RemoveElement
      <4>3. Cardinality(Owed(u) \ {r}) \in Nat
        BY <4>2, FS_CardinalityType
      <4>4. Owed(u)' = Owed(u) \ {r}
        BY <1>4
      <4>5. QED
        BY <3>1, <4>2, <4>3, <4>4
    <3>3. \/ tokens'[u] = a + 1 /\ forgone'[u] = c
          \/ tokens'[u] = a /\ forgone'[u] = c + 1
      BY <1>1, <1>2, <2>0, <2>2
    <3> HIDE DEF a, b, c, o
    <3>4. tokens'[u] + b + forgone'[u] + Cardinality(Owed(u)') = a + b + c + o
      BY <3>1, <3>2, <3>3
    <3>5. QED
      BY <3>4 DEF a, b, c, o
  <2>3. QED
    BY <2>1, <2>2
<1>7. QED
  BY <1>2, <1>5, <1>6 DEF BalanceExact

LEMMA BooksStep == TypeInv /\ BookInv /\ [Next]_vars => BalanceExact'
<1> SUFFICES ASSUME TypeInv, BookInv, [Next]_vars PROVE BalanceExact'
  OBVIOUS
<1>0. /\ AuthorsKnown /\ TestsSound /\ BalanceExact
      /\ author \in [Posts -> Users \cup {NoUser}]
      /\ reader \in [Probes -> Users \cup {NoUser}]
      /\ tokens \in [Users -> Nat] /\ spent \in [Users -> Nat]
      /\ req \in [Requests -> Request]
  BY DEF BookInv, TypeInv, TypeOK
<1>1. ASSUME \A s \in Requests : req'[s] = req[s] \/ (req'[s].pc # "earn" /\ req[s].pc # "earn"),
             author' = author \/ \E p \in Posts : \E v : author[p] = NoUser /\ author' = [author EXCEPT ![p] = v],
             reader' = reader \/ \E p \in Probes : \E v : reader[p] = NoUser /\ reader' = [reader EXCEPT ![p] = v],
             UNCHANGED <<reviews, tested>>,
             \A u \in Users : tokens'[u] + spent'[u] + forgone'[u] = tokens[u] + spent[u] + forgone[u]
      PROVE  BalanceExact'
  <2>1. \A p \in Posts : author[p] \in Users => author'[p] = author[p]
    BY <1>0, <1>1, NoUserAssumption
  <2>2. \A p \in Probes : reader[p] \in Users => reader'[p] = reader[p]
    BY <1>0, <1>1, NoUserAssumption
  <2>3. QED
    BY <1>0, <1>1, <2>1, <2>2, SameBooks
<1>2. ASSUME NEW r \in Requests, NEW u \in Publishers, NEW price \in Prices, PayForPost(r, u, price)
      PROVE  BalanceExact'
  <2>1. /\ \A s \in Requests : req'[s] = req[s] \/ (req'[s].pc # "earn" /\ req[s].pc # "earn")
        /\ UNCHANGED <<author, reader, reviews, tested, forgone>>
    BY <1>0, <1>2 DEF PayForPost, At, Idle, postgresVars
  <2>2. ASSUME NEW v \in Users
        PROVE  tokens'[v] + spent'[v] + forgone[v] = tokens[v] + spent[v] + forgone[v]
    <3>1. u \in Users /\ price \in Nat /\ forgone[v] \in Nat /\ tokens[v] \in Nat /\ spent[v] \in Nat
      BY <1>0, UsersAssumption, PricesAssumption DEF TypeInv, TypeOK
    <3>2. CASE UNCHANGED <<tokens, spent>>
      BY <3>2
    <3>3. CASE /\ tokens[u] >= price
               /\ tokens' = [tokens EXCEPT ![u] = @ - price]
               /\ spent' = [spent EXCEPT ![u] = @ + price]
      <4>1. CASE u = v
        BY <1>0, <3>1, <3>3, <4>1
      <4>2. CASE u # v
        BY <1>0, <3>1, <3>3, <4>2
      <4>3. QED
        BY <4>1, <4>2
    <3>4. QED
      BY <1>2, <3>2, <3>3 DEF PayForPost, Spend
  <2>3. QED
    BY <1>1, <2>1, <2>2
<1>3. ASSUME NEW r \in Requests, NEW p \in Posts, PublishPost(r, p) PROVE BalanceExact'
  <2>1. \A s \in Requests : req'[s] = req[s] \/ (req'[s].pc # "earn" /\ req[s].pc # "earn")
    BY <1>0, <1>3 DEF PublishPost, At, Request
  <2>2. author[p] = NoUser /\ author' = [author EXCEPT ![p] = req[r].user]
    BY <1>3 DEF PublishPost
  <2>3. UNCHANGED <<tokens, spent, forgone, reader, reviews, tested>>
    BY <1>3 DEF PublishPost, redisVars, history
  <2>4. QED
    BY <1>1, <2>1, <2>2, <2>3
<1>4. ASSUME NEW r \in Requests, NEW u \in Users, NEW p \in Posts \cup Probes,
             NEW kind \in Kinds, NEW gift \in BOOLEAN, BeginReview(r, u, p, kind, gift)
      PROVE  BalanceExact'
  <2>1. \A s \in Requests : req'[s] = req[s] \/ (req'[s].pc # "earn" /\ req[s].pc # "earn")
    BY <1>0, <1>4 DEF BeginReview, At
  <2>2. UNCHANGED <<tokens, spent, forgone, author, reader, reviews, tested>>
    BY <1>4 DEF BeginReview, redisVars, postgresVars, history
  <2>3. QED
    BY <1>1, <2>1, <2>2
<1>5. ASSUME NEW r \in Requests, req[r].pc # "earn",
             ClaimPost(r) \/ Announce(r) \/ Forward(r) \/ Abort(r)
               \/ (CommitReview(r) /\ AlreadyReviewed(req[r].user, req[r].post))
      PROVE  BalanceExact'
  <2>1. Finish(r) \/ \E c \in {"answer", "commit"} : Goto(r, c)
    BY <1>5 DEF ClaimPost, Announce, Forward, Abort, CommitReview
  <2>2. \A s \in Requests : req'[s] = req[s] \/ (req'[s].pc # "earn" /\ req[s].pc # "earn")
    BY <1>5, <2>1, MoveFinish, MoveGoto
  <2>3. UNCHANGED <<tokens, spent, forgone, author, reader, reviews, tested>>
    BY <1>5 DEF ClaimPost, Announce, Forward, Abort, CommitReview, At, redisVars, postgresVars, history
  <2>4. QED
    BY <1>1, <2>2, <2>3
<1>6. ASSUME NEW r \in Requests, CommitReview(r), ~AlreadyReviewed(req[r].user, req[r].post)
      PROVE  BalanceExact'
  <2>1. Records(r)
    BY <1>6 DEF CommitReview, Records
  <2>2. QED
    BY <2>1, BooksRecord
<1>7. ASSUME NEW u, NEW p \in Posts, Deliver(u, p) PROVE BalanceExact'
  BY <1>1, <1>7 DEF Deliver, postgresVars, history
<1>8. ASSUME NEW u, NEW p \in Probes, DeliverProbe(u, p) PROVE BalanceExact'
  <2>1. reader[p] = NoUser /\ reader' = [reader EXCEPT ![p] = u]
    BY <1>8 DEF DeliverProbe
  <2>2. UNCHANGED <<tokens, spent, forgone, author, reviews, tested, req>>
    BY <1>8 DEF DeliverProbe, history
  <2>3. QED
    BY <1>1, <2>1, <2>2
<1>9. CASE UNCHANGED vars
  BY <1>1, <1>9 DEF vars, redisVars, postgresVars, history
<1>10. ASSUME NEW r \in Requests, RequestStep(r) PROVE BalanceExact'
  <2>1. CASE req[r].pc = "earn"
    <3>1. Earn(r) \/ Abort(r)
      BY <1>10, <2>1 DEF RequestStep, PayForPost, PublishPost, Announce, BeginReview, ClaimPost,
        AnswerProbe, CommitReview, Forward, At
    <3>2. QED
      BY <2>1, <3>1, BooksSettle
  <2>2. CASE req[r].pc # "earn"
    <3>1. ~Earn(r)
      BY <2>2 DEF Earn, At
    <3>2. ASSUME CommitReview(r) PROVE BalanceExact'
      BY <2>2, <3>2, <1>5, <1>6
    <3>3. ASSUME AnswerProbe(r) PROVE BalanceExact'
      BY <3>3, BooksAnswer
    <3>4. QED
      BY <1>10, <2>2, <3>1, <3>2, <3>3, <1>2, <1>3, <1>4, <1>5, Zenon DEF RequestStep
  <2>3. QED
    BY <2>1, <2>2
<1>11. QED
  BY <1>7, <1>8, <1>9, <1>10 DEF Next

\* Every token is accounted for, whatever requests overlap, fail or are repeated and
\* whatever is delivered twice: the books of every user balance.
THEOREM BooksBalance == Spec => []BalanceExact
<1>1. Init => BookInv
  <2>1. ASSUME Init PROVE AuthorsKnown /\ TestsSound
    BY <2>1 DEF Init, AuthorsKnown, TestsSound, At, Idle, ReviewCalls
  <2>2. ASSUME Init PROVE ReviewsFinite /\ TestedFinite
    BY <2>2, FS_EmptySet DEF Init, ReviewsFinite, TestedFinite
  <2>3. ASSUME Init, NEW u \in Users
        PROVE  /\ Owed(u) = {} /\ KeptBy(u) = {} /\ GiftedTo(u) = {} /\ TestsOf(u) = {}
               /\ tokens[u] = StartingTokens /\ spent[u] = 0 /\ forgone[u] = 0
    BY <2>3 DEF Init, Owed, KeptBy, GiftedTo, TestsOf, At, Idle
  <2>4. Cardinality({}) = 0
    BY FS_EmptySet
  <2>5. ASSUME Init PROVE BalanceExact
    BY <2>3, <2>4, <2>5, StartingTokensAssumption DEF BalanceExact
  <2>6. QED
    BY <2>1, <2>2, <2>5 DEF BookInv
<1>2. TypeInv /\ BookInv /\ [Next]_vars => BookInv'
  BY FiniteStep, TestedStep, AuthorsStep, TestsStep, BooksStep DEF BookInv
<1>3. Spec => []BookInv
  BY <1>1, <1>2, TypeInvariant, PTL DEF Spec
<1>4. QED
  BY <1>3, PTL DEF BookInv
---------------------------------------------------------------------------
(* Operations *)

\* Requests that are going to enqueue an operation of p: one that has still to earn
\* for its forward is among them, since its row is already there.
Forthcoming(p) ==
    {r \in Requests : /\ req[r].post = p
                      /\ \/ req[r].pc \in {"announce", "forward"}
                         \/ req[r].pc = "earn" /\ req[r].kind = "forward"}
Publications(p) == IF author[p] = NoUser THEN 0 ELSE 1
ForwardsOf(p) == OfKind(p, "forward")

OpsCovered ==
    \A p \in Posts :
        ops[p] + Cardinality(Forthcoming(p)) <= Publications(p) + Cardinality(ForwardsOf(p))

LEMMA OpsType ==
  ASSUME TypeInv, ReviewsFinite, NEW p \in Posts
  PROVE  /\ ops[p] \in Nat /\ Publications(p) \in Nat
         /\ IsFiniteSet(Forthcoming(p)) /\ Cardinality(Forthcoming(p)) \in Nat
         /\ IsFiniteSet(ForwardsOf(p)) /\ Cardinality(ForwardsOf(p)) \in Nat
<1>1. Forthcoming(p) \subseteq Requests /\ ForwardsOf(p) \subseteq reviews
  BY DEF Forthcoming, ForwardsOf, OfKind
<1>2. IsFiniteSet(Forthcoming(p)) /\ IsFiniteSet(ForwardsOf(p))
  BY <1>1, RequestsAssumption, FS_Subset DEF ReviewsFinite
<1>3. Cardinality(Forthcoming(p)) \in Nat /\ Cardinality(ForwardsOf(p)) \in Nat
  BY <1>2, FS_CardinalityType
<1>4. ops[p] \in Nat /\ Publications(p) \in Nat
  BY DEF TypeInv, TypeOK, Publications
<1>5. QED
  BY <1>2, <1>3, <1>4

OpInv == ReviewsFinite /\ AuthorsKnown /\ OpsCovered

\* A step that enqueues and records nothing, and after which no more is forthcoming.
LEMMA OpsKeptBack ==
  ASSUME TypeInv, OpInv, UNCHANGED <<ops, reviews>>,
         \A p \in Posts : author[p] # NoUser => author'[p] # NoUser,
         \A p \in Posts : Forthcoming(p)' \subseteq Forthcoming(p)
  PROVE  OpsCovered'
<1>1. ASSUME NEW p \in Posts
      PROVE  ops'[p] + Cardinality(Forthcoming(p)') <= Publications(p)' + Cardinality(ForwardsOf(p)')
  <2>1. /\ ops[p] \in Nat /\ Publications(p) \in Nat
        /\ IsFiniteSet(Forthcoming(p)) /\ Cardinality(Forthcoming(p)) \in Nat
        /\ Cardinality(ForwardsOf(p)) \in Nat
    BY OpsType DEF OpInv
  <2>2. /\ Cardinality(Forthcoming(p)') \in Nat
        /\ Cardinality(Forthcoming(p)') <= Cardinality(Forthcoming(p))
    BY <2>1, FS_Subset, FS_CardinalityType
  <2>3. Publications(p)' \in Nat /\ Publications(p) <= Publications(p)'
    BY DEF Publications
  <2>4. ops'[p] = ops[p] /\ ForwardsOf(p)' = ForwardsOf(p)
    BY DEF ForwardsOf, OfKind
  <2>5. ops[p] + Cardinality(Forthcoming(p)) <= Publications(p) + Cardinality(ForwardsOf(p))
    BY DEF OpInv, OpsCovered
  <2>6. QED
    BY <2>1, <2>2, <2>3, <2>4, <2>5
<1>2. QED
  BY <1>1 DEF OpsCovered

\* A request that goes idle takes nothing with it that others rely on.
LEMMA FinishForgets ==
  ASSUME TypeInv, NEW r \in Requests, Finish(r), NEW p
  PROVE  Forthcoming(p)' = Forthcoming(p) \ {r}
BY MoveFinish DEF Forthcoming

\* The publication is what pays for the announcement.
LEMMA OpsPublish ==
  ASSUME TypeInv, OpInv, NEW r \in Requests, NEW q \in Posts, PublishPost(r, q)
  PROVE  OpsCovered'
<1>1. /\ req[r].pc = "publish" /\ req[r].user \in Users
      /\ author[q] = NoUser /\ author' = [author EXCEPT ![q] = req[r].user]
      /\ UNCHANGED <<ops, reviews>>
  BY RequestType DEF PublishPost, At, redisVars, RequestSound
<1>2. /\ \A s \in Requests \ {r} : req'[s] = req[s]
      /\ req'[r].pc = "announce" /\ req'[r].post = q
  BY RequestType DEF PublishPost, TypeInv, TypeOK, Request
<1>3. ASSUME NEW p \in Posts
      PROVE  ops'[p] + Cardinality(Forthcoming(p)') <= Publications(p)' + Cardinality(ForwardsOf(p)')
  <2>1. /\ ops[p] \in Nat /\ IsFiniteSet(Forthcoming(p))
        /\ Cardinality(Forthcoming(p)) \in Nat /\ Cardinality(ForwardsOf(p)) \in Nat
    BY OpsType DEF OpInv
  <2>2. ops[p] + Cardinality(Forthcoming(p)) <= Publications(p) + Cardinality(ForwardsOf(p))
    BY DEF OpInv, OpsCovered
  <2>3. ops'[p] = ops[p] /\ ForwardsOf(p)' = ForwardsOf(p)
    BY <1>1 DEF ForwardsOf, OfKind
  <2>4. CASE p = q
    <3>1. Forthcoming(p)' = Forthcoming(p) \cup {r} /\ r \notin Forthcoming(p)
      BY <1>1, <1>2, <2>4 DEF Forthcoming
    <3>2. Cardinality(Forthcoming(p)') = Cardinality(Forthcoming(p)) + 1
      BY <2>1, <3>1, FS_AddElement
    <3>3. Publications(p) = 0 /\ Publications(p)' = 1
      BY <1>1, <2>4, NoUserAssumption DEF Publications, TypeInv, TypeOK
    <3>4. QED
      BY <2>1, <2>2, <2>3, <3>2, <3>3
  <2>5. CASE p # q
    <3>1. Forthcoming(p)' = Forthcoming(p)
      BY <1>1, <1>2, <2>5 DEF Forthcoming
    <3>2. Publications(p)' = Publications(p)
      BY <1>1, <2>5 DEF Publications, TypeInv, TypeOK
    <3>3. QED
      BY <2>2, <2>3, <3>1, <3>2
  <2>6. QED
    BY <2>4, <2>5
<1>4. QED
  BY <1>3 DEF OpsCovered

\* A forward's row is what pays for the operation that follows it.
LEMMA OpsRecord ==
  ASSUME TypeInv, OpInv, NEW r \in Requests, Records(r)
  PROVE  OpsCovered'
<1> DEFINE q == req[r]
           x == RowOf(q)
<1>1. /\ reviews' = reviews \cup {x} /\ x \notin reviews
      /\ x.post = q.post /\ x.kind = q.kind /\ q.pc = "commit"
      /\ UNCHANGED <<author, ops>>
  BY NewRow DEF Records, At, redisVars
<1>2. /\ \A s \in Requests \ {r} : req'[s] = req[s]
      /\ req'[r].pc = "earn" /\ req'[r].post = q.post /\ req'[r].kind = q.kind
  BY MoveGoto DEF Records
<1> HIDE DEF q, x
<1>3. ASSUME NEW p \in Posts
      PROVE  ops'[p] + Cardinality(Forthcoming(p)') <= Publications(p)' + Cardinality(ForwardsOf(p)')
  <2>1. /\ ops[p] \in Nat /\ Publications(p) \in Nat
        /\ IsFiniteSet(Forthcoming(p)) /\ Cardinality(Forthcoming(p)) \in Nat
        /\ IsFiniteSet(ForwardsOf(p)) /\ Cardinality(ForwardsOf(p)) \in Nat
    BY OpsType DEF OpInv
  <2>2. ops[p] + Cardinality(Forthcoming(p)) <= Publications(p) + Cardinality(ForwardsOf(p))
    BY DEF OpInv, OpsCovered
  <2>3. ops'[p] = ops[p] /\ Publications(p)' = Publications(p)
    BY <1>1 DEF Publications
  <2>4. CASE p = q.post /\ q.kind = "forward"
    <3>1. Forthcoming(p)' = Forthcoming(p) \cup {r} /\ r \notin Forthcoming(p)
      BY <1>1, <1>2, <2>4 DEF Forthcoming, q
    <3>2. ForwardsOf(p)' = ForwardsOf(p) \cup {x} /\ x \notin ForwardsOf(p)
      BY <1>1, <2>4 DEF ForwardsOf, OfKind
    <3>3. /\ Cardinality(Forthcoming(p)') = Cardinality(Forthcoming(p)) + 1
          /\ Cardinality(ForwardsOf(p)') = Cardinality(ForwardsOf(p)) + 1
      BY <2>1, <3>1, <3>2, FS_AddElement
    <3>4. QED
      BY <2>1, <2>2, <2>3, <3>3
  <2>5. CASE p # q.post \/ q.kind # "forward"
    <3>1. Forthcoming(p)' = Forthcoming(p)
      BY <1>1, <1>2, <2>5 DEF Forthcoming, q
    <3>2. ForwardsOf(p)' = ForwardsOf(p)
      BY <1>1, <2>5 DEF ForwardsOf, OfKind
    <3>3. QED
      BY <2>2, <2>3, <3>1, <3>2
  <2>6. QED
    BY <2>4, <2>5
<1>4. QED
  BY <1>3 DEF OpsCovered

\* What was forthcoming is enqueued.
LEMMA OpsEnqueue ==
  ASSUME TypeInv, OpInv, NEW r \in Requests, Announce(r) \/ Forward(r)
  PROVE  OpsCovered'
<1> DEFINE q == req[r]
<1>1. /\ q.post \in Posts /\ q.pc \in {"announce", "forward"}
      /\ ops' = [ops EXCEPT ![q.post] = @ + 1] /\ Finish(r)
      /\ UNCHANGED <<author, reviews>>
  BY RequestType DEF Announce, Forward, At, EnqueueOperation, postgresVars, RequestSound
<1> HIDE DEF q
<1>2. ASSUME NEW p \in Posts
      PROVE  ops'[p] + Cardinality(Forthcoming(p)') <= Publications(p)' + Cardinality(ForwardsOf(p)')
  <2>1. /\ ops[p] \in Nat /\ Publications(p) \in Nat
        /\ IsFiniteSet(Forthcoming(p)) /\ Cardinality(Forthcoming(p)) \in Nat
        /\ Cardinality(ForwardsOf(p)) \in Nat
    BY OpsType DEF OpInv
  <2>2. ops[p] + Cardinality(Forthcoming(p)) <= Publications(p) + Cardinality(ForwardsOf(p))
    BY DEF OpInv, OpsCovered
  <2>3. ForwardsOf(p)' = ForwardsOf(p) /\ Publications(p)' = Publications(p)
    BY <1>1 DEF ForwardsOf, OfKind, Publications
  <2>4. Forthcoming(p)' = Forthcoming(p) \ {r}
    BY <1>1, FinishForgets
  <2>5. CASE p = q.post
    <3>1. r \in Forthcoming(p)
      BY <1>1, <2>5 DEF Forthcoming, q
    <3>2. Cardinality(Forthcoming(p)') = Cardinality(Forthcoming(p)) - 1
      BY <2>1, <2>4, <3>1, FS_RemoveElement
    <3>3. ops'[p] = ops[p] + 1
      BY <1>1, <2>5 DEF TypeInv, TypeOK
    <3>4. QED
      BY <2>1, <2>2, <2>3, <3>2, <3>3
  <2>6. CASE p # q.post
    <3>1. r \notin Forthcoming(p)
      BY <2>6 DEF Forthcoming, q
    <3>2. Forthcoming(p)' = Forthcoming(p)
      BY <2>4, <3>1
    <3>3. ops'[p] = ops[p]
      BY <1>1, <2>6 DEF TypeInv, TypeOK
    <3>4. QED
      BY <2>2, <2>3, <3>2, <3>3
  <2>7. QED
    BY <2>5, <2>6
<1>3. QED
  BY <1>2 DEF OpsCovered

LEMMA OpsStep == TypeInv /\ OpInv /\ [Next]_vars => OpsCovered'
<1> SUFFICES ASSUME TypeInv, OpInv, [Next]_vars PROVE OpsCovered'
  OBVIOUS
<1>0. req \in [Requests -> Request]
  BY DEF TypeInv, TypeOK
<1>1. ASSUME UNCHANGED <<ops, reviews, author>>,
             \A p \in Posts : Forthcoming(p)' \subseteq Forthcoming(p)
      PROVE  OpsCovered'
  BY <1>1, OpsKeptBack
<1>2. ASSUME NEW r \in Requests, Finish(r), UNCHANGED <<ops, reviews, author>> PROVE OpsCovered'
  BY <1>1, <1>2, FinishForgets
<1>3. ASSUME NEW r \in Requests, NEW u \in Publishers, NEW price \in Prices, PayForPost(r, u, price)
      PROVE  OpsCovered'
  <2>1. UNCHANGED <<ops, reviews, author>>
    BY <1>3 DEF PayForPost, postgresVars
  <2>2. /\ \A s \in Requests \ {r} : req'[s] = req[s]
        /\ req'[r].pc = "publish"
    BY <1>0, <1>3 DEF PayForPost, Idle
  <2>3. \A p \in Posts : Forthcoming(p)' \subseteq Forthcoming(p)
    BY <2>2 DEF Forthcoming
  <2>4. QED
    BY <1>1, <2>1, <2>3
<1>4. ASSUME NEW r \in Requests, NEW u \in Users, NEW q \in Posts \cup Probes,
             NEW kind \in Kinds, NEW gift \in BOOLEAN, BeginReview(r, u, q, kind, gift)
      PROVE  OpsCovered'
  <2>1. UNCHANGED <<ops, reviews, author>>
    BY <1>4 DEF BeginReview, redisVars, postgresVars
  <2>2. /\ \A s \in Requests \ {r} : req'[s] = req[s]
        /\ req'[r].pc = "claim"
    BY <1>0, <1>4 DEF BeginReview
  <2>3. \A p \in Posts : Forthcoming(p)' \subseteq Forthcoming(p)
    BY <2>2 DEF Forthcoming
  <2>4. QED
    BY <1>1, <2>1, <2>3
<1>5. ASSUME NEW r \in Requests, ClaimPost(r) PROVE OpsCovered'
  <2>1. UNCHANGED <<ops, reviews, author>>
    BY <1>5 DEF ClaimPost, postgresVars
  <2>2. Finish(r) \/ \E c \in {"answer", "commit"} : Goto(r, c)
    BY <1>5 DEF ClaimPost
  <2>3. ASSUME NEW c \in {"answer", "commit"}, Goto(r, c) PROVE OpsCovered'
    <3>1. \A p \in Posts : Forthcoming(p)' \subseteq Forthcoming(p)
      BY <2>3, MoveGoto DEF Forthcoming
    <3>2. QED
      BY <1>1, <2>1, <3>1
  <2>4. QED
    BY <1>2, <2>1, <2>2, <2>3
<1>6. ASSUME NEW r \in Requests, AnswerProbe(r) PROVE OpsCovered'
  <2>1. /\ UNCHANGED <<ops, reviews, author>>
        /\ Goto(r, "earn") /\ req[r].post \notin Posts
    BY <1>6, RequestType, PostsAssumption DEF AnswerProbe, At, redisVars, postgresVars, RequestSound
  <2>2. \A p \in Posts : Forthcoming(p)' \subseteq Forthcoming(p)
    BY <2>1, MoveGoto DEF Forthcoming
  <2>3. QED
    BY <1>1, <2>1, <2>2
<1>7. ASSUME NEW r \in Requests, CommitReview(r) PROVE OpsCovered'
  <2>1. CASE AlreadyReviewed(req[r].user, req[r].post)
    BY <1>2, <1>7, <2>1 DEF CommitReview, redisVars
  <2>2. CASE ~AlreadyReviewed(req[r].user, req[r].post)
    BY <1>7, <2>2, OpsRecord DEF CommitReview, Records
  <2>3. QED
    BY <2>1, <2>2
<1>8. ASSUME NEW r \in Requests, Earn(r) PROVE OpsCovered'
  <2>1. UNCHANGED <<ops, reviews, author>>
    BY <1>8 DEF Earn, postgresVars
  <2>2. CASE req[r].kind = "forward" /\ req[r].post \in Posts
    <3>1. Goto(r, "forward") /\ req[r].pc = "earn"
      BY <1>8, <2>2 DEF Earn, At
    <3>2. \A p \in Posts : Forthcoming(p)' \subseteq Forthcoming(p)
      BY <2>2, <3>1, MoveGoto DEF Forthcoming
    <3>3. QED
      BY <1>1, <2>1, <3>2
  <2>3. CASE ~(req[r].kind = "forward" /\ req[r].post \in Posts)
    BY <1>2, <1>8, <2>1, <2>3 DEF Earn
  <2>4. QED
    BY <2>2, <2>3
<1>9. ASSUME NEW r \in Requests, Abort(r) PROVE OpsCovered'
  BY <1>2, <1>9 DEF Abort, redisVars, postgresVars
<1>10. ASSUME UNCHANGED <<ops, reviews, author, req>> PROVE OpsCovered'
  BY <1>1, <1>10 DEF Forthcoming
<1>11. ASSUME NEW u, NEW p, Deliver(u, p) \/ DeliverProbe(u, p) PROVE OpsCovered'
  BY <1>10, <1>11 DEF Deliver, DeliverProbe, postgresVars
<1>12. CASE UNCHANGED vars
  BY <1>10, <1>12 DEF vars, redisVars, postgresVars
<1>13. ASSUME NEW r \in Requests, RequestStep(r) PROVE OpsCovered'
  BY <1>13, <1>3, <1>4, <1>5, <1>6, <1>7, <1>8, <1>9, OpsPublish, OpsEnqueue DEF RequestStep
<1>14. QED
  BY <1>11, <1>12, <1>13 DEF Next

LEMMA CoveredIsBacked == TypeInv /\ OpInv => OpsBacked
<1> SUFFICES ASSUME TypeInv, OpInv, NEW p \in Posts
             PROVE  ops[p] + Cardinality(Announcing(p)) <= Publications(p) + Cardinality(ForwardsOf(p))
  BY DEF OpsBacked, Publications, ForwardsOf, OfKind
<1>1. /\ ops[p] \in Nat /\ Publications(p) \in Nat
      /\ IsFiniteSet(Forthcoming(p)) /\ Cardinality(Forthcoming(p)) \in Nat
      /\ Cardinality(ForwardsOf(p)) \in Nat
  BY OpsType DEF OpInv
<1>2. Announcing(p) \subseteq Forthcoming(p)
  BY DEF Announcing, Forthcoming
<1>3. Cardinality(Announcing(p)) \in Nat /\ Cardinality(Announcing(p)) <= Cardinality(Forthcoming(p))
  BY <1>1, <1>2, FS_Subset, FS_CardinalityType
<1>4. ops[p] + Cardinality(Forthcoming(p)) <= Publications(p) + Cardinality(ForwardsOf(p))
  BY DEF OpInv, OpsCovered
<1>5. QED
  BY <1>1, <1>3, <1>4

\* A post never travels further than was paid for, for any number of overlapping,
\* repeated and failing requests: the operations enqueued by create_post and
\* review_post are at most one for the publication and one for each forward.
THEOREM OperationsBacked == Spec => []OpsBacked
<1>1. Init => OpInv
  <2>1. ASSUME Init PROVE AuthorsKnown
    BY <2>1 DEF Init, AuthorsKnown, Idle, ReviewCalls
  <2>2. ASSUME Init PROVE ReviewsFinite
    BY <2>2, FS_EmptySet DEF Init, ReviewsFinite
  <2>3. ASSUME Init, NEW p \in Posts
        PROVE  Forthcoming(p) = {} /\ ForwardsOf(p) = {} /\ ops[p] = 0 /\ Publications(p) = 0
    BY <2>3 DEF Init, Forthcoming, ForwardsOf, OfKind, Publications, Idle
  <2>4. Cardinality({}) = 0
    BY FS_EmptySet
  <2>5. ASSUME Init PROVE OpsCovered
    BY <2>3, <2>4, <2>5 DEF OpsCovered
  <2>6. QED
    BY <2>1, <2>2, <2>5 DEF OpInv
<1>2. TypeInv /\ OpInv /\ [Next]_vars => OpInv'
  BY FiniteStep, AuthorsStep, OpsStep DEF OpInv
<1>3. Spec => []OpInv
  BY <1>1, <1>2, TypeInvariant, PTL DEF Spec
<1>4. QED
  BY <1>3, CoveredIsBacked, TypeInvariant, PTL
=============================================================================
