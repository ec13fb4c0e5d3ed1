# A TLA+ model of the Kora feed backend

Kora is a social application without a ranked feed. A post is *fanned out*: an
operation in a Redis stream is picked up by a worker, which puts the post into the
queues of a few readers. A reader *forwards* or *drops* each post; every review
earns a token, a forward becomes a new operation, and publishing costs tokens. The
backend (`src/backend/app`) is FastAPI over Postgres and Redis, with any number of
API processes and feed workers and no lock between them.

What makes it correct is therefore the order of single Redis commands, Lua scripts
and Postgres commits. This directory models those orders, checks them with TLC and
proves the most important ones with TLAPS.

## Contents

| module | what it is |
| --- | --- |
| `FeedScripts` | the queue keys, and the Lua scripts `place`, `claim`, `ensure_free` |
| `FeedQueues` | fan-out into the queues: workers, readers, subscriptions, erasures, test posts. Extends `FeedScripts` |
| `FeedQueues_proofs` | nine theorems about `FeedQueues` |
| `OpDelivery` | abstract: what the pipeline promises about an operation |
| `OpStream` | the pipeline: stream, consumer group, `ops:retry`, the worker's loop. Implements `OpDelivery` |
| `OpStream_proofs` | five theorems about `OpStream` |
| `Reviews` | the token economy: `create_post` and `review_post` as requests that interleave and fail |
| `Reviews_proofs` | seven theorems about `Reviews` |
| `Pricing`, `Pricing_proofs` | the price functions, the snapshot, its refreshers, route prices, observed range; three theorems |
| `Trust` | a reader's trust score, its cache, the test posts that feed it |
| `Billing`, `Billing_proofs` | the supporter subscription beside Mollie; four theorems |
| `EmailVerification` | an account's address, its codes and their attempts |
| `SignIn` | passwords, reset codes, Google identities |
| `Accounts_proofs` | five theorems about `EmailVerification` and `SignIn` |
| `Audience` | the audience sets and their total, mirrored from Postgres |
| `RateLimit` | the sliding window and the budgets of every route |
| `Readers_proofs` | eleven theorems about `Trust`, `RateLimit` and `Audience` |
| `Media` | uploads: checks, ffmpeg, the bucket, the commit and what is left over |
| `Export` | an account export beside uploads. Extends `Media` |
| `Media_proofs` | five theorems about `Media` and `Export` |
| `MCFeedQueues`, `MCOpStream`, `MCReviews`, `MCServices` | instances for TLC; one `.cfg` per run |

`PROJECT.json` maps every definition to the lines it models and lists the runs, the
mutants that show each property to be breakable, the hazards and the findings.

## The system

Lines below are under `src/backend/app/`.

### Parts that carry the core logic

**Feed keys and scripts** (`feed/keys.py`, `feed/scripts.py`). State: `queue:{user}`,
`free_queue` (readers fan-out may select), `seen:{post}` (who it was delivered to),
`tokens:{user}`, `deleted:{post}` tombstones, `feed:ops`, `ops:retry`,
`feed:ops:outstanding`, the price keys. Operations: the scripts `place`, `claim`,
`ensure_free`, `spend`, `retire`, `price_range`. Correct when `free_queue` is exact and
nothing is delivered twice. Hard: the callers read one key and write another in a
later round trip.

**Fan-out worker** (`feed/worker.py`). State: the operation in memory only. A loop of
`reclaim_orphaned_operations`, `reschedule_due_retries`, `consume_once`; each operation
through `process_operation` and `_fan_out_and_retire`. Interacts with everything
through Redis. Correct when an operation survives any crash until it has an outcome,
and always gets one. Hard: crashes between any two commands, entries reclaimed while
they are still worked on, two sweeps of one sorted set.

**Feed service** (`feed/service.py`). The functions the API and the worker share:
enqueue, selection, exhaustion test, subscriptions, erasure, prices, rebuild. Correct
when the paid reach of an operation is not dropped while someone could read it, and
the Redis mirror of Postgres agrees with it.

**Posts and reviews** (`api/posts.py`). `create_post`: spend, store media, commit,
enqueue. `review_post`: claim, commit, earn, forward, perhaps mint a test post. State:
post and user rows and their counters, review rows, tokens. Correct when every token
and counter is accounted for. Hard: five systems in sequence without a transaction.

**Test posts and trust** (`core/probes.py`, `core/trust_service.py`, `core/trust.py`).
A review may mint a test post for its reader; answers feed a score that decides how
far a reader's forwards travel, cached in Redis. Hard: minting checks room, then does
Postgres work, then places; the cache is invalidated while it is being filled.

**Pricing** (`feed/pricing.py`, `feed/service.py` 214 to 499). State: `feed:price` (price
and expiry), a cached price per route, the range of prices observed. Every process steps
the price on a timer; a request that finds no snapshot publishes one. Correct when a price
shown with an expiry is the price charged until then, inside the bounds. Hard: several
refreshers at once, the snapshot and the route's price read separately, calls that take
longer than a window.

**Channels and languages** (`api/channels.py`, `api/users.py`, `feed/service.py` 952 to
1046). A reader's rows, mirrored into one Redis set per channel and language, and a running
total. Correct when sets and total are what the rows say. Hard: two requests commit in one
order and mirror in the other; a death between sets and total; a rebuild meanwhile.

**Billing** (`api/subscriptions.py`, `core/mollie.py`). Two rows of an account and what
Mollie holds. Checkout, cancel, webhook. Correct when nobody is charged for nothing and
nobody has the perk for nothing. Hard: webhooks late and repeated, no idempotency key, no
row lock, a renewal and a cancel that cross.

**Addresses, passwords, identities** (`core/email_verification.py`,
`core/password_reset.py`, `deps/users.py`, `api/google_auth.py` and the routes on them).
State: the user row, linked identities, codes and attempt counters in Redis. Correct when
`is_verified` is proof about the present address, a code is tried a few times and used
once, an identity is one account's, a linked account has no password. Hard: each request
works on the row it loaded, and SQLAlchemy writes only what differs from it.

**Uploads and exports** (`core/media_validation.py`, `core/storage.py`, `api/posts.py`,
`api/feedback.py`, `api/users.py`, `core/account_export.py`, `core/account_deletion.py`).
State: rows that name objects, the bucket, the ffmpeg slots. Correct when no row names a
missing object and nothing is left over. Hard: a bucket, a database and a process pool
without a transaction; PUTs that are retried after an answer was lost.

**Rate limits** (`core/rate_limit.py`). A sorted set per budget and one script. Correct
when no window holds more than the limit and `retry_after` is true.

### Parts without such logic

Usernames and tokens (fastapi-users and single-row updates), items, the banner, request
signing, configuration, models and migrations, the application shell, operator scripts,
the admin frontend and the landing site. `PROJECT.json` gives the reason for each.

### How they interact

    client -> create_post --spend--> tokens        Reviews
                  |  commit -> Postgres
                  +--XADD----> feed:ops ----------- OpStream
                                  |  XREADGROUP / XAUTOCLAIM
                               worker <--> ops:retry
                                  |  place           FeedQueues
                               queue:{user}, seen, free_queue
                                  |  claim
    client -> review_post --commit--> Postgres      Reviews
                  +--earn--> tokens;  forward --XADD--> feed:ops

The three models meet in three operations, and each sees the others through an action
that allows more than they do. `OpStream` lets a fan-out end in any outcome
(`FanOutEnds`, `ScheduleRetry`); `FeedQueues` lets a worker take an operation for any
post at any time (`TakeOp`), which contains every schedule of `OpStream`; `Reviews` lets
fan-out hand a post to any reader but its author any number of times (`Deliver`), which
contains what `FeedQueues` can do and the loss of a seen set besides.

The services beside the feed meet it in single values, and each is modelled with that value
coming from anywhere: `Pricing` reads queue and backlog counts, which may be any of `Loads`
at any moment (the counts of `OpStream`); `Reviews` pays a price it is handed, within the
bounds `Pricing_proofs` proves; `Audience` writes the sets `FeedQueues` samples from, one
reader at a time; `Trust` decides how many readers a forward reaches, where `FeedQueues` has
any number up to its fan-out. `Export` is composed with `Media`: it reads rows and objects
that uploads and deletions change under it.

## The models

### FeedScripts and FeedQueues

One action is one Redis round trip; a Lua script or `MULTI` block is one action.

* `pc`, `post`, `todo`, `landed` are the local variables of `process_operation` in each
  worker. `TakeOp` reads the tombstone; `Sample`, `FilterFree`, `FilterSeen` are the three
  calls of `select_recipients`; `PlaceOne` is one `place_post`; `Gate` and `Diff` are
  `has_eligible_recipient`. With no recipient, or every placement refused, the worker
  goes to the gate, as the code does.
* `joining` holds the users between the two calls of `sync_subscribe`. `minting` holds the
  review requests between `mint_probe`'s `LLEN` and its `place_post`.
* `had` is a history variable: who a post was pushed to since its seen set began.
* A queue is a set: `place` is the only code that pushes and it looks the post up first.

Left out: the expiry of tombstones, the language audiences (a post on a plain audience
is modelled), `FEED_EXCLUDE_OWN_POSTS` off, `rebuild_from_pg`. The two `SCARD`s of the
gate are one action. What is lost is a worker that counts the audience, then a seen set that grew meanwhile, and
goes on to `Diff` where the model finds the operation eligible; of the properties only `AudienceExhausted`, which
fails anyway, is about the answer of the gate.

Properties: `FreeHasRoom` and `RoomIsFree` (together: `free_queue` is exact for the
audience), `OvershootBounded`, `NeverOwnPost`, `DeliveredOnce`; and `AudienceExhausted`, what the
gate's docstring says of an operation given up as exhausted, which the code violates.

### OpStream and OpDelivery

One action is one command or script of the loop: `Reclaim` (XAUTOCLAIM), `ReadDue`,
`Expire`, `ReAdd`, `ZRem`, `RetireExpired` (the sweep), `ConsumeOnce` (XREADGROUP),
`FanOutEnds` or `ScheduleRetry` (the result of `process_operation`), `Retire`, `XDel`,
`XAck`. `Mint` and `CountMint` are the two commands of `enqueue_operation`. `Abort` is a
crash, or an exception that `run_consumer` logs: both lose exactly what is in memory.

A deadline is kept as the ticks left until it, so no clock grows; `Tick` ages every copy.
An entry becomes `idle` (past `FEED_STREAM_CLAIM_MIN_IDLE_MS`) at any time when nobody
holds it and as a bounded fault when somebody does (`GoIdleWhileWorked`). The identity of
an operation is a ghost: entries and members get fresh ids, and a re-add is a copy.

`OpDelivery` says: unborn, pending, settled; settled only after an outcome; settled
eventually; never back. The refinement mapping counts an operation as pending while a
copy of it is in the stream, in `ops:retry` or in a worker's memory.

Left out: creating a missing group (NOGROUP), the page limit inside XAUTOCLAIM, the
order of the stream (the model may read entries in any), `reseed_outstanding_ops`.

### Reviews

A request is a record with a program counter. `PayForPost`, `PublishPost`, `Announce`
are `create_post`; `BeginReview`, `ClaimPost`, `CommitReview`, `Earn`, `Forward` are
`review_post`, with `AnswerProbe` instead of the commit for a test post. A Postgres
transaction is one action, taken when it commits, with one exception: the user's
counters are what the request *read* when it was authenticated, plus one (`read`),
because the code assigns `user.reviewed_count += 1` in Python; the post's counters are
incremented by the database. `Abort` may end any request anywhere.

`spent`, `forgone` and `tested` are history variables, so that the books can be written
down: what a user holds, spent, is owed or has lost is what they started with and earned.

Left out: erasure of accounts and posts, rate limits, how the price is looked up, the
trust score of a forward, the gates of `should_mint`. Tests can be made for anybody once.

### Pricing

`Target`, `Deadband`, `ComputePrice`, `RouteFactor`, `RoutePrice` and `Rescale` are the functions of
`feed/pricing.py` on integers (Python's `round` is half to even). `CheckWindow`, `ReadPrevious`,
`Publish`, `PriceRoute`, `CacheRoute` and `Observe` are the calls of a refresher and of a
request, separated at every await. Instants are kept relative to now, so that time needs no
bound. `raced` names the calls that another one's write overtook, `straggled` says that a price
of another window was observed in this one. A request that finds no cached price for its route reads the
snapshot in the next round trip (`PriceRoute`, `ReadSnapshot`). `WindowHonoured` is the promise of
`maybe_refresh_price_snapshot`'s docstring, "no matter how many processes are polling"; two
refreshers past the check break it. `PromisesKept` is what can be relied on instead: only a call that was in flight
when the promise was made, and was overtaken, breaks it; `RangeCovers` says that the range the composer shows contains
what will be charged. A straggler of an older window does reset the range (`scripts.py`
126 to 129): `straggled` is the exception it makes. It lasts while a cached price of the window now
published may be outside the range, so it survives a slow refresher that publishes that window again; the
proof found this case, which needs two slow refreshers.

### Trust

Scores are fixed-point, in thousandths. `ProbeComponent` to `ComputeScore` are the functions of
`core/trust.py` with their clamps, rounded at the end as Python's `round` does (`RoundTenth`); a request that
reviews, answers or looks at its statistics goes through `trust_service.py` and `probes.py` await by await.
Every command of a mint is an action: EXISTS on the pending key (`AskPending`), INCR of the counter and the
dice (`ShouldMint`), the placement (`MintProbe`), SET of the pending key (`RememberProbe`), SET of the counter
(`RestartGap`). So is every one of an answer: the claim (`ClaimProbe`), DEL of the pending key (`Answer`), the
commit, DEL of the score. `LowIsEarned`: only a wrong answer to a test post brings a reader into the low band,
whatever the manner of reviewing. `RightAnswersNeverCost`: above chance, a right answer never lowers the score
(below it, it can: it adds confidence to a component still clamped at zero). `CacheSeesAnswers`,
`OneProbeOut`: the cache and the pending key under overlapping requests, with their exceptions as history
variables. `excused` is set exactly when a second request asks while one is between asking and remembering,
when one dies between placing and remembering, and when the key of a test post that is out goes: after a day,
or by the answer to an older one.

### Billing

The two rows of one account; Mollie is the environment (`Settle`, `Charge`,
`GiveUp`) and calls the webhook any number of times, as late as it likes. A handler loads
the row, awaits Mollie, and its commit writes the columns that differ from what it loaded.
`disturbed` counts the requests that overlapped another or died midway. Two deliveries of one
webhook do create two Mollie subscriptions, and a cancel that dies after Mollie cancelled cannot be
retried: both are what `disturbed = 0` excludes from `ChargedIsPerked`. `PerkWasPaid` has no exception.

### EmailVerification and SignIn

`EmailVerification` has one account's row, code, counter and the addresses a code was mailed to; `SignIn` has
any number of accounts, their passwords and their identities. A request works on the row it loaded
(`FlushUser`). Both kinds of code are counted, compared and deleted in separate actions: `CountAttempt`,
`ExpireWithCode`, `Compare`, `DeleteCode`, `Verify` of a confirm; `CountReset`, `ExpireReset`, `CheckReset`,
`SetPassword`, `ConsumeReset` of a reset. A deletion goes by key, so it takes a code issued since the
comparison. The TTL and the EXPIRE of a counter are one action, which a code issued in between makes the more
permissive one (`"anytime"`). `proven` is the history that `is_verified` claims: the addresses whose mail was
shown to be read. `crossed`, `reissued`, `raced`, `leftOver` and `halfLinked` name the exceptions: a change of
address that overlaps another request or dies before its code; a code issued in the middle of a check; two
requests past the same look for an identity; a reset that died before it consumed its code; a link that was
left half-made, or raced by a password change. `OAuthAccount` has no unique constraint: `IdentityIsOne`, the
invariant `link_google`'s comment defends, rests on looks that two requests can both get past, and is
violated; `OneAccountPerIdentity` is what holds instead: who looks after a link was committed makes no second
one. `AttemptsBounded` and `ResetTriesBounded` are the same promise of the two counters.

### Audience

One reader's rows and sets. The `...Commit` actions, the `Sync...` actions and `CountChanged` are an edit's
commit, its `MULTI` on the sets and its move of the total; `RebuildReads`, `RebuildAdds` and `RebuildTotals`
are the part of `rebuild_from_pg` about them, which adds members and removes none; `RedisLoss` empties Redis.
`joined` and `left` of an edit are the memberships its `MULTI` changed, whose number `SADD` and `SREM` answer.
`MirrorsPostgres` and `TotalCountsMembers` hold between edits that do not overlap or die (`mirror`,
`miscounted`).

### RateLimit

The script on the times of the granted slots; `BudgetsOf` lists which budgets each route spends, in its order, for
an account, an address and the account a login tries. Time is bounded (`MaxTime`).
`WindowHolds` is what a sliding window promises, said of the times granted: the slot `Limit` places after another
comes a window later; `RetryTruthful` says that who comes
back when told is not refused, if nobody was granted a slot meanwhile.

### Media and Export

An upload is checked file by file, waits for an ffmpeg slot, is stored PUT by PUT with retries (an answer may be
lost after the object was written), and commits; a failure cleans up what it stored. Pictures replace each
other, `DeleteAccount` removes rows and then objects. `bucket`, `rows`, `picture` are what is stored; `processes`
counts the ffmpeg processes alive, including those of requests that timed out. `Export` collects the keys of an
account, then fetches them one by one while uploads and deletions go on.
The feedback modelled is sent signed in: its row names the account, so its commit fails, and its objects are cleaned
up, when the account went meanwhile (`CommitFails`). Anonymous feedback, which commits regardless, is left out.
`NothingLeftOver` has the exceptions the code accepts (`mayLeak`, `mayLose`): an ambiguous PUT leaves an orphan, and
`create_post` spends before it stores and commits.

## The runs

| run | result | states | what it shows |
| --- | --- | --- | --- |
| `op_delivery` | pass | 110,260 | with a fault anywhere: no operation lost, no entry stranded, OpDelivery with its liveness |
| `reviews` | pass | 838,359 | Reviews in a crowd and on one account (counters, tokens, paid operations), and SignIn |
| `services` | pass | 690,008 | 25 properties of fan-out and of the eight services, one of them per behaviour |
| `queue_capped` | violation | | a queue goes past its slots |
| `ghosts` | violation | | an erased post is placed after its erasure |
| `exhausted` | violation | | an operation is given up although its audience is empty |
| `phantom_backlog` | violation | | the outstanding count stays at one for good |
| `user_counters` | violation | | a reader's counter loses an increment |
| `identity` | violation | | a Google identity gets two accounts |
| `window` | violation | | the shared price changes inside its window |
| `billing_sync` | violation | | the perk comes back after a cancel |
| `email_proof` | violation | | verified at an address nobody has proven |

Deadlock is checked in `op_delivery` and in the violations of the feed: a worker's loop never stops. The API and
the services may stop, since their bounded supplies (posts, payments, codes, keys, reviews, time) run out:
`reviews`, `services` and the violations of these modules turn the check off.

`reviews` and `services` are several questions in one run each. `MCReviews` and `MCServices` choose a `subject` in
the initial state; only what that subject is about moves and the rest keeps its first state. TLC explores
the union of the subjects' state spaces, not their product, and each property is about one subject. They
run together because they share the same two requests and the symmetry between them. `reviews` has three subjects,
`services` nine ("media" and "export" are two of them).

### Bounds, and why they are enough

The subject "feed" of `services`: two readers, one of them the author of the post that two workers fan out
at once; queues of **one** slot (`MaxSlots = 1`), which the post and a test post compete
for, so that full, overfull and emptied queues all occur; a fan-out of two, so that a
worker has a recipient left while the other acts. No bound on steps: the state space is
finite and explored whole. The proofs remove the sizes.

`op_delivery`: one operation, two workers, one fault (`MaxFaults = 1`): a crash, a failed
iteration, an entry reclaimed under a live worker, or two workers sweeping one member.
Each of them is enough to make copies; two faults in a row only repeat that, and safety
for any number is proved. Five `Ids` are as many copies as one fault can make. `MaxAge = 2` because a
parked operation is due after one tick: with 1 it would always be late and `ReAdd` would never
happen. `ReclaimCount = 2`: a worker can hold two claims. The safety invariants are checked here and not without
faults: what they are about is the crash, the reclaim and the double sweep.

`reviews`, subject "crowd": three users, of whom a superuser publishes the only post and the others review it. Subject
"account": an author with one token who pays 1 or 2 for each of two posts, one reader, one test post, so that spending
races with gifts and one reader's reviews race with each other. Two requests at once and one failure suffice
for every race here: each one is between a read or check of one request and a write of another. `PublishedBy` keeps
requests from paying for posts that have no identity left to be published under. Subject "sign-in": two accounts, one
identity whose address is one of them, two reset codes for one account, one attempt, so that a second try is one
too many.

`services`: two requests in flight per service, since every race here is between a read of one and a write of
another; in `Pricing` two refreshers of two processes and two quoters, of which three are at work in one
behaviour (`Crews`: two refreshers and a quoter, or one and two quoters), one of them slow. Billing: three
payments, so that a first payment, a renewal and one more exist; two Mollie subscriptions; one disturbance,
which is enough for every exception. Trust: a reader who starts below the confidence of a rate, four reviews,
two answers and two test posts. EmailVerification: two codes, two addresses, one change, one attempt, so that
a second try is one too many. Audience: two channels, two languages, one accident. RateLimit: a window of
three ticks in a clock of four, limits of two and (for one scope) none. Media: one ffmpeg slot, two PUT
attempts, two keys, one mishap; six submissions, among them a file that is not what it claims, a feedback
image of a shape only posts refuse (`fits` is FALSE), a removal and a deletion. An export has one request
beside it.

Symmetry: the two requests of `services`, which are also the feed's two workers; the two requests and the two posts of
`reviews`; never in the run with liveness.

### Fairness

Only `op_delivery` needs any; every property of `reviews` and `services` is a safety property. `WF` of each
worker's loop: `run_consumer` is `while True`, with bounded blocking reads and an exception handler, and the
platform restarts a dead worker (`Abort` puts it back at the start of its loop). `WF` of `GoIdle` and `Tick`:
time passes. No fairness for API calls, for faults, or for `GoIdleWhileWorked`. Liveness holds with a bounded
number of faults: a worker that crashes for ever delivers nothing.

## What is proved

Assumptions: the named `ASSUME`s of the modules (finite sets of workers, reviews and requests, at least one
slot, a fan-out of at least one and a sample no smaller, `MaxAge` at least one, distinct sentinels, price
bounds in order, at least one attempt and one ffmpeg slot, finite sets of editors, channels and languages, one
file in a profile picture, a reader's history in counts). TLC evaluates them in the passing runs. The bounds
of the runs do not appear: any number of readers, posts, workers, operations, faults, ids. Every invariant and
every action property that a passing run checks is the conclusion of a theorem, except what the end of this
section lists.

**`FeedQueues_proofs`**

* `TypeCorrect`, from `TypeInv` = `TypeOK` and `InHand` (a busy worker holds a post; without
  it the type of what it pushes is unknown).
* `FreeQueueSound`, `FreeQueueComplete`, from `QueueInv`: both properties with the queues finite,
  since `Full` compares a cardinality. Only `Place` and the five key steps touch what they
  relate (`OnlyKeySteps`); each keeps the set exact.
* `AuthorsSkipped`, from `AuthorInv`: `place` does not look at the author, so the invariant says that no
  worker has the author in `todo` after `Sample`.
* `OneDelivery`: an action property, from `HadIsSeen` (the history is the seen set).
* `OvershootIsBounded`: inductive with queue finiteness and `FreeHasRoom`. A worker joins
  `HeldBy` only by finding the reader in `free_queue`, when the queue has a slot left, and
  leaves it by the push that adds one.

**`OpStream_proofs`**

* `TypeCorrect`.
* `OpsKept`, from `SafeInv`. `NoOpLost` alone is not inductive: a copy may be the only one and be
  about to go. `KeptSafe` says that an operation without an outcome has a copy in Redis that no
  worker is about to delete; it is not enough that there are two, since each of two workers
  may be about to delete one. It rests on `RetiresConcluded` (who is about to confirm an
  entry has recorded an outcome), `CopiesAgree` (copies with one id are of one operation, and of a
  minted one) and `HandRemembered` (the id a worker is about to delete is still in its memory, so nobody
  else is given it).
* `EntriesReachable`: with `AckAfterDelete` (an entry is acknowledged only once it is out of the stream).
* `ImplementsDeliverySteps`: the safety half of the refinement, for any number of faults; `op_delivery` checks it
  together with liveness. A step makes at most one new copy,
  of an operation that was minted and not settled, or mints it (`NoReturn`); and the last copy goes only
  after an outcome (`LetGoConcluded`). A crash may settle several operations at once, which is why
  `OpDelivery!Settle` takes a set.

**`Reviews_proofs`**

* `TypeCorrect`, from `TypeInv`: `Spend` keeps balances in Nat because it compares before it subtracts;
  the rest needs `RequestsSound`, which says what a request under way works on (a commit is of a
  post, an answer of a test post, a gift is a forward of a post).
* `VerdictsExact`: the post's counters are exact. A step either records nothing or is `Records`: one new
  row, with the counters that row calls for (`OnlyCommitsRecord`, `NewRow`).
* `CountersNeverOver`, from `UserInv`: what a request read when it began is at most the number of the
  user's rows *now* (`ReadInPast`; rows are never removed here), so one more is at most the number after
  its own row. The commit writes the value over a counter that may be ahead of it: hence not exact.
* `BooksBalance`, from `BookInv`: a payee changes when an author does, so `AuthorsKnown` (a post under
  review has an author, who stays); an answer counts once, so `TestsSound` (a test post that is being
  answered was made for the one who answers, and is not yet answered). Then one lemma for each kind of step: a
  review is recorded (`BooksRecord`), a test answered (`BooksAnswer`), a debt paid or lost with
  its request (`BooksSettle`), or nobody's debts change (`SameBooks`).
* `OperationsBacked`, from `OpsCovered`: `OpsBacked` counts the requests about to enqueue; `OpsCovered` also
  those that have still to earn for a forward, whose row is there already.

**`Pricing_proofs`**

* `PricesBounded`: no price, published, cached, quoted or in a call's hands, leaves its bounds. The clamp is
  proved once, and that a route's factor never divides by zero.
* `PromiseKept`, from `PromiseInv`: a call about to write that nobody overtook has seen the window over, and
  it still is (`WindowOver`); whoever publishes in between puts it into `raced`.
* `RangeIsCovering`, from `RangeInv`: a current price is in the range, or its request is about to observe it (`Covered`); and
  the range outlives the window it was last widened in (`Short`), or an expiry would empty it under prices still charged.

**`Billing_proofs`**

* `PerkPaid`, from `PaidInv`: a handler that is about to grant has seen a paid payment, and what is paid stays paid.
* `ChargedPerked`, `EntitlementsExplained`, from `AloneInv`: while nothing was disturbed one handler is busy, so
  the row it loaded is the row (`FlushAlone`), and each stage of it knows what Mollie has (`CallSound`). Only
  between creating a subscription and committing it is a live one not the row's.

**`Accounts_proofs`**

* `AttemptsCounted`, from `CountInv`: comparisons made plus requests past the counter are at most the counter, and at
  most the limit. A request gets past the counter only by raising it, and compares once. `DeleteCode` takes the counter of whatever
  code is there by then, so it may forget attempts only along with the code they were made on.
* `VerifiedMeansRead`, from `ProofInv`: while uncrossed, who changes the address is alone, hence everybody else holds the
  present address, mails go there, and the stored code was mailed nowhere else. Codes are old
  (`CodesOld`), so a new one is in nobody's hands, and who holds the stored one got it from a mail.
* `NoPasswordBesideLink`: inductive with the types and with `AccountExists`.
* `OneIdentityOneAccount`, from `LinkInv`: a request past the look that is not `raced` has an identity nobody else has.
* `ResetCodeOnce`, from `CodeInv`: codes never return (`CodesOld`), differ between accounts, and a stored code that
  has set a password is held by the request about to consume it, unless that one died.

**`Media_proofs`**

* `SlotsBoundProcesses`: processes are the requests in a running stage, and one only starts with a slot free.
* `RowsNameObjects`, from `KeysInv`. That named objects exist is not inductive: somebody may be deleting one. So no row
  names what is being stored or deleted (`NotNamed`); what is being stored is one request's alone
  (`PendingApart`); no two rows name one object (`RowsApart`); and what a request has seen of the rows is still
  theirs or nobody's (`SeenGone`): the picture it will replace, the posts it will delete.
* `NothingIsLeftOver`, from `LeakInv` and `BooksInv`. Between requests nobody holds anything, so the invariants say what
  requests hold: until something `mayLeak`, every object is named by a row or held by a request (`NoOrphans`), which
  holds objects only while it stores or deletes them (`Tidy`), and the one request about the picture has seen the
  picture there is (`PictureAlone`). A picture is one object (`OneObject`): this is where `OnePicture` is used. Until something
  `mayLose`, tokens spent are posts published and requests between payment and commit, posts published are
  operations handed over and requests between the two (`Books`).
* `ExportIsMedia`: every step of `Export` is one of `Media` or changes none of its variables, so all of the above holds beside an export.
* `ExportIsAccounted`, from `ArchiveInv`: what is listed is fetched, missing or still to fetch; what is still to fetch is in
  the bucket or vanished.

**`Readers_proofs`**

* `TrustTypes`: that scores are fractions has to be proved of each component, with its divisions and clamps.
* `LowBandEarned`: with as many right answers as answers the probe component is at least neutral, volume always is, and
  the ceiling scales only what is above neutral (`ScoreType`); such a score's fan-out is not reduced (`FanoutType`).
* `RightAnswersPay`: one more right answer adds confidence, and confidence pulls down what is below neutral although above
  chance. `ThinSample` shows that the answer lifts it by more. In thousandths this needs a `ProbeConfidence` of at most 200
  (`FineGrain`, the theorem's hypothesis); `TRUST_PROBE_CONFIDENCE_N` is 6, and the code's floats have no such limit.
* `CacheKnowsAnswers`, from `CacheInv`: the property must hold of scores under computation too, since one of them is the next cached one.
* `OneProbe`, from `ProbeInv`: unless excused, one request mints at most, none while a test post is out, and a test post that
  is out is remembered or about to be.
* `LogsKept`, from which `NoBurst` and `RefusalsTruthful` follow. `RateInv` relates the sorted set to all slots ever granted (`Recorded`: it
  is the last of them, and what it lacks is a window old) and the promise to the oldest hit (`Told`). A budget with room
  recorded fewer than its limit, so the slot `Limit` places back is one it lacks.
* `MirrorFollows`, and with it `MirrorKeeps`. `MirrorInv` says for each stage of an edit how sets and rows differ (`StageSound`): before the
  commit not at all; then by what its `MULTI` will change. While nothing is skewed one edit is open, so what it
  loaded is still what the rows say.
* `TotalIsCount`: inductive with the types; overlapping edits cannot disturb it, because each `MULTI` answers how many
  memberships changed. The lemmas are about cardinalities of unions of the editors' shares (`SharesGrow`, `CountRewritten`).

Model-checked only: the liveness half of `ImplementsDelivery`, and `PendingClears` (the prover has
no ENABLED, which fairness needs); `ResetTriesBounded`, whose argument is that of `AttemptsCounted` with one more
counter per account; and the violations.

## Findings

* **A queue can exceed its cap** (`queue_capped`). `posts.py:233` says it cannot. Room is looked up in
  one round trip and used in another. `OvershootBounded` is what holds instead.
* **Tombstones do not stop every ghost** (`ghosts`). `service.py:741` says they do. A worker that read the
  tombstone before the erasure places after it.
* **An empty audience can be exhausted** (`exhausted`). `service.py:918` says that an audience with no members stays
  eligible, and that exhausted means somebody is there and all of them are excluded. The gate looks for an empty audience
  once; a last member who leaves before the `SDIFF` makes the difference empty, and the operation is given up instead
  of parked.
* **Counting after publishing an operation** (`phantom_backlog`). A fast worker's `retire` comes before the
  `HINCRBY`, is swallowed by the floor at zero, and leaves the route's backlog one too high
  without any failure.
* **A reader's counters lose increments** (`user_counters`). `posts.py:761` says they equal the review rows; two
  overlapping reviews of one reader write the same value. `UserCountersNeverOver` is what holds instead.
* **The perk outlives the subscription** (`billing_sync`). `models/supporter_subscription.py:25` says the webhook keeps
  the two tables in sync. A renewal collected before a cancel and reported after it grants the perk for good.
  `EntitlementExplained` is what holds instead.
* **Verified at an unproven address** (`email_proof`). `deps/users.py:331` says that a change of address invalidates
  the proof. If another request verifies the account between the change's load and its commit - Google's word for the old
  address in the trace of the run, a confirm likewise - the proof survives: `False` over a loaded `False` is not written.
  `VerifiedIsProvenAlone` is what holds instead.
* **One identity, two accounts** (`identity`). `google_auth.py:206` says that a Google identity maps to at most one
  account. The look and the insert are separate awaits and no constraint backs them; a link and a first
  sign-in that both looked both insert. `OneAccountPerIdentity` is what holds instead.
* **A window cut short** (`window`). `service.py:298` says the promised window holds no matter how many processes poll. Two that
  found it over both publish, the second inside the window the first opened. `PromisesKept` is what holds instead.

Remarks that no line of the repository contradicts, met while modelling: `FEED_PRICE_TTL_SECONDS` (90) is less than two
windows, so a slow refresher lets the snapshot lapse; a quote's `expires_at` is read apart from its
price (`posts.py` 622 to 625); two slow refreshers can leave the window published with a range that another window's prices
have reset; a post published while its author's account is being deleted survives it; the feedback route reports an
ffmpeg timeout with a post's error code; consuming a reset code deletes a newer one issued in between.

## Not modelled

Everything under "Parts without such logic". Of the rest:

* `reseed_outstanding_ops`, `backfill_queue`, the seeding of seen sets and the balances of `rebuild_from_pg`: run by
  hand on a system at rest, so that no interleaving is meant to hold.
* The resend cooldown of codes: it decides when a mail is sent again, and nothing modelled depends on it.
* Bytes, signatures, archive layout, amounts, dates of periods, wording of test posts: data no property tells apart.
* The TTLs of Redis keys other than codes, attempts, prices, seen sets and test posts.
* Accounts disappear from `FeedQueues`, `Audience` and `Media`, each on its own; the rest of what a deletion removes
  (answers, feedback, settings) is referred to by nothing in a model. It removes review
  rows without touching counters, so `PostCountersExact` is a property of a system in which nobody is erased.

## Plan

1. `OpStream`: `reseed_outstanding_ops` against live traffic, and what the recount restores.
2. Proofs: a refinement of the edits of `Audience` to sets that follow the rows in one step (with 3), and the composition
   of 4, which the invariants of `Audience` and `Media` are stated to serve.
3. `Audience`: an abstract specification (the sets follow the rows once nothing is in flight), with liveness after a loss
   of Redis under a fair rebuild.
4. `AccountDeletion` as a composition: the one order of reads, commits, purges and tombstones across `FeedQueues`,
   `Audience` and `Media`, which each model their part of now.
