------------------------------ MODULE Pricing ------------------------------
(***************************************************************************)
(* The price of a post: feed/pricing.py and the snapshot, route prices and *)
(* observed range of feed/service.py.  Each process steps the shared price *)
(* on its own timer; requests price a route from the snapshot, publishing  *)
(* one when there is none, cache the route's price for the window and fold *)
(* it into the observed range.  Every instant is kept relative to now, so  *)
(* that time needs no bound: `left` is what remains of a window, `ttl` of  *)
(* a key.  A request prices one route here; the per-channel ranges run the *)
(* same script as the global one, on fewer prices, and are left out.       *)
(***************************************************************************)
EXTENDS Integers, FiniteSets

CONSTANTS Refreshers,     \* the processes' price refreshers
          Quoters,        \* requests that price a route
          Routes,
          Loads,          \* what Redis may count at any moment: see LoadType
          PriceMin, PriceMax, TargetMin,
          RefreshSeconds, PriceTtl,
          Crews,          \* sets of calls that may be at work in one behaviour
          Troubled,       \* the calls that may take seconds, or fail
          MaxDelay        \* bound: seconds such a call may take

LoadType == [queue : Nat, active : Nat, ops : [Routes -> Nat], subs : [Routes -> Nat],
             opsTotal : Nat, subsTotal : Nat]

ASSUME PricingAssumption ==
    /\ PriceMin \in Nat \ {0} /\ PriceMax \in Nat /\ PriceMin <= PriceMax
    /\ TargetMin \in Nat \ {0}
    /\ RefreshSeconds \in Nat \ {0} /\ PriceTtl \in Nat \ {0} /\ MaxDelay \in Nat
    /\ Loads \subseteq LoadType

VARIABLES snapshot,       \* feed:price, or NoSnapshot
          routePrice,     \* the cached price of each route, or NoEntry
          range,          \* the observed price range, or NoRange
          priceCall,      \* per refresher and quoter, where it is
          raced,          \* history: calls overtaken by another one's write
          straggled       \* history: in this window, a price of another one
                          \* was, or may have been, observed, or one of this not

pricingVars == <<snapshot, routePrice, range, priceCall, raced, straggled>>

Calls == Refreshers \cup Quoters
NoSnapshot == [price |-> 0, left |-> 0, ttl |-> 0, opsTotal |-> 0, subsTotal |-> 0]
NoEntry    == [price |-> 0, left |-> 0]
NoRange    == [left |-> 0, base |-> 0, min |-> 0, max |-> 0, ttl |-> 0]

(* A call: `age` seconds old, waking in `wake`, with the snapshot and the  *)
(* price it has in hand.                                                   *)
Resting(w) == [at |-> "rest", wake |-> w, age |-> 0, routes |-> {},
               snap |-> NoSnapshot, price |-> 0]

Never == -1                   \* the wake of a call that is not at work

------------------------------------------------------------------------------
(* feed/pricing.py *)
Least(a, b)    == IF a < b THEN a ELSE b
Greatest(a, b) == IF a < b THEN b ELSE a
Clamp(p)       == Greatest(PriceMin, Least(PriceMax, p))

RoundHalfEven(n, d) ==        \* Python's round() of n/d
    LET q == n \div d
        r == 2 * (n % d)
    IN IF r > d \/ (r = d /\ q % 2 = 1) THEN q + 1 ELSE q

Target(active) == Greatest(TargetMin, RoundHalfEven(active, 10))
Deadband(target) == Greatest(1, RoundHalfEven(target, 10))

ComputePriceUnclamped(prev, l) ==      \* mutant: no cap
    LET diff == l.queue - Target(l.active)
        band == Deadband(Target(l.active))
    IN IF diff > band THEN prev + 1 ELSE IF diff < -band THEN prev - 1 ELSE prev

ComputePrice(prev, l) ==
    LET diff == l.queue - Target(l.active)
        band == Deadband(Target(l.active))
    IN IF diff > band THEN Least(PriceMax, prev + 1)
       ELSE IF diff < -band THEN Greatest(PriceMin, prev - 1) ELSE prev

(* The route's share of the backlog over its share of the audience, as a   *)
(* fraction, within half and one and a half.                               *)
RouteFactor(ops, subs, opsTotal, subsTotal) ==
    LET n == ops * subsTotal
        d == subs * opsTotal
    IN IF subs = 0 \/ opsTotal = 0 \/ subsTotal = 0 THEN [n |-> 1, d |-> 1]
       ELSE IF 2 * n < d THEN [n |-> 1, d |-> 2]
       ELSE IF 2 * n > 3 * d THEN [n |-> 3, d |-> 2]
       ELSE [n |-> n, d |-> d]

RoutePrice(snap, ops, subs) ==
    LET f == RouteFactor(ops, subs, snap.opsTotal, snap.subsTotal)
    IN Clamp((2 * snap.price * f.n + f.d) \div (2 * f.d))

(* _rescale_range *)
Rescale(p, base, current) == RoundHalfEven(p * current, base)

ReadPriceRange ==             \* NoRange, or what was observed, on the present price
    LET now == snapshot.price
    IN IF range = NoRange THEN NoRange
       ELSE IF range.left = snapshot.left THEN range
       ELSE [range EXCEPT
               !.min = Greatest(PriceMin, Least(Rescale(range.min, range.base, now), now)),
               !.max = Least(PriceMax, Greatest(Rescale(range.max, range.base, now), now))]

GetPostEconomy ==             \* what GET /posts/economy shows
    LET observed == ReadPriceRange
    IN IF observed = NoRange THEN [min |-> snapshot.price, max |-> snapshot.price]
       ELSE [min |-> observed.min, max |-> observed.max]

------------------------------------------------------------------------------
PricingInit ==
    /\ snapshot = NoSnapshot
    /\ routePrice = [r \in Routes |-> NoEntry]
    /\ range = NoRange
    /\ \E crew \in Crews : priceCall = [c \in Calls |-> Resting(IF c \in crew THEN 0 ELSE Never)]
    /\ raced = {}
    /\ straggled = FALSE

CallsInFlight == {c \in Calls : priceCall[c].at # "rest"}

(* A write overtakes every other call in flight, and may end the call.     *)
Overtakes(c, done) == raced' = (raced \cup CallsInFlight) \ (IF done THEN {c} ELSE {c} \ raced)

Proceed(c, at, snap, price) ==
    priceCall' = [priceCall EXCEPT ![c].at = at, ![c].snap = snap, ![c].price = price]

Begin(c, at, snap, routes) ==
    /\ priceCall[c] = Resting(0)
    /\ priceCall' = [priceCall EXCEPT ![c].at = at, ![c].snap = snap, ![c].routes = routes]
    /\ UNCHANGED raced

(* maybe_refresh_price_snapshot: the window is over, or there is none.     *)
CheckWindowNever(c) == Begin(c, "prev", NoSnapshot, {})     \* mutant: every tick refreshes
    /\ UNCHANGED <<snapshot, routePrice, range, straggled>>

CheckWindow(c) ==
    /\ IF snapshot.left <= 0 THEN Begin(c, "prev", NoSnapshot, {})
       ELSE /\ priceCall[c] = Resting(0)
            /\ priceCall' = [priceCall EXCEPT ![c] = Resting(RefreshSeconds)]
            /\ UNCHANGED raced
    /\ UNCHANGED <<snapshot, routePrice, range, straggled>>

(* refresh_price_snapshot: the previous price and the counts are read ...  *)
ReadPrevious(c, l) ==
    LET prev == IF snapshot = NoSnapshot THEN PriceMin ELSE snapshot.price
    IN /\ priceCall[c].at = "prev"
       /\ Proceed(c, "publish",
            [price |-> ComputePrice(prev, l), left |-> RefreshSeconds - priceCall[c].age,
             ttl |-> 0, opsTotal |-> l.opsTotal, subsTotal |-> l.subsTotal], 0)
       /\ UNCHANGED <<snapshot, routePrice, range, raced, straggled>>

(* Does a route's cached price belong to the window that ends then?        *)
HasEntries(left) == \E r \in Routes : routePrice[r] # NoEntry /\ routePrice[r].left = left

(* ... and the new snapshot is set, whatever is published by then.  A      *)
(* refresher sleeps; a request goes on with the snapshot it published.     *)
Publish(c) ==
    LET new == [priceCall[c].snap EXCEPT !.ttl = PriceTtl]
    IN /\ priceCall[c].at = "publish"
       /\ snapshot' = new
       /\ IF c \in Refreshers
          THEN priceCall' = [priceCall EXCEPT ![c] = Resting(RefreshSeconds)]
          ELSE Proceed(c, "compute", new, 0)
       /\ Overtakes(c, c \in Refreshers)
       /\ straggled' = (HasEntries(new.left) /\ (straggled \/ new.left # snapshot.left))
       /\ UNCHANGED <<routePrice, range>>

(* route_prices, for one route: a live entry is the answer and changes     *)
(* nothing; a miss needs the snapshot, which is read next.                 *)
PriceRoute(c, r) ==
    /\ routePrice[r].left <= 0
    /\ Begin(c, "miss", NoSnapshot, {r})
    /\ UNCHANGED <<snapshot, routePrice, range, straggled>>

(* get_price_snapshot; without one the request publishes its own, on a     *)
(* clock it reads now.                                                     *)
ReadSnapshot(c) ==
    /\ priceCall[c].at = "miss"
    /\ priceCall' = [priceCall EXCEPT ![c].at = IF snapshot = NoSnapshot THEN "prev" ELSE "compute",
                                      ![c].age = 0, ![c].snap = snapshot]
    /\ UNCHANGED <<snapshot, routePrice, range, raced, straggled>>

CacheRoute(c, r, l) ==
    LET snap == priceCall[c].snap
        price == RoutePrice(snap, l.ops[r], l.subs[r])
    IN /\ priceCall[c].at = "compute" /\ r \in priceCall[c].routes
       /\ routePrice' = [routePrice EXCEPT ![r] =
                            IF snap.left > 0 THEN [price |-> price, left |-> snap.left]
                            ELSE NoEntry]
       /\ Proceed(c, "observe", snap, price)
       /\ Overtakes(c, FALSE)
       /\ UNCHANGED <<snapshot, range, straggled>>

(* The price_range script: another window's range is reset first.          *)
WidenedNever(snap, price) ==  \* mutant: a window's first price is its range
    IF range # NoRange /\ range.left = snap.left THEN range
    ELSE [left |-> snap.left, base |-> snap.price, min |-> price, max |-> price,
          ttl |-> PriceTtl + RefreshSeconds]
Widened(snap, price) ==
    LET same == range # NoRange /\ range.left = snap.left
        old  == IF same THEN range
                ELSE [left |-> snap.left, base |-> snap.price, min |-> price, max |-> price]
    IN [left |-> old.left, base |-> old.base, min |-> Least(old.min, price),
        max |-> Greatest(old.max, price), ttl |-> PriceTtl + RefreshSeconds]

Observe(c) ==
    LET snap == priceCall[c].snap
    IN /\ priceCall[c].at = "observe"
       /\ range' = Widened(snap, priceCall[c].price)
       /\ straggled' = (straggled \/ snap.left # snapshot.left)
       /\ priceCall' = [priceCall EXCEPT ![c] = Resting(0)]
       /\ raced' = raced \ {c}
       /\ UNCHANGED <<snapshot, routePrice>>

------------------------------------------------------------------------------
(* A second passes: windows run down, keys expire, sleepers come nearer to *)
(* waking, and calls in flight get older.                                  *)
Aged(e, gone) == IF e.ttl = 1 \/ e = gone THEN gone
                 ELSE [e EXCEPT !.left = @ - 1, !.ttl = @ - 1]

Tick ==
    /\ \A c \in CallsInFlight : c \in Troubled /\ priceCall[c].age < MaxDelay
    /\ \A c \in Refreshers : priceCall[c] # Resting(0)
    /\ snapshot' = Aged(snapshot, NoSnapshot)
    /\ routePrice' = [r \in Routes |-> IF routePrice[r].left <= 1 THEN NoEntry
                                      ELSE [routePrice[r] EXCEPT !.left = @ - 1]]
    /\ range' = Aged(range, NoRange)
    /\ priceCall' = [c \in Calls |->
           IF c \in CallsInFlight
           THEN [priceCall[c] EXCEPT !.age = @ + 1,
                                     !.snap.left = IF priceCall[c].snap = NoSnapshot THEN 0 ELSE @ - 1]
           ELSE [priceCall[c] EXCEPT !.wake = IF @ > 0 THEN @ - 1 ELSE @]]
    /\ UNCHANGED <<raced, straggled>>

(* Redis or the process fails a call: a refresher logs it and sleeps.      *)
CallFails(c) ==
    /\ c \in CallsInFlight \cap Troubled
    /\ straggled' = (straggled \/ priceCall[c].at = "observe")
    /\ priceCall' = [priceCall EXCEPT ![c] =
                        Resting(IF c \in Refreshers THEN RefreshSeconds ELSE 0)]
    /\ raced' = raced \ {c}
    /\ UNCHANGED <<snapshot, routePrice, range>>

CallStep(c) ==
    \/ ReadSnapshot(c) \/ Publish(c) \/ Observe(c)
    \/ \E l \in Loads : ReadPrevious(c, l) \/ \E r \in Routes : CacheRoute(c, r, l)

PricingNext ==
    \/ \E c \in Refreshers : CheckWindow(c)
    \/ \E c \in Calls : CallStep(c) \/ CallFails(c)
    \/ \E c \in Quoters, r \in Routes : PriceRoute(c, r)
    \/ Tick

PricingSpec == PricingInit /\ [][PricingNext]_pricingVars

------------------------------------------------------------------------------
PriceRange == PriceMin..PriceMax
LeftRange  == (RefreshSeconds - PriceTtl - 2 * MaxDelay)..RefreshSeconds

(* Type invariant.  It also says that no price leaves [PriceMin, PriceMax]:*)
(* not the snapshot's, not a route's scaled by its congestion, not one a   *)
(* call has in hand.                                                       *)
PricingTypeOK ==
    /\ snapshot # NoSnapshot => snapshot.price \in PriceRange
    /\ \A r \in Routes : routePrice[r] # NoEntry => routePrice[r].price \in PriceRange
    /\ range # NoRange => /\ {range.min, range.max, range.base} \subseteq PriceRange
                          /\ range.min <= range.max
    /\ \A c \in Calls :
          /\ priceCall[c].at \in {"rest", "miss", "prev", "publish", "compute", "observe"}
          /\ priceCall[c].at \in {"publish", "compute", "observe"} =>
                 priceCall[c].snap.price \in PriceRange
          /\ priceCall[c].at = "observe" => priceCall[c].price \in PriceRange
    /\ raced \subseteq Calls /\ straggled \in BOOLEAN

(* A price shown with an `expires_at` ahead has given way to another.      *)
Broken(old, new) == old.left > 0 /\ new.left > 0 /\ new.price # old.price

(* What maybe_refresh_price_snapshot says of the window's price: checking  *)
(* `expires_at` first makes every process agree not to touch it before     *)
(* then, "so the promise holds no matter how many processes are polling or *)
(* how their schedules drift".                                             *)
WindowHonoured == [][~Broken(snapshot, snapshot')]_pricingVars

(* What can be relied on instead: such a price - the shared one or a       *)
(* route's - gives way before its time only to a call that began before    *)
(* the promise was made and was overtaken.  A process whose tick falls     *)
(* inside a window, however its schedule drifts, does not break it.        *)
PromisesKept ==
    [][ \A c \in Calls : priceCall'[c] # priceCall[c] =>
          /\ Broken(snapshot, snapshot') => c \in raced
          /\ \A r \in Routes : Broken(routePrice[r], routePrice'[r]) => c \in raced ]_pricingVars

(* The range the composer shows covers every price a route of its window   *)
(* will be charged, once the calls that computed one are done, unless a    *)
(* straggler of an older window has reset it or a call died unobserved.    *)
RangeCovers ==
    CallsInFlight = {} /\ ~straggled =>
        \A r \in Routes :
            routePrice[r].left > 0 /\ routePrice[r].left = snapshot.left
                => /\ GetPostEconomy.min <= routePrice[r].price
                   /\ routePrice[r].price <= GetPostEconomy.max
=============================================================================
