---------------------------- MODULE Pricing_proofs ----------------------------
(***************************************************************************)
(* What holds of Pricing for any number of processes and requests, any     *)
(* routes, any load and any delay: no price leaves its bounds, a price     *)
(* promised until an instant changes before it only by a call that had     *)
(* been overtaken, and the observed range covers the prices of its window. *)
(***************************************************************************)
EXTENDS Pricing, TLAPS

------------------------------------------------------------------------------
(* The arithmetic of feed/pricing.py. *)

\* The lesser and the greater of two integers.
LEMMA Extremes ==
  ASSUME NEW a \in Int, NEW b \in Int
  PROVE  /\ Least(a, b) \in {a, b} /\ Least(a, b) <= a /\ Least(a, b) \in Int
         /\ Greatest(a, b) \in {a, b} /\ a <= Greatest(a, b) /\ Greatest(a, b) \in Int
BY DEF Least, Greatest

\* A clamped price is within the bounds.
LEMMA Clamped == ASSUME NEW p \in Int PROVE Clamp(p) \in PriceRange
BY PricingAssumption DEF Clamp, Greatest, Least, PriceRange

\* A step of the price stays within them, whatever the load.
LEMMA Computed == ASSUME NEW prev \in PriceRange, NEW l PROVE ComputePrice(prev, l) \in PriceRange
<1> DEFINE diff == l.queue - Target(l.active)
           band == Deadband(Target(l.active))
<1>1. ComputePrice(prev, l) \in {Least(PriceMax, prev + 1), Greatest(PriceMin, prev - 1), prev}
  BY DEF ComputePrice
<1>2. QED
  BY <1>1, PricingAssumption DEF Greatest, Least, PriceRange

SnapType  == [price : Nat, left : Int, ttl : Int, opsTotal : Nat, subsTotal : Nat]
EntryType == [price : Nat, left : Int]
RangeType == [left : Int, base : Nat, min : Nat, max : Nat, ttl : Int]
PriceCallType ==
    [at : {"rest", "miss", "prev", "publish", "compute", "observe"}, wake : Int, age : Nat,
     routes : SUBSET Routes, snap : SnapType, price : Nat]

\* The factor is a fraction with a denominator that is not 0.
LEMMA Factored ==
  ASSUME NEW ops \in Nat, NEW subs \in Nat, NEW opsTotal \in Nat, NEW subsTotal \in Nat
  PROVE  /\ RouteFactor(ops, subs, opsTotal, subsTotal).n \in Nat
         /\ RouteFactor(ops, subs, opsTotal, subsTotal).d \in Nat \ {0}
<1>1. ops * subsTotal \in Nat /\ subs * opsTotal \in Nat
  OBVIOUS
<1>2. subs # 0 /\ opsTotal # 0 => subs * opsTotal # 0
  OBVIOUS
<1>3. QED
  BY <1>1, <1>2 DEF RouteFactor

\* A route's price is within the bounds, however congested the route.
LEMMA RoutePriced ==
  ASSUME NEW snap \in SnapType, NEW ops \in Nat, NEW subs \in Nat
  PROVE  RoutePrice(snap, ops, subs) \in PriceRange
<1> DEFINE f == RouteFactor(ops, subs, snap.opsTotal, snap.subsTotal)
<1>1. snap.price \in Nat /\ f.n \in Nat /\ f.d \in Nat \ {0}
  BY Factored DEF SnapType
<1>2. RoutePrice(snap, ops, subs) = Clamp((2 * snap.price * f.n + f.d) \div (2 * f.d))
  BY DEF RoutePrice
<1> HIDE DEF f
<1>3. 2 * snap.price * f.n + f.d \in Int /\ 2 * f.d \in Nat \ {0}
  BY <1>1
<1>4. (2 * snap.price * f.n + f.d) \div (2 * f.d) \in Int
  BY <1>3
<1>5. QED
  BY <1>2, <1>4, Clamped

------------------------------------------------------------------------------
(* Types and bounds. *)

PricesInv ==
    /\ snapshot \in SnapType
    /\ routePrice \in [Routes -> EntryType]
    /\ range \in RangeType
    /\ priceCall \in [Calls -> PriceCallType]
    /\ PricingTypeOK

\* What PricingTypeOK says of one call.
CallPriced(c) ==
    /\ priceCall[c].at \in {"publish", "compute", "observe"} => priceCall[c].snap.price \in PriceRange
    /\ priceCall[c].at = "observe" => priceCall[c].price \in PriceRange

\* It holds of every call.
LEMMA CallsPriced ==
  ASSUME PricesInv, NEW c \in Calls
  PROVE  CallPriced(c) /\ priceCall[c] \in PriceCallType
BY DEF PricesInv, PricingTypeOK, CallPriced

\* One call's step, put together with what the others keep.
LEMMA PricesFrame ==
  ASSUME PricesInv, NEW c \in Calls, NEW new \in PriceCallType,
         priceCall' = [priceCall EXCEPT ![c] = new],
         new.at \in {"publish", "compute", "observe"} => new.snap.price \in PriceRange,
         new.at = "observe" => new.price \in PriceRange,
         snapshot' \in SnapType, snapshot' # NoSnapshot => snapshot'.price \in PriceRange,
         routePrice' \in [Routes -> EntryType],
         \A r \in Routes : routePrice'[r] # NoEntry => routePrice'[r].price \in PriceRange,
         range' \in RangeType,
         range' # NoRange => /\ {range'.min, range'.max, range'.base} \subseteq PriceRange
                             /\ range'.min <= range'.max,
         raced' \subseteq Calls, straggled' \in BOOLEAN
  PROVE  PricesInv'
<1>1. priceCall' \in [Calls -> PriceCallType]
  BY DEF PricesInv
<1>2. \A g \in Calls : priceCall'[g] = IF g = c THEN new ELSE priceCall[g]
  BY DEF PricesInv
<1>3. \A g \in Calls : CallPriced(g)'
  BY <1>2, CallsPriced DEF CallPriced
<1>4. \A g \in Calls : priceCall'[g].at \in {"rest", "miss", "prev", "publish", "compute", "observe"}
  BY <1>1 DEF PriceCallType
<1>5. QED
  BY <1>1, <1>3, <1>4 DEF PricesInv, PricingTypeOK, CallPriced

\* A record that ages by a second keeps its prices.
LEMMA SnapAges ==
  ASSUME NEW e \in SnapType
  PROVE  /\ [e EXCEPT !.left = @ - 1, !.ttl = @ - 1] \in SnapType
         /\ [e EXCEPT !.left = @ - 1, !.ttl = @ - 1].price = e.price
<1>1. e.left - 1 \in Int /\ e.ttl - 1 \in Int
  BY DEF SnapType
<1>2. QED
  BY <1>1 DEF SnapType

\* So does the observed range ...
LEMMA RangeAges ==
  ASSUME NEW e \in RangeType
  PROVE  /\ [e EXCEPT !.left = @ - 1, !.ttl = @ - 1] \in RangeType
         /\ [e EXCEPT !.left = @ - 1, !.ttl = @ - 1].min = e.min
         /\ [e EXCEPT !.left = @ - 1, !.ttl = @ - 1].max = e.max
         /\ [e EXCEPT !.left = @ - 1, !.ttl = @ - 1].base = e.base
<1>1. e.left - 1 \in Int /\ e.ttl - 1 \in Int
  BY DEF RangeType
<1>2. QED
  BY <1>1 DEF RangeType

\* ... and a call.
LEMMA CallAges ==
  ASSUME NEW q \in PriceCallType, NEW e \in SnapType
  PROVE  /\ [q EXCEPT !.age = @ + 1, !.snap = e] \in PriceCallType
         /\ [q EXCEPT !.age = @ + 1, !.snap = e].at = q.at
         /\ [q EXCEPT !.age = @ + 1, !.snap = e].snap = e
         /\ [q EXCEPT !.age = @ + 1, !.snap = e].price = q.price
<1>1. q.age + 1 \in Nat
  BY DEF PriceCallType
<1>2. QED
  BY <1>1 DEF PriceCallType

\* A second that passes changes no price.
LEMMA PricesTick == ASSUME PricesInv, Tick PROVE PricesInv'
<1>1. snapshot' \in SnapType /\ (snapshot' # NoSnapshot => snapshot'.price \in PriceRange)
  <2>1. NoSnapshot \in SnapType
    BY DEF NoSnapshot, SnapType
  <2>2. [snapshot EXCEPT !.left = @ - 1, !.ttl = @ - 1] \in SnapType
        /\ [snapshot EXCEPT !.left = @ - 1, !.ttl = @ - 1].price = snapshot.price
    BY SnapAges DEF PricesInv
  <2>3. QED
    BY <2>1, <2>2 DEF Tick, Aged, PricesInv, PricingTypeOK
<1>2. range' \in RangeType
      /\ (range' # NoRange => /\ {range'.min, range'.max, range'.base} \subseteq PriceRange
                              /\ range'.min <= range'.max)
  <2>1. NoRange \in RangeType
    BY DEF NoRange, RangeType
  <2>2. [range EXCEPT !.left = @ - 1, !.ttl = @ - 1] \in RangeType
        /\ [range EXCEPT !.left = @ - 1, !.ttl = @ - 1].min = range.min
        /\ [range EXCEPT !.left = @ - 1, !.ttl = @ - 1].max = range.max
        /\ [range EXCEPT !.left = @ - 1, !.ttl = @ - 1].base = range.base
    BY RangeAges DEF PricesInv
  <2>3. QED
    BY <2>1, <2>2 DEF Tick, Aged, PricesInv, PricingTypeOK
<1>3. /\ routePrice' \in [Routes -> EntryType]
      /\ \A r \in Routes : routePrice'[r] # NoEntry => routePrice'[r].price \in PriceRange
  <2>1. NoEntry \in EntryType /\ NoEntry.left = 0
    BY DEF NoEntry, EntryType
  <2>2. ASSUME NEW r \in Routes
        PROVE  /\ routePrice'[r] \in EntryType
               /\ routePrice'[r] # NoEntry => routePrice'[r].price \in PriceRange
    <3>1. routePrice'[r] = IF routePrice[r].left <= 1 THEN NoEntry
                           ELSE [routePrice[r] EXCEPT !.left = @ - 1]
      BY DEF Tick
    <3>2. [routePrice[r] EXCEPT !.left = @ - 1] \in EntryType
          /\ [routePrice[r] EXCEPT !.left = @ - 1].price = routePrice[r].price
      BY DEF PricesInv, EntryType
    <3>3. routePrice[r].left > 1 => routePrice[r] # NoEntry
      BY <2>1
    <3>4. routePrice[r] # NoEntry => routePrice[r].price \in PriceRange
      BY DEF PricesInv, PricingTypeOK
    <3>5. routePrice[r].left \in Int
      BY DEF PricesInv, EntryType
    <3>6. QED
      BY <2>1, <3>1, <3>2, <3>3, <3>4, <3>5
  <2>3. DOMAIN routePrice' = Routes /\ routePrice' = [r \in Routes |-> routePrice'[r]]
    BY DEF Tick
  <2>4. QED
    BY <2>2, <2>3
<1>4. ASSUME NEW c \in Calls
      PROVE  priceCall'[c] \in PriceCallType /\ CallPriced(c)' /\ priceCall'[c].at = priceCall[c].at
  <2> DEFINE old == priceCall[c]
             left == IF old.snap = NoSnapshot THEN 0 ELSE old.snap.left - 1
  <2>1. old \in PriceCallType /\ CallPriced(c) /\ old.snap \in SnapType
    BY CallsPriced DEF PriceCallType
  <2>2. priceCall'[c] = IF c \in CallsInFlight
                        THEN [old EXCEPT !.age = @ + 1,
                                         !.snap.left = IF old.snap = NoSnapshot THEN 0 ELSE @ - 1]
                        ELSE [old EXCEPT !.wake = IF @ > 0 THEN @ - 1 ELSE @]
    BY DEF Tick
  <2>3. left \in Int
    BY <2>1 DEF SnapType
  <2>4. [old.snap EXCEPT !.left = left] \in SnapType
        /\ [old.snap EXCEPT !.left = left].price = old.snap.price
    BY <2>1, <2>3 DEF SnapType
  <2>5. CASE c \in CallsInFlight
    <3>1. priceCall'[c] = [old EXCEPT !.age = old.age + 1,
                                      !.snap = [old.snap EXCEPT !.left = left]]
      BY <2>1, <2>2, <2>5 DEF PriceCallType, SnapType
    <3> DEFINE e == [old.snap EXCEPT !.left = left]
               new == [old EXCEPT !.age = old.age + 1, !.snap = e]
    <3>2. e \in SnapType /\ e.price = old.snap.price /\ priceCall'[c] = new
      BY <2>4, <3>1
    <3> HIDE DEF e
    <3>3. /\ new \in PriceCallType /\ new.at = old.at /\ new.snap = e
          /\ new.price = old.price
      BY <2>1, <3>2, CallAges
    <3>4. QED
      BY <2>1, <3>2, <3>3 DEF CallPriced
  <2>6. CASE c \notin CallsInFlight
    BY <2>1, <2>2, <2>6 DEF PriceCallType, CallPriced
  <2>7. QED
    BY <2>5, <2>6
<1>5. priceCall' \in [Calls -> PriceCallType]
  <2>1. priceCall' = [c \in Calls |-> priceCall'[c]]
    BY DEF Tick
  <2>2. QED
    BY <1>4, <2>1
<1>6. raced' \subseteq Calls /\ straggled' \in BOOLEAN
  BY DEF Tick, PricesInv, PricingTypeOK
<1>7. \A c \in Calls : priceCall'[c].at \in {"rest", "miss", "prev", "publish", "compute", "observe"}
  BY <1>4 DEF PriceCallType
<1>8. QED
  BY <1>1, <1>2, <1>3, <1>4, <1>5, <1>6, <1>7 DEF PricesInv, PricingTypeOK, CallPriced

\* The price a call has in hand, put in place.
LEMMA Proceeded ==
  ASSUME PricesInv, NEW c \in Calls, NEW at \in {"publish", "compute", "observe"},
         NEW snap \in SnapType, NEW price \in Nat, Proceed(c, at, snap, price)
  PROVE  \E new \in PriceCallType :
            /\ priceCall' = [priceCall EXCEPT ![c] = new]
            /\ new.at = at /\ new.snap = snap /\ new.price = price
<1> DEFINE old == priceCall[c]
           new == [old EXCEPT !.at = at, !.snap = snap, !.price = price]
<1>1. old \in PriceCallType
  BY DEF PricesInv
<1>2. new \in PriceCallType /\ new.at = at /\ new.snap = snap /\ new.price = price
  BY <1>1 DEF PriceCallType
<1>3. priceCall' = [priceCall EXCEPT ![c] = new]
  BY <1>1 DEF Proceed, PriceCallType
<1>4. QED
  BY <1>2, <1>3

\* A call begins with the snapshot it read, or none.
LEMMA Begun ==
  ASSUME PricesInv, NEW c \in Calls, NEW at \in {"miss", "prev"},
         NEW snap \in SnapType, NEW rs \in SUBSET Routes, Begin(c, at, snap, rs)
  PROVE  \E new \in PriceCallType :
            /\ priceCall' = [priceCall EXCEPT ![c] = new]
            /\ new.at = at /\ new.snap = snap
<1> DEFINE old == priceCall[c]
           new == [old EXCEPT !.at = at, !.snap = snap, !.routes = rs]
<1>1. old \in PriceCallType
  BY DEF PricesInv
<1>2. new \in PriceCallType /\ new.at = at /\ new.snap = snap
  BY <1>1 DEF PriceCallType
<1>3. priceCall' = [priceCall EXCEPT ![c] = new]
  BY <1>1 DEF Begin, PriceCallType
<1>4. QED
  BY <1>2, <1>3

\* It reads the snapshot, if there is one.
LEMMA SnapshotRead ==
  ASSUME PricesInv, NEW c \in Calls, ReadSnapshot(c)
  PROVE  \E new \in PriceCallType :
            /\ priceCall' = [priceCall EXCEPT ![c] = new]
            /\ new.at = IF snapshot = NoSnapshot THEN "prev" ELSE "compute"
            /\ new.snap = snapshot /\ new.routes = priceCall[c].routes
<1> DEFINE old == priceCall[c]
           at  == IF snapshot = NoSnapshot THEN "prev" ELSE "compute"
           new == [old EXCEPT !.at = at, !.age = 0, !.snap = snapshot]
<1>1. old \in PriceCallType /\ snapshot \in SnapType
  BY DEF PricesInv
<1>2. new \in PriceCallType /\ new.at = at /\ new.snap = snapshot /\ new.routes = old.routes
  BY <1>1 DEF PriceCallType
<1>3. priceCall' = [priceCall EXCEPT ![c] = new]
  BY <1>1 DEF ReadSnapshot, PriceCallType
<1>4. QED
  BY <1>2, <1>3

\* It rests.
LEMMA Rested == ASSUME NEW w \in Int PROVE Resting(w) \in PriceCallType /\ Resting(w).at = "rest"
BY DEF Resting, PriceCallType, NoSnapshot, SnapType

\* Every step keeps the types and the bounds.
LEMMA PricesStep == PricesInv /\ [PricingNext]_pricingVars => PricesInv'
<1> SUFFICES ASSUME PricesInv, [PricingNext]_pricingVars PROVE PricesInv'
  OBVIOUS
<1>0. /\ snapshot \in SnapType /\ (snapshot # NoSnapshot => snapshot.price \in PriceRange)
      /\ routePrice \in [Routes -> EntryType]
      /\ \A r \in Routes : routePrice[r] # NoEntry => routePrice[r].price \in PriceRange
      /\ range \in RangeType
      /\ range # NoRange => /\ {range.min, range.max, range.base} \subseteq PriceRange
                            /\ range.min <= range.max
      /\ raced \subseteq Calls /\ straggled \in BOOLEAN
  BY DEF PricesInv, PricingTypeOK
<1>a. NoSnapshot \in SnapType /\ PriceMin \in PriceRange /\ PriceRange \subseteq Nat
  BY PricingAssumption DEF NoSnapshot, SnapType, PriceRange
<1>1. ASSUME NEW c \in Refreshers, CheckWindow(c) PROVE PricesInv'
  <2>1. c \in Calls
    BY DEF Calls
  <2>2. UNCHANGED <<snapshot, routePrice, range, raced, straggled>>
    BY <1>1 DEF CheckWindow, Begin
  <2>3. CASE Begin(c, "prev", NoSnapshot, {})
    <3>1. PICK new \in PriceCallType :
             priceCall' = [priceCall EXCEPT ![c] = new] /\ new.at = "prev"
      BY <1>a, <2>1, <2>3, Begun
    <3>2. QED
      BY <1>0, <2>1, <2>2, <3>1, PricesFrame
  <2>4. CASE priceCall' = [priceCall EXCEPT ![c] = Resting(RefreshSeconds)]
    <3>1. Resting(RefreshSeconds) \in PriceCallType /\ Resting(RefreshSeconds).at = "rest"
      BY Rested, PricingAssumption
    <3>2. QED
      BY <1>0, <2>1, <2>2, <2>4, <3>1, PricesFrame
  <2>5. QED
    BY <1>1, <2>3, <2>4 DEF CheckWindow
<1>2. ASSUME NEW c \in Calls, NEW l \in Loads, ReadPrevious(c, l) PROVE PricesInv'
  <2> DEFINE prev == IF snapshot = NoSnapshot THEN PriceMin ELSE snapshot.price
             snap == [price |-> ComputePrice(prev, l), left |-> RefreshSeconds - priceCall[c].age,
                      ttl |-> 0, opsTotal |-> l.opsTotal, subsTotal |-> l.subsTotal]
  <2>1. ComputePrice(prev, l) \in PriceRange
    BY <1>0, <1>a, Computed
  <2>2. RefreshSeconds - priceCall[c].age \in Int /\ l.opsTotal \in Nat /\ l.subsTotal \in Nat
    BY PricingAssumption DEF PricesInv, PriceCallType, LoadType
  <2>3. snap \in SnapType /\ snap.price \in PriceRange
    <3>1. PICK v \in PriceRange : v = ComputePrice(prev, l)
      BY <2>1
    <3>2. PICK w \in Int : w = RefreshSeconds - priceCall[c].age
      BY <2>2
    <3>3. snap = [price |-> v, left |-> w, ttl |-> 0, opsTotal |-> l.opsTotal,
                  subsTotal |-> l.subsTotal]
      BY <3>1, <3>2
    <3> HIDE DEF snap
    <3>4. QED
      BY <1>a, <2>2, <3>3 DEF SnapType
  <2>4. Proceed(c, "publish", snap, 0) /\ UNCHANGED <<snapshot, routePrice, range, raced, straggled>>
    BY <1>2 DEF ReadPrevious
  <2> HIDE DEF snap
  <2>5. PICK new \in PriceCallType :
           priceCall' = [priceCall EXCEPT ![c] = new] /\ new.at = "publish" /\ new.snap = snap
    BY <2>3, <2>4, Proceeded
  <2>6. QED
    BY <1>0, <2>3, <2>4, <2>5, PricesFrame
<1>3. ASSUME NEW c \in Calls, Publish(c) PROVE PricesInv'
  <2> DEFINE snap == [priceCall[c].snap EXCEPT !.ttl = PriceTtl]
  <2>1. /\ priceCall[c] \in PriceCallType /\ priceCall[c].at = "publish"
        /\ priceCall[c].snap.price \in PriceRange
    BY <1>3, CallsPriced DEF Publish, CallPriced
  <2>2. priceCall[c].snap \in SnapType
    BY <2>1 DEF PriceCallType
  <2>3. snap \in SnapType /\ snap.price \in PriceRange
    BY <2>1, <2>2, PricingAssumption DEF SnapType
  <2>4. /\ snapshot' = snap /\ UNCHANGED <<routePrice, range>>
        /\ straggled' \in BOOLEAN /\ raced' \subseteq Calls
    BY <1>0, <1>3 DEF Publish, Overtakes, CallsInFlight
  <2> HIDE DEF snap
  <2>5. CASE c \in Refreshers
    <3>1. Resting(RefreshSeconds) \in PriceCallType /\ Resting(RefreshSeconds).at = "rest"
      BY Rested, PricingAssumption
    <3>2. priceCall' = [priceCall EXCEPT ![c] = Resting(RefreshSeconds)]
      BY <1>3, <2>5 DEF Publish
    <3>3. QED
      BY <1>0, <2>3, <2>4, <3>1, <3>2, PricesFrame
  <2>6. CASE c \notin Refreshers
    <3>1. Proceed(c, "compute", snap, 0)
      BY <1>3, <2>6 DEF Publish, snap
    <3>2. PICK new \in PriceCallType :
             priceCall' = [priceCall EXCEPT ![c] = new] /\ new.at = "compute" /\ new.snap = snap
      BY <2>3, <3>1, Proceeded
    <3>3. QED
      BY <1>0, <2>3, <2>4, <3>2, PricesFrame
  <2>7. QED
    BY <2>5, <2>6
<1>4. ASSUME NEW c \in Quoters, NEW r \in Routes, PriceRoute(c, r) PROVE PricesInv'
  <2>1. c \in Calls
    BY DEF Calls
  <2>2. Begin(c, "miss", NoSnapshot, {r}) /\ UNCHANGED <<snapshot, routePrice, range, raced, straggled>>
    BY <1>4 DEF PriceRoute, Begin
  <2>3. PICK new \in PriceCallType :
           priceCall' = [priceCall EXCEPT ![c] = new] /\ new.at = "miss"
    BY <1>a, <2>1, <2>2, Begun
  <2>4. QED
    BY <1>0, <2>1, <2>2, <2>3, PricesFrame
<1>b. ASSUME NEW c \in Calls, ReadSnapshot(c) PROVE PricesInv'
  <2>1. /\ UNCHANGED <<snapshot, routePrice, range, raced, straggled>>
        /\ priceCall[c].at = "miss"
    BY <1>b DEF ReadSnapshot
  <2>2. PICK new \in PriceCallType :
           /\ priceCall' = [priceCall EXCEPT ![c] = new]
           /\ new.at = IF snapshot = NoSnapshot THEN "prev" ELSE "compute"
           /\ new.snap = snapshot
    BY <1>b, SnapshotRead
  <2>3. new.at = "compute" => new.snap.price \in PriceRange
    BY <1>0, <2>2
  <2>4. QED
    BY <1>0, <2>1, <2>2, <2>3, PricesFrame
<1>5. ASSUME NEW c \in Calls, NEW r \in Routes, NEW l \in Loads, CacheRoute(c, r, l) PROVE PricesInv'
  <2> DEFINE snap == priceCall[c].snap
             price == RoutePrice(snap, l.ops[r], l.subs[r])
             entry == IF snap.left > 0 THEN [price |-> price, left |-> snap.left] ELSE NoEntry
  <2>1. snap \in SnapType /\ snap.price \in PriceRange
    BY <1>5, CallsPriced DEF CacheRoute, CallPriced, PriceCallType
  <2>2. l.ops[r] \in Nat /\ l.subs[r] \in Nat
    BY PricingAssumption DEF LoadType
  <2>3. price \in PriceRange /\ price \in Nat
    BY <1>a, <2>1, <2>2, RoutePriced
  <2>4. snap.left \in Int
    BY <2>1 DEF SnapType
  <2>5. /\ Proceed(c, "observe", snap, price) /\ routePrice' = [routePrice EXCEPT ![r] = entry]
        /\ UNCHANGED <<snapshot, range, straggled>> /\ raced' \subseteq Calls
    BY <1>0, <1>5 DEF CacheRoute, Overtakes, CallsInFlight
  <2> HIDE DEF price, snap
  <2>6. entry \in EntryType /\ (entry # NoEntry => entry.price \in PriceRange)
    BY <2>3, <2>4 DEF EntryType, NoEntry
  <2>7. PICK new \in PriceCallType :
           /\ priceCall' = [priceCall EXCEPT ![c] = new] /\ new.at = "observe"
           /\ new.snap = snap /\ new.price = price
    BY <2>1, <2>3, <2>5, Proceeded
  <2> HIDE DEF entry
  <2>8. /\ routePrice' \in [Routes -> EntryType]
        /\ \A q \in Routes : routePrice'[q] # NoEntry => routePrice'[q].price \in PriceRange
    BY <1>0, <2>5, <2>6
  <2>9. QED
    BY <1>0, <2>1, <2>3, <2>5, <2>7, <2>8, PricesFrame
<1>6. ASSUME NEW c \in Calls, Observe(c) PROVE PricesInv'
  <2> DEFINE snap == priceCall[c].snap
             price == priceCall[c].price
  <2>1. snap \in SnapType /\ snap.price \in PriceRange /\ price \in PriceRange
    BY <1>6, CallsPriced DEF Observe, CallPriced, PriceCallType
  <2>2. snap.left \in Int /\ PriceTtl + RefreshSeconds \in Int
    BY <2>1, PricingAssumption DEF SnapType
  <2>3. Resting(0) \in PriceCallType /\ Resting(0).at = "rest"
    BY Rested
  <2>4. /\ range' = Widened(snap, price) /\ UNCHANGED <<snapshot, routePrice>>
        /\ priceCall' = [priceCall EXCEPT ![c] = Resting(0)]
        /\ raced' \subseteq Calls /\ straggled' \in BOOLEAN
    BY <1>0, <1>6 DEF Observe
  <2> HIDE DEF snap, price
  <2>5. PICK old \in [left : Int, base : PriceRange, min : PriceRange, max : PriceRange] :
           /\ old.min <= old.max
           /\ range' = [left |-> old.left, base |-> old.base, min |-> Least(old.min, price),
                        max |-> Greatest(old.max, price), ttl |-> PriceTtl + RefreshSeconds]
    <3> DEFINE fresh == [left |-> snap.left, base |-> snap.price, min |-> price, max |-> price]
               kept == [left |-> range.left, base |-> range.base, min |-> range.min, max |-> range.max]
    <3>1. fresh \in [left : Int, base : PriceRange, min : PriceRange, max : PriceRange]
          /\ fresh.min <= fresh.max
      <4>1. price <= price
        BY <1>a, <2>1
      <4>2. QED
        BY <2>1, <2>2, <4>1
    <3>2. CASE range # NoRange /\ range.left = snap.left
      <4>1. kept \in [left : Int, base : PriceRange, min : PriceRange, max : PriceRange]
            /\ kept.min <= kept.max
        BY <1>0, <3>2 DEF RangeType
      <4>2. range' = [left |-> kept.left, base |-> kept.base, min |-> Least(kept.min, price),
                      max |-> Greatest(kept.max, price), ttl |-> PriceTtl + RefreshSeconds]
        BY <2>4, <3>2 DEF Widened
      <4>3. QED
        BY <4>1, <4>2
    <3>3. CASE ~(range # NoRange /\ range.left = snap.left)
      <4>1. range' = [left |-> fresh.left, base |-> fresh.base, min |-> Least(fresh.min, price),
                      max |-> Greatest(fresh.max, price), ttl |-> PriceTtl + RefreshSeconds]
        BY <2>4, <3>3 DEF Widened
      <4>2. QED
        BY <3>1, <4>1
    <3>4. QED
      BY <3>2, <3>3
  <2>6. /\ Least(old.min, price) \in PriceRange /\ Greatest(old.max, price) \in PriceRange
        /\ Least(old.min, price) <= Greatest(old.max, price)
    <3>1. old.min \in PriceRange /\ old.max \in PriceRange
      BY <2>5
    <3>2. old.min \in Int /\ old.max \in Int /\ price \in Int /\ old.min <= old.max
      <4>1. old.min <= old.max
        BY <2>5
      <4>2. PriceRange \subseteq Int
        BY <1>a
      <4>3. QED
        BY <2>1, <3>1, <4>1, <4>2
    <3>3. /\ Least(old.min, price) \in {old.min, price} /\ Least(old.min, price) <= old.min
          /\ Least(old.min, price) \in Int
          /\ Greatest(old.max, price) \in {old.max, price} /\ old.max <= Greatest(old.max, price)
          /\ Greatest(old.max, price) \in Int
      BY <3>2, Extremes
    <3>4. Least(old.min, price) \in PriceRange /\ Greatest(old.max, price) \in PriceRange
      BY <2>1, <3>1, <3>3
    <3>5. Least(old.min, price) <= Greatest(old.max, price)
      BY <3>2, <3>3
    <3>6. QED
      BY <3>4, <3>5
  <2>7. /\ range' \in RangeType /\ {range'.min, range'.max, range'.base} \subseteq PriceRange
        /\ range'.min <= range'.max
    BY <1>a, <2>2, <2>5, <2>6 DEF RangeType
  <2>8. QED
    BY <1>0, <2>3, <2>4, <2>7, PricesFrame
<1>7. ASSUME NEW c \in Calls, CallFails(c) PROVE PricesInv'
  <2> DEFINE w == IF c \in Refreshers THEN RefreshSeconds ELSE 0
  <2>1. Resting(w) \in PriceCallType /\ Resting(w).at = "rest"
    BY Rested, PricingAssumption
  <2>2. /\ priceCall' = [priceCall EXCEPT ![c] = Resting(w)]
        /\ UNCHANGED <<snapshot, routePrice, range>>
        /\ raced' \subseteq Calls /\ straggled' \in BOOLEAN
    BY <1>0, <1>7 DEF CallFails
  <2> HIDE DEF w
  <2>3. QED
    BY <1>0, <2>1, <2>2, PricesFrame
<1>8. CASE UNCHANGED pricingVars
  BY <1>8 DEF pricingVars, PricesInv, PricingTypeOK
<1>9. QED
  BY <1>1, <1>2, <1>3, <1>4, <1>b, <1>5, <1>6, <1>7, <1>8, PricesTick DEF PricingNext, CallStep

\* The invariant behind the next two theorems.
LEMMA PricesAlways == PricingSpec => []PricesInv
<1>1. PricingInit => PricesInv
  <2> SUFFICES ASSUME PricingInit PROVE PricesInv
    OBVIOUS
  <2>1. NoSnapshot \in SnapType /\ NoRange \in RangeType /\ NoEntry \in EntryType
    BY DEF NoSnapshot, SnapType, NoRange, RangeType, NoEntry, EntryType
  <2>2. PICK crew \in Crews :
           priceCall = [c \in Calls |-> Resting(IF c \in crew THEN 0 ELSE Never)]
    BY DEF PricingInit
  <2>3. \A c \in Calls : Resting(IF c \in crew THEN 0 ELSE Never) \in PriceCallType
                         /\ Resting(IF c \in crew THEN 0 ELSE Never).at = "rest"
    BY Rested DEF Never
  <2>4. priceCall \in [Calls -> PriceCallType] /\ \A c \in Calls : priceCall[c].at = "rest"
    BY <2>2, <2>3
  <2>5. PricingTypeOK
    BY <2>4 DEF PricingInit, PricingTypeOK
  <2>6. QED
    BY <2>1, <2>4, <2>5 DEF PricingInit, PricesInv
<1>2. QED
  BY <1>1, PricesStep, PTL DEF PricingSpec

\* No price leaves [PriceMin, PriceMax], whatever Redis counts and whatever
\* calls cross: not the shared one, not a route's, not one a call has in hand,
\* and not the observed range, whose ends are in order.
THEOREM PricesBounded == PricingSpec => []PricingTypeOK
<1>1. PricesInv => PricingTypeOK
  BY DEF PricesInv
<1>2. QED
  BY <1>1, PricesAlways, PTL

------------------------------------------------------------------------------
(* The promise of a window.  A call that no other write has overtaken      *)
(* since it began still finds over what it found over when it began: the   *)
(* window, if it is about to publish, and its routes' entries, if it is    *)
(* about to price them.                                                    *)

Overtaken(c) == c \in raced

WindowOver(c) ==
    ~Overtaken(c) =>
        /\ priceCall[c].at \in {"prev", "publish"} => snapshot.left <= 0
        /\ priceCall[c].at \in {"miss", "prev", "publish", "compute"} =>
               \A r \in priceCall[c].routes : routePrice[r].left <= 0

PromiseInv == PricesInv /\ \A c \in Calls : WindowOver(c)

\* A write races every other call that is in flight.
LEMMA Overtaking ==
  ASSUME NEW c \in Calls, NEW done, Overtakes(c, done)
  PROVE  \A g \in Calls : g # c /\ priceCall[g].at # "rest" => g \in raced'
BY DEF Overtakes, CallsInFlight

\* What is kept of one call by a step that leaves the call alone.
LEMMA OverKept ==
  ASSUME PromiseInv, NEW g \in Calls, priceCall'[g] = priceCall[g],
         g \in raced => g \in raced',
         snapshot'.left <= 0 \/ snapshot' = snapshot,
         \A r \in Routes : routePrice'[r] = routePrice[r]
  PROVE  WindowOver(g)'
<1>1. priceCall[g].routes \subseteq Routes
  BY DEF PromiseInv, PricesInv, PriceCallType
<1>2. WindowOver(g)
  BY DEF PromiseInv
<1>3. QED
  BY <1>1, <1>2 DEF WindowOver, Overtaken

\* Every step keeps it.
LEMMA PromiseStep == PromiseInv /\ [PricingNext]_pricingVars => PromiseInv'
<1> SUFFICES ASSUME PromiseInv, [PricingNext]_pricingVars PROVE PromiseInv'
  OBVIOUS
<1>0. /\ PricesInv /\ PricesInv' /\ \A c \in Calls : WindowOver(c)
      /\ priceCall \in [Calls -> PriceCallType] /\ routePrice \in [Routes -> EntryType]
      /\ snapshot.left \in Int
      /\ \A r \in Routes : routePrice[r].left \in Int
      /\ \A c \in Calls : priceCall[c].routes \subseteq Routes
  BY PricesStep DEF PromiseInv, PricesInv, PriceCallType, EntryType, SnapType
<1>a. NoSnapshot.left = 0
  BY DEF NoSnapshot
\* A call that begins, or rests, changes nobody's window.
<1>1. ASSUME NEW c \in Calls, UNCHANGED <<snapshot, routePrice>>,
             \A g \in Calls : g # c => priceCall'[g] = priceCall[g] /\ (g \in raced => g \in raced'),
             WindowOver(c)'
      PROVE  PromiseInv'
  BY <1>0, <1>1, OverKept DEF PromiseInv
<1>2. ASSUME NEW c \in Calls, NEW w, priceCall' = [priceCall EXCEPT ![c] = Resting(w)]
      PROVE  /\ \A g \in Calls : g # c => priceCall'[g] = priceCall[g]
             /\ WindowOver(c)'
  BY <1>0, <1>2 DEF WindowOver, Resting
<1>3. ASSUME NEW c \in Refreshers, CheckWindow(c) PROVE PromiseInv'
  <2>1. c \in Calls /\ UNCHANGED <<snapshot, routePrice, raced>>
    BY <1>3 DEF CheckWindow, Begin, Calls
  <2>2. CASE snapshot.left <= 0 /\ Begin(c, "prev", NoSnapshot, {})
    <3>1. /\ priceCall'[c].routes = {}
          /\ \A g \in Calls : g # c => priceCall'[g] = priceCall[g]
      BY <1>0, <2>1, <2>2 DEF Begin, PriceCallType
    <3>2. WindowOver(c)'
      BY <2>1, <2>2, <3>1 DEF WindowOver
    <3>3. QED
      BY <1>1, <2>1, <3>1, <3>2
  <2>3. CASE priceCall' = [priceCall EXCEPT ![c] = Resting(RefreshSeconds)]
    BY <1>1, <1>2, <2>1, <2>3
  <2>4. QED
    BY <1>3, <2>2, <2>3 DEF CheckWindow
<1>4. ASSUME NEW c \in Quoters, NEW r \in Routes, PriceRoute(c, r) PROVE PromiseInv'
  <2>1. /\ c \in Calls /\ UNCHANGED <<snapshot, routePrice, raced>>
        /\ routePrice[r].left <= 0
    BY <1>4 DEF PriceRoute, Begin, Calls
  <2>2. /\ priceCall'[c].at = "miss"
        /\ priceCall'[c].routes = {r}
        /\ \A g \in Calls : g # c => priceCall'[g] = priceCall[g]
    BY <1>0, <1>4, <2>1 DEF PriceRoute, Begin, PriceCallType
  <2>3. WindowOver(c)'
    BY <2>1, <2>2 DEF WindowOver
  <2>4. QED
    BY <1>1, <2>1, <2>2, <2>3
<1>b. ASSUME NEW c \in Calls, ReadSnapshot(c) PROVE PromiseInv'
  <2>1. UNCHANGED <<snapshot, routePrice, raced>> /\ priceCall[c].at = "miss"
    BY <1>b DEF ReadSnapshot
  <2>2. PICK new \in PriceCallType :
           /\ priceCall' = [priceCall EXCEPT ![c] = new]
           /\ new.at = IF snapshot = NoSnapshot THEN "prev" ELSE "compute"
           /\ new.routes = priceCall[c].routes
    BY <1>0, <1>b, SnapshotRead
  <2>3. /\ priceCall'[c] = new
        /\ \A g \in Calls : g # c => priceCall'[g] = priceCall[g]
    BY <1>0, <2>2
  <2>4. WindowOver(c)'
    BY <1>0, <1>a, <2>1, <2>2, <2>3 DEF WindowOver, Overtaken
  <2>5. QED
    BY <1>1, <2>1, <2>3, <2>4
\* A call that goes on keeps its routes.
<1>5. ASSUME NEW c \in Calls, NEW at, NEW snap, NEW price, Proceed(c, at, snap, price)
      PROVE  /\ priceCall'[c].at = at /\ priceCall'[c].routes = priceCall[c].routes
             /\ \A g \in Calls : g # c => priceCall'[g] = priceCall[g]
  BY <1>0, <1>5 DEF Proceed, PriceCallType
<1>6. ASSUME NEW c \in Calls, NEW l \in Loads, ReadPrevious(c, l) PROVE PromiseInv'
  <2>1. PICK snap : Proceed(c, "publish", snap, 0)
    BY <1>6 DEF ReadPrevious
  <2>2. priceCall[c].at = "prev" /\ UNCHANGED <<snapshot, routePrice, raced>>
    BY <1>6 DEF ReadPrevious
  <2>3. WindowOver(c)'
    BY <1>0, <1>5, <2>1, <2>2 DEF WindowOver, Overtaken
  <2>4. QED
    BY <1>1, <1>5, <2>1, <2>2, <2>3
<1>7. ASSUME NEW c \in Calls, Publish(c) PROVE PromiseInv'
  <2>1. Overtakes(c, c \in Refreshers) /\ UNCHANGED routePrice /\ priceCall[c].at = "publish"
    BY <1>7 DEF Publish
  <2>2. /\ \A g \in Calls : g # c => priceCall'[g] = priceCall[g]
        /\ WindowOver(c)'
    <3>1. CASE c \in Refreshers
      BY <1>2, <1>7, <3>1 DEF Publish
    <3>2. CASE c \notin Refreshers
      <4>1. PICK snap : Proceed(c, "compute", snap, 0)
        BY <1>7, <3>2 DEF Publish
      <4>2. c \in raced => c \in raced'
        BY <2>1, <3>2 DEF Overtakes, CallsInFlight
      <4>3. /\ priceCall'[c].at = "compute" /\ priceCall'[c].routes = priceCall[c].routes
            /\ \A g \in Calls : g # c => priceCall'[g] = priceCall[g]
        <5>1. priceCall' = [priceCall EXCEPT ![c].at = "compute", ![c].snap = snap, ![c].price = 0]
          BY <4>1 DEF Proceed
        <5>2. QED
          BY <1>0, <5>1 DEF PriceCallType
      <4>4. c \notin raced => \A r \in priceCall[c].routes : routePrice[r].left <= 0
        BY <1>0, <2>1 DEF WindowOver, Overtaken
      <4>5. QED
        BY <2>1, <4>2, <4>3, <4>4 DEF WindowOver, Overtaken
    <3>3. QED
      BY <3>1, <3>2
  <2>3. \A g \in Calls : (g # c /\ priceCall[g].at # "rest") => g \in raced'
    BY <2>1, Overtaking
  <2>4. \A g \in Calls : g # c => WindowOver(g)'
    BY <2>2, <2>3 DEF WindowOver, Overtaken
  <2>5. QED
    BY <1>0, <2>2, <2>4 DEF PromiseInv
<1>8. ASSUME NEW c \in Calls, NEW r \in Routes, NEW l \in Loads, CacheRoute(c, r, l) PROVE PromiseInv'
  <2>1. PICK snap, price : Proceed(c, "observe", snap, price)
    BY <1>8 DEF CacheRoute
  <2>2. Overtakes(c, FALSE)
    BY <1>8 DEF CacheRoute
  <2>3. WindowOver(c)' /\ \A g \in Calls : g # c => priceCall'[g] = priceCall[g]
    BY <1>5, <2>1 DEF WindowOver
  <2>4. \A g \in Calls : (g # c /\ priceCall[g].at # "rest") => g \in raced'
    BY <2>2, Overtaking
  <2>5. \A g \in Calls : g # c => WindowOver(g)'
    BY <2>3, <2>4 DEF WindowOver, Overtaken
  <2>6. QED
    BY <1>0, <2>3, <2>5 DEF PromiseInv
<1>9. ASSUME NEW c \in Calls, Observe(c) PROVE PromiseInv'
  <2>1. /\ UNCHANGED <<snapshot, routePrice>> /\ raced' = raced \ {c}
        /\ priceCall' = [priceCall EXCEPT ![c] = Resting(0)]
    BY <1>9 DEF Observe
  <2>2. QED
    BY <1>1, <1>2, <2>1
<1>10. ASSUME NEW c \in Calls, CallFails(c) PROVE PromiseInv'
  <2>1. /\ UNCHANGED <<snapshot, routePrice>> /\ raced' = raced \ {c}
        /\ priceCall' = [priceCall EXCEPT ![c] =
                            Resting(IF c \in Refreshers THEN RefreshSeconds ELSE 0)]
    BY <1>10 DEF CallFails
  <2>2. QED
    BY <1>1, <1>2, <2>1
\* What is over stays over as time passes.
<1>11. ASSUME Tick PROVE PromiseInv'
  <2>1. snapshot.left <= 0 => snapshot'.left <= 0
    <3>1. [snapshot EXCEPT !.left = @ - 1, !.ttl = @ - 1].left = snapshot.left - 1
      BY <1>0 DEF PricesInv, SnapType
    <3>2. snapshot'.left \in {0, snapshot.left - 1}
      BY <1>11, <1>a, <3>1 DEF Tick, Aged
    <3>3. QED
      BY <1>0, <3>2
  <2>2. \A r \in Routes : routePrice[r].left <= 0 => routePrice'[r].left <= 0
    <3>1. ASSUME NEW r \in Routes, routePrice[r].left <= 0 PROVE routePrice'[r] = NoEntry
      <4>1. routePrice[r].left \in Int /\ routePrice[r].left <= 1
        BY <1>0, <3>1
      <4>2. QED
        BY <1>11, <4>1 DEF Tick
    <3>2. NoEntry.left = 0
      BY DEF NoEntry
    <3>3. QED
      BY <3>1, <3>2
  <2>3. ASSUME NEW c \in Calls
        PROVE  priceCall'[c].at = priceCall[c].at /\ priceCall'[c].routes = priceCall[c].routes
    <3>1. priceCall[c] \in PriceCallType
      BY <1>0
    <3>2. QED
      BY <1>11, <3>1 DEF Tick, PriceCallType
  <2>4. raced' = raced
    BY <1>11 DEF Tick
  <2>5. \A c \in Calls : WindowOver(c)'
    BY <1>0, <2>1, <2>2, <2>3, <2>4 DEF WindowOver, Overtaken
  <2>6. QED
    BY <1>0, <2>5 DEF PromiseInv
<1>12. CASE UNCHANGED pricingVars
  BY <1>0, <1>12 DEF pricingVars, PromiseInv, WindowOver, Overtaken
<1>13. QED
  BY <1>3, <1>4, <1>b, <1>6, <1>7, <1>8, <1>9, <1>10, <1>11, <1>12 DEF PricingNext, CallStep

\* The invariant behind the promise, of every reachable state.
LEMMA PromiseAlways == PricingSpec => []PromiseInv
<1>1. PricingInit /\ PricesInv => PromiseInv
  BY DEF PricingInit, PromiseInv, WindowOver, Resting
<1>2. QED
  BY <1>1, PromiseStep, PricesAlways, PTL DEF PricingSpec

\* The promise of a window, for any number of processes and requests: the
\* price shown with an `expires_at` ahead, the shared one or a route's, changes
\* before then only by a call that was overtaken after it began.
THEOREM PromiseKept == PricingSpec => PromisesKept
<1>1. ASSUME PromiseInv, [PricingNext]_pricingVars, NEW c \in Calls, priceCall'[c] # priceCall[c]
      PROVE  /\ Broken(snapshot, snapshot') => c \in raced
             /\ \A r \in Routes : Broken(routePrice[r], routePrice'[r]) => c \in raced
  <2>0. /\ WindowOver(c) /\ snapshot.left \in Int /\ \A r \in Routes : routePrice[r].left \in Int
        /\ priceCall \in [Calls -> PriceCallType] /\ routePrice \in [Routes -> EntryType]
    BY <1>1 DEF PromiseInv, PricesInv, SnapType, EntryType
  <2>1. CASE UNCHANGED <<snapshot, routePrice>>
    BY <2>1 DEF Broken
  <2>2. ASSUME NEW g \in Calls, Publish(g), Broken(snapshot, snapshot') PROVE c \in raced
    <3>1. c = g
      <4>1. \A k \in Calls : k # g => priceCall'[k] = priceCall[k]
        BY <2>0, <2>2 DEF Publish, Proceed
      <4>2. QED
        BY <1>1, <4>1
    <3>2. priceCall[c].at = "publish" /\ snapshot.left > 0
      BY <2>2, <3>1 DEF Publish, Broken
    <3>3. QED
      BY <2>0, <3>2 DEF WindowOver, Overtaken
  <2>3. ASSUME NEW g \in Calls, NEW q \in Routes, NEW l \in Loads, CacheRoute(g, q, l),
               NEW r \in Routes, Broken(routePrice[r], routePrice'[r])
        PROVE  c \in raced
    <3>1. c = g
      <4>1. \A k \in Calls : k # g => priceCall'[k] = priceCall[k]
        BY <2>0, <2>3 DEF CacheRoute, Proceed
      <4>2. QED
        BY <1>1, <4>1
    <3>2. r = q
      <4>1. r # q => routePrice'[r] = routePrice[r]
        BY <2>0, <2>3 DEF CacheRoute
      <4>2. QED
        BY <2>3, <4>1 DEF Broken
    <3>3. priceCall[c].at = "compute" /\ r \in priceCall[c].routes /\ routePrice[r].left > 0
      BY <2>3, <3>1, <3>2 DEF CacheRoute, Broken
    <3>4. QED
      BY <2>0, <3>3 DEF WindowOver, Overtaken
  <2>4. ASSUME Tick PROVE ~Broken(snapshot, snapshot')
                          /\ \A r \in Routes : ~Broken(routePrice[r], routePrice'[r])
    <3>1. snapshot' = NoSnapshot \/ snapshot'.price = snapshot.price
      <4>1. snapshot \in SnapType
        BY <1>1 DEF PromiseInv, PricesInv
      <4>2. QED
        BY <2>4, <4>1, SnapAges DEF Tick, Aged
    <3>2. ASSUME NEW r \in Routes
          PROVE  routePrice'[r] = NoEntry \/ routePrice'[r].price = routePrice[r].price
      <4>1. routePrice[r] \in EntryType
        BY <2>0
      <4>2. [routePrice[r] EXCEPT !.left = @ - 1].price = routePrice[r].price
        BY <4>1 DEF EntryType
      <4>3. QED
        BY <2>4, <4>2 DEF Tick
    <3>3. NoSnapshot.left = 0 /\ NoEntry.left = 0
      BY DEF NoSnapshot, NoEntry
    <3>4. QED
      BY <3>1, <3>2, <3>3 DEF Broken
  <2>5. \A g \in Calls : Publish(g) => UNCHANGED routePrice
    BY DEF Publish
  <2>6. \A g \in Calls, q \in Routes, l \in Loads : CacheRoute(g, q, l) => UNCHANGED snapshot
    BY DEF CacheRoute
  <2>7. CASE \E g \in Calls : Publish(g)
    BY <2>2, <2>5, <2>7 DEF Broken
  <2>8. CASE \E g \in Calls, q \in Routes, l \in Loads : CacheRoute(g, q, l)
    BY <2>3, <2>6, <2>8 DEF Broken
  <2>9. CASE UNCHANGED pricingVars
    BY <2>1, <2>9 DEF pricingVars
  <2>10. ASSUME NEW g \in Calls,
                \/ CheckWindow(g) \/ ReadSnapshot(g) \/ Observe(g) \/ CallFails(g)
                \/ \E l \in Loads : ReadPrevious(g, l)
                \/ \E r \in Routes : PriceRoute(g, r)
         PROVE  UNCHANGED <<snapshot, routePrice>>
    BY <2>10 DEF CheckWindow, ReadSnapshot, Observe, CallFails, ReadPrevious, PriceRoute
  <2>11. QED
    BY <1>1, <2>1, <2>4, <2>7, <2>8, <2>9, <2>10 DEF PricingNext, CallStep, Calls
<1>2. PromiseInv /\ [PricingNext]_pricingVars =>
        [ \A c \in Calls : priceCall'[c] # priceCall[c] =>
            /\ Broken(snapshot, snapshot') => c \in raced
            /\ \A r \in Routes : Broken(routePrice[r], routePrice'[r]) => c \in raced ]_pricingVars
  BY <1>1
<1>3. QED
  BY <1>2, PromiseAlways, PTL DEF PromisesKept, PricingSpec

------------------------------------------------------------------------------
(* The observed range.  As long as no straggler is about, a price cached   *)
(* for the present window is in the range observed for it, or a call has   *)
(* it in hand and is about to observe it; and the range outlives the       *)
(* window.                                                                 *)

InRange(p) == range.left = snapshot.left /\ range.min <= p /\ p <= range.max
Observing(c, p) ==
    priceCall[c].at = "observe" /\ priceCall[c].snap.left = snapshot.left /\ priceCall[c].price = p
Current(r) == snapshot.left > 0 /\ routePrice[r].left = snapshot.left
Covered ==
    ~straggled => \A r \in Routes : Current(r) =>
        InRange(routePrice[r].price) \/ \E c \in Calls : Observing(c, routePrice[r].price)
CallShort(c) ==
    priceCall[c].at \in {"publish", "compute", "observe"} => priceCall[c].snap.left <= RefreshSeconds
Short ==
    /\ snapshot.left <= RefreshSeconds /\ \A c \in Calls : CallShort(c)
    /\ range = NoRange \/ range.left + PriceTtl <= range.ttl
RangeInv == PricesInv /\ Short /\ Covered

\* A call that does not observe takes a step that leaves prices alone.
LEMMA RangeFrame ==
  ASSUME RangeInv, PricesInv', NEW c \in Calls, UNCHANGED <<snapshot, routePrice, range>>,
         straggled => straggled', priceCall[c].at # "observe" \/ straggled', CallShort(c)',
         \A g \in Calls : g # c => priceCall'[g] = priceCall[g]
  PROVE  RangeInv'
<1>1. Short'
  BY DEF RangeInv, Short, CallShort
<1>2. Covered'
  <2>1. SUFFICES ASSUME ~straggled', NEW r \in Routes, Current(r)
                 PROVE  \/ InRange(routePrice[r].price)
                        \/ \E g \in Calls : Observing(g, routePrice[r].price)'
    BY DEF Covered, Current, InRange
  <2>2. InRange(routePrice[r].price) \/ \E g \in Calls : Observing(g, routePrice[r].price)
    BY <2>1 DEF RangeInv, Covered
  <2>3. ASSUME NEW g \in Calls, Observing(g, routePrice[r].price)
        PROVE  Observing(g, routePrice[r].price)'
    <3>1. g # c
      BY <2>1, <2>3 DEF Observing
    <3>2. QED
      BY <2>3, <3>1 DEF Observing
  <2>4. QED
    BY <2>2, <2>3
<1>3. QED
  BY <1>1, <1>2 DEF RangeInv

\* What a resting call has in hand is none.
LEMMA RestIsShort ==
  ASSUME PricesInv, NEW c \in Calls, NEW w, priceCall' = [priceCall EXCEPT ![c] = Resting(w)]
  PROVE  /\ \A g \in Calls : g # c => priceCall'[g] = priceCall[g]
         /\ CallShort(c)' /\ priceCall'[c].at = "rest"
BY DEF PricesInv, CallShort, Resting

\* What a call goes on with.
LEMMA GoesOn ==
  ASSUME PricesInv, NEW c \in Calls, NEW at, NEW snap, NEW price, Proceed(c, at, snap, price)
  PROVE  /\ \A g \in Calls : g # c => priceCall'[g] = priceCall[g]
         /\ priceCall'[c].at = at /\ priceCall'[c].snap = snap /\ priceCall'[c].price = price
BY DEF PricesInv, Proceed, PriceCallType

\* What a call begins with.
LEMMA Begins ==
  ASSUME PricesInv, NEW c \in Calls, NEW at, NEW snap, NEW routes, Begin(c, at, snap, routes)
  PROVE  /\ \A g \in Calls : g # c => priceCall'[g] = priceCall[g]
         /\ priceCall'[c].at = at /\ priceCall'[c].snap = snap /\ priceCall[c].at = "rest"
BY DEF PricesInv, Begin, PriceCallType, Resting

\* A window is published: no route has a price in it yet, or it is the present one.
LEMMA RangePublish == ASSUME RangeInv, PricesInv', NEW c \in Calls, Publish(c) PROVE RangeInv'
<1> DEFINE new == [priceCall[c].snap EXCEPT !.ttl = PriceTtl]
<1>0. /\ PricesInv /\ priceCall[c].at = "publish" /\ UNCHANGED <<routePrice, range>>
      /\ snapshot' = new /\ priceCall[c].snap \in SnapType
      /\ c \in Refreshers => priceCall' = [priceCall EXCEPT ![c] = Resting(RefreshSeconds)]
      /\ c \notin Refreshers => Proceed(c, "compute", new, 0)
  BY DEF RangeInv, Publish, PricesInv, PriceCallType
<1>1. new.left = priceCall[c].snap.left /\ new.left <= RefreshSeconds
  BY <1>0 DEF SnapType, RangeInv, Short, CallShort
<1>2. ~straggled' => ~HasEntries(new.left) \/ (~straggled /\ new.left = snapshot.left)
  <2>1. straggled' = (HasEntries(new.left) /\ (straggled \/ new.left # snapshot.left))
    BY DEF Publish
  <2> HIDE DEF new
  <2>2. QED
    BY <2>1, Zenon
<1> HIDE DEF new
<1>3. \A g \in Calls : g # c => priceCall'[g] = priceCall[g]
  BY <1>0, RestIsShort, GoesOn
<1>4. CallShort(c)'
  <2>1. CASE c \in Refreshers
    BY <1>0, <2>1, RestIsShort
  <2>2. CASE c \notin Refreshers
    <3>1. priceCall'[c].snap = new
      BY <1>0, <2>2, GoesOn
    <3>2. QED
      BY <1>1, <3>1 DEF CallShort
  <2>3. QED
    BY <2>1, <2>2
<1>5. Short'
  BY <1>0, <1>1, <1>3, <1>4 DEF RangeInv, Short, CallShort
<1>6. Covered'
  <2>1. SUFFICES ASSUME ~straggled', NEW r \in Routes, Current(r)'
                 PROVE  \/ InRange(routePrice[r].price)'
                        \/ \E g \in Calls : Observing(g, routePrice[r].price)'
    BY <1>0 DEF Covered
  <2>2. routePrice[r].left = new.left /\ new.left > 0 /\ routePrice[r] # NoEntry
    BY <1>0, <2>1 DEF Current, NoEntry
  <2>3. ~straggled /\ new.left = snapshot.left
    BY <1>2, <2>1, <2>2 DEF HasEntries
  <2>4. InRange(routePrice[r].price) \/ \E g \in Calls : Observing(g, routePrice[r].price)
    BY <2>2, <2>3 DEF RangeInv, Covered, Current
  <2>5. InRange(routePrice[r].price) => InRange(routePrice[r].price)'
    BY <1>0, <2>3 DEF InRange
  <2>6. ASSUME NEW g \in Calls, Observing(g, routePrice[r].price)
        PROVE  Observing(g, routePrice[r].price)'
    <3>1. g # c
      BY <1>0, <2>6 DEF Observing
    <3>2. QED
      BY <1>0, <1>3, <2>3, <2>6, <3>1 DEF Observing
  <2>7. QED
    BY <2>4, <2>5, <2>6
<1>7. QED
  BY <1>5, <1>6 DEF RangeInv

\* A route's price is cached, and will be observed.
LEMMA RangeCache ==
  ASSUME RangeInv, PricesInv', NEW c \in Calls, NEW r \in Routes, NEW l \in Loads,
         CacheRoute(c, r, l)
  PROVE  RangeInv'
<1> DEFINE snap == priceCall[c].snap
           price == RoutePrice(snap, l.ops[r], l.subs[r])
<1>0. /\ PricesInv /\ priceCall[c].at = "compute" /\ UNCHANGED <<snapshot, range, straggled>>
      /\ routePrice' = [routePrice EXCEPT ![r] = IF snap.left > 0 THEN [price |-> price, left |-> snap.left]
                                                 ELSE NoEntry]
      /\ Proceed(c, "observe", snap, price)
  BY DEF RangeInv, CacheRoute
<1> HIDE DEF snap, price
<1>1. /\ \A g \in Calls : g # c => priceCall'[g] = priceCall[g]
      /\ priceCall'[c].at = "observe" /\ priceCall'[c].snap = snap /\ priceCall'[c].price = price
  BY <1>0, GoesOn
<1>2. Short'
  BY <1>0, <1>1 DEF RangeInv, Short, CallShort, snap
<1>3. Covered'
  <2>1. SUFFICES ASSUME ~straggled, NEW s \in Routes, Current(s)'
                 PROVE  \/ InRange(routePrice[s].price)'
                        \/ \E g \in Calls : Observing(g, routePrice[s].price)'
    BY <1>0 DEF Covered
  <2>2. CASE s = r
    <3>1. routePrice'[r] = IF snap.left > 0 THEN [price |-> price, left |-> snap.left] ELSE NoEntry
      BY <1>0 DEF PricesInv
    <3>2. routePrice'[r] # NoEntry
      BY <2>1, <2>2 DEF Current, NoEntry
    <3>3. routePrice'[r].price = price /\ routePrice'[r].left = snap.left
      BY <3>1, <3>2
    <3>4. Observing(c, routePrice[s].price)'
      BY <1>1, <2>1, <2>2, <3>3 DEF Observing, Current
    <3>5. QED
      BY <3>4
  <2>3. CASE s # r
    <3>1. routePrice'[s] = routePrice[s]
      BY <1>0, <2>3 DEF PricesInv
    <3>2. InRange(routePrice[s].price) \/ \E g \in Calls : Observing(g, routePrice[s].price)
      BY <1>0, <2>1, <3>1 DEF RangeInv, Covered, Current
    <3>3. ASSUME NEW g \in Calls, Observing(g, routePrice[s].price)
          PROVE  Observing(g, routePrice[s].price)'
      <4>1. g # c
        BY <1>0, <3>3 DEF Observing
      <4>2. QED
        BY <1>0, <1>1, <3>1, <3>3, <4>1 DEF Observing
    <3>4. QED
      BY <1>0, <3>1, <3>2, <3>3 DEF InRange
  <2>4. QED
    BY <2>2, <2>3
<1>4. QED
  BY <1>2, <1>3 DEF RangeInv

\* What the script makes of the range, of this window or of another one.
LEMMA Widens ==
  ASSUME NEW snap \in SnapType, NEW price \in Nat, range \in RangeType
  PROVE  LET new == Widened(snap, price)
         IN /\ new.left = snap.left /\ new.ttl = PriceTtl + RefreshSeconds
            /\ new.min <= price /\ price <= new.max
            /\ range # NoRange /\ range.left = snap.left =>
                  new.min <= range.min /\ range.max <= new.max
<1> DEFINE same == range # NoRange /\ range.left = snap.left
           old == IF same THEN range
                  ELSE [left |-> snap.left, base |-> snap.price, min |-> price, max |-> price]
           new == [left |-> old.left, base |-> old.base, min |-> Least(old.min, price),
                   max |-> Greatest(old.max, price), ttl |-> PriceTtl + RefreshSeconds]
<1>1. Widened(snap, price) = new
  BY DEF Widened
<1>2. /\ old.left = snap.left /\ old.min \in Int /\ old.max \in Int
      /\ same => old.min = range.min /\ old.max = range.max
  BY DEF RangeType
<1> HIDE DEF same, old
<1>3. /\ Least(old.min, price) <= old.min /\ Least(old.min, price) <= price
      /\ old.max <= Greatest(old.max, price) /\ price <= Greatest(old.max, price)
  BY <1>2 DEF Least, Greatest
<1>4. /\ new.left = old.left /\ new.ttl = PriceTtl + RefreshSeconds
      /\ new.min = Least(old.min, price) /\ new.max = Greatest(old.max, price)
  OBVIOUS
<1> HIDE DEF new
<1>5. QED
  BY <1>1, <1>2, <1>3, <1>4 DEF same

\* The price is observed: the range has it, and keeps what it had of this window.
LEMMA RangeObserve == ASSUME RangeInv, PricesInv', NEW c \in Calls, Observe(c) PROVE RangeInv'
<1> DEFINE snap == priceCall[c].snap
           price == priceCall[c].price
<1>0. /\ PricesInv /\ priceCall[c].at = "observe" /\ UNCHANGED <<snapshot, routePrice>>
      /\ range' = Widened(snap, price) /\ snap \in SnapType /\ price \in Nat
      /\ priceCall' = [priceCall EXCEPT ![c] = Resting(0)]
      /\ range \in RangeType /\ snapshot \in SnapType /\ routePrice \in [Routes -> EntryType]
      /\ range' \in RangeType
  BY DEF RangeInv, Observe, PricesInv, PriceCallType
<1>1. ~straggled' => ~straggled /\ snap.left = snapshot.left
  <2>1. straggled' = (straggled \/ snap.left # snapshot.left)
    BY DEF Observe
  <2> HIDE DEF snap
  <2>2. QED
    BY <2>1, Zenon
<1>2. snap.left <= RefreshSeconds
  BY <1>0 DEF RangeInv, Short, CallShort
<1>3. (\A g \in Calls : g # c => priceCall'[g] = priceCall[g]) /\ CallShort(c)'
  BY <1>0, RestIsShort
<1>a. snap = priceCall[c].snap /\ price = priceCall[c].price
  OBVIOUS
<1> HIDE DEF snap, price
<1>4. /\ range'.left = snap.left /\ range'.ttl = PriceTtl + RefreshSeconds
      /\ range'.min <= price /\ price <= range'.max
      /\ range # NoRange /\ range.left = snap.left =>
            range'.min <= range.min /\ range.max <= range'.max
  BY <1>0, Widens
<1>5. Short'
  <2>1. range'.left + PriceTtl <= range'.ttl
    BY <1>0, <1>2, <1>4, PricingAssumption DEF SnapType
  <2>2. QED
    BY <1>0, <1>3, <2>1 DEF RangeInv, Short, CallShort
<1>6. Covered'
  <2>1. SUFFICES ASSUME ~straggled', NEW r \in Routes, Current(r)
                 PROVE  \/ InRange(routePrice[r].price)'
                        \/ \E g \in Calls : Observing(g, routePrice[r].price)'
    BY <1>0 DEF Covered, Current
  <2>2. snap.left = snapshot.left /\ snapshot.left > 0
    BY <1>1, <2>1 DEF Current
  <2>3. InRange(routePrice[r].price) \/ \E g \in Calls : Observing(g, routePrice[r].price)
    BY <1>1, <2>1 DEF RangeInv, Covered
  <2>4. CASE InRange(routePrice[r].price)
    <3>1. range.left = snap.left /\ range # NoRange
      BY <2>2, <2>4 DEF InRange, NoRange
    <3>2. /\ range'.min <= range.min /\ range.max <= range'.max
          /\ range.min <= routePrice[r].price /\ routePrice[r].price <= range.max
      BY <1>4, <2>4, <3>1 DEF InRange
    <3>3. /\ range'.min \in Int /\ range'.max \in Int /\ range.min \in Int /\ range.max \in Int
          /\ routePrice[r].price \in Int
      BY <1>0 DEF RangeType, EntryType
    <3>4. range'.min <= routePrice[r].price /\ routePrice[r].price <= range'.max
      BY <3>2, <3>3
    <3>5. QED
      BY <1>0, <1>4, <2>2, <3>4 DEF InRange
  <2>5. CASE Observing(c, routePrice[r].price)
    BY <1>0, <1>4, <1>a, <2>2, <2>5 DEF Observing, InRange
  <2>6. ASSUME NEW g \in Calls, g # c, Observing(g, routePrice[r].price)
        PROVE  Observing(g, routePrice[r].price)'
    BY <1>0, <1>3, <2>6 DEF Observing
  <2>7. QED
    BY <2>3, <2>4, <2>5, <2>6
<1>7. QED
  BY <1>5, <1>6 DEF RangeInv

\* A second passes for windows, entries, the range and the prices in hand alike.
LEMMA RangeTick == ASSUME RangeInv, PricesInv', Tick PROVE RangeInv'
<1>0. /\ PricesInv /\ snapshot \in SnapType /\ range \in RangeType
      /\ routePrice \in [Routes -> EntryType] /\ priceCall \in [Calls -> PriceCallType]
      /\ RefreshSeconds \in Nat /\ PriceTtl \in Nat /\ PriceTtl > 0
      /\ straggled' = straggled
  <2>1. RefreshSeconds \in Nat /\ PriceTtl \in Nat /\ PriceTtl > 0
    BY PricingAssumption
  <2>2. straggled' = straggled
    BY DEF Tick
  <2>3. QED
    BY <2>1, <2>2 DEF RangeInv, PricesInv
<1>1. \/ snapshot'.left = 0
      \/ snapshot'.left = snapshot.left - 1
  <2>1. [snapshot EXCEPT !.left = @ - 1, !.ttl = @ - 1].left = snapshot.left - 1
    BY <1>0 DEF SnapType
  <2>2. NoSnapshot.left = 0
    BY DEF NoSnapshot
  <2>3. QED
    BY <2>1, <2>2 DEF Tick, Aged
<1>2. \/ range' = NoRange /\ (range = NoRange \/ range.ttl = 1)
      \/ /\ range'.left = range.left - 1 /\ range'.ttl = range.ttl - 1
         /\ range'.min = range.min /\ range'.max = range.max /\ range # NoRange
  <2>1. LET e == [range EXCEPT !.left = @ - 1, !.ttl = @ - 1]
        IN e.left = range.left - 1 /\ e.ttl = range.ttl - 1 /\ e.min = range.min /\ e.max = range.max
    BY <1>0 DEF RangeType
  <2>2. QED
    BY <2>1 DEF Tick, Aged
<1>3. ASSUME NEW c \in Calls
      PROVE  /\ priceCall'[c].at = priceCall[c].at /\ priceCall'[c].price = priceCall[c].price
             /\ priceCall'[c].at # "rest" => priceCall'[c].snap.left \in {0, priceCall[c].snap.left - 1}
             /\ priceCall'[c].at # "rest" /\ priceCall[c].snap.left # 0 =>
                   priceCall'[c].snap.left = priceCall[c].snap.left - 1
  <2> DEFINE q == priceCall[c]
             left == IF q.snap = NoSnapshot THEN 0 ELSE q.snap.left - 1
  <2>0. q \in PriceCallType /\ q.snap \in SnapType
    BY <1>0 DEF PriceCallType
  <2>1. CASE c \in CallsInFlight
    <3>1. priceCall'[c] = [q EXCEPT !.age = @ + 1, !.snap.left = left]
      BY <2>0, <2>1 DEF Tick, SnapType
    <3>2. NoSnapshot.left = 0
      BY DEF NoSnapshot
    <3>3. left \in {0, q.snap.left - 1} /\ (q.snap.left # 0 => left = q.snap.left - 1)
      BY <3>2
    <3> HIDE DEF q, left
    <3>4. [q EXCEPT !.age = @ + 1, !.snap.left = left].snap.left = left
      BY <2>0 DEF PriceCallType, SnapType
    <3>5. /\ [q EXCEPT !.age = @ + 1, !.snap.left = left].at = q.at
          /\ [q EXCEPT !.age = @ + 1, !.snap.left = left].price = q.price
      BY <2>0 DEF PriceCallType
    <3>6. q = priceCall[c]
      BY DEF q
    <3>7. QED
      BY <3>1, <3>3, <3>4, <3>5, <3>6
  <2>2. CASE c \notin CallsInFlight
    <3>1. priceCall'[c] = [q EXCEPT !.wake = IF @ > 0 THEN @ - 1 ELSE @] /\ q.at = "rest"
      BY <2>2 DEF Tick, CallsInFlight
    <3>2. QED
      BY <2>0, <3>1 DEF PriceCallType
  <2>3. QED
    BY <2>1, <2>2
<1>4. ASSUME NEW r \in Routes
      PROVE  \/ routePrice'[r].left = 0
             \/ routePrice'[r].left = routePrice[r].left - 1 /\ routePrice'[r].price = routePrice[r].price
  <2>1. routePrice[r] \in EntryType /\ NoEntry.left = 0
    BY <1>0 DEF NoEntry
  <2>2. QED
    BY <2>1 DEF Tick, EntryType
<1>5. Short'
  <2>1. snapshot'.left <= RefreshSeconds
    BY <1>0, <1>1 DEF RangeInv, Short, SnapType
  <2>2. ASSUME NEW c \in Calls PROVE CallShort(c)'
    <3>1. priceCall[c].snap.left \in Int
      BY <1>0 DEF PriceCallType, SnapType
    <3>2. CallShort(c)
      BY DEF RangeInv, Short
    <3>3. QED
      BY <1>0, <1>3, <3>1, <3>2 DEF CallShort
  <2>3. range' = NoRange \/ range'.left + PriceTtl <= range'.ttl
    <3>1. range = NoRange \/ range.left + PriceTtl <= range.ttl
      BY DEF RangeInv, Short
    <3>2. range.left \in Int /\ range.ttl \in Int
      BY <1>0 DEF RangeType
    <3>3. QED
      BY <1>0, <1>2, <3>1, <3>2
  <2>4. QED
    BY <2>1, <2>2, <2>3 DEF Short
<1>6. Covered'
  <2>1. SUFFICES ASSUME ~straggled, NEW r \in Routes, Current(r)'
                 PROVE  \/ InRange(routePrice[r].price)'
                        \/ \E g \in Calls : Observing(g, routePrice[r].price)'
    BY <1>0 DEF Covered
  <2>2. /\ snapshot'.left = snapshot.left - 1 /\ snapshot.left > 1
        /\ routePrice[r].left = snapshot.left /\ routePrice'[r].price = routePrice[r].price
    <3>1. snapshot'.left > 0 /\ routePrice'[r].left = snapshot'.left
      BY <2>1 DEF Current
    <3>2. snapshot.left \in Int /\ routePrice[r].left \in Int
      BY <1>0 DEF SnapType, EntryType
    <3>3. QED
      BY <1>1, <1>4, <3>1, <3>2
  <2>3. snapshot.left \in Int /\ range.left \in Int /\ range.ttl \in Int
    BY <1>0 DEF SnapType, RangeType
  <2>4. InRange(routePrice[r].price) \/ \E g \in Calls : Observing(g, routePrice[r].price)
    BY <2>1, <2>2, <2>3 DEF RangeInv, Covered, Current
  <2>5. CASE InRange(routePrice[r].price)
    <3>1. range.left = snapshot.left /\ range.min <= routePrice[r].price
          /\ routePrice[r].price <= range.max
      BY <2>5 DEF InRange
    <3>2. range # NoRange
      BY <2>2, <3>1 DEF NoRange
    <3>3. range.left + PriceTtl <= range.ttl
      BY <3>2 DEF RangeInv, Short
    <3>4. range.ttl # 1
      BY <1>0, <2>2, <2>3, <3>1, <3>3
    <3>5. range'.left = range.left - 1 /\ range'.min = range.min /\ range'.max = range.max
      BY <1>2, <3>2, <3>4
    <3>6. QED
      BY <2>2, <3>1, <3>5 DEF InRange
  <2>6. ASSUME NEW g \in Calls, Observing(g, routePrice[r].price)
        PROVE  Observing(g, routePrice[r].price)'
    <3>1. priceCall'[g].at = "observe" /\ priceCall[g].snap.left = snapshot.left
          /\ priceCall'[g].price = routePrice[r].price
      BY <1>3, <2>6 DEF Observing
    <3>2. priceCall[g].snap.left # 0
      BY <2>2, <3>1
    <3>3. priceCall'[g].snap.left = priceCall[g].snap.left - 1
      BY <1>3, <3>1, <3>2
    <3>4. QED
      BY <2>2, <3>1, <3>3 DEF Observing
  <2>7. QED
    BY <2>4, <2>5, <2>6
<1>7. QED
  BY <1>5, <1>6 DEF RangeInv

\* Every step keeps it.
LEMMA RangeStep == RangeInv /\ [PricingNext]_pricingVars => RangeInv'
<1> SUFFICES ASSUME RangeInv, [PricingNext]_pricingVars PROVE RangeInv'
  OBVIOUS
<1>0. PricesInv /\ PricesInv' /\ RefreshSeconds \in Nat
  BY PricesStep, PricingAssumption DEF RangeInv
<1>1. ASSUME NEW c \in Refreshers, CheckWindow(c) PROVE RangeInv'
  <2>1. /\ c \in Calls /\ UNCHANGED <<snapshot, routePrice, range, straggled>>
        /\ \/ Begin(c, "prev", NoSnapshot, {})
           \/ priceCall[c].at = "rest" /\ priceCall' = [priceCall EXCEPT ![c] = Resting(RefreshSeconds)]
    BY <1>1 DEF CheckWindow, Calls, Resting
  <2>2. /\ \A g \in Calls : g # c => priceCall'[g] = priceCall[g]
        /\ priceCall[c].at # "observe" /\ CallShort(c)'
    BY <1>0, <2>1, Begins, RestIsShort DEF CallShort
  <2>3. QED
    BY <1>0, <2>1, <2>2, RangeFrame
<1>2. ASSUME NEW c \in Quoters, NEW r \in Routes, PriceRoute(c, r) PROVE RangeInv'
  <2>1. /\ c \in Calls /\ UNCHANGED <<snapshot, routePrice, range, straggled>>
        /\ Begin(c, "miss", NoSnapshot, {r})
    BY <1>2 DEF PriceRoute, Calls
  <2>2. /\ \A g \in Calls : g # c => priceCall'[g] = priceCall[g]
        /\ priceCall[c].at = "rest" /\ priceCall'[c].at = "miss"
    BY <1>0, <2>1, Begins
  <2>3. CallShort(c)'
    BY <2>2 DEF CallShort
  <2>4. QED
    BY <1>0, <2>1, <2>2, <2>3, RangeFrame
<1>a. ASSUME NEW c \in Calls, ReadSnapshot(c) PROVE RangeInv'
  <2>1. /\ UNCHANGED <<snapshot, routePrice, range, straggled>>
        /\ priceCall[c].at = "miss"
    BY <1>a DEF ReadSnapshot
  <2>2. PICK new \in PriceCallType :
           priceCall' = [priceCall EXCEPT ![c] = new] /\ new.snap = snapshot
    BY <1>0, <1>a, SnapshotRead
  <2>3. /\ \A g \in Calls : g # c => priceCall'[g] = priceCall[g]
        /\ priceCall'[c].snap = snapshot
    BY <1>0, <2>2 DEF PricesInv
  <2>4. CallShort(c)'
    BY <2>1, <2>3 DEF CallShort, RangeInv, Short
  <2>5. QED
    BY <1>0, <2>1, <2>3, <2>4, RangeFrame
<1>3. ASSUME NEW c \in Calls, NEW l \in Loads, ReadPrevious(c, l) PROVE RangeInv'
  <2> DEFINE prev == IF snapshot = NoSnapshot THEN PriceMin ELSE snapshot.price
             snap == [price |-> ComputePrice(prev, l), left |-> RefreshSeconds - priceCall[c].age,
                      ttl |-> 0, opsTotal |-> l.opsTotal, subsTotal |-> l.subsTotal]
  <2>1. /\ UNCHANGED <<snapshot, routePrice, range, straggled>> /\ priceCall[c].at = "prev"
        /\ Proceed(c, "publish", snap, 0)
    BY <1>3 DEF ReadPrevious
  <2>2. snap.left <= RefreshSeconds
    <3>1. priceCall[c].age \in Nat
      BY <1>0 DEF PricesInv, PriceCallType
    <3>2. snap.left = RefreshSeconds - priceCall[c].age
      OBVIOUS
    <3> HIDE DEF snap
    <3>3. QED
      BY <1>0, <3>1, <3>2
  <2> HIDE DEF snap
  <2>3. /\ \A g \in Calls : g # c => priceCall'[g] = priceCall[g]
        /\ priceCall'[c].snap = snap
    BY <1>0, <2>1, GoesOn
  <2>4. CallShort(c)'
    BY <2>2, <2>3 DEF CallShort
  <2>5. QED
    BY <1>0, <2>1, <2>3, <2>4, RangeFrame
<1>4. ASSUME NEW c \in Calls, CallFails(c) PROVE RangeInv'
  <2>1. /\ UNCHANGED <<snapshot, routePrice, range>>
        /\ straggled' = (straggled \/ priceCall[c].at = "observe")
        /\ priceCall' = [priceCall EXCEPT ![c] =
                            Resting(IF c \in Refreshers THEN RefreshSeconds ELSE 0)]
    BY <1>4 DEF CallFails
  <2>2. (straggled => straggled') /\ (priceCall[c].at # "observe" \/ straggled')
    BY <2>1, Zenon
  <2>3. (\A g \in Calls : g # c => priceCall'[g] = priceCall[g]) /\ CallShort(c)'
    BY <1>0, <2>1, RestIsShort
  <2>4. QED
    BY <1>0, <2>1, <2>2, <2>3, RangeFrame
<1>5. CASE UNCHANGED pricingVars
  <2>1. UNCHANGED <<snapshot, routePrice, range, straggled, priceCall>>
    BY <1>5 DEF pricingVars
  <2>2. Short' /\ Covered'
    BY <2>1 DEF RangeInv, Short, CallShort, Covered, Current, InRange, Observing
  <2>3. QED
    BY <1>0, <2>2 DEF RangeInv
<1>6. QED
  BY <1>0, <1>1, <1>2, <1>a, <1>3, <1>4, <1>5, RangePublish, RangeCache, RangeObserve, RangeTick
    DEF PricingNext, CallStep

\* The range the composer shows covers every price a route of its window will be charged,
\* once the calls that computed one are done, whatever calls overlap: only a straggler of
\* another window, or a call that died before it had observed its price, may upset it.
THEOREM RangeIsCovering == PricingSpec => []RangeCovers
<1>1. PricingInit /\ PricesInv => RangeInv
  <2> SUFFICES ASSUME PricingInit, PricesInv PROVE Short /\ Covered
    BY DEF RangeInv
  <2>1. /\ snapshot = NoSnapshot /\ range = NoRange /\ NoSnapshot.left = 0
        /\ \A c \in Calls : priceCall[c].at = "rest"
    BY DEF PricingInit, Resting, NoSnapshot
  <2>2. 0 <= RefreshSeconds
    BY PricingAssumption
  <2>3. QED
    BY <2>1, <2>2 DEF Short, CallShort, Covered, Current
<1>2. RangeInv => RangeCovers
  <2>1. SUFFICES ASSUME RangeInv, CallsInFlight = {}, ~straggled, NEW r \in Routes,
                        routePrice[r].left > 0, routePrice[r].left = snapshot.left
                 PROVE  /\ GetPostEconomy.min <= routePrice[r].price
                        /\ routePrice[r].price <= GetPostEconomy.max
    BY DEF RangeCovers
  <2>2. InRange(routePrice[r].price)
    BY <2>1 DEF RangeInv, Covered, Current, Observing, CallsInFlight
  <2>3. range.left = snapshot.left /\ range # NoRange
    BY <2>1, <2>2 DEF InRange, NoRange
  <2>4. ReadPriceRange = range
    BY <2>3 DEF ReadPriceRange
  <2>5. GetPostEconomy.min = range.min /\ GetPostEconomy.max = range.max
    BY <2>3, <2>4 DEF GetPostEconomy
  <2>6. QED
    BY <2>2, <2>5 DEF InRange
<1>3. QED
  BY <1>1, <1>2, RangeStep, PricesAlways, PTL DEF PricingSpec
=============================================================================
