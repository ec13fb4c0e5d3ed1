---------------------------- MODULE Billing_proofs ----------------------------
(***************************************************************************)
(* What holds of Billing for any number of handlers, payments and          *)
(* subscriptions: nobody has the perk who never paid, whatever overlaps or *)
(* dies; and while no request overlaps another or dies, Mollie renews only *)
(* what the account's row knows, and the two tables differ in one way.     *)
(***************************************************************************)
EXTENDS Billing, FiniteSetTheorems, SequenceTheorems, TLAPS

------------------------------------------------------------------------------
(* Types *)

Stati == {"none", "pending_first_payment", "active", "canceled", "failed"}
Places == {"idle", "checkout", "checkoutCommit", "cancel", "cancelCommit", "webhook",
           "activate", "renewActive", "renewInactive", "revoke"}

SupporterType == [customer : Nat, sub : Nat, status : Stati]
PaymentType   == [customer : Nat, sub : Nat, status : {"open", "paid", "failed"}]
MollieSubType == [customer : Nat, status : {"active", "canceled"}]
CallType      == [at : Places, row : SupporterType, payment : Nat, sub : Nat]

BillingTypeOK ==
    /\ supporter \in SupporterType
    /\ perk \in BOOLEAN
    /\ customers \in Nat
    /\ payments \in Seq(PaymentType)
    /\ mollieSubs \in Seq(MollieSubType)
    /\ billingCall \in [Handlers -> CallType]
    /\ disturbed \in Nat

\* A flush of a row over another, from a third, is a row.
LEMMA FlushTyped ==
  ASSUME NEW h \in Handlers, NEW new \in SupporterType, BillingTypeOK, Flush(h, new)
  PROVE  supporter' \in SupporterType
<1>1. DOMAIN new = {"customer", "sub", "status"}
  BY DEF SupporterType
<1>2. supporter' = [f \in {"customer", "sub", "status"} |->
                       IF new[f] # billingCall[h].row[f] THEN new[f] ELSE supporter[f]]
  BY <1>1 DEF Flush
<1>3. /\ supporter'.customer \in {new.customer, supporter.customer}
      /\ supporter'.sub \in {new.sub, supporter.sub}
      /\ supporter'.status \in {new.status, supporter.status}
  BY <1>2
<1>4. supporter' = [customer |-> supporter'.customer, sub |-> supporter'.sub,
                    status |-> supporter'.status]
  BY <1>2
<1>5. QED
  BY <1>3, <1>4 DEF BillingTypeOK, SupporterType

\* Going on and returning keep the calls' type.
LEMMA CallTyped ==
  ASSUME NEW h \in Handlers, BillingTypeOK,
         Return(h) \/ \E at \in Places, sub \in Nat : GoOn(h, at, sub)
  PROVE  billingCall' \in [Handlers -> CallType]
<1>1. CASE Return(h)
  <2>1. IdleCall \in CallType
    BY DEF IdleCall, NoSupporter, CallType, SupporterType, Stati, Places
  <2>2. QED
    BY <1>1, <2>1 DEF BillingTypeOK, Return
<1>2. ASSUME NEW at \in Places, NEW sub \in Nat, GoOn(h, at, sub)
      PROVE  billingCall' \in [Handlers -> CallType]
  <2>1. [billingCall[h] EXCEPT !.at = at, !.sub = sub] \in CallType
    BY DEF BillingTypeOK, CallType
  <2>2. billingCall' = [billingCall EXCEPT ![h] = [billingCall[h] EXCEPT !.at = at, !.sub = sub]]
    BY <1>2 DEF GoOn, BillingTypeOK, CallType
  <2>3. QED
    BY <2>1, <2>2 DEF BillingTypeOK
<1>3. QED
  BY <1>1, <1>2

\* What becomes of Mollie's books: a subscription ends ...
LEMMA SubEnds ==
  ASSUME BillingTypeOK, NEW s \in SubIds,
         mollieSubs' = [mollieSubs EXCEPT ![s].status = "canceled"]
  PROVE  mollieSubs' \in Seq(MollieSubType) /\ SubIds' = SubIds /\ Live' = Live \ {s}
<1> DEFINE e == [mollieSubs[s] EXCEPT !.status = "canceled"]
<1>1. mollieSubs \in Seq(MollieSubType) /\ s \in 1..Len(mollieSubs) /\ mollieSubs[s] \in MollieSubType
  BY DEF BillingTypeOK, SubIds
<1>2. e \in MollieSubType /\ e.status = "canceled"
  BY <1>1 DEF MollieSubType
<1>3. mollieSubs' = [mollieSubs EXCEPT ![s] = e]
  OBVIOUS
<1> HIDE DEF e
<1>4. /\ mollieSubs' \in Seq(MollieSubType) /\ Len(mollieSubs') = Len(mollieSubs)
      /\ \A j \in 1..Len(mollieSubs) : mollieSubs'[j] = IF j = s THEN e ELSE mollieSubs[j]
  BY <1>1, <1>2, <1>3, ExceptSeq
<1>5. SubIds = 1..Len(mollieSubs) /\ SubIds' = 1..Len(mollieSubs)
  BY <1>1, <1>4 DEF SubIds
<1>6. QED
  BY <1>2, <1>4, <1>5 DEF Live

\* ... or one begins ...
LEMMA SubBegins ==
  ASSUME BillingTypeOK, NEW c \in Nat,
         mollieSubs' = Append(mollieSubs, [customer |-> c, status |-> "active"])
  PROVE  /\ mollieSubs' \in Seq(MollieSubType)
         /\ Len(mollieSubs') = Len(mollieSubs) + 1
         /\ SubIds' = SubIds \cup {Len(mollieSubs')}
         /\ Live' = Live \cup {Len(mollieSubs')}
<1> DEFINE e == [customer |-> c, status |-> "active"]
<1>1. mollieSubs \in Seq(MollieSubType) /\ e \in MollieSubType /\ e.status = "active"
  BY DEF BillingTypeOK, MollieSubType
<1> HIDE DEF e
<1>2. mollieSubs' = Append(mollieSubs, e)
  BY DEF e
<1>3. /\ mollieSubs' \in Seq(MollieSubType) /\ Len(mollieSubs') = Len(mollieSubs) + 1
      /\ Len(mollieSubs) \in Nat
      /\ mollieSubs'[Len(mollieSubs) + 1] = e
      /\ \A j \in 1..Len(mollieSubs) : mollieSubs'[j] = mollieSubs[j]
  BY <1>1, <1>2
<1>4. SubIds = 1..Len(mollieSubs) /\ SubIds' = 1..(Len(mollieSubs) + 1)
  BY <1>1, <1>3 DEF SubIds
<1>5. SubIds' = SubIds \cup {Len(mollieSubs')}
  BY <1>3, <1>4
<1>6. QED
  BY <1>1, <1>3, <1>4, <1>5 DEF Live

\* ... a payment is settled ...
LEMMA PaymentSettles ==
  ASSUME BillingTypeOK, NEW p \in DOMAIN payments, NEW st \in {"open", "paid", "failed"},
         payments' = [payments EXCEPT ![p].status = st]
  PROVE  /\ payments' \in Seq(PaymentType) /\ DOMAIN payments' = DOMAIN payments
         /\ \A q \in DOMAIN payments : q # p => payments'[q] = payments[q]
<1> DEFINE e == [payments[p] EXCEPT !.status = st]
<1>1. payments \in Seq(PaymentType) /\ p \in 1..Len(payments) /\ payments[p] \in PaymentType
  BY DEF BillingTypeOK
<1>2. e \in PaymentType
  BY <1>1 DEF PaymentType
<1>3. payments' = [payments EXCEPT ![p] = e]
  OBVIOUS
<1> HIDE DEF e
<1>4. QED
  BY <1>1, <1>2, <1>3, ExceptSeq

\* ... or is opened.
LEMMA PaymentOpens ==
  ASSUME BillingTypeOK, NEW c \in Nat, NEW s \in Nat,
         payments' = Append(payments, [customer |-> c, sub |-> s, status |-> "open"])
  PROVE  /\ payments' \in Seq(PaymentType) /\ DOMAIN payments \subseteq DOMAIN payments'
         /\ \A q \in DOMAIN payments : payments'[q] = payments[q]
<1> DEFINE e == [customer |-> c, sub |-> s, status |-> "open"]
<1>1. payments \in Seq(PaymentType) /\ e \in PaymentType
  BY DEF BillingTypeOK, PaymentType
<1> HIDE DEF e
<1>2. payments' = Append(payments, e)
  BY DEF e
<1>3. QED
  BY <1>1, <1>2

\* Every step keeps the types.
LEMMA BillingTypeStep == BillingTypeOK /\ [BillingNext]_billingVars => BillingTypeOK'
<1> SUFFICES ASSUME BillingTypeOK, [BillingNext]_billingVars PROVE BillingTypeOK'
  OBVIOUS
<1>0. \A h \in Handlers : billingCall[h].row \in SupporterType /\ billingCall[h].payment \in Nat
                            /\ billingCall[h].sub \in Nat
  BY DEF BillingTypeOK, CallType
<1>1. ASSUME NEW h \in Handlers, NEW at \in Places, NEW p \in Nat, Load(h, at, p)
      PROVE  BillingTypeOK'
  <2>1. Cardinality({g \in Handlers : billingCall[g].at # "idle"}) \in Nat
    BY BillingAssumption, FS_Subset, FS_CardinalityType
  <2>2. billingCall' \in [Handlers -> CallType]
    BY <1>1 DEF Load, BillingTypeOK, CallType
  <2>3. QED
    BY <1>1, <2>1, <2>2 DEF Load, BillingTypeOK
<1>2. ASSUME NEW h \in Handlers, CheckoutPay(h) PROVE BillingTypeOK'
  <2>1. billingCall[h].row.customer \in Nat /\ customers + 1 \in Nat
    BY <1>0 DEF SupporterType, BillingTypeOK
  <2>2. billingCall' \in [Handlers -> CallType]
    BY <1>2, <2>1, CallTyped DEF CheckoutPay, Places
  <2>3. payments' \in Seq(PaymentType)
    BY <1>2, <2>1, PaymentOpens DEF CheckoutPay
  <2>4. QED
    BY <1>2, <2>1, <2>2, <2>3 DEF CheckoutPay, BillingTypeOK
<1>3. ASSUME NEW h \in Handlers, CheckoutCommit(h) PROVE BillingTypeOK'
  <2>1. [customer |-> billingCall[h].sub, sub |-> 0, status |-> "pending_first_payment"]
          \in SupporterType
    BY <1>0 DEF SupporterType, Stati
  <2>2. supporter' \in SupporterType
    BY <1>3, <2>1, FlushTyped DEF CheckoutCommit, BillingTypeOK
  <2>3. QED
    BY <1>3, <2>2, CallTyped DEF CheckoutCommit, BillingTypeOK
<1>4. ASSUME NEW h \in Handlers, CancelAtMollie(h) PROVE BillingTypeOK'
  <2>1. billingCall[h].row.sub \in Nat
    BY <1>0 DEF SupporterType
  <2>2. billingCall' \in [Handlers -> CallType]
    BY <1>4, <2>1, CallTyped DEF CancelAtMollie, Places
  <2>3. mollieSubs' \in Seq(MollieSubType)
    BY <1>4, SubEnds DEF CancelAtMollie, BillingTypeOK, Live
  <2>4. QED
    BY <1>4, <2>2, <2>3 DEF CancelAtMollie, BillingTypeOK
<1>5. ASSUME NEW h \in Handlers,
             CancelCommit(h) \/ Activate(h) \/ Renew(h) \/ FirstFailed(h) \/ Revoke(h)
      PROVE  BillingTypeOK'
  <2>1. \A st \in Stati : [billingCall[h].row EXCEPT !.status = st] \in SupporterType
    BY <1>0 DEF SupporterType
  <2>2. [billingCall[h].row EXCEPT !.sub = billingCall[h].sub, !.status = "active"] \in SupporterType
    BY <1>0 DEF SupporterType, Stati
  <2>3. supporter' \in SupporterType
    BY <1>5, <1>0, <2>1, <2>2, FlushTyped
      DEF CancelCommit, Activate, Renew, FirstFailed, Revoke, Stati
  <2>4. billingCall' \in [Handlers -> CallType]
    BY <1>5, CallTyped DEF CancelCommit, Activate, Renew, FirstFailed, Revoke
  <2>5. QED
    BY <1>5, <2>3, <2>4 DEF CancelCommit, Activate, Renew, FirstFailed, Revoke, BillingTypeOK
<1>6. ASSUME NEW h \in Handlers, FirstPaid(h) PROVE BillingTypeOK'
  <2>1. billingCall[h].row.customer \in Nat
    BY <1>0 DEF SupporterType
  <2>2. mollieSubs' \in Seq(MollieSubType) /\ Len(mollieSubs') \in Nat
    BY <1>6, <2>1, SubBegins DEF FirstPaid
  <2>3. billingCall' \in [Handlers -> CallType]
    BY <1>6, <2>2, CallTyped DEF FirstPaid, Places
  <2>4. QED
    BY <1>6, <2>2, <2>3 DEF FirstPaid, BillingTypeOK
<1>7. ASSUME NEW h \in Handlers, RenewalPaid(h) \/ RenewalFailed(h) \/ NotOurs(h) \/ HandlerDies(h)
      PROVE  BillingTypeOK'
  <2>1. billingCall[h].row.sub \in Nat
    BY <1>0 DEF SupporterType
  <2>2. billingCall' \in [Handlers -> CallType]
    BY <1>7, <2>1, CallTyped DEF RenewalPaid, RenewalFailed, NotOurs, HandlerDies, Places
  <2>3. QED
    BY <1>7, <2>2 DEF RenewalPaid, RenewalFailed, NotOurs, HandlerDies, BillingTypeOK
<1>8. ASSUME NEW p \in DOMAIN payments, NEW status \in {"paid", "failed"}, Settle(p, status)
      PROVE  BillingTypeOK'
  <2>1. payments' \in Seq(PaymentType)
    BY <1>8, PaymentSettles DEF Settle
  <2>2. QED
    BY <1>8, <2>1 DEF Settle, BillingTypeOK
<1>9. ASSUME NEW s \in SubIds, Charge(s) \/ GiveUp(s) PROVE BillingTypeOK'
  <2>1. mollieSubs[s].customer \in Nat /\ s \in Nat
    <3>1. s \in 1..Len(mollieSubs) /\ mollieSubs[s] \in MollieSubType
      BY DEF BillingTypeOK, SubIds
    <3>2. QED
      BY <3>1 DEF MollieSubType, BillingTypeOK
  <2>2. payments' \in Seq(PaymentType)
    BY <1>9, <2>1, PaymentOpens DEF Charge, GiveUp, BillingTypeOK
  <2>3. mollieSubs' \in Seq(MollieSubType)
    BY <1>9, SubEnds DEF Charge, GiveUp, BillingTypeOK
  <2>4. QED
    BY <1>9, <2>2, <2>3 DEF Charge, GiveUp, BillingTypeOK
<1>10. CASE UNCHANGED billingVars
  BY <1>10 DEF billingVars, BillingTypeOK
<1>11. ASSUME NEW h \in Handlers, CheckoutLoad(h) \/ CancelLoad(h) PROVE BillingTypeOK'
  BY <1>1, <1>11 DEF CheckoutLoad, CancelLoad, Places
<1>12. ASSUME NEW h \in Handlers, NEW p \in DOMAIN payments, WebhookLoad(h, p) PROVE BillingTypeOK'
  BY <1>1, <1>12 DEF WebhookLoad, Places, BillingTypeOK
<1>13. QED
  BY <1>2, <1>3, <1>4, <1>5, <1>6, <1>7, <1>8, <1>9, <1>10, <1>11, <1>12 DEF BillingNext

\* They hold at the start, where every handler is idle.
LEMMA BillingStarts ==
  ASSUME BillingInit
  PROVE  BillingTypeOK /\ \A h \in Handlers : billingCall[h].at = "idle"
<1>1. IdleCall \in CallType /\ NoSupporter \in SupporterType /\ IdleCall.at = "idle"
  BY DEF IdleCall, NoSupporter, CallType, SupporterType, Stati, Places
<1>2. billingCall \in [Handlers -> CallType] /\ \A h \in Handlers : billingCall[h].at = "idle"
  BY <1>1 DEF BillingInit
<1>3. payments \in Seq(PaymentType) /\ mollieSubs \in Seq(MollieSubType)
  BY EmptySeq DEF BillingInit
<1>4. QED
  BY <1>1, <1>2, <1>3 DEF BillingInit, BillingTypeOK

\* Type correctness: so are the types of every reachable state.
THEOREM BillingTyped == BillingSpec => []BillingTypeOK
<1>1. BillingInit => BillingTypeOK
  BY BillingStarts
<1>2. QED
  BY <1>1, BillingTypeStep, PTL DEF BillingSpec

------------------------------------------------------------------------------
(* What one handler's step does to the calls: its own goes on, returns or  *)
(* begins, and the others are where they were.                             *)

\* It goes on.
LEMMA GoneOn ==
  ASSUME BillingTypeOK, NEW h \in Handlers, NEW at, NEW sub, GoOn(h, at, sub)
  PROVE  /\ billingCall'[h].at = at /\ billingCall'[h].sub = sub
         /\ billingCall'[h].row = billingCall[h].row
         /\ billingCall'[h].payment = billingCall[h].payment
         /\ \A g \in Handlers : g # h => billingCall'[g] = billingCall[g]
<1>1. billingCall[h] \in CallType /\ billingCall \in [Handlers -> CallType]
  BY DEF BillingTypeOK
<1>2. billingCall' = [billingCall EXCEPT ![h] = [billingCall[h] EXCEPT !.at = at, !.sub = sub]]
  BY <1>1 DEF GoOn, CallType
<1>3. billingCall'[h] = [billingCall[h] EXCEPT !.at = at, !.sub = sub]
  BY <1>1, <1>2
<1>4. \A g \in Handlers : g # h => billingCall'[g] = billingCall[g]
  BY <1>1, <1>2
<1>5. QED
  BY <1>1, <1>3, <1>4 DEF CallType

\* It returns.
LEMMA Returned ==
  ASSUME BillingTypeOK, NEW h \in Handlers, Return(h)
  PROVE  /\ billingCall'[h].at = "idle"
         /\ \A g \in Handlers : g # h => billingCall'[g] = billingCall[g]
BY DEF BillingTypeOK, Return, IdleCall

\* It begins.
LEMMA Loaded ==
  ASSUME BillingTypeOK, NEW h \in Handlers, NEW at, NEW p, Load(h, at, p)
  PROVE  /\ billingCall[h].at = "idle"
         /\ billingCall'[h].at = at /\ billingCall'[h].row = supporter
         /\ billingCall'[h].payment = p
         /\ \A g \in Handlers : g # h => billingCall'[g] = billingCall[g]
BY DEF BillingTypeOK, Load

------------------------------------------------------------------------------
(* Nobody has the perk who never paid.                                     *)

SomePaid == \E p \in DOMAIN payments : payments[p].status = "paid"

Granting == {"activate", "renewActive", "renewInactive"}

PaidInv ==
    /\ BillingTypeOK
    /\ perk => SomePaid
    /\ \A h \in Handlers :
          /\ billingCall[h].at \in Granting => SomePaid
          /\ billingCall[h].at = "webhook" => billingCall[h].payment \in DOMAIN payments

\* What was paid stays paid, as it was.
LEMMA PaidStays ==
  ASSUME BillingTypeOK, [BillingNext]_billingVars
  PROVE  \A q \in DOMAIN payments :
            q \in DOMAIN payments' /\ (payments[q].status = "paid" => payments'[q] = payments[q])
<1>1. CASE UNCHANGED payments
  BY <1>1
<1>2. ASSUME NEW c \in Nat, NEW s \in Nat,
             payments' = Append(payments, [customer |-> c, sub |-> s, status |-> "open"])
      PROVE  \A q \in DOMAIN payments :
                q \in DOMAIN payments' /\ (payments[q].status = "paid" => payments'[q] = payments[q])
  BY <1>2, PaymentOpens
<1>3. ASSUME NEW p \in DOMAIN payments, NEW st \in {"paid", "failed"}, Settle(p, st)
      PROVE  \A q \in DOMAIN payments :
                q \in DOMAIN payments' /\ (payments[q].status = "paid" => payments'[q] = payments[q])
  BY <1>3, PaymentSettles DEF Settle
<1>4. ASSUME NEW h \in Handlers, CheckoutPay(h)
      PROVE  \E c \in Nat : payments' = Append(payments, [customer |-> c, sub |-> 0, status |-> "open"])
  <2>1. billingCall[h].row.customer \in Nat /\ customers + 1 \in Nat
    BY DEF BillingTypeOK, CallType, SupporterType
  <2>2. QED
    BY <1>4, <2>1 DEF CheckoutPay
<1>5. ASSUME NEW s \in SubIds, Charge(s)
      PROVE  \E c \in Nat : payments' = Append(payments, [customer |-> c, sub |-> s, status |-> "open"])
             /\ s \in Nat
  <2>1. s \in 1..Len(mollieSubs) /\ mollieSubs[s] \in MollieSubType
    BY DEF BillingTypeOK, SubIds
  <2>2. mollieSubs[s].customer \in Nat /\ s \in Nat
    BY <2>1 DEF MollieSubType, BillingTypeOK
  <2>3. QED
    BY <1>5, <2>2 DEF Charge
<1>6. ASSUME NEW h \in Handlers, NEW at, NEW p, Load(h, at, p) PROVE UNCHANGED payments
  BY <1>6 DEF Load
<1>7. QED
  BY <1>1, <1>2, <1>3, <1>4, <1>5, <1>6
    DEF BillingNext, billingVars, CheckoutLoad, CheckoutCommit, CancelLoad, CancelAtMollie,
        CancelCommit, WebhookLoad, FirstPaid, Activate, RenewalPaid, Renew, FirstFailed,
        RenewalFailed, Revoke, NotOurs, HandlerDies, GiveUp

\* Every step keeps it: the only ways to the perk start from a paid payment.
LEMMA PaidStep == PaidInv /\ [BillingNext]_billingVars => PaidInv'
<1> SUFFICES ASSUME PaidInv, [BillingNext]_billingVars PROVE PaidInv'
  OBVIOUS
<1>0. BillingTypeOK /\ BillingTypeOK'
  BY BillingTypeStep DEF PaidInv
<1>a. \A q \in DOMAIN payments :
         q \in DOMAIN payments' /\ (payments[q].status = "paid" => payments'[q] = payments[q])
  BY <1>0, PaidStays
<1>b. SomePaid => SomePaid'
  BY <1>a DEF SomePaid
<1>c. \A g \in Handlers : billingCall'[g] = billingCall[g] =>
         /\ billingCall'[g].at \in Granting => SomePaid'
         /\ billingCall'[g].at = "webhook" => billingCall'[g].payment \in DOMAIN payments'
  BY <1>a, <1>b DEF PaidInv
<1>1. ASSUME NEW h \in Handlers, Return(h), perk' => perk \/ billingCall[h].at \in Granting
      PROVE  PaidInv'
  BY <1>0, <1>b, <1>c, <1>1, Returned DEF PaidInv, Granting
<1>2. ASSUME NEW h \in Handlers, NEW at, NEW p, Load(h, at, p), at \notin Granting,
             at = "webhook" => p \in DOMAIN payments
      PROVE  PaidInv'
  <2>1. perk' = perk
    BY <1>2 DEF Load
  <2>2. QED
    <3>1. /\ billingCall'[h].at = at /\ billingCall'[h].payment = p
          /\ \A g \in Handlers : g # h => billingCall'[g] = billingCall[g]
      BY <1>0, <1>2, Loaded
    <3>2. \A g \in Handlers :
            /\ billingCall'[g].at \in Granting => SomePaid'
            /\ billingCall'[g].at = "webhook" => billingCall'[g].payment \in DOMAIN payments'
      <4>1. p \in DOMAIN payments => p \in DOMAIN payments'
        BY <1>a
      <4>2. QED
        BY <1>c, <1>2, <3>1, <4>1
    <3>3. QED
      BY <1>0, <1>b, <2>1, <3>2 DEF PaidInv
<1>3. ASSUME NEW h \in Handlers, NEW at, NEW sub, GoOn(h, at, sub), perk' = perk,
             at # "webhook", at \in Granting => Paid(h) /\ billingCall[h].at = "webhook"
      PROVE  PaidInv'
  <2>1. at \in Granting => SomePaid
    BY <1>3 DEF PaidInv, Paid, SomePaid
  <2>2. QED
    <3>1. /\ billingCall'[h].at = at
          /\ \A g \in Handlers : g # h => billingCall'[g] = billingCall[g]
      BY <1>0, <1>3, GoneOn
    <3>2. \A g \in Handlers :
            /\ billingCall'[g].at \in Granting => SomePaid'
            /\ billingCall'[g].at = "webhook" => billingCall'[g].payment \in DOMAIN payments'
      BY <1>b, <1>c, <1>3, <2>1, <3>1
    <3>3. QED
      BY <1>0, <1>b, <1>3, <3>2 DEF PaidInv
<1>4. ASSUME UNCHANGED <<billingCall, perk>> PROVE PaidInv'
  BY <1>0, <1>b, <1>c, <1>4 DEF PaidInv
<1>5. ASSUME NEW h \in Handlers, NEW p \in DOMAIN payments,
             CheckoutLoad(h) \/ CancelLoad(h) \/ WebhookLoad(h, p)
      PROVE  PaidInv'
  BY <1>5, <1>2 DEF CheckoutLoad, CancelLoad, WebhookLoad, Granting
<1>6. ASSUME NEW h \in Handlers,
             CheckoutLoad(h) \/ CancelLoad(h)
      PROVE  PaidInv'
  BY <1>6, <1>2 DEF CheckoutLoad, CancelLoad, Granting
<1>7. ASSUME NEW h \in Handlers, CheckoutPay(h) \/ CancelAtMollie(h) \/ RenewalFailed(h)
      PROVE  PaidInv'
  BY <1>7, <1>1, <1>3 DEF CheckoutPay, CancelAtMollie, RenewalFailed, Granting
<1>8. ASSUME NEW h \in Handlers, FirstPaid(h) \/ RenewalPaid(h)
      PROVE  PaidInv'
  BY <1>8, <1>3 DEF FirstPaid, RenewalPaid, Granting
<1>9. ASSUME NEW h \in Handlers,
             \/ CheckoutCommit(h) \/ CancelCommit(h) \/ Activate(h) \/ Renew(h)
             \/ FirstFailed(h) \/ Revoke(h) \/ NotOurs(h) \/ HandlerDies(h)
      PROVE  PaidInv'
  BY <1>9, <1>1 DEF CheckoutCommit, CancelCommit, Activate, Renew, FirstFailed, Revoke,
                    NotOurs, HandlerDies, Granting
<1>10. ASSUME NEW s \in SubIds, Charge(s) \/ GiveUp(s) PROVE PaidInv'
  BY <1>10, <1>4 DEF Charge, GiveUp
<1>11. ASSUME NEW p, NEW st, Settle(p, st) PROVE PaidInv'
  BY <1>11, <1>4 DEF Settle
<1>12. CASE UNCHANGED billingVars
  BY <1>12, <1>4 DEF billingVars
<1>13. QED
  BY <1>5, <1>6, <1>7, <1>8, <1>9, <1>10, <1>11, <1>12 DEF BillingNext

\* The invariant behind PerkWasPaid, of every reachable state.
LEMMA PaidAlways == BillingSpec => []PaidInv
<1>1. BillingInit => PaidInv
  BY BillingStarts DEF BillingInit, PaidInv, Granting
<1>2. QED
  BY <1>1, PaidStep, PTL DEF BillingSpec

\* Whatever overlaps, dies or is delivered again and late: nobody has the
\* supporter's perk without a payment that Mollie settled as paid.
THEOREM PerkPaid == BillingSpec => []PerkWasPaid
<1>1. PaidInv => PerkWasPaid
  BY DEF PaidInv, SomePaid, PerkWasPaid
<1>2. QED
  BY <1>1, PaidAlways, PTL

------------------------------------------------------------------------------
(* One request at a time.  `Alone` is what holds as long as no request has *)
(* overlapped another or died; its parts are what the handlers rely on     *)
(* across their awaits.                                                    *)

Ended  == \E s \in SubIds \ Live : PaidFor(s)
Active == supporter.status = "active"
Busy(h) == billingCall[h].at # "idle"

CallSound(h) ==
    /\ Busy(h) => billingCall[h].row = supporter
    /\ billingCall[h].at \in {"checkout", "checkoutCommit"} => ~Active
    /\ billingCall[h].at \in {"cancelCommit", "revoke"} => Live = {}
    /\ billingCall[h].at = "activate" =>
          /\ supporter.sub = 0 /\ billingCall[h].sub \in SubIds
          /\ Live \subseteq {billingCall[h].sub}
    /\ billingCall[h].at \in {"renewActive", "renewInactive"} => supporter.sub # 0
    /\ billingCall[h].at = "renewInactive" => Ended

OneBusy  == \A g, h \in Handlers : Busy(g) /\ Busy(h) => g = h
RowSound ==
    /\ supporter.sub \in SubIds \cup {0}
    /\ Active => supporter.sub # 0 /\ perk
    /\ perk /\ ~Active => Ended
LiveIsKnown ==
    (\A h \in Handlers : billingCall[h].at # "activate") =>
        \A s \in Live : supporter.sub = s /\ Active

Alone == OneBusy /\ (\A h \in Handlers : CallSound(h)) /\ RowSound /\ LiveIsKnown

AloneInv == PaidInv /\ (disturbed = 0 => Alone)

\* A handler that flushes the row it loaded, while that is still the row,
\* puts in place exactly what it computed.
LEMMA FlushAlone ==
  ASSUME NEW h \in Handlers, NEW new \in SupporterType, BillingTypeOK, Flush(h, new),
         billingCall[h].row = supporter
  PROVE  supporter' = new
<1>1. DOMAIN new = {"customer", "sub", "status"}
  BY DEF SupporterType
<1>2. supporter' = [f \in {"customer", "sub", "status"} |->
                       IF new[f] # supporter[f] THEN new[f] ELSE supporter[f]]
  BY <1>1 DEF Flush
<1>3. supporter'.customer = new.customer /\ supporter'.sub = new.sub /\ supporter'.status = new.status
  BY <1>2
<1>4. supporter' = [customer |-> supporter'.customer, sub |-> supporter'.sub,
                    status |-> supporter'.status]
  BY <1>2
<1>5. new = [customer |-> new.customer, sub |-> new.sub, status |-> new.status]
  BY DEF SupporterType
<1>6. QED
  BY <1>3, <1>4, <1>5

\* An ended subscription that was paid for stays one.
LEMMA EndedStays ==
  ASSUME BillingTypeOK, [BillingNext]_billingVars, Ended, SubIds \subseteq SubIds',
         Live' \cap SubIds \subseteq Live
  PROVE  Ended'
<1>1. PICK s \in SubIds \ Live : PaidFor(s)
  BY DEF Ended
<1>2. PICK p \in DOMAIN payments : payments[p].status = "paid" /\ payments[p].sub = s
  BY <1>1 DEF PaidFor
<1>3. p \in DOMAIN payments' /\ payments'[p] = payments[p]
  BY <1>2, PaidStays
<1>4. PaidFor(s)'
  BY <1>2, <1>3 DEF PaidFor
<1>5. QED
  BY <1>1, <1>4 DEF Ended

\* The step of the invariant, for what a handler does with its own call: the
\* obligations left to an action are about its own call, the row and the books.
LEMMA AloneFrame ==
  ASSUME AloneInv, Alone, [BillingNext]_billingVars, NEW h \in Handlers,
         \A g \in Handlers : g # h => billingCall'[g] = billingCall[g] /\ ~Busy(g),
         CallSound(h)', RowSound',
         billingCall'[h].at # "activate" => \A s \in Live' : supporter'.sub = s /\ supporter'.status = "active"
  PROVE  Alone'
<1>1. \A g \in Handlers : g # h => billingCall'[g].at = "idle" /\ ~Busy(g)'
  BY DEF Busy
<1>2. OneBusy'
  BY <1>1 DEF OneBusy
<1>3. \A g \in Handlers : CallSound(g)'
  BY <1>1 DEF CallSound
<1>4. LiveIsKnown'
  BY DEF LiveIsKnown, Active
<1>5. QED
  BY <1>2, <1>3, <1>4 DEF Alone

\* Every step keeps it, as long as nothing overlaps or dies.
LEMMA AloneStep ==
  ASSUME AloneInv, [BillingNext]_billingVars, disturbed' = 0
  PROVE  Alone'
<1>0. /\ BillingTypeOK /\ BillingTypeOK' /\ PaidInv
      /\ disturbed \in Nat
  BY BillingTypeStep DEF AloneInv, PaidInv, BillingTypeOK
<1>a. \A h \in Handlers :
         /\ billingCall[h].row \in SupporterType /\ billingCall[h].sub \in Nat
         /\ billingCall[h].row.customer \in Nat /\ billingCall[h].row.sub \in Nat
  BY <1>0 DEF BillingTypeOK, CallType, SupporterType
<1>b. /\ supporter \in SupporterType
      /\ SubIds = 1..Len(mollieSubs) /\ Len(mollieSubs) \in Nat /\ Live \subseteq SubIds
      /\ 0 \notin Live /\ IsFiniteSet(Handlers)
  BY <1>0, BillingAssumption DEF BillingTypeOK, SubIds, Live
\* The load is the only step that counts overlap; without it, no one is busy.
<1>1. ASSUME NEW h \in Handlers, NEW at, NEW p, Load(h, at, p),
             at \in {"checkout", "cancel", "webhook"}, at = "checkout" => ~Active
      PROVE  Alone'
  <2> DEFINE S == {g \in Handlers : billingCall[g].at # "idle"}
  <2>1. Cardinality(S) \in Nat /\ IsFiniteSet(S)
    BY <1>b, FS_Subset, FS_CardinalityType
  <2>2. disturbed = 0 /\ Cardinality(S) = 0
    BY <1>0, <1>1, <2>1 DEF Load
  <2>3. S = {}
    BY <2>1, <2>2, FS_EmptySet
  <2>4. /\ billingCall'[h].at = at /\ billingCall'[h].row = supporter
        /\ \A g \in Handlers : g # h => billingCall'[g] = billingCall[g] /\ ~Busy(g)
    BY <1>0, <1>1, <2>3, Loaded DEF Busy
  <2>5. Alone
    BY <2>2 DEF AloneInv
  <2>6. UNCHANGED <<supporter, perk, payments, mollieSubs>>
    BY <1>1 DEF Load
  <2>7. SubIds' = SubIds /\ Live' = Live /\ (Active <=> Active') /\ (Ended <=> Ended')
    BY <2>6 DEF SubIds, Live, Active, Ended, PaidFor
  <2>8. CallSound(h)'
    BY <1>1, <2>4, <2>6, <2>7 DEF CallSound
  <2>9. RowSound'
    BY <2>5, <2>6, <2>7 DEF Alone, RowSound
  <2>10. \A g \in Handlers : billingCall[g].at # "activate"
    BY <2>3
  <2>11. \A s \in Live' : supporter'.sub = s /\ supporter'.status = "active"
    BY <2>5, <2>6, <2>7, <2>10 DEF Alone, LiveIsKnown, Active
  <2>12. QED
    BY <2>4, <2>5, <2>8, <2>9, <2>11, AloneFrame
<1>c. disturbed' = disturbed => Alone
  BY <1>0 DEF AloneInv
<1>d. ASSUME NEW h \in Handlers, Busy(h), Alone
      PROVE  /\ billingCall[h].row = supporter /\ CallSound(h)
             /\ \A g \in Handlers : g # h => ~Busy(g)
             /\ billingCall[h].at # "activate" => \A s \in Live : supporter.sub = s /\ Active
  BY <1>d DEF Alone, OneBusy, CallSound, LiveIsKnown, Busy
<1>e. SubIds \subseteq SubIds' /\ Live' \cap SubIds \subseteq Live /\ Ended => Ended'
  BY <1>0, EndedStays
<1>f. ASSUME UNCHANGED mollieSubs PROVE SubIds' = SubIds /\ Live' = Live /\ (Ended => Ended')
  BY <1>e, <1>f DEF SubIds, Live
\* A handler returns with nothing written, ...
<1>2. ASSUME NEW h \in Handlers, Busy(h), Return(h), billingCall[h].at # "activate",
             UNCHANGED <<supporter, perk, mollieSubs, disturbed>>
      PROVE  Alone'
  <2>1. /\ billingCall'[h].at = "idle"
        /\ \A g \in Handlers : g # h => billingCall'[g] = billingCall[g]
    BY <1>0, <1>2, Returned
  <2>2. CallSound(h)'
    BY <2>1 DEF CallSound, Busy
  <2>3. RowSound'
    BY <1>2, <1>c, <1>f DEF Alone, RowSound, Active
  <2>4. \A s \in Live' : supporter'.sub = s /\ supporter'.status = "active"
    BY <1>2, <1>c, <1>d, <1>f DEF Active
  <2>5. QED
    BY <1>2, <1>c, <1>d, <2>1, <2>2, <2>3, <2>4, AloneFrame
\* ... goes on with nothing written, ...
<1>3. ASSUME NEW h \in Handlers, Busy(h), billingCall[h].at # "activate",
             NEW at \in {"checkoutCommit", "cancelCommit", "renewActive", "renewInactive", "revoke"},
             NEW sub, GoOn(h, at, sub),
             UNCHANGED <<supporter, perk, mollieSubs, disturbed>>,
             at = "checkoutCommit" => ~Active,
             at \in {"cancelCommit", "revoke"} => Live = {},
             at \in {"renewActive", "renewInactive"} => supporter.sub # 0,
             at = "renewInactive" => Ended
      PROVE  Alone'
  <2>1. /\ billingCall'[h].at = at /\ billingCall'[h].row = billingCall[h].row
        /\ \A g \in Handlers : g # h => billingCall'[g] = billingCall[g]
    BY <1>0, <1>3, GoneOn
  <2>2. CallSound(h)'
    BY <1>3, <1>c, <1>d, <1>f, <2>1 DEF CallSound, Active
  <2>3. RowSound'
    BY <1>3, <1>c, <1>f DEF Alone, RowSound, Active
  <2>4. \A s \in Live' : supporter'.sub = s /\ supporter'.status = "active"
    BY <1>3, <1>c, <1>d, <1>f DEF Active
  <2>5. QED
    BY <1>3, <1>c, <1>d, <2>1, <2>2, <2>3, <2>4, AloneFrame
\* ... or commits what it computed.
<1>4. ASSUME NEW h \in Handlers, Busy(h), Return(h), UNCHANGED <<mollieSubs, disturbed>>,
             NEW new \in SupporterType, supporter' = new,
             new.sub \in SubIds \cup {0},
             new.status = "active" => new.sub # 0 /\ perk',
             perk' /\ new.status # "active" => Ended,
             \A s \in Live : new.sub = s /\ new.status = "active"
      PROVE  Alone'
  <2>1. /\ billingCall'[h].at = "idle"
        /\ \A g \in Handlers : g # h => billingCall'[g] = billingCall[g]
    BY <1>0, <1>4, Returned
  <2>2. CallSound(h)'
    BY <2>1 DEF CallSound, Busy
  <2>3. RowSound'
    BY <1>4, <1>f DEF RowSound, Active
  <2>4. \A s \in Live' : supporter'.sub = s /\ supporter'.status = "active"
    BY <1>4, <1>f
  <2>5. QED
    BY <1>4, <1>c, <1>d, <2>1, <2>2, <2>3, <2>4, AloneFrame
\* Mollie's steps, which touch no call and no row.
<1>5. ASSUME UNCHANGED <<supporter, perk, billingCall, disturbed>>, SubIds' = SubIds,
             Live' \subseteq Live
      PROVE  Alone'
  <2>1. Alone /\ (Ended => Ended') /\ (Active' <=> Active)
    BY <1>5, <1>c, <1>e DEF Active
  <2>2. \A h \in Handlers : CallSound(h)'
    BY <1>5, <2>1 DEF Alone, CallSound, Busy
  <2>3. OneBusy' /\ RowSound' /\ LiveIsKnown'
    BY <1>5, <2>1 DEF Alone, OneBusy, RowSound, LiveIsKnown, Busy
  <2>4. QED
    BY <2>2, <2>3 DEF Alone
<1>6. ASSUME NEW h \in Handlers, CheckoutLoad(h) \/ CancelLoad(h) PROVE Alone'
  BY <1>6, <1>1 DEF CheckoutLoad, CancelLoad, Active
<1>7. ASSUME NEW h \in Handlers, NEW p, WebhookLoad(h, p) PROVE Alone'
  BY <1>7, <1>1 DEF WebhookLoad
<1>8. ASSUME NEW h \in Handlers, CheckoutPay(h) PROVE Alone'
  <2>1. Busy(h) /\ billingCall[h].at = "checkout" /\ Alone
    BY <1>8, <1>c DEF CheckoutPay, Busy
  <2>2. ~Active
    BY <2>1, <1>d DEF CallSound
  <2>3. PICK sub : GoOn(h, "checkoutCommit", sub)
    BY <1>8 DEF CheckoutPay
  <2>4. UNCHANGED <<supporter, perk, mollieSubs, disturbed>>
    BY <1>8 DEF CheckoutPay
  <2>5. QED
    BY <1>3, <2>1, <2>2, <2>3, <2>4
<1>9. ASSUME NEW h \in Handlers, CheckoutCommit(h) PROVE Alone'
  <2> DEFINE pending == [customer |-> billingCall[h].sub, sub |-> 0,
                         status |-> "pending_first_payment"]
  <2>1. Busy(h) /\ billingCall[h].at = "checkoutCommit" /\ Alone
    BY <1>9, <1>c DEF CheckoutCommit, Busy
  <2>2. ~Active /\ billingCall[h].row = supporter /\ Live = {}
    BY <2>1, <1>d DEF CallSound
  <2>3. pending \in SupporterType /\ pending.sub = 0 /\ pending.status = "pending_first_payment"
    BY <1>a DEF SupporterType, Stati
  <2>4. supporter' = pending
    <3>1. CASE Flush(h, pending)
      BY <1>0, <2>2, <2>3, <3>1, FlushAlone
    <3>2. QED
      BY <1>9, <2>2, <3>1 DEF CheckoutCommit
  <2>5. Return(h) /\ UNCHANGED <<perk, mollieSubs, disturbed>>
    BY <1>9 DEF CheckoutCommit
  <2>6. perk => Ended
    BY <2>1, <2>2 DEF Alone, RowSound
  <2> HIDE DEF pending
  <2>7. QED
    BY <1>4, <2>1, <2>2, <2>3, <2>4, <2>5, <2>6
<1>10. ASSUME NEW h \in Handlers, CancelAtMollie(h) PROVE Alone'
  <2> DEFINE s == billingCall[h].row.sub
  <2>1. Busy(h) /\ billingCall[h].at = "cancel" /\ Alone /\ s = supporter.sub
        /\ \A t \in Live : t = s /\ Active
    BY <1>10, <1>c, <1>d DEF CancelAtMollie, Busy
  <2>2. UNCHANGED <<supporter, perk, payments, disturbed>>
    BY <1>10 DEF CancelAtMollie
  <2>3. CASE s \notin Live
    <3>1. UNCHANGED mollieSubs /\ Live = {}
      BY <1>10, <2>1, <2>3 DEF CancelAtMollie
    <3>2. Return(h) \/ GoOn(h, "cancelCommit", s)
      BY <1>10 DEF CancelAtMollie
    <3>3. QED
      BY <1>2, <1>3, <2>1, <2>2, <3>1, <3>2
  <2>4. CASE s \in Live
    <3>1. mollieSubs' = [mollieSubs EXCEPT ![s].status = "canceled"] /\ GoOn(h, "cancelCommit", s)
      BY <1>10, <2>4 DEF CancelAtMollie
    <3>2. SubIds' = SubIds /\ Live' = {}
      BY <1>0, <1>b, <2>1, <2>4, <3>1, SubEnds
    <3>3. /\ billingCall'[h].at = "cancelCommit" /\ billingCall'[h].row = billingCall[h].row
          /\ \A g \in Handlers : g # h => billingCall'[g] = billingCall[g]
      BY <1>0, <3>1, GoneOn
    <3>4. CallSound(h)'
      BY <1>d, <2>1, <2>2, <3>2, <3>3 DEF CallSound
    <3>5. RowSound'
      BY <1>e, <2>1, <2>2, <3>2 DEF Alone, RowSound, Active
    <3>6. QED
      BY <1>d, <2>1, <3>2, <3>3, <3>4, <3>5, AloneFrame
  <2>5. QED
    BY <2>3, <2>4
<1>11. ASSUME NEW h \in Handlers, CancelCommit(h) \/ Revoke(h) PROVE Alone'
  <2> DEFINE new == [billingCall[h].row EXCEPT !.status = "canceled"]
  <2>1. Busy(h) /\ Alone /\ billingCall[h].at \in {"cancelCommit", "revoke"}
    BY <1>11, <1>c DEF CancelCommit, Revoke, Busy
  <2>2. billingCall[h].row = supporter /\ Live = {}
    BY <2>1, <1>d DEF CallSound
  <2>3. new \in SupporterType /\ new.status = "canceled" /\ new.sub = supporter.sub
    BY <1>a, <2>2 DEF SupporterType, Stati
  <2>4. Flush(h, new) /\ Return(h) /\ perk' = FALSE /\ UNCHANGED <<mollieSubs, disturbed>>
    BY <1>11 DEF CancelCommit, Revoke
  <2>5. new.sub \in SubIds \cup {0}
    BY <2>1, <2>3 DEF Alone, RowSound
  <2> HIDE DEF new
  <2>6. supporter' = new
    BY <1>0, <2>2, <2>3, <2>4, FlushAlone
  <2>7. QED
    BY <1>4, <2>1, <2>2, <2>3, <2>4, <2>5, <2>6
<1>12. ASSUME NEW h \in Handlers, FirstPaid(h) PROVE Alone'
  <2> DEFINE n == Len(mollieSubs')
  <2>1. /\ Busy(h) /\ billingCall[h].at = "webhook" /\ Alone /\ supporter.sub = 0
        /\ billingCall[h].row = supporter /\ \A t \in Live : t = 0
    BY <1>12, <1>c, <1>d DEF FirstPaid, Unbound, Busy
  <2>2. Live = {}
    BY <1>b, <2>1
  <2>3. /\ mollieSubs' = Append(mollieSubs, [customer |-> billingCall[h].row.customer,
                                             status |-> "active"])
        /\ GoOn(h, "activate", n) /\ UNCHANGED <<supporter, perk, disturbed>>
    BY <1>12 DEF FirstPaid
  <2>4. SubIds' = SubIds \cup {n} /\ Live' = {n}
    BY <1>0, <1>a, <2>2, <2>3, SubBegins
  <2>5. /\ billingCall'[h].at = "activate" /\ billingCall'[h].sub = n
        /\ billingCall'[h].row = billingCall[h].row
        /\ \A g \in Handlers : g # h => billingCall'[g] = billingCall[g]
    <3>1. PICK k : k = n
      OBVIOUS
    <3>2. GoOn(h, "activate", k)
      BY <2>3, <3>1
    <3> HIDE DEF n
    <3>3. /\ billingCall'[h].at = "activate" /\ billingCall'[h].sub = k
          /\ billingCall'[h].row = billingCall[h].row
          /\ \A g \in Handlers : g # h => billingCall'[g] = billingCall[g]
      BY <1>0, <3>2, GoneOn
    <3>4. QED
      BY <3>1, <3>3
  <2>6. CallSound(h)'
    BY <2>1, <2>3, <2>4, <2>5 DEF CallSound
  <2>7. RowSound'
    <3>1. Ended => Ended'
      BY <1>0, <1>b, <2>2, <2>4, EndedStays, SubBegins, <1>a, <2>3
    <3>2. QED
      BY <2>1, <2>3, <2>4, <3>1 DEF Alone, RowSound, Active
  <2>8. QED
    BY <1>d, <2>1, <2>5, <2>6, <2>7, AloneFrame
<1>13. ASSUME NEW h \in Handlers, Activate(h) PROVE Alone'
  <2> DEFINE new == [billingCall[h].row EXCEPT !.sub = billingCall[h].sub, !.status = "active"]
  <2>1. Busy(h) /\ billingCall[h].at = "activate" /\ Alone
    BY <1>13, <1>c DEF Activate, Busy
  <2>2. /\ billingCall[h].row = supporter /\ Live \subseteq {billingCall[h].sub}
        /\ billingCall[h].sub \in SubIds
    BY <2>1, <1>d DEF CallSound
  <2>3. new \in SupporterType /\ new.status = "active" /\ new.sub = billingCall[h].sub
    BY <1>a DEF SupporterType, Stati
  <2>4. Flush(h, new) /\ Return(h) /\ perk' = TRUE /\ UNCHANGED <<mollieSubs, disturbed>>
    BY <1>13 DEF Activate
  <2>5. billingCall[h].sub # 0
    BY <1>b, <2>2
  <2> HIDE DEF new
  <2>6. supporter' = new
    BY <1>0, <2>2, <2>3, <2>4, FlushAlone
  <2>7. QED
    BY <1>4, <2>1, <2>2, <2>3, <2>4, <2>5, <2>6
<1>14. ASSUME NEW h \in Handlers, RenewalPaid(h) PROVE Alone'
  <2>1. /\ Busy(h) /\ billingCall[h].at = "webhook" /\ Alone /\ billingCall[h].row = supporter
        /\ Paid(h) /\ supporter.sub # 0
        /\ payments[billingCall[h].payment].sub = supporter.sub
    BY <1>14, <1>c, <1>d DEF RenewalPaid, Unbound, SameSub, Busy
  <2>2. PaidFor(supporter.sub) /\ supporter.sub \in SubIds
    BY <1>0, <2>1 DEF PaidInv, PaidFor, Paid, Alone, RowSound
  <2>3. UNCHANGED <<supporter, perk, mollieSubs, disturbed>>
    BY <1>14 DEF RenewalPaid
  <2>4. CASE supporter.sub \in Live
    <3>1. GoOn(h, "renewActive", supporter.sub)
      BY <1>14, <2>1, <2>4 DEF RenewalPaid
    <3>2. QED
      BY <1>3, <2>1, <2>3, <3>1
  <2>5. CASE supporter.sub \notin Live
    <3>1. GoOn(h, "renewInactive", supporter.sub)
      BY <1>14, <2>1, <2>5 DEF RenewalPaid
    <3>2. Ended
      BY <2>2, <2>5 DEF Ended
    <3>3. QED
      BY <1>3, <2>1, <2>3, <3>1, <3>2
  <2>6. QED
    BY <2>4, <2>5
<1>15. ASSUME NEW h \in Handlers, Renew(h) PROVE Alone'
  <2> DEFINE new == IF billingCall[h].at = "renewActive"
                    THEN [billingCall[h].row EXCEPT !.status = "active"]
                    ELSE billingCall[h].row
  <2>1. /\ Busy(h) /\ Alone
        /\ billingCall[h].at \in {"renewActive", "renewInactive"}
    BY <1>15, <1>c DEF Renew, Busy
  <2>2. /\ billingCall[h].row = supporter /\ supporter.sub # 0
        /\ billingCall[h].at = "renewInactive" => Ended
        /\ \A s \in Live : supporter.sub = s /\ supporter.status = "active"
        /\ supporter.sub \in SubIds \cup {0}
    BY <2>1, <1>d DEF CallSound, Alone, RowSound, Active
  <2>3. /\ new \in SupporterType /\ new.sub = supporter.sub
        /\ billingCall[h].at = "renewActive" => new.status = "active"
        /\ billingCall[h].at = "renewInactive" => new.status = supporter.status
    <3>1. [billingCall[h].row EXCEPT !.status = "active"] \in SupporterType
          /\ [billingCall[h].row EXCEPT !.status = "active"].sub = supporter.sub
          /\ [billingCall[h].row EXCEPT !.status = "active"].status = "active"
      BY <1>a, <2>2 DEF SupporterType, Stati
    <3>2. QED
      BY <1>a, <2>2, <3>1
  <2>4. Flush(h, new) /\ Return(h) /\ perk' = TRUE /\ UNCHANGED <<mollieSubs, disturbed>>
    BY <1>15 DEF Renew
  <2> HIDE DEF new
  <2>5. supporter' = new
    BY <1>0, <2>2, <2>3, <2>4, FlushAlone
  <2>6. /\ new.status # "active" => Ended
        /\ \A s \in Live : new.sub = s /\ new.status = "active"
        /\ new.sub \in SubIds \cup {0} /\ new.sub # 0
    BY <2>1, <2>2, <2>3
  <2>7. QED
    BY <1>4, <2>1, <2>3, <2>4, <2>5, <2>6
<1>16. ASSUME NEW h \in Handlers, FirstFailed(h) PROVE Alone'
  <2> DEFINE new == [billingCall[h].row EXCEPT !.status = "failed"]
  <2>1. /\ Busy(h) /\ billingCall[h].at = "webhook" /\ Alone /\ supporter.sub = 0
        /\ billingCall[h].row = supporter /\ \A t \in Live : t = 0
    BY <1>16, <1>c, <1>d DEF FirstFailed, Unbound, Busy
  <2>2. Live = {} /\ (perk => Ended)
    BY <1>b, <2>1 DEF Alone, RowSound
  <2>3. new \in SupporterType /\ new.status = "failed" /\ new.sub = 0
    BY <1>a, <2>1 DEF SupporterType, Stati
  <2>4. Flush(h, new) /\ Return(h) /\ UNCHANGED <<perk, mollieSubs, disturbed>>
    BY <1>16 DEF FirstFailed
  <2> HIDE DEF new
  <2>5. supporter' = new
    BY <1>0, <2>1, <2>3, <2>4, FlushAlone
  <2>6. QED
    BY <1>4, <2>1, <2>2, <2>3, <2>4, <2>5
<1>17. ASSUME NEW h \in Handlers, RenewalFailed(h) PROVE Alone'
  <2>1. /\ Busy(h) /\ billingCall[h].at = "webhook" /\ Alone /\ billingCall[h].row = supporter
        /\ \A t \in Live : t = supporter.sub
    BY <1>17, <1>c, <1>d DEF RenewalFailed, Busy
  <2>2. UNCHANGED <<supporter, perk, mollieSubs, disturbed>>
    BY <1>17 DEF RenewalFailed
  <2>3. CASE supporter.sub \in Live
    <3>1. Return(h)
      BY <1>17, <2>1, <2>3 DEF RenewalFailed
    <3>2. QED
      BY <1>2, <2>1, <2>2, <3>1
  <2>4. CASE supporter.sub \notin Live
    <3>1. GoOn(h, "revoke", supporter.sub) /\ Live = {}
      BY <1>17, <2>1, <2>4 DEF RenewalFailed
    <3>2. QED
      BY <1>3, <2>1, <2>2, <3>1
  <2>5. QED
    BY <2>3, <2>4
<1>18. ASSUME NEW h \in Handlers, NotOurs(h) PROVE Alone'
  BY <1>2, <1>18 DEF NotOurs, Busy
<1>19. ASSUME NEW h \in Handlers, HandlerDies(h) PROVE Alone'
  BY <1>0, <1>19 DEF HandlerDies
<1>20. ASSUME NEW p \in DOMAIN payments, NEW st, Settle(p, st) PROVE Alone'
  BY <1>5, <1>20 DEF Settle, SubIds, Live
<1>21. ASSUME NEW s \in SubIds, Charge(s) PROVE Alone'
  BY <1>5, <1>21 DEF Charge, SubIds, Live
<1>22. ASSUME NEW s \in SubIds, GiveUp(s) PROVE Alone'
  <2>1. SubIds' = SubIds /\ Live' \subseteq Live
    BY <1>0, <1>22, SubEnds DEF GiveUp
  <2>2. QED
    BY <1>5, <1>22, <2>1 DEF GiveUp
<1>23. CASE UNCHANGED billingVars
  BY <1>5, <1>23 DEF billingVars, SubIds, Live
<1>24. QED
  BY <1>6, <1>7, <1>8, <1>9, <1>10, <1>11, <1>12, <1>13, <1>14, <1>15, <1>16, <1>17, <1>18,
     <1>19, <1>20, <1>21, <1>22, <1>23 DEF BillingNext

\* The invariant behind the next two theorems.
LEMMA AloneAlways == BillingSpec => []AloneInv
<1>1. BillingInit => AloneInv
  <2> SUFFICES ASSUME BillingInit PROVE AloneInv
    OBVIOUS
  <2>1. PaidInv /\ \A h \in Handlers : billingCall[h].at = "idle"
    BY BillingStarts DEF BillingInit, PaidInv, Granting
  <2>2. /\ supporter.sub = 0 /\ supporter.status = "none" /\ perk = FALSE
        /\ SubIds = {}
    <3>1. DOMAIN mollieSubs = {}
      BY EmptySeq DEF BillingInit
    <3>2. QED
      BY <3>1 DEF BillingInit, NoSupporter, SubIds
  <2>3. Live = {}
    BY <2>2 DEF Live
  <2>4. Alone
    BY <2>1, <2>2, <2>3 DEF Alone, OneBusy, CallSound, RowSound, LiveIsKnown, Busy, Active
  <2>5. QED
    BY <2>1, <2>4 DEF AloneInv
<1>2. AloneInv /\ [BillingNext]_billingVars => AloneInv'
  BY PaidStep, AloneStep DEF AloneInv
<1>3. QED
  BY <1>1, <1>2, PTL DEF BillingSpec

\* As long as no request of the account overlapped another or died midway,
\* Mollie renews, between requests, only what the account's row knows as its
\* active subscription, and the account has the perk it is charged for.
THEOREM ChargedPerked == BillingSpec => []ChargedIsPerked
<1>1. AloneInv => ChargedIsPerked
  BY DEF AloneInv, Alone, LiveIsKnown, RowSound, ChargedIsPerked, Quiet, Active
<1>2. QED
  BY <1>1, AloneAlways, PTL

\* As long as no request of the account overlapped another or died midway, the
\* perk and the payment side differ only by a renewal that was reported after
\* its subscription had ended.
THEOREM EntitlementsExplained == BillingSpec => []EntitlementExplained
<1>1. AloneInv => EntitlementExplained
  BY DEF AloneInv, Alone, RowSound, EntitlementExplained, Active, Ended
<1>2. QED
  BY <1>1, AloneAlways, PTL
=============================================================================
