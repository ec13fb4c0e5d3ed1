------------------------------ MODULE Billing ------------------------------
(***************************************************************************)
(* The supporter subscription of one account: api/subscriptions.py and     *)
(* core/mollie.py.  The account's two rows (SupporterSubscription and the  *)
(* UserSubscription that is the perk) are written by checkout, cancel and  *)
(* the webhook; each of them loads the row, talks to Mollie and commits,   *)
(* with an await in between.  Mollie settles payments, charges renewals,   *)
(* gives up on a subscription, and calls the webhook for a settled payment *)
(* any number of times and as late as it likes.                            *)
(***************************************************************************)
EXTENDS Integers, Sequences, FiniteSets

CONSTANTS Handlers,       \* requests of this module in flight at once
          MaxPayments,    \* bound: payments Mollie ever holds
          MaxMollieSubs,  \* bound: subscriptions it ever creates
          MaxDisturbances \* bound: requests that overlap another, or die midway

ASSUME BillingAssumption ==
    IsFiniteSet(Handlers) /\ {MaxPayments, MaxMollieSubs, MaxDisturbances} \subseteq Nat

VARIABLES supporter,      \* the SupporterSubscription row, or NoSupporter
          perk,           \* does the UserSubscription(kind="supporter") row exist
          customers,      \* how many customers were created at Mollie
          payments,       \* Mollie's payments: <<[customer, sub, status], ...>>
          mollieSubs,     \* Mollie's subscriptions: <<[customer, status], ...>>
          billingCall,    \* per handler, where it is and the row it loaded
          disturbed       \* history: how many requests overlapped or died midway

billingVars == <<supporter, perk, customers, payments, mollieSubs, billingCall, disturbed>>

NoSupporter == [customer |-> 0, sub |-> 0, status |-> "none"]
IdleCall    == [at |-> "idle", row |-> NoSupporter, payment |-> 0, sub |-> 0]

SubIds == DOMAIN mollieSubs
Live   == {s \in SubIds : mollieSubs[s].status = "active"}

BillingInit ==
    /\ supporter = NoSupporter
    /\ perk = FALSE
    /\ customers = 0
    /\ payments = << >>
    /\ mollieSubs = << >>
    /\ billingCall = [h \in Handlers |-> IdleCall]
    /\ disturbed = 0

(* A handler starts by loading the row; another one in flight is overlap.  *)
Load(h, at, p) ==
    /\ billingCall[h].at = "idle"
    /\ billingCall' = [billingCall EXCEPT ![h] =
                          [at |-> at, row |-> supporter, payment |-> p, sub |-> 0]]
    /\ disturbed' = disturbed + Cardinality({g \in Handlers : billingCall[g].at # "idle"})
    /\ disturbed' <= MaxDisturbances
    /\ UNCHANGED <<supporter, perk, customers, payments, mollieSubs>>

GoOn(h, at, sub) ==
    billingCall' = [billingCall EXCEPT ![h].at = at, ![h].sub = sub]

Return(h) == billingCall' = [billingCall EXCEPT ![h] = IdleCall]

(* The commit writes the columns that differ from the loaded row, and no   *)
(* others: what another handler wrote meanwhile stays.                     *)
Flush(h, new) ==
    supporter' = [f \in DOMAIN new |->
        IF new[f] # billingCall[h].row[f] THEN new[f] ELSE supporter[f]]

------------------------------------------------------------------------------
(* POST /subscriptions/supporter/checkout *)
CheckoutLoad(h) ==
    /\ supporter.status # "active"                  \* 409 already_supporter
    /\ Load(h, "checkout", 0)

CheckoutPay(h) ==
    LET known == billingCall[h].row # NoSupporter
        customer == IF known THEN billingCall[h].row.customer ELSE customers + 1
    IN /\ billingCall[h].at = "checkout"
       /\ Len(payments) < MaxPayments
       /\ customers' = IF known THEN customers ELSE customers + 1
       /\ payments' = Append(payments,
                        [customer |-> customer, sub |-> 0, status |-> "open"])
       /\ GoOn(h, "checkoutCommit", customer)
       /\ UNCHANGED <<supporter, perk, mollieSubs, disturbed>>

CheckoutCommit(h) ==
    LET pending == [customer |-> billingCall[h].sub, sub |-> 0,
                    status |-> "pending_first_payment"]
    IN /\ billingCall[h].at = "checkoutCommit"
       /\ IF billingCall[h].row # NoSupporter THEN Flush(h, pending)
          ELSE supporter' = IF supporter = NoSupporter THEN pending
                            ELSE supporter          \* unique user_id: a 500
       /\ Return(h)
       /\ UNCHANGED <<perk, customers, payments, mollieSubs, disturbed>>

------------------------------------------------------------------------------
(* POST /subscriptions/supporter/cancel *)
CancelLoad(h) ==
    /\ supporter.status = "active"                  \* 404 not_a_supporter
    /\ Load(h, "cancel", 0)

(* Mollie refuses to cancel what is already canceled: a 502, nothing kept. *)
CancelAtMollieForgotten(h) ==        \* mutant: only our own rows are canceled
    /\ billingCall[h].at = "cancel"
    /\ GoOn(h, "cancelCommit", billingCall[h].row.sub)
    /\ UNCHANGED <<supporter, perk, customers, payments, mollieSubs, disturbed>>
CancelAtMollie(h) ==
    LET s == billingCall[h].row.sub
    IN /\ billingCall[h].at = "cancel"
       /\ IF s = 0 \/ s \in Live THEN GoOn(h, "cancelCommit", s) ELSE Return(h)
       /\ mollieSubs' = IF s \in Live THEN [mollieSubs EXCEPT ![s].status = "canceled"]
                        ELSE mollieSubs
       /\ UNCHANGED <<supporter, perk, customers, payments, disturbed>>

CancelCommitKeeps(h) ==              \* mutant: cancel revokes nothing
    /\ billingCall[h].at = "cancelCommit"
    /\ Flush(h, [billingCall[h].row EXCEPT !.status = "canceled"])
    /\ Return(h)
    /\ UNCHANGED <<perk, customers, payments, mollieSubs, disturbed>>
CancelCommit(h) ==
    /\ billingCall[h].at = "cancelCommit"
    /\ Flush(h, [billingCall[h].row EXCEPT !.status = "canceled"])
    /\ perk' = FALSE                                \* _revoke_supporter
    /\ Return(h)
    /\ UNCHANGED <<customers, payments, mollieSubs, disturbed>>

------------------------------------------------------------------------------
(* POST /subscriptions/webhook/mollie: any settled payment, any time, again. *)
WebhookLoad(h, p) ==
    /\ payments[p].status # "open"
    /\ supporter.customer = payments[p].customer    \* unknown customer: dropped
    /\ Load(h, "webhook", p)

PaidOrNot(h) == TRUE                 \* mutant: the payment's status is not read
Paid(h)     == payments[billingCall[h].payment].status = "paid"
Unbound(h)  == billingCall[h].row.sub = 0
SameSub(h)  == payments[billingCall[h].payment].sub = billingCall[h].row.sub

FirstPaid(h) ==
    /\ billingCall[h].at = "webhook" /\ Paid(h) /\ Unbound(h)
    /\ Len(mollieSubs) < MaxMollieSubs
    /\ mollieSubs' = Append(mollieSubs,
                       [customer |-> billingCall[h].row.customer, status |-> "active"])
    /\ GoOn(h, "activate", Len(mollieSubs'))
    /\ UNCHANGED <<supporter, perk, customers, payments, disturbed>>

Activate(h) ==
    /\ billingCall[h].at = "activate"
    /\ Flush(h, [billingCall[h].row EXCEPT !.sub = billingCall[h].sub, !.status = "active"])
    /\ perk' = TRUE                                 \* _grant_supporter
    /\ Return(h)
    /\ UNCHANGED <<customers, payments, mollieSubs, disturbed>>

(* A renewal was paid: status follows Mollie's, the grant does not ask.    *)
RenewalPaid(h) ==
    LET row == billingCall[h].row
    IN /\ billingCall[h].at = "webhook" /\ Paid(h) /\ ~Unbound(h) /\ SameSub(h)
       /\ GoOn(h, IF row.sub \in Live THEN "renewActive" ELSE "renewInactive", row.sub)
       /\ UNCHANGED <<supporter, perk, customers, payments, mollieSubs, disturbed>>

Renew(h) ==
    /\ billingCall[h].at \in {"renewActive", "renewInactive"}
    /\ Flush(h, IF billingCall[h].at = "renewActive"
                THEN [billingCall[h].row EXCEPT !.status = "active"]
                ELSE billingCall[h].row)
    /\ perk' = TRUE                                 \* _grant_supporter
    /\ Return(h)
    /\ UNCHANGED <<customers, payments, mollieSubs, disturbed>>

FirstFailed(h) ==
    /\ billingCall[h].at = "webhook" /\ ~Paid(h) /\ Unbound(h)
    /\ Flush(h, [billingCall[h].row EXCEPT !.status = "failed"])
    /\ Return(h)
    /\ UNCHANGED <<perk, customers, payments, mollieSubs, disturbed>>

(* A renewal failed: revoke only once Mollie itself has given up.          *)
RenewalFailed(h) ==
    LET row == billingCall[h].row
    IN /\ billingCall[h].at = "webhook" /\ ~Paid(h) /\ ~Unbound(h) /\ SameSub(h)
       /\ IF row.sub \in Live THEN Return(h) ELSE GoOn(h, "revoke", row.sub)
       /\ UNCHANGED <<supporter, perk, customers, payments, mollieSubs, disturbed>>

Revoke(h) ==
    /\ billingCall[h].at = "revoke"
    /\ Flush(h, [billingCall[h].row EXCEPT !.status = "canceled"])
    /\ perk' = FALSE
    /\ Return(h)
    /\ UNCHANGED <<customers, payments, mollieSubs, disturbed>>

(* No branch matches: answered 200, nothing written. *)
NotOurs(h) ==
    /\ billingCall[h].at = "webhook" /\ ~Unbound(h) /\ ~SameSub(h)
    /\ Return(h)
    /\ UNCHANGED <<supporter, perk, customers, payments, mollieSubs, disturbed>>

------------------------------------------------------------------------------
(* The process stops, or Mollie answers an error, between load and commit. *)
HandlerDies(h) ==
    /\ billingCall[h].at # "idle"
    /\ disturbed < MaxDisturbances
    /\ Return(h)
    /\ disturbed' = disturbed + 1
    /\ UNCHANGED <<supporter, perk, customers, payments, mollieSubs>>

(* Mollie's side. *)
Settle(p, status) ==
    /\ payments[p].status = "open"
    /\ payments' = [payments EXCEPT ![p].status = status]
    /\ UNCHANGED <<supporter, perk, customers, mollieSubs, billingCall, disturbed>>

Charge(s) ==
    /\ s \in Live /\ Len(payments) < MaxPayments
    /\ payments' = Append(payments,
                     [customer |-> mollieSubs[s].customer, sub |-> s, status |-> "open"])
    /\ UNCHANGED <<supporter, perk, customers, mollieSubs, billingCall, disturbed>>

GiveUp(s) ==
    /\ s \in Live
    /\ \E p \in DOMAIN payments : payments[p].sub = s /\ payments[p].status = "failed"
    /\ mollieSubs' = [mollieSubs EXCEPT ![s].status = "canceled"]
    /\ UNCHANGED <<supporter, perk, customers, payments, billingCall, disturbed>>

BillingNext ==
    \/ \E h \in Handlers :
          \/ CheckoutLoad(h) \/ CheckoutPay(h) \/ CheckoutCommit(h)
          \/ CancelLoad(h) \/ CancelAtMollie(h) \/ CancelCommit(h)
          \/ \E p \in DOMAIN payments : WebhookLoad(h, p)
          \/ FirstPaid(h) \/ Activate(h) \/ RenewalPaid(h) \/ Renew(h)
          \/ FirstFailed(h) \/ RenewalFailed(h) \/ Revoke(h) \/ NotOurs(h)
          \/ HandlerDies(h)
    \/ \E p \in DOMAIN payments, status \in {"paid", "failed"} : Settle(p, status)
    \/ \E s \in SubIds : Charge(s) \/ GiveUp(s)

BillingSpec == BillingInit /\ [][BillingNext]_billingVars

------------------------------------------------------------------------------
Quiet == \A h \in Handlers : billingCall[h].at = "idle"

PaidFor(sub) == \E p \in DOMAIN payments : payments[p].status = "paid" /\ payments[p].sub = sub

(* Mollie charges nobody for nothing, and nobody twice: between requests,  *)
(* the only subscription it still renews is the one of the account's row,  *)
(* which is active and has the perk.  Two deliveries of one webhook, or a  *)
(* handler that dies after Mollie did what it asked, are the exceptions:   *)
(* the code has no idempotency key and no row lock for either.             *)
ChargedIsPerked ==
    disturbed = 0 /\ Quiet =>
        \A s \in Live : supporter.sub = s /\ supporter.status = "active" /\ perk

(* The two tables differ in one way only: the account is not a paying one  *)
(* any more and holds the perk because a renewal Mollie had collected for  *)
(* a subscription that has ended was reported after the end.               *)
EntitlementExplained ==
    disturbed = 0 /\ Quiet =>
        /\ supporter.status = "active" => perk
        /\ perk /\ supporter.status # "active" =>
               \E s \in SubIds \ Live : PaidFor(s)

(* Whatever overlaps or dies: nobody has the perk who never paid.          *)
PerkWasPaid == perk => \E p \in DOMAIN payments : payments[p].status = "paid"

(* What the models' docstring says of the two tables: the webhook keeps    *)
(* the entitlement and the payment side in sync.                           *)
EntitlementInSync == Quiet => (perk <=> supporter.status = "active")
=============================================================================
