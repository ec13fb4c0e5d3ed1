------------------------------ MODULE RateLimit ------------------------------
(***************************************************************************)
(* The budgets in front of the routes: core/rate_limit.py's sliding window *)
(* log, one sorted set of times per budget read and written by one Lua     *)
(* script on Redis's clock, and deps/rate_limit.py, which budgets a        *)
(* request spends before its handler runs.  Time is counted in ticks,      *)
(* Second of them to a second, as the script counts milliseconds.          *)
(***************************************************************************)
EXTENDS Integers, Sequences, FiniteSets

CONSTANTS Visitors,          \* requests in flight at once
          Visits,            \* what they ask: [route, user, super, ip, tried]
          Nobody,            \* the user of a signed-out request
          Limits,            \* scope -> slots; 0 switches a scope off
          Window,            \* ticks; the same for every scope here
          Second,
          MaxTime            \* bound of the clock

Scopes == {"interact", "change_password", "account_export", "feedback", "login",
           "register", "password_reset_request", "password_reset_confirm"}
Limited == {"interact", "change_password", "export", "feedback", "login", "forgot", "register",
            "reset"}         \* the routes with a budget in front

ASSUME RateLimitAssumption ==
    /\ Limits \in [Scopes -> Nat] /\ Window \in Nat \ {0} /\ Second \in Nat \ {0} /\ MaxTime \in Nat
    /\ \A v \in Visits : /\ DOMAIN v = {"route", "user", "super", "ip", "tried"}
                        /\ v.route \in Limited /\ v.super \in BOOLEAN

VARIABLES clock,
          windowLog,         \* rate:{scope}:{identity}: the times of the recorded hits
          visiting,          \* per visitor: the budgets left to spend, and where it is
          granted,           \* history: budget -> the times of all slots granted
          promise            \* history: budget -> when the last refusal said to come
                             \* back, until the next slot is granted

rateLimitVars == <<clock, windowLog, visiting, granted, promise>>

------------------------------------------------------------------------------
(* What a request spends, in order: pairs <<scope, identity>>.             *)
UserBudget(scope, v)  == IF v.super THEN << >> ELSE << <<scope, v.user>> >>
InteractionBudgets(v) == UserBudget("interact", v)
PasswordBudgets(v)    == UserBudget("change_password", v)
ExportBudgets(v)      == UserBudget("account_export", v)
FeedbackBudgets(v)    ==
    IF v.super THEN << >>
    ELSE << <<"feedback", IF v.user # Nobody THEN v.user ELSE v.ip>> >>
AddressAndAccount(scope, v) ==       \* the account's second, if the form names one
    << <<scope, v.ip>> >> \o IF v.tried = Nobody THEN << >> ELSE << <<scope, v.tried>> >>
LoginBudgets(v)       == AddressAndAccount("login", v)
ForgotBudgets(v)      == AddressAndAccount("password_reset_request", v)
RegisterBudgets(v)    == << <<"register", v.ip>> >>
ResetBudgets(v)       == << <<"password_reset_confirm", v.ip>> >>

BudgetsOf(v) ==
    CASE v.route = "interact"        -> InteractionBudgets(v)
      [] v.route = "change_password" -> PasswordBudgets(v)
      [] v.route = "export"          -> ExportBudgets(v)
      [] v.route = "feedback"        -> FeedbackBudgets(v)
      [] v.route = "login"           -> LoginBudgets(v)
      [] v.route = "forgot"          -> ForgotBudgets(v)
      [] v.route = "register"        -> RegisterBudgets(v)
      [] v.route = "reset"           -> ResetBudgets(v)

Limit(b) == Limits[b[1]]

Budgets == UNION {{BudgetsOf(v)[i] : i \in DOMAIN BudgetsOf(v)} : v \in Visits}

RateLimitInit ==
    /\ clock = 0
    /\ windowLog = [b \in Budgets |-> << >>]
    /\ visiting = [r \in Visitors |-> << >>]
    /\ granted = [b \in Budgets |-> << >>]
    /\ promise = [b \in Budgets |-> -1]

------------------------------------------------------------------------------
(* _CONSUME, in one step: forget what left the window, then refuse with    *)
(* the ticks until the oldest leaves it, or record.  The sorted set keeps  *)
(* the oldest hits in front.                                               *)
InWindowFixed(hits) ==               \* mutant: a window that starts with its first hit
    IF hits # << >> /\ Head(hits) <= clock - Window THEN << >> ELSE hits
InWindow(hits) ==
    LET left == {i \in 1..Len(hits) : hits[i] <= clock - Window}
    IN SubSeq(hits, Cardinality(left) + 1, Len(hits))

(* rejection: whole seconds, rounded up, and never 0.                      *)
RetryAfterFloor(ticks) == IF ticks < Second THEN 1 ELSE ticks \div Second    \* mutant
RetryAfter(ticks) ==
    LET seconds == (ticks + Second - 1) \div Second IN IF seconds < 1 THEN 1 ELSE seconds

Visit(r, v) ==
    /\ visiting[r] = << >>
    /\ visiting' = [visiting EXCEPT ![r] = BudgetsOf(v)]
    /\ UNCHANGED <<clock, windowLog, granted, promise>>

(* enforce, for the next budget; the last one lets the handler run.        *)
Unlimited(r) ==
    /\ visiting[r] # << >> /\ Limit(Head(visiting[r])) = 0
    /\ visiting' = [visiting EXCEPT ![r] = Tail(@)]
    /\ UNCHANGED <<clock, windowLog, granted, promise>>

Consume(r) ==
    LET b    == Head(visiting[r])
        hits == InWindow(windowLog[b])
    IN /\ visiting[r] # << >> /\ Len(hits) < Limit(b)
       /\ windowLog' = [windowLog EXCEPT ![b] = Append(hits, clock)]
       /\ granted' = [granted EXCEPT ![b] = Append(@, clock)]
       /\ promise' = [promise EXCEPT ![b] = -1]
       /\ visiting' = [visiting EXCEPT ![r] = Tail(@)]
       /\ UNCHANGED clock

Refuse(r) ==                         \* what was spent on an earlier budget stays spent
    LET b    == Head(visiting[r])
        hits == InWindow(windowLog[b])
    IN /\ visiting[r] # << >> /\ Limit(b) > 0 /\ Len(hits) >= Limit(b)
       /\ windowLog' = [windowLog EXCEPT ![b] = hits]
       /\ promise' = [promise EXCEPT ![b] =
              clock + Second * RetryAfter(Head(hits) + Window - clock)]
       /\ visiting' = [visiting EXCEPT ![r] = << >>]
       /\ UNCHANGED <<clock, granted>>

ClockTicks ==
    /\ clock < MaxTime
    /\ clock' = clock + 1
    /\ UNCHANGED <<windowLog, visiting, granted, promise>>

RateLimitNext ==
    \/ \E r \in Visitors : (\E v \in Visits : Visit(r, v)) \/ Unlimited(r) \/ Consume(r) \/ Refuse(r)
    \/ ClockTicks

RateLimitSpec == RateLimitInit /\ [][RateLimitNext]_rateLimitVars

------------------------------------------------------------------------------
(* No window of Window ticks, wherever it starts, grants a budget more     *)
(* than Limit slots, whichever requests they come from: a slot is granted  *)
(* Window ticks or more after the one that was Limit slots before it.  The *)
(* burst at the boundary that a fixed window lets through is not there.    *)
WindowHolds ==
    \A b \in Budgets : \A i \in 1..(Len(granted[b]) - Limit(b)) :
        granted[b][i + Limit(b)] - granted[b][i] >= Window

(* `retry_after` is true: whoever comes back when a refusal said is not    *)
(* refused again, if nobody was given a slot of the budget in between.     *)
RetryTruthful ==
    [][ \A r \in Visitors :
          visiting[r] # << >> /\ visiting'[r] = << >> /\ granted' = granted
            /\ Limit(Head(visiting[r])) > 0
            => LET b == Head(visiting[r]) IN promise[b] = -1 \/ clock < promise[b] ]_rateLimitVars
=============================================================================
