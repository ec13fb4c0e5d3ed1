------------------------------ MODULE MCServices ------------------------------
(***************************************************************************)
(* Fan-out into the queues and the services beside it, for TLC, on two     *)
(* workers or requests in flight at a time each.  They share no state: a   *)
(* behaviour of this module exercises one of them, its `subject`, and      *)
(* leaves the others as they began, so that one run explores each of the   *)
(* nine specifications on its own instance and adds nothing to any of them. *)
(* "media" and "export" are two instances of the same uploads, without an  *)
(* export and beside one.  The feed's instance is MCFeedQueues.            *)
(***************************************************************************)
EXTENDS MCFeedQueues, Billing, Pricing, Trust, EmailVerification, Audience,
        RateLimit, Export

CONSTANTS h1, h2,            \* the two requests of every service
          f1, f2, q1, q2,    \* the price refreshers of two processes, and two requests
          ch1, ch2,          \* channels
          a1, a2, ip1, nobody

VARIABLE subject             \* the service the behaviour exercises

MCRequests == {h1, h2}
MCSymmetry == Permutations(MCRequests)

------------------------------------------------------------------------------
(* Instances. *)
Reading(q, o, t) == [queue |-> q, active |-> 0, ops |-> [r \in Routes |-> o],
                  subs |-> [r \in Routes |-> 1], opsTotal |-> t, subsTotal |-> 2]
MCLoads == {Reading(0, 1, 4), Reading(4, 3, 4)}
MCCrews == {{f1, f2, q1}, {f2, q1, q2}}

History(a, c, r, f, h) == [answered |-> a, correct |-> c, reviews |-> r, forwards |-> f,
                           paced |-> IF r = 0 THEN 0 ELSE r - 1, hasty |-> h]
MCStartInputs == {History(1, 1, 2, 2, 1)}
MCManners     == {{"forward"}, {"hasty"}}
MCRates       == {250, NoRate}

Request(route, user, tried) ==
    [route |-> route, user |-> user, super |-> FALSE, ip |-> ip1, tried |-> tried]
MCVisits == {Request("login", nobody, a1), Request("login", nobody, nobody),
             Request("interact", a2, nobody)}
MCLimits == [s \in Scopes |-> IF s = "interact" THEN 0 ELSE 2]

File(claims, real, fits) ==
    [claims |-> claims, real |-> real, big |-> FALSE, fits |-> fits, long |-> FALSE]
Send(kind, files) == [kind |-> kind, files |-> files]
MCSubmissions ==
    {Send("post", <<File("video", "video", TRUE)>>),
     Send("post", <<File("video", "junk", TRUE)>>),
     Send("feedback", <<File("image", "image", FALSE)>>),
     Send("picture", <<File("image", "image", TRUE)>>),
     Send("remove", << >>), Send("delete", << >>)}

------------------------------------------------------------------------------
Subjects == {"feed", "billing", "pricing", "trust", "verification", "audience",
             "rate limit", "media", "export"}

(* The services' initial states; one that is not exercised has only one.   *)
ServicesInit ==
    /\ subject \in Subjects
    /\ Init /\ BillingInit /\ PricingInit /\ TrustInit /\ NewAccount
    /\ AudienceInit /\ RateLimitInit /\ ExportInit
    /\ subject = "pricing" \/ \A q \in Quoters : priceCall[q] = Resting(0)
    /\ IF subject = "verification" THEN VerificationInit
       ELSE visit = [h \in Requesters |-> IdleVisit]
    /\ subject = "audience" \/ reader.languages = Languages

Others(v) ==                 \* what is not the subject's stays
    /\ subject' = subject
    /\ IF v = "feed" THEN TRUE ELSE UNCHANGED vars
    /\ IF v = "billing" THEN TRUE ELSE UNCHANGED billingVars
    /\ IF v = "pricing" THEN TRUE ELSE UNCHANGED pricingVars
    /\ IF v = "trust" THEN TRUE ELSE UNCHANGED trustVars
    /\ IF v = "verification" THEN TRUE ELSE UNCHANGED verificationVars
    /\ IF v = "audience" THEN TRUE ELSE UNCHANGED audienceVars
    /\ IF v = "rate limit" THEN TRUE ELSE UNCHANGED rateLimitVars
    /\ IF v \in {"media", "export"} THEN TRUE ELSE UNCHANGED mediaVars
    /\ IF v = "export" THEN TRUE ELSE UNCHANGED exportVars

ServicesNext ==
    \/ subject = "feed" /\ Next /\ Others("feed")
    \/ subject = "billing" /\ BillingNext /\ Others("billing")
    \/ subject = "pricing" /\ PricingNext /\ Others("pricing")
    \/ subject = "trust" /\ TrustNext /\ Others("trust")
    \/ subject = "verification" /\ VerificationNext /\ Others("verification")
    \/ subject = "audience" /\ AudienceNext /\ Others("audience")
    \/ subject = "rate limit" /\ RateLimitNext /\ Others("rate limit")
    \/ subject = "media" /\ MediaNext /\ Others("media")
    \/ subject = "export" /\ ExportNext /\ Others("export")

Services == ServicesInit /\ [][ServicesNext]_<<
    subject, vars, billingVars, pricingVars, trustVars, verificationVars,
    audienceVars, rateLimitVars, mediaVars, exportVars>>

(* The prices on their own.                                                 *)
PricingAlone == subject = "pricing" /\ Services
=============================================================================
