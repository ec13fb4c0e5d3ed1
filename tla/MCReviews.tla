------------------------------ MODULE MCReviews ------------------------------
(***************************************************************************)
(* Reviews, and signing in, for TLC, with two requests in progress at      *)
(* once.  A behaviour of this module exercises one `subject` and leaves    *)
(* what the others use as it began:                                        *)
(*   "crowd"         Reviews, where a superuser publishes one post and     *)
(*                   everybody else reviews it                             *)
(*   "account"       Reviews, where an author pays for two posts and one   *)
(*                   reader has both, and perhaps a test post              *)
(*   "sign-in"       SignIn, which shares no state with Reviews            *)
(***************************************************************************)
EXTENDS Reviews, SignIn, TLC

CONSTANTS r1, r2,            \* the two requests
          alice, bob, root,  \* an author, a reader and a superuser
          p1, p2, probe, g1, nobody

VARIABLE subject

MCRequests   == {r1, r2}
MCPosts      == {p1, p2}
MCAudience   == [p \in MCPosts |-> {alice, bob}]
MCAddressOf  == [i \in Identities |-> alice]
MCSymmetry   == Permutations(MCRequests) \cup Permutations(MCPosts)

(* At most n posts, all of them by the author w.                           *)
PublishedBy(w, n) ==
    LET publishing == {r \in Requests : At(r, "publish")}
        published  == {p \in Posts : author[p] # NoUser} IN
    /\ \A r \in publishing : req[r].user = w
    /\ Cardinality(publishing) + Cardinality(published) <= n

Crowd   == PublishedBy(root, 1) /\ \A t \in Probes : reader[t] = NoUser
Account == PublishedBy(alice, 2) /\ \A r \in Requests : req[r].user # root

------------------------------------------------------------------------------
Subjects == {"crowd", "account", "sign-in"}

ReviewsInit ==
    /\ subject \in Subjects
    /\ Init /\ SignInInit
    /\ subject = "sign-in" \/ registered = {}

Others(v) ==                 \* what is not the subject's stays
    /\ subject' = subject
    /\ IF v = "reviews" THEN TRUE ELSE UNCHANGED vars
    /\ IF v = "sign-in" THEN TRUE ELSE UNCHANGED signInVars

ReviewsNext ==
    \/ subject = "crowd" /\ Next /\ Crowd' /\ Others("reviews")
    \/ subject = "account" /\ Next /\ Account' /\ Others("reviews")
    \/ subject = "sign-in" /\ SignInNext /\ Others("sign-in")

ReviewsSpec == ReviewsInit /\ [][ReviewsNext]_<<subject, vars, signInVars>>

(* One of them on its own.                                                 *)
AccountAlone == subject = "account" /\ ReviewsSpec
SignInAlone  == subject = "sign-in" /\ ReviewsSpec
=============================================================================
