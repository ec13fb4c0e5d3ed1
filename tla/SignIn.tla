------------------------------- MODULE SignIn -------------------------------
(***************************************************************************)
(* The ways into an account: its password (change_password.py, the reset   *)
(* codes of core/password_reset.py and api/password_reset.py) and its      *)
(* linked Google identities (google_auth.py).  An account is named after   *)
(* its address.  OAuthAccount has no unique constraint, on the identity or *)
(* on the user, so what is true of the links is true because of the checks *)
(* made before the inserts.  Reset codes are counted, compared and issued  *)
(* as in EmailVerification, but consumed only after the password is        *)
(* written, so that a password that is too weak may be tried again.        *)
(***************************************************************************)
EXTENDS Integers, FiniteSets

CONSTANTS Clients,          \* requests in flight at once
          Accounts,         \* every account that can exist
          Identities,       \* Google identities (`sub`)
          AddressOf,        \* the address Google vouches for: an account's, or Elsewhere
          Elsewhere,
          MaxResetAttempts, \* PASSWORD_RESET_MAX_ATTEMPTS
          MaxResets,        \* bound: reset codes issued
          Forgetful         \* bound: the accounts that ask for them

ASSUME SignInAssumption ==
    /\ Elsewhere \notin Accounts
    /\ AddressOf \in [Identities -> Accounts \cup {Elsewhere}]
    /\ Forgetful \subseteq Accounts
    /\ MaxResetAttempts \in Nat /\ MaxResets \in Nat

VARIABLES registered,       \* the accounts that exist
          usable,           \* those whose password somebody may know
          links,            \* OAuthAccount: pairs <<account, identity>>
          resetCode,        \* account -> the stored code, or 0
          resetTries,       \* account -> the counter of attempts, as an Untried one
          lastReset,        \* the newest code ever issued
          client,           \* per request, where it is and what it has seen
          used,             \* history: codes that have set a password
          leftOver,         \* history: a request died with its code used, not consumed
          halfLinked        \* history: accounts whose link was made, and whose password
                            \* was kept: see LinkedHasNoPassword

signInVars == <<registered, usable, links, resetCode, resetTries, lastReset, client, used,
                leftOver, halfLinked>>

IdleClient == [at |-> "idle", account |-> Elsewhere, identity |-> Elsewhere,
               code |-> 0, linking |-> FALSE, raced |-> FALSE]

(* A counter: its value, how its key goes, and as history how often the    *)
(* stored code was compared, and whether that code was issued while a      *)
(* check of the account was Uncompared: counted, and yet to be compared.   *)
Untried == [n |-> 0, expires |-> "never", guessed |-> 0, reissued |-> FALSE]

LinkedTo(i)    == {a \in registered : <<a, i>> \in links}
LinksOf(a)     == {i \in Identities : <<a, i>> \in links}
In(c, at)      == client[c].at = at
Who(c)         == client[c].account
Uncompared(a)  == {c \in Clients : (In(c, "expire") \/ In(c, "check")) /\ Who(c) = a}
Advance(c, at) == client' = [client EXCEPT ![c].at = at]
FinishClient(c)      == client' = [client EXCEPT ![c] = IdleClient]
Arrive(c, at, a, i, id) ==
    /\ In(c, "idle")
    /\ client' = [client EXCEPT ![c] =
           [at |-> at, account |-> a, identity |-> i, code |-> id,
            linking |-> FALSE, raced |-> FALSE]]

SignInInit ==
    /\ registered \in SUBSET Accounts
    /\ usable = registered
    /\ links = {}
    /\ resetCode = [a \in Accounts |-> 0]
    /\ resetTries = [a \in Accounts |-> Untried]
    /\ lastReset = 0
    /\ client = [c \in Clients |-> IdleClient]
    /\ used = {} /\ leftOver = FALSE /\ halfLinked = {}

(* POST /auth/register, with a password.                                   *)
Register(a) ==
    /\ a \notin registered
    /\ registered' = registered \cup {a}
    /\ usable' = usable \cup {a}
    /\ UNCHANGED <<links, resetCode, resetTries, lastReset, client, used, leftOver, halfLinked>>

------------------------------------------------------------------------------
(* POST /auth/forgot-password; a linked account only gets a notice.        *)
Forgot(c, a) ==
    /\ a \in registered \cap Forgetful /\ LinksOf(a) = {}
    /\ Arrive(c, "forgot", a, Elsewhere, 0)
    /\ UNCHANGED <<registered, usable, links, resetCode, resetTries, lastReset, used, leftOver, halfLinked>>

IssueReset(c) ==             \* the code, and its counter afresh, in one MULTI
    /\ In(c, "forgot") /\ lastReset < MaxResets
    /\ lastReset' = lastReset + 1
    /\ resetCode' = [resetCode EXCEPT ![Who(c)] = lastReset + 1]
    /\ resetTries' = [resetTries EXCEPT ![Who(c)] =
                         [Untried EXCEPT !.reissued = (Uncompared(Who(c)) # {})]]
    /\ FinishClient(c)
    /\ UNCHANGED <<registered, usable, links, used, leftOver, halfLinked>>

(* POST /auth/reset-password/confirm: eligible if unlinked when loaded.    *)
(* `id` is the code typed: the one stored, or any other (0).               *)
ResetConfirm(c, a, id) ==
    /\ a \in registered \cap Forgetful /\ LinksOf(a) = {}
    /\ id \in {0, resetCode[a]}
    /\ resetTries[a].n <= MaxResetAttempts        \* bound: one try too many is enough
    /\ Arrive(c, "reset", a, Elsewhere, id)
    /\ UNCHANGED <<registered, usable, links, resetCode, resetTries, lastReset, used, leftOver, halfLinked>>

CountResetLate(c) ==         \* mutant: one try too many is compared
    /\ In(c, "reset")
    /\ resetTries' = [resetTries EXCEPT ![Who(c)].n = @ + 1]
    /\ IF resetTries[Who(c)].n = 0 THEN Advance(c, "expire")
       ELSE IF resetTries[Who(c)].n > MaxResetAttempts THEN FinishClient(c)
       ELSE Advance(c, "check")
    /\ UNCHANGED <<registered, usable, links, resetCode, lastReset, used, leftOver, halfLinked>>

CountReset(c) ==
    LET n == resetTries[Who(c)].n + 1
    IN /\ In(c, "reset")
       /\ resetTries' = [resetTries EXCEPT ![Who(c)].n = n]
       /\ IF n = 1 THEN Advance(c, "expire")
          ELSE IF n > MaxResetAttempts THEN FinishClient(c)
          ELSE Advance(c, "check")
       /\ UNCHANGED <<registered, usable, links, resetCode, lastReset, used, leftOver, halfLinked>>

(* The counter lives as long as the code, which may be another's by now,   *)
(* or for a time of its own when none is stored.                           *)
ExpireReset(c) ==
    LET a == Who(c)
        until == IF resetCode[a] = 0 \/ resetTries[a].reissued THEN "anytime" ELSE "with code"
    IN /\ In(c, "expire")
       /\ resetTries' = IF resetTries[a].n = 0 THEN resetTries
                        ELSE [resetTries EXCEPT ![a].expires = until]
       /\ Advance(c, "check")
       /\ UNCHANGED <<registered, usable, links, resetCode, lastReset, used, leftOver, halfLinked>>

(* The code is compared and kept: a weak password may be tried again.      *)
CheckReset(c, strong) ==
    LET stored == resetCode[Who(c)]
    IN /\ In(c, "check")
       /\ resetTries' = IF stored = 0 \/ resetTries[Who(c)].guessed > MaxResetAttempts
                        THEN resetTries                     \* counted as far as it matters
                        ELSE [resetTries EXCEPT ![Who(c)].guessed = @ + 1]
       /\ IF stored # 0 /\ stored = client[c].code /\ strong THEN Advance(c, "set") ELSE FinishClient(c)
       /\ UNCHANGED <<registered, usable, links, resetCode, lastReset, used, leftOver, halfLinked>>

(* Both writers of a password committed on what they loaded: a link made   *)
(* meanwhile now has a password beside it.                                 *)
SetPassword(c) ==
    /\ In(c, "set") \/ In(c, "change")
    /\ usable' = usable \cup {Who(c)}
    /\ used' = used \cup ({client[c].code} \ {0})
    /\ IF In(c, "set") THEN Advance(c, "consume") ELSE FinishClient(c)
    /\ halfLinked' = IF LinksOf(Who(c)) = {} THEN halfLinked ELSE halfLinked \cup {Who(c)}
    /\ UNCHANGED <<registered, links, resetCode, resetTries, lastReset, leftOver>>

ConsumeNoReset(c) ==         \* mutant: the used code is not deleted
    /\ In(c, "consume")
    /\ FinishClient(c)
    /\ UNCHANGED <<registered, usable, links, resetCode, resetTries, lastReset, used, leftOver, halfLinked>>

ConsumeReset(c) ==                \* whatever code is stored by now
    /\ In(c, "consume")
    /\ resetCode' = [resetCode EXCEPT ![Who(c)] = 0]
    /\ resetTries' = [resetTries EXCEPT ![Who(c)] = Untried]
    /\ FinishClient(c)
    /\ UNCHANGED <<registered, usable, links, lastReset, used, leftOver, halfLinked>>

ChangePassword(c, a) ==      \* the current password was verified on the loaded row
    /\ a \in registered \cap usable /\ LinksOf(a) = {}
    /\ Arrive(c, "change", a, Elsewhere, 0)
    /\ UNCHANGED <<registered, usable, links, resetCode, resetTries, lastReset, used, leftOver, halfLinked>>

------------------------------------------------------------------------------
(* POST /auth/google/link: signed in, with the current password.           *)
Link(c, a, i) ==
    /\ a \in registered \cap usable /\ LinksOf(a) = {}
    /\ Arrive(c, "link", a, i, 0)
    /\ UNCHANGED <<registered, usable, links, resetCode, resetTries, lastReset, used, leftOver, halfLinked>>

LinkUnchecked(c) ==          \* mutant: google_account_in_use is not asked
    /\ In(c, "link")
    /\ client' = [client EXCEPT ![c].at = "associate", ![c].linking = TRUE]
    /\ UNCHANGED <<registered, usable, links, resetCode, resetTries, lastReset, used, leftOver, halfLinked>>

LinkCheck(c) ==
    /\ In(c, "link")
    /\ IF LinkedTo(client[c].identity) # {} THEN FinishClient(c)
       ELSE client' = [client EXCEPT ![c].at = "associate", ![c].linking = TRUE]
    /\ UNCHANGED <<registered, usable, links, resetCode, resetTries, lastReset, used, leftOver, halfLinked>>

(* POST /auth/google: by identity, then by address, then a new account.    *)
(* `link_existing` is the confirmation of the login screen.                *)
GoogleSignIn(c, i, confirmed) ==
    LET a == AddressOf[i] IN
    /\ LinkedTo(i) = {}                              \* linked: just signs in
    /\ a \in registered => confirmed /\ LinksOf(a) = {}
    /\ In(c, "idle")
    /\ client' = [client EXCEPT ![c] =
           [IdleClient EXCEPT !.at = "callback", !.identity = i, !.linking = (a \in registered)]]
    /\ UNCHANGED <<registered, usable, links, resetCode, resetTries, lastReset, used, leftOver, halfLinked>>

(* oauth_callback looks again, before it inserts.                          *)
Callback(c, a) ==
    LET i == client[c].identity IN
    /\ In(c, "callback")
    /\ IF LinkedTo(i) # {}
       THEN /\ a \in LinkedTo(i)
            /\ IF client[c].linking
               THEN client' = [client EXCEPT ![c].at = "disable", ![c].account = a]
               ELSE FinishClient(c)
       ELSE /\ IF AddressOf[i] \in registered THEN a = AddressOf[i]
               ELSE a \notin registered /\ AddressOf[i] \in {a, Elsewhere}
            /\ client' = [client EXCEPT ![c].at = "associate", ![c].account = a]
    /\ UNCHANGED <<registered, usable, links, resetCode, resetTries, lastReset, used, leftOver, halfLinked>>

(* The insert.  Everyone who is past looking for this identity has raced.  *)
Associate(c) ==
    LET a == Who(c)
        i == client[c].identity
        next == IF client[c].linking THEN [client[c] EXCEPT !.at = "disable"] ELSE IdleClient
    IN /\ In(c, "associate")
       /\ registered' = registered \cup {a}           \* a new account: no usable password
       /\ links' = links \cup {<<a, i>>}
       /\ client' = [g \in Clients |->
              IF g = c THEN next
              ELSE [client[g] EXCEPT !.raced = @ \/ (In(g, "associate") /\ client[g].identity = i)]]
       /\ halfLinked' = IF ~client[c].linking /\ a \in usable THEN halfLinked \cup {a}
                        ELSE halfLinked               \* registered after the look
       /\ UNCHANGED <<usable, resetCode, resetTries, lastReset, used, leftOver>>

DisableNothing(c) ==         \* mutant: the old password keeps working
    /\ In(c, "disable")
    /\ FinishClient(c)
    /\ UNCHANGED <<registered, usable, links, resetCode, resetTries, lastReset, used, leftOver, halfLinked>>

Disable(c) ==
    /\ In(c, "disable")
    /\ usable' = usable \ {Who(c)}
    /\ FinishClient(c)
    /\ UNCHANGED <<registered, links, resetCode, resetTries, lastReset, used, leftOver, halfLinked>>

------------------------------------------------------------------------------
ResetExpires(a) ==
    /\ resetCode[a] # 0
    /\ resetCode' = [resetCode EXCEPT ![a] = 0]
    /\ resetTries' = [resetTries EXCEPT ![a] =
                         IF @.expires = "with code" THEN Untried ELSE [@ EXCEPT !.guessed = 0]]
    /\ UNCHANGED <<registered, usable, links, lastReset, client, used, leftOver, halfLinked>>

TriesExpire(a) ==            \* at a time the stored code knows nothing of
    /\ resetTries[a].expires = "anytime"
    /\ resetTries' = [resetTries EXCEPT ![a].n = 0, ![a].expires = "never"]
    /\ UNCHANGED <<registered, usable, links, resetCode, lastReset, client, used, leftOver, halfLinked>>

ClientDies(c) ==
    /\ ~In(c, "idle")
    /\ FinishClient(c)
    /\ leftOver' = (leftOver \/ In(c, "consume"))
    /\ halfLinked' = IF In(c, "disable") THEN halfLinked \cup {Who(c)} ELSE halfLinked
    /\ UNCHANGED <<registered, usable, links, resetCode, resetTries, lastReset, used>>

SignInNext ==
    \/ \E a \in Accounts : Register(a) \/ ResetExpires(a) \/ TriesExpire(a)
    \/ \E c \in Clients :
          \/ \E a \in Accounts : Forgot(c, a) \/ ChangePassword(c, a)
          \/ \E a \in Accounts, id \in 0..lastReset : ResetConfirm(c, a, id)
          \/ \E a \in Accounts, i \in Identities : Link(c, a, i)
          \/ \E i \in Identities, confirmed \in BOOLEAN : GoogleSignIn(c, i, confirmed)
          \/ \E a \in Accounts : Callback(c, a)
          \/ \E strong \in BOOLEAN : CheckReset(c, strong)
          \/ CountReset(c) \/ ExpireReset(c)
          \/ IssueReset(c) \/ SetPassword(c) \/ ConsumeReset(c)
          \/ LinkCheck(c) \/ Associate(c) \/ Disable(c) \/ ClientDies(c)

SignInSpec == SignInInit /\ [][SignInNext]_signInVars

------------------------------------------------------------------------------
(* Linking is an irreversible upgrade: a linked account has no password    *)
(* anyone knows, once the link's request is over - but for a request that  *)
(* died between its two commits, a password written by a request that had  *)
(* loaded the account unlinked, and an account registered in the middle of *)
(* its owner's first Google sign-in.                                       *)
LinkedHasNoPassword ==
    \A a \in usable \ halfLinked :
        LinksOf(a) # {} => \E c \in Clients : In(c, "disable") /\ Who(c) = a

(* What link_google says of sign-in by `sub`: "The one invariant that has  *)
(* to be defended is therefore that a Google identity maps to at most one  *)
(* account", since two would leave a later sign-in with no way to tell     *)
(* which was meant.                                                        *)
IdentityIsOne == \A i \in Identities : Cardinality(LinkedTo(i)) <= 1

(* What can be relied on instead: a request that looked after the first    *)
(* link was committed never makes a second one.  Every other account a     *)
(* linked identity gets, it gets from a request that had already looked.   *)
OneAccountPerIdentity ==
    [][ \A c \in Clients, i \in Identities :
          In(c, "associate") /\ client'[c] # client[c] /\ client[c].identity = i
            /\ {<<b, i>> : b \in Accounts \ {Who(c)}} \cap links # {} /\ links' # links
              => client[c].raced ]_signInVars

(* A reset code is compared with MaxResetAttempts guesses at most, unless   *)
(* it was issued while a check was counted and had yet to compare.         *)
ResetTriesBounded ==
    \A a \in Accounts : resetTries[a].reissued \/ resetTries[a].guessed <= MaxResetAttempts

(* A reset code sets one password: it passes the check again only while    *)
(* its first user is still about to delete it, or died before.             *)
ResetCodeSpentOnce ==
    [][ \A c \in Clients :
          In(c, "check") /\ client'[c].at = "set" /\ client[c].code \in used
              => leftOver \/ \E g \in Clients : In(g, "consume") ]_signInVars
=============================================================================
