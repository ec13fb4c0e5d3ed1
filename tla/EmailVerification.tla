------------------------- MODULE EmailVerification -------------------------
(***************************************************************************)
(* One account's address and the proof that its owner reads mail there:    *)
(* core/email_verification.py (the code and its attempts in Redis; the     *)
(* cooldown between two mails is left out, nothing here depends on it),    *)
(* api/email_verification.py (resend, confirm), the e-mail half of         *)
(* deps/users.py (register, PATCH /users/me) and what google_auth.py's     *)
(* link does for a matching address.  A request works on the user row it   *)
(* loaded when it began.                                                   *)
(***************************************************************************)
EXTENDS Integers, FiniteSets

CONSTANTS Requesters,        \* the account's requests in flight at once
          Addresses, FirstAddress,
          MaxCodeAttempts,
          MaxCodes, MaxChanges   \* bounds: codes issued, changes of address
                             \* (rate-limited in the code too)

ASSUME VerificationAssumption ==
    /\ IsFiniteSet(Requesters)
    /\ FirstAddress \in Addresses
    /\ MaxCodeAttempts \in Nat \ {0}
    /\ {MaxCodes, MaxChanges} \subseteq Nat

VARIABLES userRow,           \* [email, verified]: the row in Postgres
          code,              \* the stored code, a number, or NoCode
          attempts,          \* the counter: [n, expires]
          mailbox,           \* the addresses the stored code has been mailed to
          visit,             \* per request, where it is and what it read
          issued, changes,   \* the bounded counters
          compared,          \* history: times the stored code was compared
          proven,            \* history: addresses whose mail was shown to be read
          crossed,           \* history: a change of address overlapped another
                             \* request, or died before it issued its code
          reissued           \* history: the stored code was issued while a check
                             \* was counted and had yet to compare

verificationVars == <<userRow, code, attempts, mailbox, visit, issued,
                      changes, compared, proven, crossed, reissued>>

NoCode     == 0
NoAttempts == [n |-> 0, expires |-> "never"]
IdleVisit  == [at |-> "idle", row |-> [email |-> FirstAddress, verified |-> FALSE],
               to |-> FirstAddress, code |-> NoCode]

is(h, at)  == visit[h].at = at
Changing   == {h \in Requesters : visit[h].at \in {"change", "changed", "mail new"}}
Checking   == {h \in Requesters : visit[h].at \in {"expire", "compare"}}   \* counted
Busy       == {h \in Requesters : ~is(h, "idle")}

(* on_after_register runs on the new account: its code is on the way.      *)
NewAccount ==
    /\ userRow = [email |-> FirstAddress, verified |-> FALSE]
    /\ code = NoCode /\ attempts = NoAttempts
    /\ mailbox = {}
    /\ issued = 0 /\ changes = 0
    /\ compared = 0 /\ proven = {} /\ crossed = FALSE /\ reissued = FALSE

VerificationInit ==
    /\ NewAccount
    /\ \E h \in Requesters :
          visit = [g \in Requesters |-> IF g = h THEN [IdleVisit EXCEPT !.at = "register"]
                                        ELSE IdleVisit]

Step(h, at)  == visit' = [visit EXCEPT ![h].at = at]
Leave(h)     == visit' = [visit EXCEPT ![h] = IdleVisit]
Enter(h, at, id) ==
    /\ is(h, "idle")
    /\ visit' = [visit EXCEPT ![h] = [IdleVisit EXCEPT !.at = at, !.row = userRow, !.code = id]]
    /\ crossed' = (crossed \/ Changing # {})

(* SQLAlchemy writes the columns that differ from the row as it was loaded.*)
FlushUser(h, new) ==
    userRow' = [f \in DOMAIN new |->
                  IF new[f] # visit[h].row[f] THEN new[f] ELSE userRow[f]]

------------------------------------------------------------------------------
(* issue_code: the new code and the deletion of the counter in one MULTI.  *)
Issue(h) ==
    /\ code' = issued + 1 /\ issued' = issued + 1
    /\ attempts' = NoAttempts
    /\ compared' = 0 /\ mailbox' = {}
    /\ reissued' = (Checking # {})

IssueCode(h) ==                   \* on register, on an e-mail change, on resend
    /\ visit[h].at \in {"register", "changed", "resend"}
    /\ issued < MaxCodes
    /\ Issue(h)
    /\ visit' = [visit EXCEPT ![h] =
                    [IdleVisit EXCEPT !.at = IF is(h, "changed") THEN "mail new" ELSE "mail",
                                      !.to = IF is(h, "changed") THEN visit[h].to ELSE visit[h].row.email,
                                      !.code = issued + 1]]
    /\ UNCHANGED <<userRow, changes, proven, crossed>>

(* The mail goes to the address the request holds; sending it may fail.    *)
SendMail(h, delivered) ==
    /\ visit[h].at \in {"mail", "mail new"}
    /\ mailbox' = IF delivered /\ visit[h].code = code THEN mailbox \cup {visit[h].to}
                  ELSE mailbox
    /\ Leave(h)
    /\ UNCHANGED <<userRow, code, attempts, issued, changes, compared, proven,
                   crossed, reissued>>

Resend(h) ==
    /\ ~userRow.verified
    /\ Enter(h, "resend", NoCode)
    /\ UNCHANGED <<userRow, code, attempts, mailbox, issued, changes,
                   compared, proven, reissued>>

------------------------------------------------------------------------------
(* POST /confirm: count, expire, compare, delete, verify.  `id` is the     *)
(* code typed: the one in the mail, or any other (NoCode).                 *)
Confirm(h, id) ==
    /\ ~userRow.verified
    /\ attempts.n <= MaxCodeAttempts               \* bound: one try too many is enough
    /\ id = NoCode \/ (id = code /\ mailbox # {})
    /\ Enter(h, "check", id)
    /\ UNCHANGED <<userRow, code, attempts, mailbox, issued, changes,
                   compared, proven, reissued>>

CountAttemptLate(h) ==            \* mutant: one try too many is compared
    /\ is(h, "check")
    /\ attempts' = [attempts EXCEPT !.n = @ + 1]
    /\ IF attempts.n = 0 THEN Step(h, "expire")
       ELSE IF attempts.n > MaxCodeAttempts THEN Leave(h)
       ELSE Step(h, "compare")
    /\ UNCHANGED <<userRow, code, mailbox, issued, changes, compared, proven, crossed, reissued>>

CountAttempt(h) ==
    /\ is(h, "check")
    /\ attempts' = [attempts EXCEPT !.n = @ + 1]
    /\ IF attempts.n = 0 THEN Step(h, "expire")
       ELSE IF attempts.n + 1 > MaxCodeAttempts THEN Leave(h)
       ELSE Step(h, "compare")
    /\ UNCHANGED <<userRow, code, mailbox, issued, changes, compared,
                   proven, crossed, reissued>>

ExpireWithCode(h) ==              \* lives as long as the code that is stored
    /\ is(h, "expire")
    /\ attempts' = IF attempts.n = 0 THEN attempts
                   ELSE [attempts EXCEPT !.expires = IF reissued THEN "anytime" ELSE "with code"]
    /\ Step(h, "compare")
    /\ UNCHANGED <<userRow, code, mailbox, issued, changes, compared,
                   proven, crossed, reissued>>

Compare(h) ==                     \* GET, and the comparison
    LET right == code # NoCode /\ visit[h].code = code
    IN /\ is(h, "compare")
       /\ compared' = IF code = NoCode \/ compared > MaxCodeAttempts THEN compared ELSE compared + 1
       /\ proven' = IF right THEN proven \cup mailbox ELSE proven
       /\ IF right THEN Step(h, "delete") ELSE Leave(h)
       /\ UNCHANGED <<userRow, code, attempts, mailbox, issued, changes, crossed, reissued>>

(* The code and its counter go by their keys: whatever is stored by now.   *)
DeleteCode(h) ==
    /\ is(h, "delete")
    /\ code' = NoCode
    /\ attempts' = NoAttempts
    /\ Step(h, "verify")
    /\ UNCHANGED <<userRow, mailbox, issued, changes, compared, proven, crossed, reissued>>

Verify(h) ==
    /\ is(h, "verify")
    /\ FlushUser(h, [visit[h].row EXCEPT !.verified = TRUE])
    /\ Leave(h)
    /\ UNCHANGED <<code, attempts, mailbox, issued, changes, compared,
                   proven, crossed, reissued>>

------------------------------------------------------------------------------
(* PATCH /users/me with another address.                                   *)
ChangeEmail(h, a) ==
    /\ a # userRow.email /\ changes < MaxChanges
    /\ is(h, "idle")
    /\ visit' = [visit EXCEPT ![h] = [at |-> "change", row |-> userRow, to |-> a, code |-> NoCode]]
    /\ changes' = changes + 1
    /\ crossed' = (crossed \/ Busy # {})
    /\ UNCHANGED <<userRow, code, attempts, mailbox, issued, compared,
                   proven, reissued>>

CommitEmailKeepsProof(h) ==       \* mutant: is_verified survives the change
    /\ is(h, "change")
    /\ FlushUser(h, [visit[h].row EXCEPT !.email = visit[h].to])
    /\ Step(h, "changed")
    /\ UNCHANGED <<code, attempts, mailbox, issued, changes, compared,
                   proven, crossed, reissued>>

CommitEmail(h) ==
    /\ is(h, "change")
    /\ FlushUser(h, [email |-> visit[h].to, verified |-> FALSE])
    /\ Step(h, "changed")
    /\ UNCHANGED <<code, attempts, mailbox, issued, changes, compared,
                   proven, crossed, reissued>>

(* POST /google/link: Google vouches for its own address, and only when it *)
(* is the account's is the account verified; another changes nothing here. *)
LinkGoogle(h) ==
    /\ ~userRow.verified
    /\ Enter(h, "verify", NoCode)
    /\ proven' = proven \cup {userRow.email}
    /\ UNCHANGED <<userRow, code, attempts, mailbox, issued, changes, compared, reissued>>

------------------------------------------------------------------------------
CodeExpires ==
    /\ code # NoCode
    /\ code' = NoCode
    /\ attempts' = IF attempts.expires = "never" THEN attempts ELSE NoAttempts
    /\ UNCHANGED <<userRow, mailbox, visit, issued, changes, compared,
                   proven, crossed, reissued>>

AttemptsExpire ==                 \* the expiry of an older code, given to this counter
    /\ attempts.expires = "anytime"
    /\ attempts' = NoAttempts
    /\ UNCHANGED <<userRow, code, mailbox, visit, issued, changes,
                   compared, proven, crossed, reissued>>

(* A request dies between two of its writes; before the first it leaves no *)
(* trace, and while it mails it only loses the mail.                       *)
RequesterDies(h) ==
    /\ visit[h].at \in {"register", "changed", "expire", "compare", "delete", "verify"}
    /\ Leave(h)
    /\ crossed' = (crossed \/ is(h, "changed"))
    /\ UNCHANGED <<userRow, code, attempts, mailbox, issued, changes,
                   compared, proven, reissued>>

VerificationNext ==
    \/ \E h \in Requesters :
          \/ IssueCode(h) \/ Resend(h) \/ CountAttempt(h) \/ ExpireWithCode(h)
          \/ \E delivered \in BOOLEAN : SendMail(h, delivered)
          \/ \E id \in {NoCode, code} : Confirm(h, id)
          \/ Compare(h) \/ DeleteCode(h) \/ Verify(h) \/ CommitEmail(h)
          \/ LinkGoogle(h) \/ \E a \in Addresses : ChangeEmail(h, a)
          \/ RequesterDies(h)
    \/ CodeExpires \/ AttemptsExpire

VerificationSpec == VerificationInit /\ [][VerificationNext]_verificationVars

------------------------------------------------------------------------------
(* `is_verified` is proof about an address: mail to the account's present  *)
(* address was shown to be read, by a code mailed there or by Google.  The *)
(* exceptions are a change of address that overlaps another request of the *)
(* account, or dies between its commit and its new code.                   *)
VerifiedIsProvenAlone == ~crossed /\ userRow.verified => userRow.email \in proven

(* What _update's comment says: it asserts that this person can read mail  *)
(* at `user.email`.                                                        *)
VerifiedIsProven == userRow.verified => userRow.email \in proven

(* No code is tried more than MaxCodeAttempts times, however many confirms *)
(* run at once and whenever one of them deletes it - unless it was issued  *)
(* while one had counted itself and had yet to compare.                    *)
AttemptsBounded == ~reissued => compared <= MaxCodeAttempts
=============================================================================
