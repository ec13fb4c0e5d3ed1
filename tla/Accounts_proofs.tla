--------------------------- MODULE Accounts_proofs ---------------------------
(***************************************************************************)
(* What holds of an account's address (EmailVerification) and of its       *)
(* passwords, reset codes and Google identities (SignIn), for any number   *)
(* of requests, accounts, addresses, identities, codes and attempts.       *)
(*                                                                         *)
(* Both are proved the same way: a step moves one request and leaves the   *)
(* others alone, and each invariant is proved from the few ways to move.   *)
(***************************************************************************)
EXTENDS EmailVerification, SignIn, FiniteSetTheorems, TLAPS

------------------------------------------------------------------------------
(* EMAIL VERIFICATION: a verified address is a proven one unless a change  *)
(* of address crossed another request, and a code is compared              *)
(* MaxCodeAttempts times at most.                                          *)

------------------------------------------------------------------------------
(* Types *)

RowType     == [email : Addresses, verified : BOOLEAN]
CounterType == [n : Nat, expires : {"never", "with code", "anytime"}]
Places      == {"idle", "register", "resend", "mail", "mail new", "check", "expire", "compare",
                "delete", "verify", "change", "changed"}
VisitType   == [at : Places, row : RowType, to : Addresses, code : Nat]

VerificationTypeOK ==
    /\ userRow \in RowType /\ code \in Nat /\ attempts \in CounterType
    /\ mailbox \subseteq Addresses /\ proven \subseteq Addresses
    /\ visit \in [Requesters -> VisitType]
    /\ issued \in Nat /\ changes \in Nat /\ compared \in Nat
    /\ crossed \in BOOLEAN /\ reissued \in BOOLEAN

------------------------------------------------------------------------------
(* What a step does to its request, and that it leaves the others alone.   *)

VisitMoved(h, at, row, to, id) ==
    /\ visit' \in [Requesters -> VisitType]
    /\ visit'[h].at = at /\ visit'[h].row = row /\ visit'[h].to = to /\ visit'[h].code = id
    /\ \A g \in Requesters : g # h => visit'[g] = visit[g]

\* It is replaced, ...
LEMMA VisitReplaced ==
  ASSUME VerificationTypeOK, NEW h \in Requesters, NEW new \in VisitType,
         visit' = [visit EXCEPT ![h] = new]
  PROVE  VisitMoved(h, new.at, new.row, new.to, new.code)
BY DEF VerificationTypeOK, VisitMoved

\* ... it goes forward, ...
LEMMA Stepped ==
  ASSUME VerificationTypeOK, NEW h \in Requesters, NEW at \in Places, Step(h, at)
  PROVE  VisitMoved(h, at, visit[h].row, visit[h].to, visit[h].code)
<1> DEFINE new == [visit[h] EXCEPT !.at = at]
<1>1. visit[h] \in VisitType
  BY DEF VerificationTypeOK
<1>2. /\ new \in VisitType /\ new.at = at /\ new.row = visit[h].row
      /\ new.to = visit[h].to /\ new.code = visit[h].code
  BY <1>1 DEF VisitType
<1>3. visit' = [visit EXCEPT ![h] = new]
  BY <1>1 DEF Step, VisitType
<1> HIDE DEF new
<1>4. VisitMoved(h, new.at, new.row, new.to, new.code)
  BY <1>2, <1>3, VisitReplaced
<1>5. QED
  BY <1>2, <1>4 DEF VisitMoved

\* ... it is over, ...
LEMMA Left ==
  ASSUME VerificationAssumption, VerificationTypeOK, NEW h \in Requesters, Leave(h)
  PROVE  VisitMoved(h, "idle", IdleVisit.row, IdleVisit.to, 0)
<1> DEFINE v == IdleVisit
<1>1. FirstAddress \in Addresses
  BY DEF VerificationAssumption
<1>2. v \in VisitType /\ v.at = "idle" /\ v.code = 0
  BY <1>1 DEF IdleVisit, NoCode, VisitType, RowType, Places
<1>3. visit' = [visit EXCEPT ![h] = v]
  BY DEF Leave
<1> HIDE DEF v
<1>4. VisitMoved(h, v.at, v.row, v.to, v.code)
  BY <1>2, <1>3, VisitReplaced
<1>5. QED
  BY <1>2, <1>4 DEF v

\* ... or it begins, with the row as it is.
LEMMA Entered ==
  ASSUME VerificationAssumption, VerificationTypeOK, NEW h \in Requesters,
         NEW at \in Places, NEW id \in Nat, Enter(h, at, id)
  PROVE  /\ VisitMoved(h, at, userRow, FirstAddress, id)
         /\ visit[h].at = "idle" /\ crossed' \in BOOLEAN
         /\ ~crossed' => ~crossed /\ Changing = {}
<1> DEFINE new == [IdleVisit EXCEPT !.at = at, !.row = userRow, !.code = id]
<1>1. userRow \in RowType /\ FirstAddress \in Addresses
  BY DEF VerificationTypeOK, VerificationAssumption
<1>2. /\ new \in VisitType /\ new.at = at /\ new.row = userRow
      /\ new.to = FirstAddress /\ new.code = id
  BY <1>1 DEF IdleVisit, NoCode, VisitType
<1>3. visit' = [visit EXCEPT ![h] = new] /\ visit[h].at = "idle"
      /\ crossed' = (crossed \/ Changing # {})
  BY DEF Enter, is
<1> HIDE DEF new
<1>4. VisitMoved(h, new.at, new.row, new.to, new.code)
  BY <1>2, <1>3, VisitReplaced
<1>5. VisitMoved(h, at, userRow, FirstAddress, id)
  BY <1>2, <1>4
<1>6. crossed' \in BOOLEAN /\ (~crossed' => ~crossed /\ Changing = {})
  BY <1>3 DEF VerificationTypeOK
<1>7. QED
  BY <1>3, <1>5, <1>6

\* A flush writes the columns that differ from the row as it was loaded.
LEMMA Flushed ==
  ASSUME VerificationTypeOK, NEW h \in Requesters, NEW new \in RowType, FlushUser(h, new)
  PROVE  /\ userRow' \in RowType
         /\ userRow'.email = IF new.email # visit[h].row.email THEN new.email ELSE userRow.email
         /\ userRow'.verified = IF new.verified # visit[h].row.verified THEN new.verified
                                ELSE userRow.verified
<1>1. DOMAIN new = {"email", "verified"}
  BY DEF RowType
<1>2. userRow \in RowType /\ visit[h].row \in RowType
  BY DEF VerificationTypeOK, VisitType
<1>3. userRow' = [f \in {"email", "verified"} |->
                    IF new[f] # visit[h].row[f] THEN new[f] ELSE userRow[f]]
  BY <1>1 DEF FlushUser
<1>4. userRow' = [email |-> IF new.email # visit[h].row.email THEN new.email ELSE userRow.email,
                  verified |-> IF new.verified # visit[h].row.verified THEN new.verified
                               ELSE userRow.verified]
  BY <1>3
<1>5. QED
  BY <1>2, <1>4 DEF RowType

\* A request for a change of address begins alone, or crosses another.
LEMMA ChangeBegins ==
  ASSUME VerificationTypeOK, NEW h \in Requesters, NEW a \in Addresses, ChangeEmail(h, a)
  PROVE  /\ VisitMoved(h, "change", userRow, a, 0)
         /\ crossed' \in BOOLEAN
         /\ ~crossed' => ~crossed /\ \A g \in Requesters : visit[g].at = "idle"
<1> DEFINE new == [at |-> "change", row |-> userRow, to |-> a, code |-> 0]
<1>1. new \in VisitType
  BY DEF VerificationTypeOK, VisitType, Places
<1>2. visit' = [visit EXCEPT ![h] = new] /\ crossed' = (crossed \/ Busy # {})
  BY DEF ChangeEmail, NoCode
<1>3. VisitMoved(h, new.at, new.row, new.to, new.code)
  BY <1>1, <1>2, VisitReplaced
<1>4. Busy = {} => \A g \in Requesters : visit[g].at = "idle"
  BY DEF Busy, is
<1>5. QED
  BY <1>2, <1>3, <1>4 DEF VerificationTypeOK

\* A code that is issued is the request's own, with a counter of its own.
LEMMA CodeIssued ==
  ASSUME VerificationAssumption, VerificationTypeOK, NEW h \in Requesters, IssueCode(h)
  PROVE  /\ \E row \in RowType :
               VisitMoved(h, IF visit[h].at = "changed" THEN "mail new" ELSE "mail", row,
                     IF visit[h].at = "changed" THEN visit[h].to ELSE visit[h].row.email, issued + 1)
         /\ visit[h].at \in {"register", "changed", "resend"}
         /\ code' = issued + 1 /\ issued' = issued + 1 /\ attempts' = NoAttempts
         /\ compared' = 0 /\ mailbox' = {} /\ reissued' = (Checking # {})
         /\ UNCHANGED <<userRow, changes, proven, crossed>>
<1> DEFINE at == IF visit[h].at = "changed" THEN "mail new" ELSE "mail"
           to == IF visit[h].at = "changed" THEN visit[h].to ELSE visit[h].row.email
           id == issued + 1
           new == [IdleVisit EXCEPT !.at = at, !.to = to, !.code = id]
<1>1. FirstAddress \in Addresses /\ visit[h] \in VisitType /\ issued \in Nat
  BY DEF VerificationAssumption, VerificationTypeOK
<1>a. visit[h].to \in Addresses /\ visit[h].row.email \in Addresses
  BY <1>1 DEF VisitType, RowType
<1>2. at \in Places /\ to \in Addresses /\ id \in Nat
  BY <1>1, <1>a DEF Places
<1>3. visit' = [visit EXCEPT ![h] = new]
  BY DEF IssueCode, is
<1> HIDE DEF at, to, id
<1>4. /\ new \in VisitType /\ new.at = at /\ new.to = to /\ new.code = id
      /\ new.row \in RowType
  BY <1>1, <1>2 DEF IdleVisit, NoCode, VisitType, RowType, Places
<1> HIDE DEF new
<1>5. VisitMoved(h, new.at, new.row, new.to, new.code)
  BY <1>3, <1>4, VisitReplaced
<1>6. VisitMoved(h, at, new.row, to, id)
  BY <1>4, <1>5
<1>7. QED
  BY <1>4, <1>6 DEF IssueCode, Issue, at, to, id

\* A check counts one more attempt, and nothing else.
LEMMA Counted ==
  ASSUME VerificationTypeOK, NEW h \in Requesters, CountAttempt(h)
  PROVE  /\ attempts' \in CounterType
         /\ attempts'.n = attempts.n + 1 /\ attempts'.expires = attempts.expires
<1> DEFINE n == attempts.n + 1
<1>1. attempts \in CounterType /\ attempts.n \in Nat
  BY DEF VerificationTypeOK, CounterType
<1>2. n \in Nat /\ attempts' = [attempts EXCEPT !.n = n]
  BY <1>1 DEF CountAttempt
<1> HIDE DEF n
<1>3. /\ attempts' \in CounterType
      /\ attempts'.n = n /\ attempts'.expires = attempts.expires
  BY <1>1, <1>2 DEF CounterType
<1>4. QED
  BY <1>3 DEF n

------------------------------------------------------------------------------
(* Every step keeps the types. *)

\* The first request has just registered the account.
LEMMA TypeInit == VerificationAssumption /\ VerificationInit => VerificationTypeOK
<1> SUFFICES ASSUME VerificationAssumption, VerificationInit PROVE VerificationTypeOK
  OBVIOUS
<1>1. FirstAddress \in Addresses
  BY DEF VerificationAssumption
<1>2. PICK h \in Requesters :
        visit = [g \in Requesters |-> IF g = h THEN [IdleVisit EXCEPT !.at = "register"]
                                      ELSE IdleVisit]
  BY DEF VerificationInit
<1>3. IdleVisit \in VisitType /\ [IdleVisit EXCEPT !.at = "register"] \in VisitType
  BY <1>1 DEF IdleVisit, NoCode, VisitType, RowType, Places
<1>4. visit \in [Requesters -> VisitType]
  BY <1>2, <1>3
<1>5. QED
  BY <1>1, <1>4 DEF VerificationInit, NewAccount, NoCode, NoAttempts, VerificationTypeOK, RowType,
                    CounterType

\* One step per action.
LEMMA VerificationTypeStep ==
  VerificationAssumption /\ VerificationTypeOK /\ [VerificationNext]_verificationVars
    => VerificationTypeOK'
<1> SUFFICES ASSUME VerificationAssumption, VerificationTypeOK,
                    [VerificationNext]_verificationVars
             PROVE  VerificationTypeOK'
  OBVIOUS
<1>0. /\ userRow \in RowType /\ code \in Nat /\ attempts \in CounterType
      /\ mailbox \subseteq Addresses /\ proven \subseteq Addresses
      /\ visit \in [Requesters -> VisitType]
      /\ issued \in Nat /\ changes \in Nat /\ compared \in Nat
      /\ crossed \in BOOLEAN /\ reissued \in BOOLEAN
  BY DEF VerificationTypeOK
<1>a. NoAttempts \in CounterType /\ MaxCodeAttempts \in Nat
  BY DEF NoAttempts, CounterType, VerificationAssumption
<1>1. ASSUME NEW h \in Requesters, IssueCode(h) PROVE VerificationTypeOK'
  <2>1. visit' \in [Requesters -> VisitType]
    BY <1>1, CodeIssued DEF VisitMoved
  <2>2. /\ code' = issued + 1 /\ issued' = issued + 1 /\ attempts' = NoAttempts
        /\ compared' = 0 /\ mailbox' = {} /\ reissued' = (Checking # {})
        /\ UNCHANGED <<userRow, changes, proven, crossed>>
    BY <1>1, CodeIssued
  <2>3. issued + 1 \in Nat /\ reissued' \in BOOLEAN
    BY <1>0, <2>2
  <2>4. QED
    BY <1>0, <1>a, <2>1, <2>2, <2>3 DEF VerificationTypeOK
<1>2. ASSUME NEW h \in Requesters, NEW delivered \in BOOLEAN, SendMail(h, delivered)
      PROVE VerificationTypeOK'
  <2>1. visit' \in [Requesters -> VisitType]
    BY <1>2, Left DEF SendMail, VisitMoved
  <2>2. visit[h].to \in Addresses
    BY <1>0 DEF VisitType
  <2>3. mailbox' \subseteq Addresses
    BY <1>0, <1>2, <2>2 DEF SendMail
  <2>4. QED
    BY <1>0, <1>2, <2>1, <2>3 DEF SendMail, VerificationTypeOK
<1>3. ASSUME NEW h \in Requesters, Resend(h) PROVE VerificationTypeOK'
  <2>1. visit' \in [Requesters -> VisitType] /\ crossed' \in BOOLEAN
    BY <1>3, Entered DEF Resend, NoCode, Places, VisitMoved
  <2>2. QED
    BY <1>0, <1>3, <2>1 DEF Resend, VerificationTypeOK
<1>4. ASSUME NEW h \in Requesters, NEW id \in {NoCode, code}, Confirm(h, id)
      PROVE VerificationTypeOK'
  <2>0. id \in Nat
    BY <1>0 DEF NoCode
  <2>1. visit' \in [Requesters -> VisitType] /\ crossed' \in BOOLEAN
    BY <1>4, <2>0, Entered DEF Confirm, Places, VisitMoved
  <2>2. QED
    BY <1>0, <1>4, <2>1 DEF Confirm, VerificationTypeOK
<1>5. ASSUME NEW h \in Requesters, CountAttempt(h) PROVE VerificationTypeOK'
  <2>1. visit' \in [Requesters -> VisitType]
    BY <1>5, Left, Stepped DEF CountAttempt, Places, VisitMoved
  <2>2. attempts' \in CounterType
    BY <1>5, Counted
  <2>3. QED
    BY <1>0, <1>5, <2>1, <2>2 DEF CountAttempt, VerificationTypeOK
<1>6. ASSUME NEW h \in Requesters, ExpireWithCode(h) PROVE VerificationTypeOK'
  <2>1. visit' \in [Requesters -> VisitType]
    BY <1>6, Stepped DEF ExpireWithCode, Places, VisitMoved
  <2>2. attempts' \in CounterType
    BY <1>0, <1>6 DEF ExpireWithCode, CounterType
  <2>3. QED
    BY <1>0, <1>6, <2>1, <2>2 DEF ExpireWithCode, VerificationTypeOK
<1>7. ASSUME NEW h \in Requesters, Compare(h) PROVE VerificationTypeOK'
  <2>1. visit' \in [Requesters -> VisitType]
    BY <1>7, Left, Stepped DEF Compare, Places, VisitMoved
  <2>2. compared' \in Nat
    BY <1>0, <1>7 DEF Compare
  <2>3. proven' \subseteq Addresses
    BY <1>0, <1>7 DEF Compare
  <2>4. QED
    BY <1>0, <1>7, <2>1, <2>2, <2>3 DEF Compare, VerificationTypeOK
<1>17. ASSUME NEW h \in Requesters, DeleteCode(h) PROVE VerificationTypeOK'
  <2>1. visit' \in [Requesters -> VisitType]
    BY <1>17, Stepped DEF DeleteCode, Places, VisitMoved
  <2>2. attempts' \in CounterType /\ code' \in Nat
    BY <1>17, <1>a DEF DeleteCode, NoCode
  <2>3. QED
    BY <1>0, <1>17, <2>1, <2>2 DEF DeleteCode, VerificationTypeOK
<1>8. ASSUME NEW h \in Requesters, Verify(h) PROVE VerificationTypeOK'
  <2>1. visit' \in [Requesters -> VisitType]
    BY <1>8, Left DEF Verify, VisitMoved
  <2>2. [visit[h].row EXCEPT !.verified = TRUE] \in RowType
    BY <1>0 DEF VisitType, RowType
  <2>3. userRow' \in RowType
    BY <1>8, <2>2, Flushed DEF Verify
  <2>4. QED
    BY <1>0, <1>8, <2>1, <2>3 DEF Verify, VerificationTypeOK
<1>9. ASSUME NEW h \in Requesters, CommitEmail(h) PROVE VerificationTypeOK'
  <2>1. visit' \in [Requesters -> VisitType]
    BY <1>9, Stepped DEF CommitEmail, Places, VisitMoved
  <2>2. [email |-> visit[h].to, verified |-> FALSE] \in RowType
    BY <1>0 DEF VisitType, RowType
  <2>3. userRow' \in RowType
    BY <1>9, <2>2, Flushed DEF CommitEmail
  <2>4. QED
    BY <1>0, <1>9, <2>1, <2>3 DEF CommitEmail, VerificationTypeOK
<1>10. ASSUME NEW h \in Requesters, LinkGoogle(h) PROVE VerificationTypeOK'
  <2>1. visit' \in [Requesters -> VisitType] /\ crossed' \in BOOLEAN
    BY <1>10, Entered DEF LinkGoogle, NoCode, Places, VisitMoved
  <2>2. proven' \subseteq Addresses
    BY <1>0, <1>10 DEF LinkGoogle, RowType
  <2>3. QED
    BY <1>0, <1>10, <2>1, <2>2 DEF LinkGoogle, VerificationTypeOK
<1>11. ASSUME NEW h \in Requesters, NEW a \in Addresses, ChangeEmail(h, a)
       PROVE VerificationTypeOK'
  <2>1. visit' \in [Requesters -> VisitType] /\ crossed' \in BOOLEAN
    BY <1>11, ChangeBegins DEF VisitMoved
  <2>2. QED
    BY <1>0, <1>11, <2>1 DEF ChangeEmail, VerificationTypeOK
<1>12. ASSUME NEW h \in Requesters, RequesterDies(h) PROVE VerificationTypeOK'
  <2>1. visit' \in [Requesters -> VisitType]
    BY <1>12, Left DEF RequesterDies, VisitMoved
  <2>2. crossed' \in BOOLEAN
    BY <1>0, <1>12 DEF RequesterDies, is
  <2>3. QED
    BY <1>0, <1>12, <2>1, <2>2 DEF RequesterDies, VerificationTypeOK
<1>13. CASE CodeExpires
  <2>1. attempts' \in CounterType
    BY <1>0, <1>13, <1>a DEF CodeExpires
  <2>2. QED
    BY <1>0, <1>13, <2>1 DEF CodeExpires, NoCode, VerificationTypeOK
<1>14. CASE AttemptsExpire
  BY <1>0, <1>14, <1>a DEF AttemptsExpire, VerificationTypeOK
<1>15. CASE UNCHANGED verificationVars
  BY <1>0, <1>15 DEF verificationVars, VerificationTypeOK
<1>16. QED
  BY <1>1, <1>2, <1>3, <1>4, <1>5, <1>6, <1>7, <1>8, <1>9, <1>10, <1>11, <1>12, <1>13, <1>14,
     <1>15, <1>17 DEF VerificationNext

------------------------------------------------------------------------------
(* A stored code is compared MaxCodeAttempts times at most: who is past    *)
(* the counter has been counted, and each compares once.                   *)

CountInv ==
    /\ VerificationTypeOK
    /\ ~reissued => attempts.expires # "anytime"
    /\ ~reissued => compared <= MaxCodeAttempts
    /\ ~reissued /\ code # NoCode =>
          /\ compared + Cardinality(Checking) <= attempts.n
          /\ compared + Cardinality(Checking) <= MaxCodeAttempts

\* How many compare, when one request moves.
LEMMA CheckingMoves ==
  ASSUME VerificationAssumption, VerificationTypeOK, NEW h \in Requesters,
         NEW at, NEW row, NEW to, NEW id, VisitMoved(h, at, row, to, id)
  PROVE  /\ Cardinality(Checking) \in Nat /\ Cardinality(Checking') \in Nat
         /\ h \in Checking => Cardinality(Checking) > 0
         /\ at \in {"expire", "compare"} =>
              Cardinality(Checking') = IF h \in Checking THEN Cardinality(Checking)
                                        ELSE Cardinality(Checking) + 1
         /\ at \notin {"expire", "compare"} =>
              Cardinality(Checking') = IF h \in Checking THEN Cardinality(Checking) - 1
                                        ELSE Cardinality(Checking)
<1>1. IsFiniteSet(Checking)
  BY FS_Subset DEF Checking, VerificationAssumption
<1>2. Cardinality(Checking) \in Nat /\ (h \in Checking => Cardinality(Checking) > 0)
  BY <1>1, FS_CardinalityType, FS_EmptySet
<1>3. at \in {"expire", "compare"} => Checking' = Checking \cup {h}
  BY DEF Checking, VisitMoved
<1>4. at \notin {"expire", "compare"} => Checking' = Checking \ {h}
  BY DEF Checking, VisitMoved
<1>5. /\ Cardinality(Checking \cup {h}) = IF h \in Checking THEN Cardinality(Checking)
                                           ELSE Cardinality(Checking) + 1
      /\ Cardinality(Checking \ {h}) = IF h \in Checking THEN Cardinality(Checking) - 1
                                        ELSE Cardinality(Checking)
  BY <1>1, FS_AddElement, FS_RemoveElement
<1>6. /\ at \in {"expire", "compare"} => Cardinality(Checking') = Cardinality(Checking \cup {h})
      /\ at \notin {"expire", "compare"} => Cardinality(Checking') = Cardinality(Checking \ {h})
  BY <1>3, <1>4, Zenon
<1>7. at \in {"expire", "compare"} => Cardinality(Checking') = IF h \in Checking THEN Cardinality(Checking)
                                                             ELSE Cardinality(Checking) + 1
  BY <1>5, <1>6, Zenon
<1>8. at \notin {"expire", "compare"} => Cardinality(Checking') = IF h \in Checking THEN Cardinality(Checking) - 1
                                                                ELSE Cardinality(Checking)
  BY <1>5, <1>6, Zenon
<1>9. Cardinality(Checking') \in Nat
  <2>1. IsFiniteSet(Checking')
    BY FS_Subset DEF Checking, VerificationAssumption
  <2>2. QED
    BY <2>1, FS_CardinalityType
<1>10. QED
  BY <1>2, <1>7, <1>8, <1>9, Zenon

\* A request that is not past the counter and does not get past it counts
\* for nothing.
LEMMA StaysOut ==
  ASSUME VerificationAssumption, VerificationTypeOK, NEW h \in Requesters,
         NEW at, NEW row, NEW to, NEW id, VisitMoved(h, at, row, to, id),
         visit[h].at \notin {"expire", "compare"}, at \notin {"expire", "compare"}
  PROVE  Cardinality(Checking') = Cardinality(Checking)
<1>1. h \notin Checking
  BY DEF Checking
<1>2. QED
  BY <1>1, CheckingMoves

\* One step per action.
LEMMA CountStep ==
  VerificationAssumption /\ CountInv /\ [VerificationNext]_verificationVars => CountInv'
<1> SUFFICES ASSUME VerificationAssumption, CountInv, [VerificationNext]_verificationVars
             PROVE  CountInv'
  OBVIOUS
<1> DEFINE others == Cardinality(Checking)
<1>0. /\ VerificationTypeOK /\ VerificationTypeOK'
      /\ ~reissued => attempts.expires # "anytime"
      /\ ~reissued => compared <= MaxCodeAttempts
      /\ ~reissued /\ code # NoCode =>
            compared + others <= attempts.n /\ compared + others <= MaxCodeAttempts
  BY VerificationTypeStep DEF CountInv
<1>a. MaxCodeAttempts \in Nat \ {0} /\ compared \in Nat /\ attempts.n \in Nat /\ code \in Nat
  BY <1>0 DEF VerificationAssumption, VerificationTypeOK, CounterType
<1>b. IsFiniteSet(Checking) /\ others \in Nat
  BY FS_Subset, FS_CardinalityType DEF Checking, VerificationAssumption
<1>c. \* What leaves the code, its counter and its comparisons alone.
      ASSUME UNCHANGED <<code, attempts, compared, reissued>>, Cardinality(Checking') = others
      PROVE  CountInv'
  BY <1>0, <1>c DEF CountInv, NoCode
<1>1. ASSUME NEW h \in Requesters, IssueCode(h) PROVE CountInv'
  <2>1. /\ visit[h].at \notin {"expire", "compare"} /\ attempts' = NoAttempts
        /\ reissued' = (Checking # {})
    BY <1>0, <1>1, CodeIssued
  <2>2. compared' = 0
    BY <1>0, <1>1, CodeIssued
  <2>3. Cardinality(Checking') = others
    <3>1. PICK row \in RowType :
            VisitMoved(h, IF visit[h].at = "changed" THEN "mail new" ELSE "mail", row,
                  IF visit[h].at = "changed" THEN visit[h].to ELSE visit[h].row.email, issued + 1)
      BY <1>0, <1>1, CodeIssued
    <3>2. visit[h].to \in Addresses /\ visit[h].row.email \in Addresses /\ issued + 1 \in Nat
      BY <1>0 DEF VerificationTypeOK, VisitType, RowType
    <3>3. PICK at \in {"mail", "mail new"}, to \in Addresses, id \in Nat : VisitMoved(h, at, row, to, id)
      BY <3>1, <3>2
    <3>4. QED
      BY <1>0, <2>1, <3>3, StaysOut
  <2>4. ~reissued' => Checking = {}
    BY <2>1 DEF Checking
  <2>5. ~reissued' => Cardinality(Checking') = 0
    BY <2>3, <2>4, FS_EmptySet
  <2>6. attempts'.n = 0 /\ attempts'.expires = "never"
    BY <2>1 DEF NoAttempts
  <2>7. compared' <= MaxCodeAttempts
    BY <1>a, <2>2
  <2>8. Cardinality(Checking') = 0 =>
            /\ compared' + Cardinality(Checking') <= attempts'.n
            /\ compared' + Cardinality(Checking') <= MaxCodeAttempts
    BY <1>a, <2>2, <2>6
  <2>9. QED
    BY <1>0, <2>5, <2>6, <2>7, <2>8 DEF CountInv
<1>2. ASSUME NEW h \in Requesters, NEW delivered \in BOOLEAN, SendMail(h, delivered)
      PROVE CountInv'
  <2>1. PICK row \in RowType, to \in Addresses, id \in Nat : VisitMoved(h, "idle", row, to, id)
    <3>1. VisitMoved(h, "idle", IdleVisit.row, IdleVisit.to, 0)
      BY <1>0, <1>2, Left DEF SendMail
    <3>2. IdleVisit.row \in RowType /\ IdleVisit.to \in Addresses
      BY VerificationAssumption DEF VerificationAssumption, IdleVisit, RowType
    <3>3. QED
      BY <3>1, <3>2
  <2>a. visit[h].at \notin {"expire", "compare"}
    BY <1>2 DEF SendMail
  <2>2. Cardinality(Checking') = others
    BY <1>0, <2>1, <2>a, StaysOut
  <2>3. QED
    BY <1>2, <1>c, <2>2 DEF SendMail
<1>3. ASSUME NEW h \in Requesters, Resend(h) PROVE CountInv'
  <2>1. VisitMoved(h, "resend", userRow, FirstAddress, NoCode) /\ visit[h].at = "idle"
    BY <1>0, <1>3, Entered DEF Resend, NoCode, Places
  <2>2. Cardinality(Checking') = others
    BY <1>0, <2>1, StaysOut
  <2>3. QED
    BY <1>3, <1>c, <2>2 DEF Resend
<1>4. ASSUME NEW h \in Requesters, NEW id \in {NoCode, code}, Confirm(h, id) PROVE CountInv'
  <2>0. id \in Nat
    BY <1>a DEF NoCode
  <2>1. VisitMoved(h, "check", userRow, FirstAddress, id) /\ visit[h].at = "idle"
    BY <1>0, <1>4, <2>0, Entered DEF Confirm, Places
  <2>2. Cardinality(Checking') = others
    BY <1>0, <2>1, StaysOut
  <2>3. QED
    BY <1>4, <1>c, <2>2 DEF Confirm
<1>5. ASSUME NEW h \in Requesters, CountAttempt(h) PROVE CountInv'
  <2>0. h \notin Checking
    BY <1>5 DEF CountAttempt, Checking, is
  <2>1. attempts'.n = attempts.n + 1 /\ attempts'.expires = attempts.expires
    BY <1>0, <1>5, Counted
  <2>2. UNCHANGED <<code, compared, reissued>>
    BY <1>5 DEF CountAttempt
  <2>3. CASE attempts.n = 0 \/ ~(attempts.n + 1 > MaxCodeAttempts)
    <3>1. PICK at \in {"expire", "compare"} : Step(h, at)
      BY <1>5, <2>3 DEF CountAttempt
    <3>2. VisitMoved(h, at, visit[h].row, visit[h].to, visit[h].code)
      BY <1>0, <3>1, Stepped DEF Places
    <3>3. Cardinality(Checking') = others + 1
      BY <1>0, <2>0, <3>2, CheckingMoves
    <3>4. ~reissued' /\ code' # NoCode =>
            /\ compared' + Cardinality(Checking') <= attempts'.n
            /\ compared' + Cardinality(Checking') <= MaxCodeAttempts
      BY <1>0, <1>a, <1>b, <2>1, <2>2, <2>3, <3>3 DEF NoCode
    <3>5. QED
      BY <1>0, <2>1, <2>2, <3>4 DEF CountInv
  <2>4. CASE attempts.n # 0 /\ attempts.n + 1 > MaxCodeAttempts
    <3>1. VisitMoved(h, "idle", IdleVisit.row, IdleVisit.to, 0)
      BY <1>0, <1>5, <2>4, Left DEF CountAttempt
    <3>2. Cardinality(Checking') = others
      BY <1>0, <2>0, <3>1, CheckingMoves
    <3>3. ~reissued' /\ code' # NoCode =>
            /\ compared' + Cardinality(Checking') <= attempts'.n
            /\ compared' + Cardinality(Checking') <= MaxCodeAttempts
      BY <1>0, <1>a, <1>b, <2>1, <2>2, <3>2 DEF NoCode
    <3>4. QED
      BY <1>0, <2>1, <2>2, <3>3 DEF CountInv
  <2>5. QED
    BY <2>3, <2>4
<1>6. ASSUME NEW h \in Requesters, ExpireWithCode(h) PROVE CountInv'
  <2>0. h \in Checking
    BY <1>6 DEF ExpireWithCode, Checking, is
  <2>1. VisitMoved(h, "compare", visit[h].row, visit[h].to, visit[h].code)
    BY <1>0, <1>6, Stepped DEF ExpireWithCode, Places
  <2>2. Cardinality(Checking') = others
    BY <1>0, <2>0, <2>1, CheckingMoves
  <2>3. UNCHANGED <<code, compared, reissued>>
    BY <1>6 DEF ExpireWithCode
  <2>4. attempts'.n = attempts.n /\ (~reissued => attempts'.expires # "anytime")
    BY <1>0, <1>6 DEF ExpireWithCode, VerificationTypeOK, CounterType
  <2>5. QED
    BY <1>0, <2>2, <2>3, <2>4 DEF CountInv, NoCode
<1>7. ASSUME NEW h \in Requesters, Compare(h) PROVE CountInv'
  <2>0. h \in Checking
    BY <1>7 DEF Compare, Checking, is
  <2>1. PICK at \in {"delete", "idle"}, row \in RowType, to \in Addresses, id \in Nat :
          VisitMoved(h, at, row, to, id)
    <3>1. CASE Step(h, "delete")
      <4>1. VisitMoved(h, "delete", visit[h].row, visit[h].to, visit[h].code)
        BY <1>0, <3>1, Stepped DEF Places
      <4>2. visit[h].row \in RowType /\ visit[h].to \in Addresses /\ visit[h].code \in Nat
        BY <1>0 DEF VerificationTypeOK, VisitType
      <4>3. QED
        BY <4>1, <4>2
    <3>2. CASE Leave(h)
      <4>1. VisitMoved(h, "idle", IdleVisit.row, IdleVisit.to, 0)
        BY <1>0, <3>2, Left
      <4>2. IdleVisit.row \in RowType /\ IdleVisit.to \in Addresses
        BY DEF VerificationAssumption, IdleVisit, RowType
      <4>3. QED
        BY <4>1, <4>2
    <3>3. QED
      BY <1>7, <3>1, <3>2 DEF Compare
  <2>2. Cardinality(Checking') = others - 1 /\ others > 0
    BY <1>0, <2>0, <2>1, CheckingMoves
  <2>3. /\ compared' = IF code = NoCode \/ compared > MaxCodeAttempts THEN compared
                       ELSE compared + 1
        /\ UNCHANGED <<code, attempts, reissued>>
    BY <1>7 DEF Compare
  <2>5. ~reissued' => attempts'.expires # "anytime"
    BY <1>0, <2>3
  <2>6. ~reissued' => compared' <= MaxCodeAttempts
    BY <1>0, <1>a, <1>b, <2>2, <2>3
  <2>7. ~reissued' /\ code' # NoCode =>
          /\ compared' + Cardinality(Checking') <= attempts'.n
          /\ compared' + Cardinality(Checking') <= MaxCodeAttempts
    BY <1>0, <1>a, <1>b, <2>2, <2>3
  <2>8. QED
    BY <1>0, <2>5, <2>6, <2>7 DEF CountInv, NoCode
<1>17. ASSUME NEW h \in Requesters, DeleteCode(h) PROVE CountInv'
  <2>1. /\ code' = NoCode /\ attempts' = NoAttempts
        /\ UNCHANGED <<compared, reissued>>
    BY <1>17 DEF DeleteCode
  <2>2. NoAttempts.expires = "never"
    BY DEF NoAttempts
  <2>3. QED
    BY <1>0, <2>1, <2>2 DEF CountInv
<1>8. ASSUME NEW h \in Requesters, Verify(h) PROVE CountInv'
  <2>1. VisitMoved(h, "idle", IdleVisit.row, IdleVisit.to, 0) /\ visit[h].at = "verify"
    BY <1>0, <1>8, Left DEF Verify, is
  <2>2. Cardinality(Checking') = others
    BY <1>0, <2>1, StaysOut
  <2>3. QED
    BY <1>8, <1>c, <2>2 DEF Verify
<1>9. ASSUME NEW h \in Requesters, CommitEmail(h) PROVE CountInv'
  <2>1. /\ VisitMoved(h, "changed", visit[h].row, visit[h].to, visit[h].code)
        /\ visit[h].at = "change"
    BY <1>0, <1>9, Stepped DEF CommitEmail, Places, is
  <2>2. Cardinality(Checking') = others
    BY <1>0, <2>1, StaysOut
  <2>3. QED
    BY <1>9, <1>c, <2>2 DEF CommitEmail
<1>10. ASSUME NEW h \in Requesters, LinkGoogle(h) PROVE CountInv'
  <2>1. VisitMoved(h, "verify", userRow, FirstAddress, NoCode) /\ visit[h].at = "idle"
    BY <1>0, <1>10, Entered DEF LinkGoogle, NoCode, Places
  <2>2. Cardinality(Checking') = others
    BY <1>0, <2>1, StaysOut
  <2>3. QED
    BY <1>10, <1>c, <2>2 DEF LinkGoogle
<1>11. ASSUME NEW h \in Requesters, NEW a \in Addresses, ChangeEmail(h, a) PROVE CountInv'
  <2>1. VisitMoved(h, "change", userRow, a, 0) /\ visit[h].at = "idle"
    BY <1>0, <1>11, ChangeBegins DEF ChangeEmail, is
  <2>2. Cardinality(Checking') = others
    BY <1>0, <2>1, StaysOut
  <2>3. QED
    BY <1>11, <1>c, <2>2 DEF ChangeEmail
<1>12. ASSUME NEW h \in Requesters, RequesterDies(h) PROVE CountInv'
  <2>1. VisitMoved(h, "idle", IdleVisit.row, IdleVisit.to, 0)
    BY <1>0, <1>12, Left DEF RequesterDies
  <2>2. Cardinality(Checking') \in Nat /\ Cardinality(Checking') <= others
    BY <1>0, <1>b, <2>1, CheckingMoves
  <2>3. UNCHANGED <<code, attempts, compared, reissued>>
    BY <1>12 DEF RequesterDies
  <2>4. ~reissued' /\ code' # NoCode =>
          /\ compared' + Cardinality(Checking') <= attempts'.n
          /\ compared' + Cardinality(Checking') <= MaxCodeAttempts
    BY <1>0, <1>a, <1>b, <2>2, <2>3 DEF NoCode
  <2>5. QED
    BY <1>0, <2>3, <2>4 DEF CountInv
<1>13. CASE CodeExpires
  <2>1. NoAttempts.expires = "never"
    BY DEF NoAttempts
  <2>2. QED
    BY <1>0, <1>13, <2>1 DEF CodeExpires, CountInv, NoCode
<1>14. CASE AttemptsExpire
  <2>1. reissued /\ reissued' = reissued
    BY <1>0, <1>14 DEF AttemptsExpire
  <2>2. QED
    BY <1>0, <2>1 DEF CountInv
<1>15. CASE UNCHANGED verificationVars
  BY <1>0, <1>15 DEF verificationVars, CountInv, Checking, NoCode
<1>16. QED
  BY <1>1, <1>2, <1>3, <1>4, <1>5, <1>6, <1>7, <1>8, <1>9, <1>10, <1>11, <1>12, <1>13, <1>14,
     <1>15, <1>17 DEF VerificationNext

\* No code is compared more than MaxCodeAttempts times, unless it was issued
\* in the middle of a check (count_attempt and confirm_code).
THEOREM AttemptsCounted == VerificationSpec => []AttemptsBounded
<1>1. VerificationInit => CountInv
  BY VerificationAssumption, TypeInit DEF VerificationInit, NewAccount, CountInv, NoAttempts, NoCode
<1>2. CountInv /\ [VerificationNext]_verificationVars => CountInv'
  BY VerificationAssumption, CountStep
<1>3. CountInv => AttemptsBounded
  BY DEF CountInv, AttemptsBounded
<1>4. QED
  BY <1>1, <1>2, <1>3, PTL DEF VerificationSpec

------------------------------------------------------------------------------
(* A verified address is a proven one: a request that changes the address  *)
(* is alone, so that every other one holds the address that is stored, and *)
(* the code in the mail was mailed there.                                  *)

\* Requests that hold the row and may yet verify or mail it.
Holding == {"register", "resend", "check", "expire", "compare", "delete", "verify"}

MailedCodesOld  == code <= issued /\ \A h \in Requesters : visit[h].code <= issued
CodeMailed ==
    \A h \in Requesters :
        visit[h].at \in {"check", "expire", "compare"} /\ visit[h].code = code /\ code # NoCode
            => mailbox # {}

ChangeAlone ==
    \A h \in Changing : \A g \in Requesters : g # h => visit[g].at = "idle"
ChangeSeesRow == \A h \in Requesters : visit[h].at = "change" => visit[h].row = userRow
HoldsAddress ==
    \A h \in Requesters : visit[h].at \in Holding => visit[h].row.email = userRow.email
MailsAddress ==
    \A h \in Requesters : visit[h].at \in {"mail", "mail new", "changed"} =>
        visit[h].to = userRow.email
VerifiesProven ==
    \A h \in Requesters : visit[h].at \in {"delete", "verify"} => userRow.email \in proven
MailedThere ==
    (\A h \in Requesters : visit[h].at # "changed") /\ code # NoCode => mailbox \subseteq {userRow.email}

Uncrossed ==
    /\ userRow.verified => userRow.email \in proven
    /\ ChangeAlone /\ ChangeSeesRow /\ HoldsAddress /\ MailsAddress /\ VerifiesProven /\ MailedThere

ProofInv == VerificationTypeOK /\ MailedCodesOld /\ CodeMailed /\ (~crossed => Uncrossed)

\* A step that issues no code keeps codes old, and the holders of the stored
\* one are those it was mailed to.
LEMMA CodeKept ==
  ASSUME VerificationTypeOK, VerificationTypeOK', MailedCodesOld, CodeMailed, NEW h \in Requesters,
         NEW at \in Places, NEW row \in RowType, NEW to \in Addresses, NEW id \in Nat,
         VisitMoved(h, at, row, to, id),
         issued' = issued, id <= issued, code' = code \/ code' = NoCode, mailbox \subseteq mailbox',
         at \in {"check", "expire", "compare"} /\ id = code /\ code # NoCode => mailbox # {}
  PROVE  MailedCodesOld' /\ CodeMailed'
<1>1. /\ code \in Nat /\ issued \in Nat /\ code <= issued
      /\ \A g \in Requesters : visit[g].code \in Nat /\ visit[g].code <= issued
  BY DEF VerificationTypeOK, VisitType, MailedCodesOld
<1>2. \A g \in Requesters : visit'[g].code <= issued'
  BY <1>1 DEF VisitMoved
<1>3. code' <= issued'
  BY <1>1 DEF NoCode
<1>4. ASSUME NEW g \in Requesters, visit'[g].at \in {"check", "expire", "compare"},
             visit'[g].code = code', code' # NoCode
      PROVE  mailbox' # {}
  <2>1. code' = code
    BY <1>4
  <2>2. CASE g = h
    BY <1>4, <2>1, <2>2 DEF VisitMoved
  <2>3. CASE g # h
    <3>1. visit'[g] = visit[g]
      BY <2>3 DEF VisitMoved
    <3>2. mailbox # {}
      BY <1>4, <2>1, <3>1 DEF CodeMailed
    <3>3. QED
      BY <3>2
  <2>4. QED
    BY <2>2, <2>3
<1>5. QED
  BY <1>2, <1>3, <1>4 DEF MailedCodesOld, CodeMailed

\* A request that moves on, and leaves the address alone, disturbs no other.
LEMMA AddressKept ==
  ASSUME VerificationTypeOK, Uncrossed, NEW h \in Requesters,
         NEW at \in Places \ {"change", "changed"}, NEW row \in RowType, NEW to \in Addresses,
         NEW id \in Nat, VisitMoved(h, at, row, to, id),
         userRow'.email = userRow.email,
         userRow'.verified => userRow.email \in proven',
         userRow' = userRow \/ \A g \in Requesters : visit[g].at # "change",
         proven \subseteq proven',
         at \in Holding => row.email = userRow.email,
         at \in {"mail", "mail new"} => to = userRow.email,
         at \in {"delete", "verify"} => userRow.email \in proven',
         at = "mail new" => h \in Changing,
         at = "idle" \/ visit[h].at # "idle" \/ Changing = {},
         MailedThere'
  PROVE  Uncrossed'
<1>1. ChangeAlone'
  <2>1. SUFFICES ASSUME NEW k \in Requesters, k \in Changing', NEW g \in Requesters, g # k
                 PROVE  visit'[g].at = "idle"
    BY DEF ChangeAlone, Changing
  <2>2. k \in Changing
    BY <2>1 DEF Changing, VisitMoved
  <2>3. visit[g].at = "idle"
    BY <2>1, <2>2 DEF Uncrossed, ChangeAlone
  <2>4. CASE g = h
    BY <2>2, <2>3, <2>4 DEF VisitMoved
  <2>5. CASE g # h
    BY <2>3, <2>5 DEF VisitMoved
  <2>6. QED
    BY <2>4, <2>5
<1>2. ChangeSeesRow'
  BY DEF Uncrossed, ChangeSeesRow, VisitMoved
<1>3. HoldsAddress'
  BY DEF Uncrossed, HoldsAddress, VisitMoved
<1>4. MailsAddress'
  BY DEF Uncrossed, MailsAddress, VisitMoved
<1>5. VerifiesProven'
  BY DEF Uncrossed, VerifiesProven, VisitMoved
<1>6. QED
  BY <1>1, <1>2, <1>3, <1>4, <1>5 DEF Uncrossed

\* Nobody but the one that changes the address does anything.
LEMMA ChangesAlone ==
  ASSUME Uncrossed, NEW h \in Requesters, h \in Changing, NEW g \in Requesters, g # h
  PROVE  visit[g].at = "idle" /\ g \notin Changing
BY DEF Uncrossed, ChangeAlone, Changing

\* Who is neither idle nor changing the address knows that nobody is.
LEMMA NobodyChanges ==
  ASSUME Uncrossed, NEW h \in Requesters, h \notin Changing, visit[h].at # "idle"
  PROVE  Changing = {} /\ \A g \in Requesters : visit[g].at \notin {"change", "changed", "mail new"}
BY DEF Uncrossed, ChangeAlone, Changing

\* One step per action.
LEMMA ProofStep ==
  VerificationAssumption /\ ProofInv /\ [VerificationNext]_verificationVars => ProofInv'
<1> SUFFICES ASSUME VerificationAssumption, ProofInv, [VerificationNext]_verificationVars
             PROVE  ProofInv'
  OBVIOUS
<1>0. /\ VerificationTypeOK /\ VerificationTypeOK' /\ MailedCodesOld /\ CodeMailed
      /\ ~crossed => Uncrossed
  BY VerificationTypeStep DEF ProofInv
<1>a. /\ userRow \in RowType /\ code \in Nat /\ issued \in Nat /\ code <= issued
      /\ FirstAddress \in Addresses /\ crossed \in BOOLEAN
  BY <1>0 DEF VerificationTypeOK, VerificationAssumption, MailedCodesOld
<1>n. code \in Nat /\ issued \in Nat /\ code <= issued
  BY <1>a
<1>b. \A g \in Requesters :
        /\ visit[g] \in VisitType /\ visit[g].row \in RowType /\ visit[g].to \in Addresses
        /\ visit[g].code \in Nat /\ visit[g].code <= issued
  BY <1>0 DEF VerificationTypeOK, VisitType, MailedCodesOld
<1>c. IdleVisit.row \in RowType /\ IdleVisit.to \in Addresses /\ 0 <= issued
  BY <1>a DEF IdleVisit, RowType
<1>d. {"idle", "register", "resend", "mail", "mail new", "check", "expire", "compare", "delete",
       "verify"}
        \subseteq Places \ {"change", "changed"}
  BY DEF Places
<1>1. ASSUME NEW h \in Requesters, IssueCode(h) PROVE ProofInv'
  <2>1. PICK row \in RowType :
          VisitMoved(h, IF visit[h].at = "changed" THEN "mail new" ELSE "mail", row,
                IF visit[h].at = "changed" THEN visit[h].to ELSE visit[h].row.email, issued + 1)
    BY <1>0, <1>1, CodeIssued
  <2>2. /\ visit[h].at \in {"register", "changed", "resend"}
        /\ code' = issued + 1 /\ issued' = issued + 1 /\ mailbox' = {}
        /\ UNCHANGED <<userRow, proven, crossed>>
    BY <1>0, <1>1, CodeIssued
  <2>a. code' = issued + 1 /\ issued' = issued + 1
    BY <2>2
  <2>b. /\ visit'[h].at \in {"mail", "mail new"} /\ visit'[h].code = issued + 1
        /\ \A g \in Requesters : g # h => visit'[g] = visit[g]
    BY <2>1 DEF VisitMoved
  <2>c. \A g \in Requesters : visit[g].code \in Nat /\ visit[g].code < issued + 1
    <3>1. TAKE g \in Requesters
    <3>2. visit[g].code \in Nat /\ visit[g].code <= issued
      BY <1>b
    <3>3. QED
      BY <1>n, <3>2
  <2>4. MailedCodesOld'
    <3>1. \A g \in Requesters : visit'[g].code = issued + 1 \/ visit'[g].code = visit[g].code
      BY <2>b
    <3>2. \A g \in Requesters : visit'[g].code <= issued'
      BY <1>n, <2>a, <2>c, <3>1
    <3>3. code' <= issued'
      BY <1>n, <2>a
    <3>4. QED
      BY <3>2, <3>3 DEF MailedCodesOld
  <2>5. CodeMailed'
    <3>1. SUFFICES ASSUME NEW g \in Requesters, visit'[g].at \in {"check", "expire", "compare"}
                   PROVE  visit'[g].code # code'
      BY DEF CodeMailed
    <3>2. g # h /\ visit'[g] = visit[g]
      BY <2>b, <3>1
    <3>3. QED
      BY <1>n, <2>a, <2>c, <3>2
  <2>6. ASSUME ~crossed' PROVE Uncrossed'
    <3>1. Uncrossed
      BY <1>0, <2>2, <2>6
    <3>b. visit[h].row.email \in Addresses /\ issued + 1 \in Nat
      BY <1>a, <1>b DEF RowType
    <3>c. PICK at \in {"mail", "mail new"}, to \in Addresses, id \in Nat :
          /\ VisitMoved(h, at, row, to, id)
          /\ at = "mail new" <=> visit[h].at = "changed"
          /\ to = IF visit[h].at = "changed" THEN visit[h].to ELSE visit[h].row.email
      BY <1>b, <2>1, <3>b
    <3>2. to = userRow.email
      BY <2>2, <3>c, <3>1 DEF Uncrossed, HoldsAddress, MailsAddress, Holding
    <3>3. MailedThere'
      BY <2>2 DEF MailedThere
    <3>4. at = "mail new" => h \in Changing
      BY <3>c DEF Changing
    <3>5. visit[h].at # "idle" /\ at \in Places \ {"change", "changed"} /\ at \notin Holding
          /\ at \notin {"delete", "verify"}
      BY <1>d, <2>2 DEF Holding
    <3>6. userRow'.verified => userRow.email \in proven'
      BY <2>2, <3>1 DEF Uncrossed
    <3>7. QED
      BY <1>0, <2>2, <3>c, <3>1, <3>2, <3>3, <3>4, <3>5, <3>6, AddressKept
  <2>7. QED
    BY <1>0, <2>4, <2>5, <2>6 DEF ProofInv
<1>2. ASSUME NEW h \in Requesters, NEW delivered \in BOOLEAN, SendMail(h, delivered)
      PROVE ProofInv'
  <2>1. PICK row \in RowType, to \in Addresses, id \in Nat :
          VisitMoved(h, "idle", row, to, id) /\ id <= issued
    <3>1. VisitMoved(h, "idle", IdleVisit.row, IdleVisit.to, 0)
      BY <1>0, <1>2, Left DEF SendMail
    <3>2. QED
      BY <1>c, <3>1
  <2>2. /\ visit[h].at \in {"mail", "mail new"} /\ mailbox \subseteq mailbox'
        /\ mailbox' \subseteq mailbox \cup {visit[h].to}
        /\ UNCHANGED <<userRow, code, issued, proven, crossed>>
    BY <1>2 DEF SendMail
  <2>3. MailedCodesOld' /\ CodeMailed'
    BY <1>0, <1>d, <2>1, <2>2, CodeKept
  <2>4. ASSUME ~crossed' PROVE Uncrossed'
    <3>1. Uncrossed
      BY <1>0, <2>2, <2>4
    <3>2. visit[h].to = userRow.email
      BY <2>2, <3>1 DEF Uncrossed, MailsAddress
    <3>3. MailedThere'
      <4>1. SUFFICES ASSUME \A g \in Requesters : visit'[g].at # "changed", code' # NoCode
                     PROVE  mailbox' \subseteq {userRow'.email}
        BY DEF MailedThere
      <4>2. \A g \in Requesters : visit[g].at # "changed"
        BY <2>1, <2>2, <4>1 DEF VisitMoved
      <4>3. mailbox \subseteq {userRow.email}
        BY <2>2, <3>1, <4>1, <4>2 DEF Uncrossed, MailedThere
      <4>4. QED
        BY <2>2, <3>2, <4>3
    <3>4. "idle" \in Places \ {"change", "changed"} /\ "idle" \notin Holding
          /\ (userRow'.verified => userRow.email \in proven')
      BY <1>d, <2>2, <3>1 DEF Holding, Uncrossed
    <3>5. QED
      BY <1>0, <2>1, <2>2, <3>1, <3>3, <3>4, AddressKept
  <2>5. QED
    BY <1>0, <2>3, <2>4 DEF ProofInv
<1>e. \* A request that begins with the row as it is, before it changes anything.
      ASSUME NEW h \in Requesters, NEW at \in {"resend", "check", "verify"}, NEW id \in Nat,
             Enter(h, at, id), id = NoCode \/ (id = code /\ mailbox # {}),
             UNCHANGED <<userRow, code, mailbox, issued>>, proven \subseteq proven',
             at = "verify" => userRow.email \in proven'
      PROVE  ProofInv'
  <2>1. /\ VisitMoved(h, at, userRow, FirstAddress, id) /\ visit[h].at = "idle"
        /\ crossed' \in BOOLEAN /\ (~crossed' => ~crossed /\ Changing = {})
    BY <1>0, <1>e, Entered DEF Places
  <2>2. PICK row \in RowType : VisitMoved(h, at, row, FirstAddress, id) /\ row = userRow
    BY <1>a, <2>1
  <2>a. id <= issued
    <3>1. id = 0 \/ id = code
      BY <1>e DEF NoCode
    <3>2. QED
      BY <1>a, <3>1
  <2>3. id <= issued /\ at \in Places \ {"change", "changed"}
    BY <1>d, <2>a
  <2>4. MailedCodesOld' /\ CodeMailed'
    <3>1. id = code /\ code # NoCode => mailbox # {}
      BY <1>e
    <3>2. QED
      BY <1>0, <1>a, <1>e, <2>2, <2>3, <3>1, CodeKept
  <2>5. ASSUME ~crossed' PROVE Uncrossed'
    <3>1. Uncrossed /\ Changing = {}
      BY <1>0, <2>1, <2>5
    <3>2. MailedThere'
      <4>1. \A g \in Requesters : visit[g].at # "changed"
        BY <3>1 DEF Changing
      <4>2. QED
        BY <1>e, <3>1, <4>1 DEF Uncrossed, MailedThere
    <3>3. userRow'.verified => userRow.email \in proven'
      BY <1>e, <3>1 DEF Uncrossed
    <3>4. at \notin {"mail", "mail new"}
      OBVIOUS
    <3>5. QED
      BY <1>0, <1>a, <1>e, <2>2, <2>3, <3>1, <3>2, <3>3, <3>4, AddressKept
  <2>6. QED
    BY <1>0, <2>4, <2>5 DEF ProofInv
<1>3. ASSUME NEW h \in Requesters, Resend(h) PROVE ProofInv'
  BY <1>3, <1>e DEF Resend, NoCode
<1>4. ASSUME NEW h \in Requesters, NEW id \in {NoCode, code}, Confirm(h, id) PROVE ProofInv'
  <2>1. id \in Nat
    BY <1>a DEF NoCode
  <2>2. QED
    BY <1>4, <1>e, <2>1 DEF Confirm
<1>10. ASSUME NEW h \in Requesters, LinkGoogle(h) PROVE ProofInv'
  BY <1>10, <1>e DEF LinkGoogle, NoCode
<1>f. \* A request that is checking, goes on or is over, and changes no address.
      ASSUME NEW h \in Requesters, visit[h].at \in {"check", "expire", "compare", "delete"},
             NEW at \in {"idle", "expire", "compare", "delete", "verify"},
             at \in {"expire", "compare"} => visit[h].at \in {"check", "expire", "compare"},
             \/ Step(h, at)
             \/ at = "idle" /\ Leave(h),
             UNCHANGED <<userRow, mailbox, issued, crossed>>,
             code' = code \/ code' = NoCode, proven \subseteq proven',
             ~crossed /\ at \in {"delete", "verify"} => userRow.email \in proven'
      PROVE  ProofInv'
  <2>1. PICK row \in RowType, to \in Addresses, id \in Nat :
          /\ VisitMoved(h, at, row, to, id) /\ id <= issued
          /\ at # "idle" => row = visit[h].row /\ id = visit[h].code
    <3>1. CASE Step(h, at)
      <4>1. VisitMoved(h, at, visit[h].row, visit[h].to, visit[h].code)
        BY <1>0, <3>1, Stepped DEF Places
      <4>2. QED
        BY <1>b, <4>1
    <3>2. CASE at = "idle" /\ Leave(h)
      <4>1. VisitMoved(h, at, IdleVisit.row, IdleVisit.to, 0)
        BY <1>0, <3>2, Left
      <4>2. QED
        BY <1>c, <3>2, <4>1
    <3>3. QED
      BY <1>f, <3>1, <3>2
  <2>2. MailedCodesOld' /\ CodeMailed'
    <3>1. at \in {"check", "expire", "compare"} /\ id = code /\ code # NoCode => mailbox # {}
      BY <1>0, <1>f, <2>1 DEF CodeMailed
    <3>2. at \in Places
      BY DEF Places
    <3>3. QED
      BY <1>0, <1>f, <2>1, <3>1, <3>2, CodeKept
  <2>3. ASSUME ~crossed' PROVE Uncrossed'
    <3>1. Uncrossed /\ ~crossed
      BY <1>0, <1>f, <2>3
    <3>2. MailedThere'
      <4>1. h \notin Changing /\ visit[h].at # "idle"
        BY <1>f DEF Changing
      <4>2. \A g \in Requesters : visit[g].at # "changed"
        BY <3>1, <4>1, NobodyChanges
      <4>3. code' # NoCode => mailbox' \subseteq {userRow'.email}
        BY <1>f, <3>1, <4>2 DEF Uncrossed, MailedThere
      <4>4. QED
        BY <4>3 DEF MailedThere
    <3>3. visit[h].row.email = userRow.email
      BY <1>f, <3>1 DEF Uncrossed, HoldsAddress, Holding
    <3>4. at \in Holding => row.email = userRow.email
      BY <2>1, <3>3 DEF Holding
    <3>5. userRow'.verified => userRow.email \in proven'
      BY <1>f, <3>1 DEF Uncrossed
    <3>6. at \in Places \ {"change", "changed"} /\ at \notin {"mail", "mail new"}
          /\ visit[h].at # "idle"
      BY <1>d, <1>f
    <3>7. QED
      BY <1>0, <1>f, <2>1, <3>1, <3>2, <3>4, <3>5, <3>6, AddressKept
  <2>4. QED
    BY <1>0, <2>2, <2>3 DEF ProofInv
<1>5. ASSUME NEW h \in Requesters, CountAttempt(h) PROVE ProofInv'
  <2>1. /\ visit[h].at \in {"check", "expire", "compare"} /\ proven \subseteq proven'
        /\ UNCHANGED <<userRow, code, mailbox, issued, crossed>>
    BY <1>5 DEF CountAttempt, is
  <2>2. PICK at \in {"idle", "expire", "compare"} : Step(h, at) \/ (at = "idle" /\ Leave(h))
    BY <1>5 DEF CountAttempt
  <2>3. at \in {"idle", "expire", "compare", "delete", "verify"} /\ at \notin {"delete", "verify"}
        /\ visit[h].at \in {"check", "expire", "compare", "delete"}
    BY <2>1, <2>2
  <2>4. QED
    BY <1>f, <2>1, <2>2, <2>3
<1>6. ASSUME NEW h \in Requesters, ExpireWithCode(h) PROVE ProofInv'
  <2>1. /\ visit[h].at \in {"check", "expire", "compare"} /\ proven \subseteq proven'
        /\ UNCHANGED <<userRow, code, mailbox, issued, crossed>>
        /\ Step(h, "compare") /\ "compare" \in {"idle", "expire", "compare", "delete", "verify"}
        /\ visit[h].at \in {"check", "expire", "compare", "delete"}
    BY <1>6 DEF ExpireWithCode, is
  <2>2. QED
    BY <1>f, <2>1
<1>7. ASSUME NEW h \in Requesters, Compare(h) PROVE ProofInv'
  <2> DEFINE right == code # NoCode /\ visit[h].code = code
  <2>1. /\ visit[h].at = "compare" /\ UNCHANGED <<userRow, mailbox, issued, crossed>>
        /\ proven' = IF right THEN proven \cup mailbox ELSE proven
        /\ code' = code
        /\ IF right THEN Step(h, "delete") ELSE Leave(h)
    BY <1>7 DEF Compare, is
  <2>2. CASE right
    <3>1. ASSUME ~crossed PROVE userRow.email \in mailbox
      <4>1. Uncrossed
        BY <1>0, <3>1
      <4>2. h \notin Changing /\ visit[h].at # "idle"
        BY <2>1 DEF Changing
      <4>3. \A g \in Requesters : visit[g].at # "changed"
        BY <4>1, <4>2, NobodyChanges
      <4>4. mailbox \subseteq {userRow.email}
        BY <2>2, <4>1, <4>3 DEF Uncrossed, MailedThere
      <4>5. mailbox # {}
        BY <1>0, <2>1, <2>2 DEF CodeMailed
      <4>6. QED
        BY <4>4, <4>5
    <3>2. /\ visit[h].at \in {"check", "expire", "compare", "delete"} /\ proven \subseteq proven'
          /\ "delete" \in {"idle", "expire", "compare", "delete", "verify"}
          /\ ~crossed => userRow.email \in proven'
          /\ Step(h, "delete") /\ code' = code
          /\ UNCHANGED <<userRow, mailbox, issued, crossed>>
      BY <2>1, <2>2, <3>1
    <3>3. QED
      BY <1>f, <3>2
  <2>3. CASE ~right
    <3>1. /\ visit[h].at \in {"check", "expire", "compare", "delete"} /\ proven \subseteq proven'
          /\ "idle" \in {"idle", "expire", "compare", "delete", "verify"}
          /\ Leave(h) /\ code' = code
          /\ UNCHANGED <<userRow, mailbox, issued, crossed>>
      BY <2>1, <2>3
    <3>2. QED
      BY <1>f, <3>1
  <2>4. QED
    BY <2>2, <2>3
<1>17. ASSUME NEW h \in Requesters, DeleteCode(h) PROVE ProofInv'
  <2>1. /\ visit[h].at = "delete" /\ Step(h, "verify") /\ code' = NoCode
        /\ UNCHANGED <<userRow, mailbox, issued, proven, crossed>>
    BY <1>17 DEF DeleteCode, is
  <2>2. ~crossed => userRow.email \in proven'
    BY <1>0, <2>1 DEF Uncrossed, VerifiesProven
  <2>3. /\ visit[h].at \in {"check", "expire", "compare", "delete"} /\ proven \subseteq proven'
        /\ "verify" \in {"idle", "expire", "compare", "delete", "verify"}
    BY <2>1
  <2>4. QED
    BY <1>f, <2>1, <2>2, <2>3
<1>8. ASSUME NEW h \in Requesters, Verify(h) PROVE ProofInv'
  <2>1. PICK row \in RowType, to \in Addresses, id \in Nat :
          VisitMoved(h, "idle", row, to, id) /\ id <= issued
    <3>1. VisitMoved(h, "idle", IdleVisit.row, IdleVisit.to, 0)
      BY <1>0, <1>8, Left DEF Verify
    <3>2. QED
      BY <1>c, <3>1
  <2>2. visit[h].at = "verify" /\ UNCHANGED <<code, mailbox, issued, proven, crossed>>
    BY <1>8 DEF Verify, is
  <2>3. userRow'.email = userRow.email
    <3> DEFINE new == [visit[h].row EXCEPT !.verified = TRUE]
    <3>1. new \in RowType /\ new.email = visit[h].row.email
      BY <1>b DEF RowType
    <3>2. FlushUser(h, new)
      BY <1>8 DEF Verify
    <3> HIDE DEF new
    <3>3. QED
      BY <1>0, <3>1, <3>2, Flushed
  <2>4. MailedCodesOld' /\ CodeMailed'
    BY <1>0, <1>d, <2>1, <2>2, CodeKept
  <2>5. ASSUME ~crossed' PROVE Uncrossed'
    <3>1. Uncrossed
      BY <1>0, <2>2, <2>5
    <3>2. \A g \in Requesters : visit[g].at \notin {"change", "changed", "mail new"}
      <4>1. h \notin Changing /\ visit[h].at # "idle"
        BY <2>2 DEF Changing
      <4>2. QED
        BY <3>1, <4>1, NobodyChanges
    <3>3. MailedThere'
      <4>1. code' # NoCode => mailbox' \subseteq {userRow'.email}
        BY <2>2, <2>3, <3>1, <3>2 DEF Uncrossed, MailedThere
      <4>2. QED
        BY <4>1 DEF MailedThere
    <3>4. userRow.email \in proven'
      BY <2>2, <3>1 DEF Uncrossed, VerifiesProven
    <3>5. "idle" \in Places \ {"change", "changed"} /\ "idle" \notin Holding
          /\ (\A g \in Requesters : visit[g].at # "change")
      BY <1>d, <3>2 DEF Holding
    <3>6. QED
      BY <1>0, <2>1, <2>2, <2>3, <3>1, <3>3, <3>4, <3>5, AddressKept
  <2>6. QED
    BY <1>0, <2>4, <2>5 DEF ProofInv
<1>9. ASSUME NEW h \in Requesters, CommitEmail(h) PROVE ProofInv'
  <2>1. VisitMoved(h, "changed", visit[h].row, visit[h].to, visit[h].code)
    BY <1>0, <1>9, Stepped DEF CommitEmail, Places
  <2>2. visit[h].at = "change" /\ UNCHANGED <<code, mailbox, issued, proven, crossed>>
    BY <1>9 DEF CommitEmail, is
  <2>3. MailedCodesOld' /\ CodeMailed'
    <3>1. PICK row \in RowType, to \in Addresses, id \in Nat :
            VisitMoved(h, "changed", row, to, id) /\ id <= issued
      BY <1>b, <2>1
    <3>2. QED
      BY <1>0, <2>2, <3>1, CodeKept DEF Places
  <2>4. ASSUME ~crossed' PROVE Uncrossed'
    <3>1. Uncrossed
      BY <1>0, <2>2, <2>4
    <3>2. userRow'.email = visit[h].to /\ userRow'.verified = FALSE
      <4> DEFINE new == [email |-> visit[h].to, verified |-> FALSE]
      <4>1. new \in RowType /\ new.email = visit[h].to /\ new.verified = FALSE
        BY <1>b DEF RowType
      <4>2. FlushUser(h, new) /\ visit[h].row = userRow
        BY <1>9, <2>2, <3>1 DEF CommitEmail, Uncrossed, ChangeSeesRow
      <4> HIDE DEF new
      <4>3. /\ userRow'.email = IF new.email # visit[h].row.email THEN new.email
                                ELSE userRow.email
            /\ userRow'.verified = IF new.verified # visit[h].row.verified THEN new.verified
                                   ELSE userRow.verified
        BY <1>0, <4>1, <4>2, Flushed
      <4>4. QED
        BY <4>1, <4>2, <4>3
    <3>3. \A g \in Requesters : g # h => visit'[g].at = "idle"
      BY <2>1, <2>2, <3>1 DEF Uncrossed, ChangeAlone, Changing, VisitMoved
    <3>4. visit'[h].at = "changed" /\ visit'[h].to = visit[h].to
      BY <2>1 DEF VisitMoved
    <3>5. QED
      BY <3>2, <3>3, <3>4 DEF Uncrossed, ChangeAlone, ChangeSeesRow, HoldsAddress, Holding,
                              MailsAddress, VerifiesProven, MailedThere, Changing
  <2>5. QED
    BY <1>0, <2>3, <2>4 DEF ProofInv
<1>11. ASSUME NEW h \in Requesters, NEW a \in Addresses, ChangeEmail(h, a) PROVE ProofInv'
  <2>1. /\ VisitMoved(h, "change", userRow, a, 0) /\ crossed' \in BOOLEAN
        /\ ~crossed' => ~crossed /\ \A g \in Requesters : visit[g].at = "idle"
    BY <1>0, <1>11, ChangeBegins
  <2>2. UNCHANGED <<userRow, code, mailbox, issued, proven>>
    BY <1>11 DEF ChangeEmail
  <2>3. MailedCodesOld' /\ CodeMailed'
    <3>1. PICK row \in RowType, id \in Nat : VisitMoved(h, "change", row, a, id) /\ id <= issued
      BY <1>a, <1>c, <2>1
    <3>2. QED
      BY <1>0, <2>2, <3>1, CodeKept DEF Places
  <2>4. ASSUME ~crossed' PROVE Uncrossed'
    <3>1. Uncrossed /\ \A g \in Requesters : visit[g].at = "idle"
      BY <1>0, <2>1, <2>4
    <3>2. \A g \in Requesters : g # h => visit'[g].at = "idle"
      BY <2>1, <3>1 DEF VisitMoved
    <3>3. visit'[h].at = "change" /\ visit'[h].row = userRow'
      BY <2>1, <2>2 DEF VisitMoved
    <3>4. (userRow'.verified => userRow'.email \in proven') /\ MailedThere'
      BY <2>2, <3>1 DEF Uncrossed, MailedThere
    <3>5. QED
      BY <3>2, <3>3, <3>4 DEF Uncrossed, ChangeAlone, ChangeSeesRow, HoldsAddress, Holding,
                              MailsAddress, VerifiesProven, Changing
  <2>5. QED
    BY <1>0, <2>3, <2>4 DEF ProofInv
<1>12. ASSUME NEW h \in Requesters, RequesterDies(h) PROVE ProofInv'
  <2>1. PICK row \in RowType, to \in Addresses, id \in Nat :
          VisitMoved(h, "idle", row, to, id) /\ id <= issued
    <3>1. VisitMoved(h, "idle", IdleVisit.row, IdleVisit.to, 0)
      BY <1>0, <1>12, Left DEF RequesterDies
    <3>2. QED
      BY <1>c, <3>1
  <2>2. UNCHANGED <<userRow, code, mailbox, issued, proven>>
    BY <1>12 DEF RequesterDies
  <2>a. ~crossed' => ~crossed /\ visit[h].at # "changed"
    BY <1>12 DEF RequesterDies, is
  <2>3. MailedCodesOld' /\ CodeMailed'
    BY <1>0, <1>d, <2>1, <2>2, CodeKept
  <2>4. ASSUME ~crossed' PROVE Uncrossed'
    <3>1. Uncrossed /\ visit[h].at # "changed"
      BY <1>0, <2>a, <2>4
    <3>2. MailedThere'
      <4>1. (\A g \in Requesters : visit'[g].at # "changed")
              => \A g \in Requesters : visit[g].at # "changed"
        BY <2>1, <3>1 DEF VisitMoved
      <4>2. QED
        BY <2>2, <3>1, <4>1 DEF Uncrossed, MailedThere
    <3>3. "idle" \in Places \ {"change", "changed"} /\ "idle" \notin Holding
          /\ (userRow'.verified => userRow.email \in proven')
      BY <1>d, <2>2, <3>1 DEF Holding, Uncrossed
    <3>4. QED
      BY <1>0, <2>1, <2>2, <3>1, <3>2, <3>3, AddressKept
  <2>5. QED
    BY <1>0, <2>3, <2>4 DEF ProofInv
<1>13. CASE CodeExpires
  <2>1. code' = 0 /\ UNCHANGED <<userRow, mailbox, visit, issued, proven, crossed>>
    BY <1>13 DEF CodeExpires, NoCode
  <2>2. MailedCodesOld' /\ CodeMailed'
    BY <1>0, <1>a, <2>1 DEF MailedCodesOld, CodeMailed, NoCode
  <2>3. Uncrossed => Uncrossed'
    BY <2>1 DEF Uncrossed, ChangeAlone, ChangeSeesRow, HoldsAddress, MailsAddress,
                VerifiesProven, MailedThere, Changing, NoCode
  <2>4. QED
    BY <1>0, <2>1, <2>2, <2>3 DEF ProofInv
<1>14. CASE AttemptsExpire \/ UNCHANGED verificationVars
  <2>1. UNCHANGED <<userRow, code, mailbox, visit, issued, proven, crossed>>
    BY <1>14 DEF AttemptsExpire, verificationVars
  <2>2. MailedCodesOld' /\ CodeMailed'
    BY <1>0, <2>1 DEF MailedCodesOld, CodeMailed
  <2>3. Uncrossed => Uncrossed'
    BY <2>1 DEF Uncrossed, ChangeAlone, ChangeSeesRow, HoldsAddress, MailsAddress,
                VerifiesProven, MailedThere, Changing
  <2>4. QED
    BY <1>0, <2>1, <2>2, <2>3 DEF ProofInv
<1>15. QED
  BY <1>1, <1>2, <1>3, <1>4, <1>5, <1>6, <1>7, <1>8, <1>9, <1>10, <1>11, <1>12, <1>13, <1>14,
     <1>17 DEF VerificationNext

\* The account is new, and so is its first request.
LEMMA ProofInit == VerificationAssumption /\ VerificationInit => ProofInv
<1> SUFFICES ASSUME VerificationAssumption, VerificationInit PROVE ProofInv
  OBVIOUS
<1>1. PICK h \in Requesters :
        visit = [g \in Requesters |-> IF g = h THEN [IdleVisit EXCEPT !.at = "register"]
                                      ELSE IdleVisit]
  BY DEF VerificationInit
<1>2. \A g \in Requesters :
        /\ visit[g].at \in {"idle", "register"} /\ visit[g].code = 0
        /\ visit[g].row = [email |-> FirstAddress, verified |-> FALSE]
  BY <1>1 DEF IdleVisit, NoCode
<1>3. userRow = [email |-> FirstAddress, verified |-> FALSE] /\ code = 0 /\ issued = 0
      /\ mailbox = {} /\ proven = {}
  BY DEF VerificationInit, NewAccount, NoCode
<1>4. MailedCodesOld /\ CodeMailed
  BY <1>2, <1>3 DEF MailedCodesOld, CodeMailed
<1>5. Uncrossed
  BY <1>2, <1>3 DEF Uncrossed, ChangeAlone, ChangeSeesRow, HoldsAddress, MailsAddress,
                    VerifiesProven, MailedThere, Changing
<1>6. QED
  BY <1>4, <1>5, TypeInit DEF ProofInv

\* A verified account's present address was shown to be read, unless a change
\* of address crossed another request or died half-way (_update, confirm,
\* the link with Google).
THEOREM VerifiedMeansRead == VerificationSpec => []VerifiedIsProvenAlone
<1>1. VerificationInit => ProofInv
  BY VerificationAssumption, ProofInit
<1>2. ProofInv /\ [VerificationNext]_verificationVars => ProofInv'
  BY VerificationAssumption, ProofStep
<1>3. ProofInv => VerifiedIsProvenAlone
  BY DEF ProofInv, Uncrossed, VerifiedIsProvenAlone
<1>4. QED
  BY <1>1, <1>2, <1>3, PTL DEF VerificationSpec

------------------------------------------------------------------------------
(* SIGN-IN: a linked account keeps no password, an identity gets a second  *)
(* account only in a race, and a reset code sets one password.             *)

------------------------------------------------------------------------------
(* Types *)

ClientPlaces == {"idle", "forgot", "reset", "expire", "check", "set", "change", "consume",
                 "link", "associate", "callback", "disable"}
ClientType == [at : ClientPlaces, account : Accounts \cup {Elsewhere},
               identity : Identities \cup {Elsewhere}, code : Nat,
               linking : BOOLEAN, raced : BOOLEAN]

SignInTypeOK ==
    /\ registered \subseteq Accounts /\ usable \subseteq registered
    /\ links \subseteq registered \X Identities
    /\ resetCode \in [Accounts -> Nat] /\ lastReset \in Nat
    /\ client \in [Clients -> ClientType]
    /\ used \subseteq Nat \ {0} /\ leftOver \in BOOLEAN /\ halfLinked \subseteq Accounts

\* Where a request works on an account, the account is one.
AccountKnown == \A c \in Clients : client[c].at \notin {"idle", "callback"} => Who(c) \in Accounts
IdentityKnown ==
    \A c \in Clients : client[c].at \in {"link", "callback", "associate"} =>
        client[c].identity \in Identities
\* The requests that change a password work on accounts that exist.
AccountExists == \A c \in Clients : client[c].at \in {"reset", "expire", "check", "set", "change", "disable"} =>
                    Who(c) \in registered
TypeInv == SignInTypeOK /\ AccountKnown /\ IdentityKnown /\ AccountExists

------------------------------------------------------------------------------
(* What a step does to its request, and that it leaves the others alone.   *)

Moved(c, at, a, i, id, raced) ==
    /\ client' \in [Clients -> ClientType]
    /\ client'[c].at = at /\ client'[c].account = a /\ client'[c].identity = i
    /\ client'[c].code = id /\ client'[c].raced = raced
    /\ \A g \in Clients : g # c => client'[g] = client[g]

\* It is replaced, ...
LEMMA Replaced ==
  ASSUME SignInTypeOK, NEW c \in Clients, NEW new \in ClientType,
         client' = [client EXCEPT ![c] = new]
  PROVE  Moved(c, new.at, new.account, new.identity, new.code, new.raced)
BY DEF SignInTypeOK, Moved

\* ... it goes forward, ...
LEMMA Forwarded ==
  ASSUME SignInTypeOK, NEW c \in Clients, NEW at \in ClientPlaces, Advance(c, at)
  PROVE  Moved(c, at, client[c].account, client[c].identity, client[c].code, client[c].raced)
<1> DEFINE new == [client[c] EXCEPT !.at = at]
<1>1. client[c] \in ClientType
  BY DEF SignInTypeOK
<1>2. /\ new \in ClientType /\ new.at = at /\ new.account = client[c].account
      /\ new.identity = client[c].identity /\ new.code = client[c].code
      /\ new.raced = client[c].raced
  BY <1>1 DEF ClientType
<1>3. client' = [client EXCEPT ![c] = new]
  BY <1>1 DEF Advance, ClientType
<1> HIDE DEF new
<1>4. Moved(c, new.at, new.account, new.identity, new.code, new.raced)
  BY <1>2, <1>3, Replaced
<1>5. QED
  BY <1>2, <1>4 DEF Moved

\* ... it is over, ...
LEMMA Finished ==
  ASSUME SignInTypeOK, NEW c \in Clients, FinishClient(c)
  PROVE  Moved(c, "idle", Elsewhere, Elsewhere, 0, FALSE)
<1>1. IdleClient \in ClientType
  BY DEF IdleClient, ClientType, ClientPlaces
<1>2. Moved(c, IdleClient.at, IdleClient.account, IdleClient.identity, IdleClient.code,
            IdleClient.raced)
  BY <1>1, Replaced DEF FinishClient
<1>3. QED
  BY <1>2 DEF Moved, IdleClient

\* ... or it arrives.
LEMMA Arrived ==
  ASSUME SignInTypeOK, NEW c \in Clients, NEW at \in ClientPlaces,
         NEW a \in Accounts, NEW i \in Identities \cup {Elsewhere}, NEW id \in Nat,
         Arrive(c, at, a, i, id)
  PROVE  Moved(c, at, a, i, id, FALSE) /\ In(c, "idle")
<1> DEFINE new == [at |-> at, account |-> a, identity |-> i, code |-> id,
                   linking |-> FALSE, raced |-> FALSE]
<1>1. new \in ClientType
  BY DEF ClientType
<1>2. client' = [client EXCEPT ![c] = new] /\ In(c, "idle")
  BY DEF Arrive
<1>3. Moved(c, new.at, new.account, new.identity, new.code, new.raced)
  BY <1>1, <1>2, Replaced
<1>4. QED
  BY <1>2, <1>3 DEF Moved

\* A request for a link goes on with the insert.
LEMMA LinkGoesOn ==
  ASSUME SignInTypeOK, NEW c \in Clients,
         client' = [client EXCEPT ![c].at = "associate", ![c].linking = TRUE]
  PROVE  Moved(c, "associate", client[c].account, client[c].identity, client[c].code, client[c].raced)
<1> DEFINE new == [client[c] EXCEPT !.at = "associate", !.linking = TRUE]
<1>1. client[c] \in ClientType
  BY DEF SignInTypeOK
<1>2. /\ new \in ClientType /\ new.at = "associate" /\ new.account = client[c].account
      /\ new.identity = client[c].identity /\ new.code = client[c].code
      /\ new.raced = client[c].raced
  BY <1>1 DEF ClientType, ClientPlaces
<1>3. client' = [client EXCEPT ![c] = new]
  BY <1>1 DEF ClientType
<1> HIDE DEF new
<1>4. Moved(c, new.at, new.account, new.identity, new.code, new.raced)
  BY <1>2, <1>3, Replaced
<1>5. QED
  BY <1>2, <1>4 DEF Moved

\* A sign-in with Google begins.
LEMMA SignInBegins ==
  ASSUME SignInTypeOK, NEW c \in Clients, NEW i \in Identities, NEW confirmed,
         GoogleSignIn(c, i, confirmed)
  PROVE  Moved(c, "callback", Elsewhere, i, 0, FALSE) /\ In(c, "idle")
<1> DEFINE known == AddressOf[i] \in registered
           new == [IdleClient EXCEPT !.at = "callback", !.identity = i, !.linking = known]
<1>1. known \in BOOLEAN
  OBVIOUS
<1> HIDE DEF known
<1>2. /\ new \in ClientType /\ new.at = "callback" /\ new.account = Elsewhere
      /\ new.identity = i /\ new.code = 0 /\ new.raced = FALSE
  BY <1>1 DEF IdleClient, ClientType, ClientPlaces
<1>3. client' = [client EXCEPT ![c] = new] /\ In(c, "idle")
  BY DEF GoogleSignIn, known
<1> HIDE DEF new
<1>4. Moved(c, new.at, new.account, new.identity, new.code, new.raced)
  BY <1>2, <1>3, Replaced
<1>5. QED
  BY <1>2, <1>3, <1>4 DEF Moved

\* The callback finds an account, or makes up its mind to create one.
LEMMA CallbackGoesOn ==
  ASSUME SignInTypeOK, NEW c \in Clients, NEW a \in Accounts, NEW at \in ClientPlaces,
         client' = [client EXCEPT ![c].at = at, ![c].account = a]
  PROVE  Moved(c, at, a, client[c].identity, client[c].code, client[c].raced)
<1> DEFINE new == [client[c] EXCEPT !.at = at, !.account = a]
<1>1. client[c] \in ClientType
  BY DEF SignInTypeOK
<1>2. /\ new \in ClientType /\ new.at = at /\ new.account = a
      /\ new.identity = client[c].identity /\ new.code = client[c].code
      /\ new.raced = client[c].raced
  BY <1>1 DEF ClientType
<1>3. client' = [client EXCEPT ![c] = new]
  BY <1>1 DEF ClientType
<1> HIDE DEF new
<1>4. Moved(c, new.at, new.account, new.identity, new.code, new.raced)
  BY <1>2, <1>3, Replaced
<1>5. QED
  BY <1>2, <1>4 DEF Moved

\* The insert ends or goes on, and marks the others that are at it.
LEMMA Associated ==
  ASSUME SignInTypeOK, NEW c \in Clients, Associate(c)
  PROVE  /\ client' \in [Clients -> ClientType]
         /\ client'[c].at \in {"idle", "disable"}
         /\ client'[c].at = "disable" => client'[c].account = client[c].account
         /\ client[c].linking => client'[c].at = "disable"
         /\ client'[c].at = "idle" => client'[c].code = 0
         /\ client'[c].code \in {client[c].code, 0}
         /\ \A g \in Clients : g # c =>
               /\ client'[g].at = client[g].at /\ client'[g].account = client[g].account
               /\ client'[g].identity = client[g].identity /\ client'[g].code = client[g].code
               /\ client'[g].raced = (client[g].raced \/
                     (In(g, "associate") /\ client[g].identity = client[c].identity))
<1> DEFINE next == IF client[c].linking THEN [client[c] EXCEPT !.at = "disable"] ELSE IdleClient
           marked(g) == client[g].raced \/ (In(g, "associate") /\ client[g].identity = client[c].identity)
<1>1. \A g \in Clients : client[g] \in ClientType /\ marked(g) \in BOOLEAN
  BY DEF SignInTypeOK, ClientType
<1>2. client' = [g \in Clients |-> IF g = c THEN next ELSE [client[g] EXCEPT !.raced = marked(g)]]
  BY DEF Associate
<1>3. /\ next \in ClientType /\ next.at \in {"idle", "disable"}
      /\ next.at = "disable" => next.account = client[c].account
      /\ client[c].linking => next.at = "disable"
      /\ next.at = "idle" => next.code = 0
      /\ next.code \in {client[c].code, 0}
  <2>1. IdleClient \in ClientType /\ IdleClient.at = "idle" /\ IdleClient.code = 0
    BY DEF IdleClient, ClientType, ClientPlaces
  <2>2. /\ [client[c] EXCEPT !.at = "disable"] \in ClientType
        /\ [client[c] EXCEPT !.at = "disable"].at = "disable"
        /\ [client[c] EXCEPT !.at = "disable"].account = client[c].account
        /\ [client[c] EXCEPT !.at = "disable"].code = client[c].code
    BY <1>1 DEF ClientType, ClientPlaces
  <2>3. QED
    BY <2>1, <2>2
<1> HIDE DEF next, marked
<1>4. ASSUME NEW g \in Clients
      PROVE  /\ [client[g] EXCEPT !.raced = marked(g)] \in ClientType
             /\ [client[g] EXCEPT !.raced = marked(g)].at = client[g].at
             /\ [client[g] EXCEPT !.raced = marked(g)].account = client[g].account
             /\ [client[g] EXCEPT !.raced = marked(g)].identity = client[g].identity
             /\ [client[g] EXCEPT !.raced = marked(g)].code = client[g].code
             /\ [client[g] EXCEPT !.raced = marked(g)].raced = marked(g)
  BY <1>1 DEF ClientType
<1>5. client' \in [Clients -> ClientType]
  BY <1>2, <1>3, <1>4
<1>6. client'[c] = next
  BY <1>2
<1>7. \A g \in Clients : g # c => client'[g] = [client[g] EXCEPT !.raced = marked(g)]
  BY <1>2
<1>8. \A g \in Clients : g # c =>
         /\ client'[g].at = client[g].at /\ client'[g].account = client[g].account
         /\ client'[g].identity = client[g].identity /\ client'[g].code = client[g].code
         /\ client'[g].raced = marked(g)
  BY <1>4, <1>7
<1>9. QED
  BY <1>3, <1>5, <1>6, <1>8 DEF marked

------------------------------------------------------------------------------
(* Types, and that what a request works on exists. *)

\* The step of the types, for a request that is all that moves among them.
LEMMA TypeFrame ==
  ASSUME TypeInv, NEW c \in Clients, NEW at, NEW a, NEW i, NEW id, NEW raced,
         Moved(c, at, a, i, id, raced),
         at \notin {"idle", "callback"} => a \in Accounts,
         at \in {"link", "callback", "associate"} => i \in Identities,
         at \in {"reset", "expire", "check", "set", "change", "disable"} => a \in registered,
         UNCHANGED <<registered, links>>,
         usable' \subseteq registered, resetCode' \in [Accounts -> Nat], lastReset' \in Nat,
         used' \subseteq Nat \ {0}, leftOver' \in BOOLEAN, halfLinked' \subseteq Accounts
  PROVE  TypeInv'
<1>1. SignInTypeOK'
  BY DEF TypeInv, SignInTypeOK, Moved
<1>2. AccountKnown' /\ IdentityKnown' /\ AccountExists'
  BY DEF TypeInv, AccountKnown, IdentityKnown, AccountExists, Moved, Who
<1>3. QED
  BY <1>1, <1>2 DEF TypeInv

\* Every step keeps the types.
LEMMA TypeStep == TypeInv /\ [SignInNext]_signInVars => TypeInv'
<1> SUFFICES ASSUME TypeInv, [SignInNext]_signInVars PROVE TypeInv'
  OBVIOUS
<1>0. /\ SignInTypeOK /\ registered \subseteq Accounts /\ usable \subseteq registered
      /\ links \subseteq registered \X Identities
      /\ resetCode \in [Accounts -> Nat] /\ lastReset \in Nat
      /\ used \subseteq Nat \ {0} /\ leftOver \in BOOLEAN /\ halfLinked \subseteq Accounts
  BY DEF TypeInv, SignInTypeOK
<1>a. \A c \in Clients :
         /\ client[c].account \in Accounts \cup {Elsewhere}
         /\ client[c].identity \in Identities \cup {Elsewhere} /\ client[c].code \in Nat
         /\ client[c].at \notin {"idle", "callback"} => client[c].account \in Accounts
         /\ client[c].at \in {"link", "callback", "associate"} => client[c].identity \in Identities
         /\ client[c].at \in {"reset", "expire", "check", "set", "change", "disable"} => client[c].account \in registered
  BY DEF TypeInv, SignInTypeOK, AccountKnown, IdentityKnown, AccountExists, ClientType, Who
<1>1. ASSUME NEW a \in Accounts, Register(a) PROVE TypeInv'
  <2>1. SignInTypeOK'
    BY <1>0, <1>1 DEF Register, SignInTypeOK
  <2>2. AccountKnown' /\ IdentityKnown' /\ AccountExists'
    BY <1>1 DEF Register, TypeInv, AccountKnown, IdentityKnown, AccountExists, Who
  <2>3. QED
    BY <2>1, <2>2 DEF TypeInv
<1>2. ASSUME NEW a \in Accounts, ResetExpires(a) PROVE TypeInv'
  <2>1. SignInTypeOK'
    BY <1>0, <1>2 DEF ResetExpires, SignInTypeOK
  <2>2. AccountKnown' /\ IdentityKnown' /\ AccountExists'
    BY <1>2 DEF ResetExpires, TypeInv, AccountKnown, IdentityKnown, AccountExists, Who
  <2>3. QED
    BY <2>1, <2>2 DEF TypeInv
<1>3. ASSUME NEW c \in Clients, NEW a \in Accounts,
             Forgot(c, a) \/ (\E k \in 0..lastReset : ResetConfirm(c, a, k)) \/ ChangePassword(c, a)
      PROVE  TypeInv'
  <2>1. /\ UNCHANGED <<registered, usable, links, resetCode, lastReset, used, leftOver, halfLinked>>
        /\ a \in registered
        /\ \E at \in {"forgot", "reset", "change"}, id \in Nat : Arrive(c, at, a, Elsewhere, id)
    BY <1>0, <1>3 DEF Forgot, ResetConfirm, ChangePassword
  <2>2. PICK at \in {"forgot", "reset", "change"}, id \in Nat : Arrive(c, at, a, Elsewhere, id)
    BY <2>1
  <2>3. at \in ClientPlaces
    BY DEF ClientPlaces
  <2>4. Moved(c, at, a, Elsewhere, id, FALSE)
    BY <1>0, <2>2, <2>3, Arrived
  <2>5. QED
    BY <1>0, <2>1, <2>4, TypeFrame
<1>4. ASSUME NEW c \in Clients, NEW a \in Accounts, NEW i \in Identities, Link(c, a, i)
      PROVE  TypeInv'
  <2>1. Moved(c, "link", a, i, 0, FALSE)
    BY <1>0, <1>4, Arrived DEF Link, ClientPlaces
  <2>2. UNCHANGED <<registered, usable, links, resetCode, lastReset, used, leftOver, halfLinked>>
    BY <1>4 DEF Link
  <2>3. QED
    BY <1>0, <2>1, <2>2, TypeFrame
<1>5. ASSUME NEW c \in Clients, FinishClient(c), UNCHANGED <<registered, links>>,
             usable' \subseteq registered, resetCode' \in [Accounts -> Nat], lastReset' \in Nat,
             used' \subseteq Nat \ {0}, leftOver' \in BOOLEAN, halfLinked' \subseteq Accounts
      PROVE  TypeInv'
  <2>1. Moved(c, "idle", Elsewhere, Elsewhere, 0, FALSE)
    BY <1>0, <1>5, Finished
  <2>2. QED
    BY <1>5, <2>1, TypeFrame
<1>6. ASSUME NEW c \in Clients, IssueReset(c) PROVE TypeInv'
  <2>1. /\ FinishClient(c) /\ UNCHANGED <<registered, usable, links, used, leftOver, halfLinked>>
        /\ lastReset' = lastReset + 1
        /\ resetCode' = [resetCode EXCEPT ![Who(c)] = lastReset + 1]
    BY <1>6 DEF IssueReset
  <2>2. lastReset + 1 \in Nat
    BY <1>0
  <2>3. lastReset' \in Nat /\ resetCode' \in [Accounts -> Nat]
    BY <1>0, <2>1, <2>2
  <2>4. QED
    BY <1>0, <1>5, <2>1, <2>3
<1>7. ASSUME NEW c \in Clients, NEW strong, CheckReset(c, strong) PROVE TypeInv'
  <2>1. /\ UNCHANGED <<registered, usable, links, resetCode, lastReset, used, leftOver, halfLinked>>
        /\ client[c].at = "check" /\ (FinishClient(c) \/ Advance(c, "set"))
    BY <1>7 DEF CheckReset, In
  <2>2. CASE FinishClient(c)
    BY <1>0, <1>5, <2>1, <2>2
  <2>3. CASE Advance(c, "set")
    <3>1. Moved(c, "set", client[c].account, client[c].identity, client[c].code, client[c].raced)
      BY <1>0, <2>3, Forwarded DEF ClientPlaces
    <3>2. QED
      BY <1>0, <1>a, <2>1, <3>1, TypeFrame
  <2>4. QED
    BY <2>1, <2>2, <2>3
<1>18. ASSUME NEW c \in Clients, CountReset(c) \/ ExpireReset(c) PROVE TypeInv'
  <2>1. /\ UNCHANGED <<registered, usable, links, resetCode, lastReset, used, leftOver, halfLinked>>
        /\ client[c].at \in {"reset", "expire"}
        /\ FinishClient(c) \/ \E at \in {"expire", "check"} : Advance(c, at)
    BY <1>18 DEF CountReset, ExpireReset, In
  <2>2. CASE FinishClient(c)
    BY <1>0, <1>5, <2>1, <2>2
  <2>3. ASSUME NEW at \in {"expire", "check"}, Advance(c, at) PROVE TypeInv'
    <3>1. at \in ClientPlaces
      BY DEF ClientPlaces
    <3>2. Moved(c, at, client[c].account, client[c].identity, client[c].code, client[c].raced)
      BY <1>0, <2>3, <3>1, Forwarded
    <3>3. QED
      BY <1>0, <1>a, <2>1, <3>2, TypeFrame
  <2>4. QED
    BY <2>1, <2>2, <2>3
<1>8. ASSUME NEW c \in Clients, SetPassword(c) PROVE TypeInv'
  <2>1. /\ client[c].at \in {"set", "change"} /\ (FinishClient(c) \/ Advance(c, "consume"))
        /\ usable' = usable \cup {client[c].account}
        /\ used' = used \cup ({client[c].code} \ {0})
        /\ halfLinked' \subseteq halfLinked \cup {client[c].account}
        /\ UNCHANGED <<registered, links, resetCode, lastReset, leftOver>>
    BY <1>8 DEF SetPassword, In, Who
  <2>2. /\ usable' \subseteq registered /\ used' \subseteq Nat \ {0} /\ halfLinked' \subseteq Accounts
        /\ client[c].account \in Accounts
    BY <1>0, <1>a, <2>1
  <2>3. CASE FinishClient(c)
    BY <1>0, <1>5, <2>1, <2>2, <2>3
  <2>4. CASE Advance(c, "consume")
    <3>1. Moved(c, "consume", client[c].account, client[c].identity, client[c].code, client[c].raced)
      BY <1>0, <2>4, Forwarded DEF ClientPlaces
    <3>2. QED
      BY <1>0, <2>1, <2>2, <3>1, TypeFrame
  <2>5. QED
    BY <2>1, <2>3, <2>4
<1>9. ASSUME NEW c \in Clients, ConsumeReset(c) PROVE TypeInv'
  <2>1. /\ FinishClient(c) /\ UNCHANGED <<registered, usable, links, lastReset, used, leftOver, halfLinked>>
        /\ resetCode' \in [Accounts -> Nat]
    BY <1>0, <1>9 DEF ConsumeReset
  <2>2. QED
    BY <1>0, <1>5, <2>1
<1>10. ASSUME NEW c \in Clients, LinkCheck(c) PROVE TypeInv'
  <2>1. /\ UNCHANGED <<registered, usable, links, resetCode, lastReset, used, leftOver, halfLinked>>
        /\ client[c].at = "link"
        /\ FinishClient(c) \/ client' = [client EXCEPT ![c].at = "associate", ![c].linking = TRUE]
    BY <1>10 DEF LinkCheck, In
  <2>2. CASE FinishClient(c)
    BY <1>0, <1>5, <2>1, <2>2
  <2>3. CASE client' = [client EXCEPT ![c].at = "associate", ![c].linking = TRUE]
    <3>1. Moved(c, "associate", client[c].account, client[c].identity, client[c].code, client[c].raced)
      BY <1>0, <2>3, LinkGoesOn
    <3>2. QED
      BY <1>0, <1>a, <2>1, <3>1, TypeFrame
  <2>4. QED
    BY <2>1, <2>2, <2>3
<1>11. ASSUME NEW c \in Clients, NEW i \in Identities, NEW confirmed, GoogleSignIn(c, i, confirmed)
       PROVE  TypeInv'
  <2>1. UNCHANGED <<registered, usable, links, resetCode, lastReset, used, leftOver, halfLinked>>
    BY <1>11 DEF GoogleSignIn
  <2>2. Moved(c, "callback", Elsewhere, i, 0, FALSE)
    BY <1>0, <1>11, SignInBegins
  <2>3. QED
    BY <1>0, <2>1, <2>2, TypeFrame
<1>12. ASSUME NEW c \in Clients, NEW a \in Accounts, Callback(c, a) PROVE TypeInv'
  <2>1. /\ UNCHANGED <<registered, usable, links, resetCode, lastReset, used, leftOver, halfLinked>>
        /\ client[c].at = "callback"
        /\ \/ FinishClient(c)
           \/ /\ client' = [client EXCEPT ![c].at = "disable", ![c].account = a]
              /\ a \in registered
           \/ client' = [client EXCEPT ![c].at = "associate", ![c].account = a]
    BY <1>12 DEF Callback, In, LinkedTo
  <2>2. CASE FinishClient(c)
    BY <1>0, <1>5, <2>1, <2>2
  <2>3. CASE client' = [client EXCEPT ![c].at = "disable", ![c].account = a] /\ a \in registered
    <3>1. Moved(c, "disable", a, client[c].identity, client[c].code, client[c].raced)
      BY <1>0, <2>3, CallbackGoesOn DEF ClientPlaces
    <3>2. QED
      BY <1>0, <2>1, <2>3, <3>1, TypeFrame
  <2>4. CASE client' = [client EXCEPT ![c].at = "associate", ![c].account = a]
    <3>1. Moved(c, "associate", a, client[c].identity, client[c].code, client[c].raced)
      BY <1>0, <2>4, CallbackGoesOn DEF ClientPlaces
    <3>2. QED
      BY <1>0, <1>a, <2>1, <3>1, TypeFrame
  <2>5. QED
    BY <2>1, <2>2, <2>3, <2>4
<1>13. ASSUME NEW c \in Clients, Associate(c) PROVE TypeInv'
  <2> DEFINE a == client[c].account
             i == client[c].identity
  <2>1. /\ client[c].at = "associate" /\ registered' = registered \cup {a}
        /\ links' = links \cup {<<a, i>>}
        /\ halfLinked' \subseteq halfLinked \cup {a}
        /\ UNCHANGED <<usable, resetCode, lastReset, used, leftOver>>
    BY <1>13 DEF Associate, In, Who
  <2>2. a \in Accounts /\ i \in Identities
    BY <1>a, <2>1
  <2>3. /\ client' \in [Clients -> ClientType]
        /\ client'[c].at \in {"idle", "disable"}
        /\ client'[c].at = "disable" => client'[c].account = a
        /\ \A g \in Clients : g # c =>
              /\ client'[g].at = client[g].at /\ client'[g].account = client[g].account
              /\ client'[g].identity = client[g].identity
    BY <1>0, <1>13, Associated
  <2> HIDE DEF a, i
  <2>4. SignInTypeOK'
    BY <1>0, <2>1, <2>2, <2>3 DEF SignInTypeOK
  <2>5. ASSUME NEW g \in Clients
        PROVE  /\ client'[g].at \notin {"idle", "callback"} => client'[g].account \in Accounts
               /\ client'[g].at \in {"link", "callback", "associate"} => client'[g].identity \in Identities
               /\ client'[g].at \in {"reset", "expire", "check", "set", "change", "disable"} =>
                     client'[g].account \in registered'
    BY <1>a, <2>1, <2>2, <2>3
  <2>6. QED
    BY <2>4, <2>5 DEF TypeInv, AccountKnown, IdentityKnown, AccountExists, Who
<1>14. ASSUME NEW c \in Clients, Disable(c) PROVE TypeInv'
  <2>1. /\ FinishClient(c) /\ usable' \subseteq registered
        /\ UNCHANGED <<registered, links, resetCode, lastReset, used, leftOver, halfLinked>>
    BY <1>0, <1>14 DEF Disable
  <2>2. QED
    BY <1>0, <1>5, <2>1
<1>15. ASSUME NEW c \in Clients, ClientDies(c) PROVE TypeInv'
  <2>1. /\ FinishClient(c) /\ UNCHANGED <<registered, usable, links, resetCode, lastReset, used>>
        /\ leftOver' \in BOOLEAN
        /\ halfLinked' = IF client[c].at = "disable" THEN halfLinked \cup {client[c].account}
                         ELSE halfLinked
    BY <1>15 DEF ClientDies, In, Who
  <2>2. halfLinked' \subseteq Accounts
    BY <1>0, <1>a, <2>1
  <2>3. QED
    BY <1>0, <1>5, <2>1, <2>2
<1>16. CASE UNCHANGED signInVars
  BY <1>16 DEF signInVars, TypeInv, SignInTypeOK, AccountKnown, IdentityKnown, AccountExists, Who
<1>19. ASSUME NEW a \in Accounts, TriesExpire(a) PROVE TypeInv'
  <2>1. SignInTypeOK'
    BY <1>0, <1>19 DEF TriesExpire, SignInTypeOK
  <2>2. AccountKnown' /\ IdentityKnown' /\ AccountExists'
    BY <1>19 DEF TriesExpire, TypeInv, AccountKnown, IdentityKnown, AccountExists, Who
  <2>3. QED
    BY <2>1, <2>2 DEF TypeInv
<1>17. QED
  BY <1>18, <1>19, <1>1, <1>2, <1>3, <1>4, <1>6, <1>7, <1>8, <1>9, <1>10, <1>11, <1>12, <1>13, <1>14, <1>15, <1>16
    DEF SignInNext

\* They hold at the start.
LEMMA TypeStarts ==
  ASSUME SignInInit
  PROVE  TypeInv /\ \A c \in Clients : client[c].at = "idle" /\ client[c].code = 0
<1>1. IdleClient \in ClientType /\ IdleClient.at = "idle" /\ IdleClient.code = 0
  BY DEF IdleClient, ClientType, ClientPlaces
<1>2. client \in [Clients -> ClientType]
      /\ \A c \in Clients : client[c].at = "idle" /\ client[c].code = 0
  BY <1>1 DEF SignInInit
<1>3. SignInTypeOK
  BY <1>2 DEF SignInInit, SignInTypeOK
<1>4. QED
  BY <1>2, <1>3 DEF TypeInv, AccountKnown, IdentityKnown, AccountExists

\* The requests' steps that write neither a password nor a link.
Quiet(c) ==
    \/ \E a \in Accounts : Forgot(c, a) \/ ChangePassword(c, a)
    \/ \E a \in Accounts, id \in 0..lastReset : ResetConfirm(c, a, id)
    \/ \E a \in Accounts, i \in Identities : Link(c, a, i)
    \/ \E i \in Identities, confirmed \in BOOLEAN : GoogleSignIn(c, i, confirmed)
    \/ \E a \in Accounts : Callback(c, a)
    \/ \E strong \in BOOLEAN : CheckReset(c, strong)
    \/ CountReset(c) \/ ExpireReset(c) \/ IssueReset(c) \/ ConsumeReset(c) \/ LinkCheck(c)

\* They leave the other requests alone, and none of them is at a "disable".
LEMMA QuietSteps ==
  ASSUME TypeInv, NEW c \in Clients, Quiet(c)
  PROVE  /\ UNCHANGED <<registered, usable, links, used, leftOver, halfLinked>>
         /\ client[c].at # "disable"
         /\ \A g \in Clients : g # c => client'[g] = client[g]
<1>0. client \in [Clients -> ClientType]
  BY DEF TypeInv, SignInTypeOK
<1>1. ASSUME NEW a \in Accounts,
             Forgot(c, a) \/ (\E k \in 0..lastReset : ResetConfirm(c, a, k)) \/ ChangePassword(c, a)
      PROVE  /\ UNCHANGED <<registered, usable, links, used, leftOver, halfLinked>>
             /\ client[c].at # "disable"
             /\ \A g \in Clients : g # c => client'[g] = client[g]
  BY <1>0, <1>1 DEF Forgot, ResetConfirm, ChangePassword, Arrive, In
<1>2. ASSUME NEW a \in Accounts, NEW i \in Identities, Link(c, a, i)
      PROVE  /\ UNCHANGED <<registered, usable, links, used, leftOver, halfLinked>>
             /\ client[c].at # "disable"
             /\ \A g \in Clients : g # c => client'[g] = client[g]
  BY <1>0, <1>2 DEF Link, Arrive, In
<1>3. ASSUME NEW i \in Identities, NEW confirmed \in BOOLEAN, GoogleSignIn(c, i, confirmed)
      PROVE  /\ UNCHANGED <<registered, usable, links, used, leftOver, halfLinked>>
             /\ client[c].at # "disable"
             /\ \A g \in Clients : g # c => client'[g] = client[g]
  BY <1>0, <1>3 DEF GoogleSignIn, In
<1>4. ASSUME NEW a \in Accounts, Callback(c, a)
      PROVE  /\ UNCHANGED <<registered, usable, links, used, leftOver, halfLinked>>
             /\ client[c].at # "disable"
             /\ \A g \in Clients : g # c => client'[g] = client[g]
  BY <1>0, <1>4 DEF Callback, FinishClient, In
<1>5. ASSUME NEW strong \in BOOLEAN, CheckReset(c, strong)
      PROVE  /\ UNCHANGED <<registered, usable, links, used, leftOver, halfLinked>>
             /\ client[c].at # "disable"
             /\ \A g \in Clients : g # c => client'[g] = client[g]
  BY <1>0, <1>5 DEF CheckReset, FinishClient, Advance, In
<1>6. ASSUME CountReset(c) \/ ExpireReset(c) \/ IssueReset(c) \/ ConsumeReset(c) \/ LinkCheck(c)
      PROVE  /\ UNCHANGED <<registered, usable, links, used, leftOver, halfLinked>>
             /\ client[c].at # "disable"
             /\ \A g \in Clients : g # c => client'[g] = client[g]
  BY <1>0, <1>6 DEF CountReset, ExpireReset, IssueReset, ConsumeReset, LinkCheck, FinishClient, Advance, In
<1>7. QED
  BY <1>1, <1>2, <1>3, <1>4, <1>5, <1>6 DEF Quiet

\* What the next step is, when it is one of a request.
LEMMA NextSteps ==
  ASSUME [SignInNext]_signInVars
  PROVE  \/ \E a \in Accounts : Register(a) \/ ResetExpires(a) \/ TriesExpire(a)
         \/ \E c \in Clients : Quiet(c) \/ SetPassword(c) \/ Associate(c) \/ Disable(c) \/ ClientDies(c)
         \/ UNCHANGED signInVars
BY DEF SignInNext, Quiet

------------------------------------------------------------------------------
(* A linked account has no password.                                       *)

PasswordInv == TypeInv /\ LinkedHasNoPassword

\* Every step keeps it.
LEMMA PasswordStep == PasswordInv /\ [SignInNext]_signInVars => PasswordInv'
<1> SUFFICES ASSUME PasswordInv, [SignInNext]_signInVars PROVE PasswordInv'
  OBVIOUS
<1>0. TypeInv /\ TypeInv' /\ LinkedHasNoPassword /\ SignInTypeOK
  BY TypeStep DEF PasswordInv, TypeInv
<1>1. ASSUME UNCHANGED links, usable' \subseteq usable, halfLinked \subseteq halfLinked',
             \A g \in Clients : client[g].at = "disable" /\ Who(g) \in usable' \ halfLinked' =>
                client'[g].at = "disable" /\ client'[g].account = client[g].account
      PROVE  PasswordInv'
  <2>1. \A a : LinksOf(a)' = LinksOf(a)
    BY <1>1 DEF LinksOf
  <2>2. LinkedHasNoPassword'
    BY <1>0, <1>1, <2>1 DEF LinkedHasNoPassword, In, Who
  <2>3. QED
    BY <1>0, <2>2 DEF PasswordInv
<1>2. ASSUME NEW a \in Accounts, Register(a) PROVE PasswordInv'
  <2>1. LinksOf(a) = {}
    BY <1>0, <1>2 DEF Register, LinksOf, SignInTypeOK
  <2>2. /\ usable' = usable \cup {a} /\ UNCHANGED <<client, links, halfLinked>>
        /\ \A b : LinksOf(b)' = LinksOf(b)
    BY <1>2 DEF Register, LinksOf
  <2>3. LinkedHasNoPassword'
    BY <1>0, <2>1, <2>2 DEF LinkedHasNoPassword, In, Who
  <2>4. QED
    BY <1>0, <2>3 DEF PasswordInv
<1>3. ASSUME NEW a \in Accounts, ResetExpires(a) \/ TriesExpire(a) PROVE PasswordInv'
  BY <1>1, <1>3 DEF ResetExpires, TriesExpire
<1>4. ASSUME NEW c \in Clients, Quiet(c) PROVE PasswordInv'
  <2>1. /\ UNCHANGED <<usable, links, halfLinked>> /\ client[c].at # "disable"
        /\ \A g \in Clients : g # c => client'[g] = client[g]
    BY <1>0, <1>4, QuietSteps
  <2>2. QED
    BY <1>1, <2>1
<1>5. ASSUME NEW c \in Clients, SetPassword(c) PROVE PasswordInv'
  <2>1. /\ client[c].at # "disable" /\ UNCHANGED links /\ halfLinked \subseteq halfLinked'
        /\ \A g \in Clients : g # c => client'[g] = client[g]
        /\ usable' = usable \cup {Who(c)}
        /\ LinksOf(Who(c)) # {} => Who(c) \in halfLinked'
    BY <1>0, <1>5 DEF SetPassword, FinishClient, Advance, In, SignInTypeOK
  <2>2. \A a : LinksOf(a)' = LinksOf(a)
    BY <2>1 DEF LinksOf
  <2>3. ASSUME NEW a \in usable' \ halfLinked', LinksOf(a)' # {}
        PROVE  \E g \in Clients : In(g, "disable")' /\ Who(g)' = a
    <3>1. a \in usable \ halfLinked /\ LinksOf(a) # {}
      BY <2>1, <2>2, <2>3
    <3>2. PICK g \in Clients : In(g, "disable") /\ Who(g) = a
      BY <1>0, <3>1 DEF LinkedHasNoPassword
    <3>3. client'[g] = client[g]
      BY <2>1, <3>2 DEF In
    <3>4. QED
      BY <3>2, <3>3 DEF In, Who
  <2>4. LinkedHasNoPassword'
    BY <2>3 DEF LinkedHasNoPassword
  <2>5. QED
    BY <1>0, <2>4 DEF PasswordInv
<1>6. ASSUME NEW c \in Clients, Associate(c) PROVE PasswordInv'
  <2> DEFINE a == client[c].account
             i == client[c].identity
  <2>1. /\ client[c].at = "associate" /\ links' = links \cup {<<a, i>>} /\ UNCHANGED usable
        /\ halfLinked \subseteq halfLinked'
        /\ ~client[c].linking /\ a \in usable => a \in halfLinked'
    BY <1>6 DEF Associate, In, Who
  <2>2. /\ client[c].linking => client'[c].at = "disable" /\ client'[c].account = a
        /\ \A g \in Clients : g # c => client'[g].at = client[g].at
                                       /\ client'[g].account = client[g].account
    BY <1>0, <1>6, Associated
  <2>3. ASSUME NEW b \in usable' \ halfLinked', LinksOf(b)' # {}
        PROVE  \E g \in Clients : In(g, "disable")' /\ Who(g)' = b
    <3>1. CASE b = a
      BY <2>1, <2>2, <2>3, <3>1 DEF In, Who
    <3>2. CASE b # a
      <4>1. b \in usable \ halfLinked /\ LinksOf(b) # {}
        BY <2>1, <2>3, <3>2 DEF LinksOf
      <4>2. PICK g \in Clients : In(g, "disable") /\ Who(g) = b
        BY <1>0, <4>1 DEF LinkedHasNoPassword
      <4>3. client'[g].at = client[g].at /\ client'[g].account = client[g].account
        BY <2>1, <2>2, <4>2 DEF In
      <4>4. QED
        BY <4>2, <4>3 DEF In, Who
    <3>3. QED
      BY <3>1, <3>2
  <2>4. LinkedHasNoPassword'
    BY <2>3 DEF LinkedHasNoPassword
  <2>5. QED
    BY <1>0, <2>4 DEF PasswordInv
<1>7. ASSUME NEW c \in Clients, Disable(c) \/ ClientDies(c) PROVE PasswordInv'
  <2>1. /\ UNCHANGED links /\ usable' \subseteq usable /\ halfLinked \subseteq halfLinked'
        /\ client[c].at = "disable" => Who(c) \notin usable' \ halfLinked'
        /\ \A g \in Clients : g # c => client'[g] = client[g]
    BY <1>0, <1>7 DEF Disable, ClientDies, FinishClient, In, SignInTypeOK
  <2>2. QED
    BY <1>1, <2>1
<1>8. CASE UNCHANGED signInVars
  BY <1>1, <1>8 DEF signInVars
<1>9. QED
  BY <1>2, <1>3, <1>4, <1>5, <1>6, <1>7, <1>8, NextSteps

\* Linking is irreversible: a linked account has no password anyone knows,
\* once the link's request is over - but for the three cases `halfLinked`
\* records: a request that died between its two commits, a password written on
\* a row loaded before, and an account registered during the first sign-in.
THEOREM NoPasswordBesideLink == SignInSpec => []LinkedHasNoPassword
<1>1. SignInInit => PasswordInv
  <2>1. SignInInit => TypeInv
    BY TypeStarts
  <2>2. SignInInit => LinkedHasNoPassword
    BY DEF SignInInit, LinkedHasNoPassword, LinksOf
  <2>3. QED
    BY <2>1, <2>2 DEF PasswordInv
<1>2. PasswordInv => LinkedHasNoPassword
  BY DEF PasswordInv
<1>3. QED
  BY <1>1, <1>2, PasswordStep, PTL DEF SignInSpec

------------------------------------------------------------------------------
(* A Google identity maps to one account, but for a race.                  *)

\* Who is about to insert a link, and has not raced, has its identity to itself.
LinkInv ==
    \A c \in Clients : In(c, "associate") /\ ~client[c].raced =>
        \A b \in Accounts \ {Who(c)} : <<b, client[c].identity>> \notin links

\* A request gets as far as the insert only when it found no link.
LEMMA LooksFirst ==
  ASSUME TypeInv, NEW c \in Clients, Quiet(c), client'[c].at = "associate"
  PROVE  \A b \in Accounts : <<b, client'[c].identity>> \notin links
<1>0. /\ SignInTypeOK /\ links \subseteq registered \X Identities /\ resetCode \in [Accounts -> Nat]
      /\ client[c].account \in Accounts \cup {Elsewhere}
      /\ client[c].identity \in Identities \cup {Elsewhere}
  BY DEF TypeInv, SignInTypeOK, ClientType
<1>1. ASSUME FinishClient(c) PROVE FALSE
  BY <1>0, <1>1, Finished DEF Moved
<1>2. ASSUME NEW a \in Accounts,
             Forgot(c, a) \/ (\E k \in 0..lastReset : ResetConfirm(c, a, k)) \/ ChangePassword(c, a)
      PROVE  FALSE
  <2>1. PICK at \in {"forgot", "reset", "change"}, id \in Nat : Arrive(c, at, a, Elsewhere, id)
    BY <1>0, <1>2 DEF Forgot, ResetConfirm, ChangePassword
  <2>2. at \in ClientPlaces
    BY DEF ClientPlaces
  <2>3. QED
    BY <1>0, <2>1, <2>2, Arrived DEF Moved
<1>3. ASSUME NEW a \in Accounts, NEW i \in Identities, Link(c, a, i) PROVE FALSE
  BY <1>0, <1>3, Arrived DEF Link, ClientPlaces, Moved
<1>4. ASSUME NEW i \in Identities, NEW confirmed \in BOOLEAN, GoogleSignIn(c, i, confirmed)
      PROVE  FALSE
  BY <1>0, <1>4, SignInBegins DEF Moved
<1>5. ASSUME NEW a \in Accounts, Callback(c, a), LinkedTo(client[c].identity) # {} PROVE FALSE
  <2>1. \/ FinishClient(c)
        \/ client' = [client EXCEPT ![c].at = "disable", ![c].account = a]
    BY <1>5 DEF Callback
  <2>2. QED
    BY <1>0, <1>1, <2>1, CallbackGoesOn DEF Moved, ClientPlaces
<1>6. ASSUME NEW a \in Accounts, Callback(c, a), LinkedTo(client[c].identity) = {}
      PROVE  client'[c].identity = client[c].identity
  BY <1>0, <1>6, CallbackGoesOn DEF Callback, Moved, ClientPlaces
<1>7. ASSUME NEW strong \in BOOLEAN, CheckReset(c, strong) PROVE FALSE
  <2>1. FinishClient(c) \/ Advance(c, "set")
    BY <1>7 DEF CheckReset
  <2>2. QED
    BY <1>0, <1>1, <2>1, Forwarded DEF Moved, ClientPlaces
<1>8. ASSUME IssueReset(c) \/ ConsumeReset(c) PROVE FALSE
  BY <1>1, <1>8 DEF IssueReset, ConsumeReset
<1>12. ASSUME CountReset(c) \/ ExpireReset(c) PROVE FALSE
  <2>1. FinishClient(c) \/ \E at \in {"expire", "check"} : Advance(c, at)
    BY <1>12 DEF CountReset, ExpireReset
  <2>2. "expire" \in ClientPlaces /\ "check" \in ClientPlaces
    BY DEF ClientPlaces
  <2>3. QED
    BY <1>0, <1>1, <2>1, <2>2, Forwarded DEF Moved
<1>9. ASSUME LinkCheck(c)
      PROVE  LinkedTo(client[c].identity) = {} /\ client'[c].identity = client[c].identity
  BY <1>0, <1>1, <1>9, LinkGoesOn DEF LinkCheck, Moved
<1>10. LinkedTo(client[c].identity) = {} /\ client'[c].identity = client[c].identity
  BY <1>12, <1>2, <1>3, <1>4, <1>5, <1>6, <1>7, <1>8, <1>9 DEF Quiet
<1>11. QED
  BY <1>0, <1>10 DEF LinkedTo

\* Every step keeps it.
LEMMA LinkStep == TypeInv /\ LinkInv /\ [SignInNext]_signInVars => LinkInv'
<1> SUFFICES ASSUME TypeInv, LinkInv, [SignInNext]_signInVars PROVE LinkInv'
  OBVIOUS
<1>0. SignInTypeOK
  BY DEF TypeInv
<1>1. ASSUME UNCHANGED links,
             \A g \in Clients : client'[g].at = "associate" =>
                \/ client'[g] = client[g]
                \/ \A b \in Accounts : <<b, client'[g].identity>> \notin links
      PROVE  LinkInv'
  BY <1>1 DEF LinkInv, In, Who
<1>2. ASSUME NEW a \in Accounts, Register(a) \/ ResetExpires(a) \/ TriesExpire(a) PROVE LinkInv'
  BY <1>1, <1>2 DEF Register, ResetExpires, TriesExpire
<1>3. ASSUME NEW c \in Clients, Quiet(c) PROVE LinkInv'
  <2>1. UNCHANGED links /\ \A g \in Clients : g # c => client'[g] = client[g]
    BY <1>3, QuietSteps
  <2>2. QED
    BY <1>1, <1>3, <2>1, LooksFirst
<1>4. ASSUME NEW c \in Clients, SetPassword(c) \/ Disable(c) \/ ClientDies(c) PROVE LinkInv'
  <2>1. UNCHANGED links /\ (FinishClient(c) \/ Advance(c, "consume"))
    BY <1>4 DEF SetPassword, Disable, ClientDies
  <2>2. client'[c].at # "associate" /\ \A g \in Clients : g # c => client'[g] = client[g]
    BY <1>0, <2>1, Finished, Forwarded DEF Moved, ClientPlaces
  <2>3. QED
    BY <1>1, <2>1, <2>2
<1>5. ASSUME NEW c \in Clients, Associate(c) PROVE LinkInv'
  <2>1. /\ client[c].at = "associate"
        /\ links' = links \cup {<<client[c].account, client[c].identity>>}
    BY <1>5 DEF Associate, In, Who
  <2>2. /\ client'[c].at \in {"idle", "disable"}
        /\ \A g \in Clients : g # c =>
              /\ client'[g].at = client[g].at /\ client'[g].account = client[g].account
              /\ client'[g].identity = client[g].identity
              /\ client'[g].raced = (client[g].raced \/
                    (In(g, "associate") /\ client[g].identity = client[c].identity))
    BY <1>0, <1>5, Associated
  <2>3. ASSUME NEW g \in Clients, client'[g].at = "associate", ~client'[g].raced,
               NEW b \in Accounts \ {client'[g].account}
        PROVE  <<b, client'[g].identity>> \notin links'
    <3>1. /\ client[g].at = "associate" /\ ~client[g].raced
          /\ client[g].account = client'[g].account /\ client[g].identity = client'[g].identity
          /\ client[g].identity # client[c].identity
      BY <2>2, <2>3 DEF In
    <3>2. <<b, client[g].identity>> \notin links
      BY <2>3, <3>1 DEF LinkInv, In, Who
    <3>3. QED
      BY <2>1, <3>1, <3>2
  <2>4. QED
    BY <2>3 DEF LinkInv, In, Who
<1>6. CASE UNCHANGED signInVars
  BY <1>1, <1>6 DEF signInVars
<1>7. QED
  BY <1>2, <1>3, <1>4, <1>5, <1>6, NextSteps

\* A Google identity gets a second account only by the insert of a request
\* that looked for the identity before another one inserted it.
THEOREM OneIdentityOneAccount == SignInSpec => OneAccountPerIdentity
<1>1. SignInInit => TypeInv /\ LinkInv
  BY TypeStarts DEF LinkInv, In
<1>2. ASSUME LinkInv
      PROVE  \A c \in Clients, i \in Identities :
               In(c, "associate") /\ client'[c] # client[c] /\ client[c].identity = i
                 /\ {<<b, i>> : b \in Accounts \ {Who(c)}} \cap links # {} /\ links' # links
                   => client[c].raced
  BY <1>2 DEF LinkInv
<1>3. TypeInv /\ LinkInv /\ [SignInNext]_signInVars =>
        [\A c \in Clients, i \in Identities :
           In(c, "associate") /\ client'[c] # client[c] /\ client[c].identity = i
             /\ {<<b, i>> : b \in Accounts \ {Who(c)}} \cap links # {} /\ links' # links
               => client[c].raced]_signInVars
  BY <1>2
<1>4. QED
  BY <1>1, <1>3, TypeStep, LinkStep, PTL DEF SignInSpec, OneAccountPerIdentity

------------------------------------------------------------------------------
(* A reset code sets one password.                                         *)

Resetting == {"reset", "expire", "check", "set", "consume"}

\* Codes are issued in order, each to one account; who resets a password holds
\* one of its account's, or a guess that is none; and a used one is stored only until its first user
\* deletes it, or because that request died.
CodesOld ==
    /\ \A a \in Accounts : resetCode[a] <= lastReset
    /\ \A k \in used : k <= lastReset
    /\ \A c \in Clients : client[c].code <= lastReset
CodesDiffer == \A a, b \in Accounts : resetCode[a] = resetCode[b] /\ resetCode[a] # 0 => a = b
CodesHeld ==
    /\ \A c \in Clients : client[c].at \notin Resetting => client[c].code = 0
    /\ \A c \in Clients : client[c].at = "set" => client[c].code # 0
    /\ \A c \in Clients : client[c].at \in Resetting /\ client[c].code # 0 =>
          \A a \in Accounts : resetCode[a] = client[c].code => a = Who(c)
SpentHeld ==
    \A a \in Accounts : resetCode[a] \in used =>
        leftOver \/ \E g \in Clients : In(g, "consume") /\ Who(g) = a
CodeInv == CodesOld /\ CodesDiffer /\ CodesHeld /\ SpentHeld

\* A request goes on with its code, ends with none, or takes the stored one.
SameCode(g) ==
    /\ client'[g].account = client[g].account /\ client'[g].code = client[g].code
    /\ client'[g].at \in Resetting <=> client[g].at \in Resetting
    /\ client'[g].at = "set" => client[g].at = "set" \/ client[g].code # 0
HoldsNoCode(g) == client'[g].at \notin Resetting /\ client'[g].code = 0
StoredCode(g) ==
    /\ client'[g].at = "reset" /\ client'[g].account \in Accounts
    /\ client'[g].code \in {0, resetCode[client'[g].account]}

\* The step of the codes, where none is issued or used.
LEMMA CodeFrame ==
  ASSUME TypeInv, CodeInv, UNCHANGED <<lastReset, used>>, leftOver => leftOver',
         \A a \in Accounts : resetCode'[a] \in {resetCode[a], 0},
         \A g \in Clients : SameCode(g) \/ HoldsNoCode(g) \/ StoredCode(g),
         \A g \in Clients : client[g].at = "consume" =>
            \/ client'[g].at = "consume" /\ client'[g].account = client[g].account
            \/ leftOver' \/ resetCode'[client[g].account] = 0
  PROVE  CodeInv'
<1>0. /\ lastReset \in Nat /\ resetCode \in [Accounts -> Nat] /\ used \subseteq Nat \ {0}
      /\ \A g \in Clients : client[g].code \in Nat
  BY DEF TypeInv, SignInTypeOK, ClientType
<1>1. CodesOld'
  <2>1. \A a \in Accounts : resetCode'[a] <= lastReset
    BY <1>0 DEF CodeInv, CodesOld
  <2>2. \A g \in Clients : client'[g].code <= lastReset
    BY <1>0 DEF CodeInv, CodesOld, SameCode, HoldsNoCode, StoredCode
  <2>3. QED
    BY <2>1, <2>2 DEF CodeInv, CodesOld
<1>2. CodesDiffer'
  BY DEF CodeInv, CodesDiffer
<1>3. CodesHeld'
  <2>1. ASSUME NEW g \in Clients, client'[g].at \notin Resetting PROVE client'[g].code = 0
    BY <2>1 DEF CodeInv, CodesHeld, SameCode, HoldsNoCode, StoredCode, Resetting
  <2>4. ASSUME NEW g \in Clients, client'[g].at = "set" PROVE client'[g].code # 0
    BY <2>4 DEF CodeInv, CodesHeld, SameCode, HoldsNoCode, StoredCode, Resetting
  <2>2. ASSUME NEW g \in Clients, client'[g].at \in Resetting, client'[g].code # 0
        PROVE  \A a \in Accounts : resetCode'[a] = client'[g].code => a = client'[g].account
    <3>1. CASE SameCode(g)
      BY <2>2, <3>1 DEF CodeInv, CodesHeld, SameCode, Who
    <3>2. CASE StoredCode(g)
      BY <2>2, <3>2 DEF CodeInv, CodesDiffer, StoredCode
    <3>3. QED
      BY <2>2, <3>1, <3>2 DEF HoldsNoCode
  <2>3. QED
    BY <2>1, <2>2, <2>4 DEF CodesHeld, Who
<1>4. SpentHeld'
  <2>1. SUFFICES ASSUME NEW a \in Accounts, resetCode'[a] \in used, ~leftOver'
                 PROVE  \E g \in Clients : client'[g].at = "consume" /\ client'[g].account = a
    BY DEF SpentHeld, In, Who
  <2>2. resetCode'[a] # 0 /\ resetCode[a] \in used /\ ~leftOver
    BY <1>0, <2>1
  <2>3. PICK g \in Clients : client[g].at = "consume" /\ client[g].account = a
    BY <2>2 DEF CodeInv, SpentHeld, In, Who
  <2>4. QED
    BY <2>1, <2>2, <2>3
<1>5. QED
  BY <1>1, <1>2, <1>3, <1>4 DEF CodeInv

\* What a quiet step does to the codes, an issue and a deletion aside.
LEMMA QuietCodes ==
  ASSUME TypeInv, CodeInv, NEW c \in Clients, Quiet(c), ~IssueReset(c), ~ConsumeReset(c)
  PROVE  /\ UNCHANGED <<resetCode, lastReset>>
         /\ client[c].at # "consume"
         /\ SameCode(c) \/ HoldsNoCode(c) \/ StoredCode(c)
<1>0. /\ SignInTypeOK /\ resetCode \in [Accounts -> Nat]
      /\ client[c].account \in Accounts \cup {Elsewhere}
      /\ client[c].identity \in Identities \cup {Elsewhere}
  BY DEF TypeInv, SignInTypeOK, ClientType
<1>a. client[c].at \notin Resetting => client[c].code = 0
  BY DEF CodeInv, CodesHeld
<1> DEFINE Goal == /\ UNCHANGED <<resetCode, lastReset>> /\ client[c].at # "consume"
                   /\ SameCode(c) \/ HoldsNoCode(c) \/ StoredCode(c)
<1>1. ASSUME FinishClient(c) PROVE HoldsNoCode(c)
  BY <1>0, <1>1, Finished DEF Moved, HoldsNoCode, Resetting
<1>2. ASSUME NEW a \in Accounts, Forgot(c, a) \/ ChangePassword(c, a) PROVE Goal
  <2>1. PICK at \in {"forgot", "change"} : Arrive(c, at, a, Elsewhere, 0)
    BY <1>2 DEF Forgot, ChangePassword
  <2>2. at \in ClientPlaces
    BY DEF ClientPlaces
  <2>3. Moved(c, at, a, Elsewhere, 0, FALSE) /\ In(c, "idle")
    BY <1>0, <2>1, <2>2, Arrived
  <2>4. QED
    BY <1>2, <2>3 DEF Forgot, ChangePassword, Moved, HoldsNoCode, Resetting, In
<1>3. ASSUME NEW a \in Accounts, NEW k \in 0..lastReset, ResetConfirm(c, a, k) PROVE Goal
  <2>0. k \in Nat /\ "reset" \in ClientPlaces
    BY DEF ClientPlaces
  <2>1. Moved(c, "reset", a, Elsewhere, k, FALSE) /\ In(c, "idle")
    BY <1>0, <1>3, <2>0, Arrived DEF ResetConfirm
  <2>2. QED
    BY <1>3, <2>1 DEF ResetConfirm, Moved, StoredCode, In
<1>4. ASSUME NEW a \in Accounts, NEW i \in Identities, Link(c, a, i) PROVE Goal
  <2>1. Moved(c, "link", a, i, 0, FALSE) /\ In(c, "idle")
    BY <1>0, <1>4, Arrived DEF Link, ClientPlaces
  <2>2. QED
    BY <1>4, <2>1 DEF Link, Moved, HoldsNoCode, Resetting, In
<1>5. ASSUME NEW i \in Identities, NEW confirmed \in BOOLEAN, GoogleSignIn(c, i, confirmed)
      PROVE  Goal
  <2>1. Moved(c, "callback", Elsewhere, i, 0, FALSE) /\ In(c, "idle")
    BY <1>0, <1>5, SignInBegins
  <2>2. QED
    BY <1>5, <2>1 DEF GoogleSignIn, Moved, HoldsNoCode, Resetting, In
<1>6. ASSUME NEW a \in Accounts, Callback(c, a) PROVE Goal
  <2>1. /\ UNCHANGED <<resetCode, lastReset>> /\ client[c].at = "callback"
        /\ \/ FinishClient(c)
           \/ \E at \in {"disable", "associate"} :
                 client' = [client EXCEPT ![c].at = at, ![c].account = a]
    BY <1>6 DEF Callback, In
  <2>2. ASSUME NEW at \in {"disable", "associate"},
               client' = [client EXCEPT ![c].at = at, ![c].account = a]
        PROVE  HoldsNoCode(c)
    <3>1. at \in ClientPlaces
      BY DEF ClientPlaces
    <3>2. Moved(c, at, a, client[c].identity, client[c].code, client[c].raced)
      BY <1>0, <2>2, <3>1, CallbackGoesOn
    <3>3. QED
      BY <1>a, <2>1, <3>2 DEF Moved, HoldsNoCode, Resetting
  <2>3. QED
    BY <1>1, <2>1, <2>2
<1>7. ASSUME NEW strong \in BOOLEAN, CheckReset(c, strong) PROVE Goal
  <2>1. /\ UNCHANGED <<resetCode, lastReset>> /\ client[c].at = "check"
        /\ FinishClient(c) \/ (Advance(c, "set") /\ client[c].code # 0)
    BY <1>7 DEF CheckReset, In
  <2>2. ASSUME Advance(c, "set"), client[c].code # 0 PROVE SameCode(c)
    BY <1>0, <2>1, <2>2, Forwarded DEF Moved, SameCode, Resetting, ClientPlaces
  <2>3. QED
    BY <1>1, <2>1, <2>2
<1>8. ASSUME LinkCheck(c) PROVE Goal
  <2>1. /\ UNCHANGED <<resetCode, lastReset>> /\ client[c].at = "link"
        /\ \/ FinishClient(c)
           \/ client' = [client EXCEPT ![c].at = "associate", ![c].linking = TRUE]
    BY <1>8 DEF LinkCheck, In
  <2>2. ASSUME client' = [client EXCEPT ![c].at = "associate", ![c].linking = TRUE]
        PROVE  HoldsNoCode(c)
    BY <1>0, <1>a, <2>1, <2>2, LinkGoesOn DEF Moved, HoldsNoCode, Resetting
  <2>3. QED
    BY <1>1, <2>1, <2>2
<1>10. ASSUME CountReset(c) \/ ExpireReset(c) PROVE Goal
  <2>1. /\ UNCHANGED <<resetCode, lastReset>> /\ client[c].at \in {"reset", "expire"}
        /\ FinishClient(c) \/ \E at \in {"expire", "check"} : Advance(c, at)
    BY <1>10 DEF CountReset, ExpireReset, In
  <2>2. ASSUME NEW at \in {"expire", "check"}, Advance(c, at) PROVE SameCode(c)
    <3>1. at \in ClientPlaces
      BY DEF ClientPlaces
    <3>2. Moved(c, at, client[c].account, client[c].identity, client[c].code, client[c].raced)
      BY <1>0, <2>2, <3>1, Forwarded
    <3>3. QED
      BY <2>1, <3>2 DEF Moved, SameCode, Resetting
  <2>3. QED
    BY <1>1, <2>1, <2>2
<1>9. QED
  BY <1>2, <1>3, <1>4, <1>5, <1>6, <1>7, <1>8, <1>10 DEF Quiet

\* Every step keeps it.
LEMMA CodeStep == TypeInv /\ CodeInv /\ [SignInNext]_signInVars => CodeInv'
<1> SUFFICES ASSUME TypeInv, CodeInv, [SignInNext]_signInVars PROVE CodeInv'
  OBVIOUS
<1>0. /\ SignInTypeOK /\ lastReset \in Nat /\ resetCode \in [Accounts -> Nat]
      /\ used \subseteq Nat \ {0} /\ client \in [Clients -> ClientType]
      /\ \A g \in Clients : client[g].code \in Nat
  BY DEF TypeInv, SignInTypeOK, ClientType
<1>1. ASSUME UNCHANGED client PROVE \A g \in Clients : SameCode(g)
  BY <1>1 DEF SameCode
<1>2. ASSUME NEW c \in Clients, \A g \in Clients : g # c => client'[g] = client[g]
      PROVE  \A g \in Clients : g # c => SameCode(g)
  BY <1>2 DEF SameCode
<1>3. ASSUME NEW c \in Clients, FinishClient(c)
      PROVE  HoldsNoCode(c) /\ \A g \in Clients : g # c => client'[g] = client[g]
  BY <1>0, <1>3, Finished DEF Moved, HoldsNoCode, Resetting
<1>4. ASSUME NEW a \in Accounts, Register(a) \/ ResetExpires(a) \/ TriesExpire(a) PROVE CodeInv'
  <2>1. /\ UNCHANGED <<client, lastReset, used, leftOver>>
        /\ \A b \in Accounts : resetCode'[b] \in {resetCode[b], 0}
    BY <1>0, <1>4 DEF Register, ResetExpires, TriesExpire
  <2>2. QED
    BY <1>1, <2>1, CodeFrame
<1>5. ASSUME NEW c \in Clients, Quiet(c), ~IssueReset(c), ~ConsumeReset(c) PROVE CodeInv'
  <2>1. /\ UNCHANGED <<used, leftOver>>
        /\ \A g \in Clients : g # c => client'[g] = client[g]
    BY <1>5, QuietSteps
  <2>2. /\ UNCHANGED <<resetCode, lastReset>> /\ client[c].at # "consume"
        /\ SameCode(c) \/ HoldsNoCode(c) \/ StoredCode(c)
    BY <1>5, QuietCodes
  <2>3. \A g \in Clients : client[g].at = "consume" => client'[g] = client[g]
    BY <2>1, <2>2
  <2>4. QED
    BY <1>2, <2>1, <2>2, <2>3, CodeFrame
<1>6. ASSUME NEW c \in Clients, ConsumeReset(c) PROVE CodeInv'
  <2>1. /\ resetCode' = [resetCode EXCEPT ![client[c].account] = 0] /\ FinishClient(c)
        /\ UNCHANGED <<lastReset, used, leftOver>> /\ client[c].account \in Accounts
    BY <1>6 DEF ConsumeReset, In, Who, TypeInv, AccountKnown
  <2>2. HoldsNoCode(c) /\ \A g \in Clients : g # c => client'[g] = client[g]
    BY <1>3, <2>1
  <2>3. /\ resetCode'[client[c].account] = 0
        /\ \A a \in Accounts : resetCode'[a] \in {resetCode[a], 0}
    BY <1>0, <2>1
  <2>4. \A g \in Clients : client[g].at = "consume" =>
           client'[g] = client[g] \/ resetCode'[client[g].account] = 0
    BY <2>2, <2>3
  <2>5. QED
    BY <1>2, <2>1, <2>2, <2>3, <2>4, CodeFrame
<1>7. ASSUME NEW c \in Clients, IssueReset(c) PROVE CodeInv'
  <2> DEFINE new == lastReset + 1
  <2>1. /\ lastReset' = new /\ resetCode' = [resetCode EXCEPT ![client[c].account] = new]
        /\ FinishClient(c) /\ client[c].at = "forgot" /\ UNCHANGED <<used, leftOver>>
        /\ client[c].account \in Accounts
    BY <1>7 DEF IssueReset, In, Who, TypeInv, AccountKnown
  <2>2. HoldsNoCode(c) /\ \A g \in Clients : g # c => client'[g] = client[g]
    BY <1>3, <2>1
  <2>3. /\ new \in Nat /\ new # 0 /\ \A k \in Nat : k <= lastReset => k <= new /\ k # new
        /\ 0 <= new /\ new <= new
    BY <1>0
  <2> HIDE DEF new
  <2>4. /\ resetCode'[client[c].account] = new
        /\ \A a \in Accounts \ {client[c].account} : resetCode'[a] = resetCode[a]
    BY <1>0, <2>1
  <2>5. /\ \A a \in Accounts : resetCode[a] \in Nat /\ resetCode[a] <= lastReset
        /\ \A k \in used : k \in Nat /\ k <= lastReset
        /\ \A g \in Clients : client[g].code <= lastReset
    BY <1>0 DEF CodeInv, CodesOld
  <2>6. CodesOld'
    <3>1. \A g \in Clients : client'[g].code <= new
      BY <1>0, <2>2, <2>3, <2>5 DEF HoldsNoCode
    <3>2. \A a \in Accounts : resetCode'[a] <= new
      BY <2>3, <2>4, <2>5
    <3>3. QED
      BY <2>1, <2>3, <2>5, <3>1, <3>2 DEF CodesOld
  <2>7. CodesDiffer'
    BY <2>3, <2>4, <2>5 DEF CodeInv, CodesDiffer
  <2>8. CodesHeld'
    <3>0. \A g \in Clients : client'[g].at = "set" => client'[g].code # 0
      BY <2>2 DEF CodeInv, CodesHeld, HoldsNoCode, Resetting
    <3>1. ASSUME NEW g \in Clients, client'[g].at \in Resetting, client'[g].code # 0
          PROVE  \A a \in Accounts : resetCode'[a] = client'[g].code => a = client'[g].account
      <4>1. client'[g] = client[g]
        BY <2>2, <3>1 DEF HoldsNoCode
      <4>2. client[g].code # new
        BY <1>0, <2>3, <2>5
      <4>3. QED
        BY <2>4, <3>1, <4>1, <4>2 DEF CodeInv, CodesHeld, Who
    <3>2. \A g \in Clients : client'[g].at \notin Resetting => client'[g].code = 0
      BY <2>2 DEF CodeInv, CodesHeld, HoldsNoCode
    <3>3. QED
      BY <3>0, <3>1, <3>2 DEF CodesHeld, Who
  <2>9. SpentHeld'
    <3>1. ASSUME NEW a \in Accounts, resetCode'[a] \in used
          PROVE  leftOver \/ \E g \in Clients : client'[g].at = "consume" /\ client'[g].account = a
      <4>1. resetCode'[a] # new
        BY <2>3, <2>5, <3>1
      <4>2. resetCode[a] \in used
        BY <2>4, <3>1, <4>1
      <4>3. leftOver \/ \E g \in Clients : client[g].at = "consume" /\ client[g].account = a
        BY <4>2 DEF CodeInv, SpentHeld, In, Who
      <4>4. QED
        BY <2>1, <2>2, <4>3
    <3>2. QED
      BY <2>1, <3>1 DEF SpentHeld, In, Who
  <2>10. QED
    BY <2>6, <2>7, <2>8, <2>9 DEF CodeInv
<1>8. ASSUME NEW c \in Clients, SetPassword(c), client[c].at = "change" PROVE CodeInv'
  <2>1. FinishClient(c) /\ UNCHANGED <<resetCode, lastReset, leftOver>>
        /\ used' = used \cup ({client[c].code} \ {0})
    BY <1>8 DEF SetPassword, In
  <2>2. client[c].code = 0
    BY <1>8 DEF CodeInv, CodesHeld, Resetting
  <2>3. UNCHANGED used
    BY <2>1, <2>2
  <2>4. HoldsNoCode(c) /\ \A g \in Clients : g # c => client'[g] = client[g]
    BY <1>3, <2>1
  <2>5. QED
    BY <1>2, <1>8, <2>1, <2>3, <2>4, CodeFrame
<1>9. ASSUME NEW c \in Clients, SetPassword(c), client[c].at = "set" PROVE CodeInv'
  <2>1. /\ Advance(c, "consume") /\ UNCHANGED <<resetCode, lastReset, leftOver>>
        /\ used' = used \cup {client[c].code}
    BY <1>9 DEF SetPassword, In, CodeInv, CodesHeld, Resetting
  <2>2. /\ client'[c].at = "consume" /\ client'[c].account = client[c].account
        /\ client'[c].code = client[c].code
        /\ \A g \in Clients : g # c => client'[g] = client[g]
    BY <1>0, <2>1, Forwarded DEF Moved, ClientPlaces
  <2>3. CodesOld'
    BY <2>1, <2>2 DEF CodeInv, CodesOld
  <2>4. CodesDiffer' /\ CodesHeld'
    BY <1>9, <2>1, <2>2 DEF CodeInv, CodesDiffer, CodesHeld, Resetting, Who
  <2>5. ASSUME NEW a \in Accounts, resetCode[a] \in used'
        PROVE  leftOver \/ \E g \in Clients : client'[g].at = "consume" /\ client'[g].account = a
    <3>1. CASE resetCode[a] = client[c].code
      BY <1>9, <2>2, <3>1 DEF CodeInv, CodesHeld, Resetting, Who
    <3>2. CASE resetCode[a] \in used
      <4>1. leftOver \/ \E g \in Clients : client[g].at = "consume" /\ client[g].account = a
        BY <3>2 DEF CodeInv, SpentHeld, In, Who
      <4>2. QED
        BY <2>2, <4>1
    <3>3. QED
      BY <2>1, <2>5, <3>1, <3>2
  <2>6. SpentHeld'
    BY <2>1, <2>5 DEF SpentHeld, In, Who
  <2>7. QED
    BY <2>3, <2>4, <2>6 DEF CodeInv
<1>10. ASSUME NEW c \in Clients, Associate(c) PROVE CodeInv'
  <2>1. client[c].at = "associate" /\ UNCHANGED <<resetCode, lastReset, used, leftOver>>
    BY <1>10 DEF Associate, In
  <2>2. client[c].code = 0
    BY <2>1 DEF CodeInv, CodesHeld, Resetting
  <2>3. /\ HoldsNoCode(c)
        /\ \A g \in Clients : g # c => /\ client'[g].at = client[g].at
                                      /\ client'[g].account = client[g].account
                                      /\ client'[g].code = client[g].code
    BY <1>0, <1>10, <2>2, Associated DEF HoldsNoCode, Resetting
  <2>4. \A g \in Clients : g # c => SameCode(g)
    BY <2>3 DEF SameCode
  <2>5. QED
    BY <2>1, <2>3, <2>4, CodeFrame
<1>11. ASSUME NEW c \in Clients, Disable(c) \/ ClientDies(c) PROVE CodeInv'
  <2>1. /\ FinishClient(c) /\ UNCHANGED <<resetCode, lastReset, used>>
        /\ leftOver => leftOver'
        /\ client[c].at = "consume" => leftOver'
    <3>1. CASE Disable(c)
      BY <3>1 DEF Disable, In
    <3>2. CASE ClientDies(c)
      BY <3>2 DEF ClientDies, In
    <3>3. QED
      BY <1>11, <3>1, <3>2
  <2>2. HoldsNoCode(c) /\ \A g \in Clients : g # c => client'[g] = client[g]
    BY <1>3, <2>1
  <2>3. \A g \in Clients : client[g].at = "consume" => client'[g] = client[g] \/ leftOver'
    BY <2>1, <2>2
  <2>4. QED
    BY <1>2, <2>1, <2>2, <2>3, CodeFrame
<1>12. CASE UNCHANGED signInVars
  BY <1>1, <1>12, CodeFrame DEF signInVars
<1>13. ASSUME NEW c \in Clients, SetPassword(c) PROVE client[c].at = "set" \/ client[c].at = "change"
  BY <1>13 DEF SetPassword, In
<1>14. QED
  BY <1>4, <1>5, <1>6, <1>7, <1>8, <1>9, <1>10, <1>11, <1>12, <1>13, NextSteps

\* A request passes the check only with the code that is stored then.
LEMMA ChecksStored ==
  ASSUME TypeInv, [SignInNext]_signInVars, NEW c \in Clients,
         In(c, "check"), client'[c].at = "set"
  PROVE  Who(c) \in Accounts /\ resetCode[Who(c)] = client[c].code
<1>0. client \in [Clients -> ClientType] /\ SignInTypeOK /\ Who(c) \in Accounts
  BY DEF TypeInv, SignInTypeOK, AccountKnown, In
<1>1. ASSUME FinishClient(c) PROVE FALSE
  BY <1>0, <1>1, Finished DEF Moved
<1>2. ASSUME NEW g \in Clients, g # c,
             Quiet(g) \/ SetPassword(g) \/ Associate(g) \/ Disable(g) \/ ClientDies(g)
      PROVE  FALSE
  <2>1. CASE Quiet(g)
    BY <1>2, <2>1, QuietSteps DEF In
  <2>2. CASE Associate(g)
    BY <1>0, <1>2, <2>2, Associated DEF In
  <2>3. CASE SetPassword(g) \/ Disable(g) \/ ClientDies(g)
    BY <1>0, <1>2, <2>3 DEF SetPassword, Disable, ClientDies, FinishClient, Advance, In
  <2>4. QED
    BY <1>2, <2>1, <2>2, <2>3
<1>3. ASSUME SetPassword(c) \/ Associate(c) \/ Disable(c) \/ ClientDies(c) PROVE FALSE
  BY <1>1, <1>3 DEF SetPassword, Associate, Disable, ClientDies, In
<1>4. ASSUME NEW a \in Accounts, Register(a) \/ ResetExpires(a) \/ TriesExpire(a) PROVE FALSE
  BY <1>4 DEF Register, ResetExpires, TriesExpire, In
<1>5. ASSUME UNCHANGED signInVars PROVE FALSE
  BY <1>5 DEF signInVars, In
<1>6. Quiet(c)
  BY <1>2, <1>3, <1>4, <1>5, NextSteps
<1>7. \E strong \in BOOLEAN : CheckReset(c, strong)
  BY <1>6 DEF Quiet, CountReset, ExpireReset, Forgot, ResetConfirm, ChangePassword, Link, Arrive, GoogleSignIn, Callback,
     IssueReset, ConsumeReset, LinkCheck, In
<1>8. QED
  BY <1>0, <1>1, <1>7 DEF CheckReset

\* A reset code sets one password: it passes the check again only while its
\* first user is still about to delete it, or died before it did.
THEOREM ResetCodeOnce == SignInSpec => ResetCodeSpentOnce
<1>1. SignInInit => TypeInv /\ CodeInv
  <2>1. SUFFICES ASSUME SignInInit PROVE CodeInv
    BY TypeStarts
  <2>2. \A c \in Clients : client[c].at = "idle" /\ client[c].code = 0
    BY <2>1, TypeStarts
  <2>3. /\ resetCode = [a \in Accounts |-> 0] /\ lastReset = 0 /\ used = {}
    BY <2>1 DEF SignInInit
  <2>4. QED
    BY <2>2, <2>3 DEF CodeInv, CodesOld, CodesDiffer, CodesHeld, SpentHeld, Resetting
<1>2. ASSUME TypeInv, CodeInv, [SignInNext]_signInVars, NEW c \in Clients,
             In(c, "check"), client'[c].at = "set", client[c].code \in used
      PROVE  leftOver \/ \E g \in Clients : In(g, "consume")
  <2>1. Who(c) \in Accounts /\ resetCode[Who(c)] \in used
    BY <1>2, ChecksStored
  <2>2. QED
    BY <1>2, <2>1 DEF CodeInv, SpentHeld
<1>3. TypeInv /\ CodeInv /\ [SignInNext]_signInVars =>
        [\A c \in Clients :
           In(c, "check") /\ client'[c].at = "set" /\ client[c].code \in used
             => leftOver \/ \E g \in Clients : In(g, "consume")]_signInVars
  BY <1>2
<1>4. QED
  BY <1>1, <1>3, TypeStep, CodeStep, PTL DEF SignInSpec, ResetCodeSpentOnce

=============================================================================
