--------------------------- MODULE OpStream_proofs ---------------------------
(***************************************************************************)
(* What holds of OpStream for any number of operations, workers, retries   *)
(* and faults: its types, that no operation is lost and no entry stranded, *)
(* and that every step of it is a step OpDelivery allows.                  *)
(***************************************************************************)
EXTENDS OpStream, TLAPS

---------------------------------------------------------------------------
(* Helpers *)

\* An id NewId picks is one nothing uses yet.
LEMMA NewIdFresh == FreshIds # {} => NewId \in Ids /\ NewId \notin UsedIds
BY DEF NewId, FreshIds

\* Ageing a set of copies changes neither their ids nor their operations.
LEMMA OlderSame ==
  ASSUME NEW S \in SUBSET Copy
  PROVE  /\ Older(S) \in SUBSET Copy
         /\ \A x \in Older(S) : \E y \in S : x.id = y.id /\ x.op = y.op
         /\ \A y \in S : \E x \in Older(S) : x.id = y.id /\ x.op = y.op
<1> DEFINE A(x) == [x EXCEPT !.left = IF @ = Unset THEN Unset ELSE IF @ = 0 THEN 0 ELSE @ - 1]
<1>1. ASSUME NEW x \in Copy PROVE A(x) \in Copy /\ A(x).id = x.id /\ A(x).op = x.op
  BY MaxAgeAssumption, UnsetAssumption DEF Copy
<1>2. Older(S) = {A(x) : x \in S}
  BY DEF Older
<1> HIDE DEF A
<1>3. QED
  BY <1>1, <1>2

---------------------------------------------------------------------------
(* Types *)

\* Appending an entry or parking a member keeps the types.
LEMMA NewCopyType ==
  ASSUME FreshIds # {}, NEW o \in Ops, NEW left \in 0..MaxAge \cup {Unset}
  PROVE  [id |-> NewId, op |-> o, left |-> left] \in Copy
BY NewIdFresh DEF Copy

LEMMA TypeStep == TypeOK /\ [Next]_vars => TypeOK'
<1> SUFFICES ASSUME TypeOK, [Next]_vars PROVE TypeOK'
  OBVIOUS
<1> USE DEF TypeOK, Calls, Goto
<1>1. ASSUME NEW o \in Ops, Mint(o) PROVE TypeOK'
  BY <1>1, NewCopyType, NewIdFresh DEF Mint, AddToStream
<1>2. ASSUME NEW o \in Ops, CountMint(o) PROVE TypeOK'
  BY <1>2 DEF CountMint
<1>3. ASSUME NEW w \in Workers, Reclaim(w) PROVE TypeOK'
  BY <1>3 DEF Reclaim, TakeOver
<1>4. ASSUME NEW w \in Workers, ReadDue(w) PROVE TypeOK'
  BY <1>4 DEF ReadDue
<1>5. ASSUME NEW w \in Workers, NEW m \in sweep[w].late, Expire(w, m) PROVE TypeOK'
  BY <1>5 DEF Expire, Copy
<1>6. ASSUME NEW w \in Workers, NEW m \in sweep[w].timely, ReAdd(w, m) PROVE TypeOK'
  <2>1. m \in Copy
    OBVIOUS
  <2>2. m.id \in Ids /\ m.op \in Ops /\ m.left \in 0..MaxAge \cup {Unset}
    BY <2>1 DEF Copy
  <2>3. QED
    BY <1>6, <2>2, NewCopyType, NewIdFresh DEF ReAdd, AddToStream
<1>7. ASSUME NEW w \in Workers, ZRem(w) PROVE TypeOK'
  BY <1>7 DEF ZRem, SweepOn
<1>8. ASSUME NEW w \in Workers, RetireExpired(w) PROVE TypeOK'
  BY <1>8 DEF RetireExpired, RetireOperation, SweepOn
<1>9. ASSUME NEW w \in Workers, ConsumeOnce(w) PROVE TypeOK'
  <2>1. ASSUME NEW x \in stream,
               claims' = [claims EXCEPT ![w] = {x}],
               unread' = unread \ {x.id},
               pel' = pel \cup {x.id},
               phase' = [phase EXCEPT ![w] = "read"],
               Goto(w, "work")
        PROVE  TypeOK'
    <3>1. x \in Copy /\ x.id \in Ids
      BY DEF Copy
    <3>2. QED
      BY <1>9, <2>1, <3>1 DEF ConsumeOnce
  <2>2. CASE Goto(w, "reclaim") /\ UNCHANGED <<claims, unread, pel, phase>>
    BY <1>9, <2>2 DEF ConsumeOnce
  <2>3. QED
    BY <1>9, <2>1, <2>2 DEF ConsumeOnce
<1>10. ASSUME NEW w \in Workers, NEW x \in claims[w], ScheduleRetry(w, x) PROVE TypeOK'
  <2>1. x.id \in Ids /\ x.op \in Ops /\ Deadline(x.left) \in 0..MaxAge \cup {Unset}
    <3>1. x \in Copy
      OBVIOUS
    <3>2. QED
      BY <3>1, MaxAgeAssumption DEF Copy, Deadline
  <2>2. QED
    BY <1>10, <2>1, NewCopyType DEF ScheduleRetry
<1>11. ASSUME NEW w \in Workers, NEW x \in claims[w], NEW result \in {"delivered", "abandoned"},
              FanOutEnds(w, x, result)
       PROVE  TypeOK'
  BY <1>11 DEF FanOutEnds, Copy
<1>12. ASSUME NEW w \in Workers, Retire(w) PROVE TypeOK'
  BY <1>12 DEF Retire, RetireOperation
<1>13. ASSUME NEW w \in Workers, XDel(w) PROVE TypeOK'
  BY <1>13 DEF XDel
<1>14. ASSUME NEW w \in Workers, XAck(w) PROVE TypeOK'
  BY <1>14 DEF XAck, AfterClaims
<1>15. ASSUME NEW w \in Workers, Abort(w) PROVE TypeOK'
  BY <1>15 DEF Abort, NoSweep
<1>16. ASSUME NEW i \in pel, GoIdle(i) \/ GoIdleWhileWorked(i) PROVE TypeOK'
  BY <1>16 DEF GoIdle, GoIdleWhileWorked, workerVars
<1>17. CASE Tick
  <2>1. stream' \in SUBSET Copy /\ retry' \in SUBSET Copy
    BY <1>17, OlderSame DEF Tick
  <2>2. due' \subseteq Ids
    BY <1>17 DEF Tick, IdsOf, Copy
  <2>3. \A v \in Workers : Older(claims[v]) \in SUBSET Copy
    BY OlderSame
  <2>4. \A v \in Workers : /\ Older(sweep[v].late) \in SUBSET Copy
                           /\ Older(sweep[v].timely) \in SUBSET Copy
    BY OlderSame
  <2>5. QED
    BY <1>17, <2>1, <2>2, <2>3, <2>4 DEF Tick
<1>18. CASE UNCHANGED vars
  BY <1>18 DEF vars
<1>19. QED
  BY <1>1, <1>2, <1>3, <1>4, <1>5, <1>6, <1>7, <1>8, <1>9, <1>10, <1>11, <1>12,
    <1>13, <1>14, <1>15, <1>16, <1>17, <1>18 DEF Next, WorkerStep

\* Every variable of OpStream keeps its type: in particular the outstanding counter
\* is never negative, and only pending entries are idle.
THEOREM TypeCorrect == Spec => []TypeOK
<1>1. Init => TypeOK
  BY DEF Init, TypeOK, Calls, NoSweep
<1>2. QED
  BY <1>1, TypeStep, PTL DEF Spec

---------------------------------------------------------------------------
(* No operation is lost *)

\* Every copy of an operation: in the stream, in ops:retry, in a worker's memory.
InMemory(w) == claims[w] \cup Swept(w)
Copies == stream \cup retry \cup UNION {InMemory(w) : w \in Workers}

\* Copies of one id are one operation's, and an operation with a copy was minted.
CopiesAgree ==
    /\ \A x, y \in Copies : x.id = y.id => x.op = y.op
    /\ \A x \in Copies : x.op \in minted

\* A worker that confirms an entry, or removes a member, still remembers it; so
\* its id is not given to anything new in the meantime.
HandRemembered ==
    \A w \in Workers :
        pc[w] \in {"retire", "xdel", "xack", "zrem", "expired"} =>
            \E x \in InMemory(w) : x.id = hand[w]

\* An operation whose count is being retired has reached an outcome.
RetiresConcluded ==
    \A w \in Workers :
        pc[w] = "retire" => \A x \in Copies : x.id = hand[w] => outcome[x.op] # {}

\* The id is the next one some worker deletes from the stream or from ops:retry.
Condemned(i) == \E w \in Workers : pc[w] \in {"xdel", "zrem"} /\ hand[w] = i

\* NoOpLost made inductive: an operation without an outcome has a copy in Redis
\* that nobody is about to delete.  That it has two would not do: each of two
\* workers may be about to delete one, counting on the other's.
KeptSafe ==
    \A o \in minted :
        outcome[o] = {} => \E x \in stream \cup retry : x.op = o /\ ~Condemned(x.id)

SafeInv == CopiesAgree /\ HandRemembered /\ RetiresConcluded /\ KeptSafe

\* An entry whose acknowledgement is next is out of the stream already.
AckAfterDelete == \A w \in Workers : pc[w] = "xack" => hand[w] \notin IdsOf(stream)

ReachInv == NoEntryStranded /\ AckAfterDelete

\* A copy that is there with the same id and operation.
Old(x) == \E y \in Copies : y.id = x.id /\ y.op = x.op

\* A step adds at most one copy that is not an old one moved or aged; it has a
\* fresh id and belongs to an operation that was minted just now or has copies.
AtMostOneNew ==
    \/ \A x \in Copies' : Old(x)
    \/ /\ FreshIds # {}
       /\ \E o \in minted' :
            /\ o \in minted => \E y \in Copies : y.op = o
            /\ \A x \in Copies' : Old(x) \/ (x.id = NewId /\ x.op = o)

LEMMA CopiesStep == TypeOK /\ CopiesAgree /\ [Next]_vars => AtMostOneNew
<1> SUFFICES ASSUME TypeOK, CopiesAgree, [Next]_vars PROVE AtMostOneNew
  OBVIOUS
<1> USE DEF AtMostOneNew, Old, Copies, InMemory, Swept
<1>0. /\ claims \in [Workers -> SUBSET Copy]
      /\ sweep \in [Workers -> [late : SUBSET Copy, timely : SUBSET Copy]]
      /\ stream \subseteq Copy /\ retry \subseteq Copy
  BY DEF TypeOK
<1>1. ASSUME NEW o \in Ops, Mint(o) PROVE AtMostOneNew
  BY <1>1 DEF Mint, AddToStream
<1>2. ASSUME NEW o \in Ops, CountMint(o) PROVE AtMostOneNew
  BY <1>2 DEF CountMint
<1>3. ASSUME NEW w \in Workers, Reclaim(w) PROVE AtMostOneNew
  BY <1>0, <1>3 DEF Reclaim, TakeOver
<1>4. ASSUME NEW w \in Workers, ReadDue(w) PROVE AtMostOneNew
  BY <1>0, <1>4 DEF ReadDue
<1>5. ASSUME NEW w \in Workers, NEW m \in sweep[w].late, Expire(w, m) PROVE AtMostOneNew
  BY <1>5 DEF Expire
<1>6. ASSUME NEW w \in Workers, NEW m \in sweep[w].timely, ReAdd(w, m) PROVE AtMostOneNew
  BY <1>6 DEF ReAdd, AddToStream, CopiesAgree
<1>7. ASSUME NEW w \in Workers, ZRem(w) \/ RetireExpired(w) PROVE AtMostOneNew
  BY <1>0, <1>7 DEF ZRem, RetireExpired, SweepOn
<1>8. ASSUME NEW w \in Workers, ConsumeOnce(w) PROVE AtMostOneNew
  BY <1>0, <1>8 DEF ConsumeOnce
<1>9. ASSUME NEW w \in Workers, NEW x \in claims[w], ScheduleRetry(w, x) PROVE AtMostOneNew
  BY <1>9 DEF ScheduleRetry, CopiesAgree
<1>10. ASSUME NEW w \in Workers, NEW x \in claims[w], NEW result, FanOutEnds(w, x, result)
       PROVE  AtMostOneNew
  BY <1>10 DEF FanOutEnds
<1>11. ASSUME NEW w \in Workers, Retire(w) \/ XDel(w) \/ XAck(w) \/ Abort(w) PROVE AtMostOneNew
  BY <1>0, <1>11 DEF Retire, XDel, XAck, Abort, NoSweep
<1>12. ASSUME NEW i \in pel, GoIdle(i) \/ GoIdleWhileWorked(i) PROVE AtMostOneNew
  BY <1>12 DEF GoIdle, GoIdleWhileWorked, workerVars
<1>13. CASE Tick
  <2>1. ASSUME NEW S \in SUBSET Copy, S \subseteq Copies, NEW x \in Older(S) PROVE Old(x)
    <3>1. \E y \in S : x.id = y.id /\ x.op = y.op
      BY OlderSame, Zenon
    <3>2. QED
      BY <2>1, <3>1
  <2>2. ASSUME NEW x \in stream' \cup retry' PROVE Old(x)
    BY <1>0, <1>13, <2>1, <2>2 DEF Tick
  <2>3. ASSUME NEW w \in Workers, NEW x \in InMemory(w)' PROVE Old(x)
    <3>1. /\ claims[w] \in SUBSET Copy /\ claims[w] \subseteq Copies
          /\ sweep[w].late \in SUBSET Copy /\ sweep[w].late \subseteq Copies
          /\ sweep[w].timely \in SUBSET Copy /\ sweep[w].timely \subseteq Copies
      BY <1>0
    <3>2. x \in Older(claims[w]) \cup Older(sweep[w].late) \cup Older(sweep[w].timely)
      BY <1>13, <2>3 DEF Tick
    <3>3. QED
      BY <2>1, <3>1, <3>2
  <2>4. QED
    BY <2>2, <2>3
<1>14. CASE UNCHANGED vars
  BY <1>14 DEF vars
<1>15. QED
  BY <1>1, <1>2, <1>3, <1>4, <1>5, <1>6, <1>7, <1>8, <1>9, <1>10, <1>11, <1>12,
    <1>13, <1>14 DEF Next, WorkerStep

\* Nothing has the id that NewId picks.
LEMMA NewIdUnused == FreshIds # {} => \A x \in Copies : x.id # NewId
BY NewIdFresh DEF UsedIds, Copies, InMemory, IdsOf

\* Minting is for good.
LEMMA MintedGrows == [Next]_vars => minted \subseteq minted'
BY ZenonT(60) DEF Next, vars, WorkerStep, Mint, CountMint, Reclaim, TakeOver, ReadDue, Expire, ReAdd,
  ZRem, RetireExpired, ConsumeOnce, ScheduleRetry, FanOutEnds, Retire, XDel, XAck,
  Abort, GoIdle, GoIdleWhileWorked, Tick

LEMMA AgreeStep == TypeOK /\ CopiesAgree /\ [Next]_vars => CopiesAgree'
<1> SUFFICES ASSUME CopiesAgree, AtMostOneNew, minted \subseteq minted' PROVE CopiesAgree'
  BY CopiesStep, MintedGrows
<1>1. CASE \A x \in Copies' : Old(x)
  BY <1>1 DEF CopiesAgree, Old
<1>2. CASE /\ FreshIds # {}
           /\ \E o \in minted' :
                /\ o \in minted => \E y \in Copies : y.op = o
                /\ \A x \in Copies' : Old(x) \/ (x.id = NewId /\ x.op = o)
  BY <1>2, NewIdUnused DEF CopiesAgree, Old
<1>3. QED
  BY <1>1, <1>2 DEF AtMostOneNew

LEMMA HandStep == TypeOK /\ HandRemembered /\ [Next]_vars => HandRemembered'
<1> SUFFICES ASSUME TypeOK, HandRemembered, [Next]_vars PROVE HandRemembered'
  OBVIOUS
<1> USE DEF HandRemembered, InMemory, Swept, Goto
<1>0. /\ claims \in [Workers -> SUBSET Copy]
      /\ sweep \in [Workers -> [late : SUBSET Copy, timely : SUBSET Copy]]
      /\ pc \in [Workers -> Calls]
      /\ hand \in [Workers -> Ids \cup {NoId}]
  BY DEF TypeOK
<1>1. ASSUME NEW o \in Ops, Mint(o) \/ CountMint(o) PROVE HandRemembered'
  BY <1>1 DEF Mint, CountMint
<1>2. ASSUME NEW w \in Workers, Reclaim(w) \/ ReadDue(w) PROVE HandRemembered'
  BY <1>0, <1>2 DEF Reclaim, TakeOver, ReadDue
<1>3. ASSUME NEW w \in Workers, NEW m \in sweep[w].late, Expire(w, m) PROVE HandRemembered'
  BY <1>0, <1>3 DEF Expire
<1>4. ASSUME NEW w \in Workers, NEW m \in sweep[w].timely, ReAdd(w, m) PROVE HandRemembered'
  BY <1>0, <1>4 DEF ReAdd
<1>5. ASSUME NEW w \in Workers, ZRem(w) \/ RetireExpired(w) PROVE HandRemembered'
  BY <1>0, <1>5 DEF ZRem, RetireExpired, SweepOn
<1>6. ASSUME NEW w \in Workers, ConsumeOnce(w) PROVE HandRemembered'
  BY <1>0, <1>6 DEF ConsumeOnce
<1>7. ASSUME NEW w \in Workers, NEW x \in claims[w], ScheduleRetry(w, x)
      PROVE  HandRemembered'
  BY <1>0, <1>7 DEF ScheduleRetry
<1>8. ASSUME NEW w \in Workers, NEW x \in claims[w], NEW result, FanOutEnds(w, x, result)
      PROVE  HandRemembered'
  BY <1>0, <1>8 DEF FanOutEnds
<1>9. ASSUME NEW w \in Workers, Retire(w) \/ XDel(w) PROVE HandRemembered'
  BY <1>0, <1>9 DEF Retire, XDel
<1>10. ASSUME NEW w \in Workers, XAck(w) \/ Abort(w) PROVE HandRemembered'
  BY <1>0, <1>10 DEF XAck, Abort, AfterClaims
<1>11. ASSUME NEW i \in pel, GoIdle(i) \/ GoIdleWhileWorked(i) PROVE HandRemembered'
  BY <1>11 DEF GoIdle, GoIdleWhileWorked, workerVars
<1>12. CASE Tick
  <2> SUFFICES ASSUME NEW w \in Workers, NEW x \in InMemory(w)
               PROVE  \E y \in InMemory(w)' : y.id = x.id
    BY <1>12 DEF Tick
  <2>1. /\ claims'[w] = Older(claims[w])
        /\ sweep'[w].late = Older(sweep[w].late)
        /\ sweep'[w].timely = Older(sweep[w].timely)
    BY <1>12 DEF Tick
  <2>2. /\ \A y \in claims[w] : \E z \in Older(claims[w]) : z.id = y.id
        /\ \A y \in sweep[w].late : \E z \in Older(sweep[w].late) : z.id = y.id
        /\ \A y \in sweep[w].timely : \E z \in Older(sweep[w].timely) : z.id = y.id
    <3>1. /\ claims[w] \in SUBSET Copy
          /\ sweep[w].late \in SUBSET Copy
          /\ sweep[w].timely \in SUBSET Copy
      BY <1>0
    <3>2. ASSUME NEW S \in SUBSET Copy PROVE \A y \in S : \E z \in Older(S) : z.id = y.id
      BY OlderSame, Zenon
    <3>3. QED
      BY <3>1, <3>2
  <2>3. QED
    BY <2>1, <2>2
<1>13. CASE UNCHANGED vars
  BY <1>13 DEF vars
<1>14. QED
  BY <1>1, <1>2, <1>3, <1>4, <1>5, <1>6, <1>7, <1>8, <1>9, <1>10, <1>11, <1>12,
    <1>13 DEF Next, WorkerStep

\* Outcomes are for good.
LEMMA OutcomeGrows ==
  TypeOK /\ [Next]_vars => \A o \in Ops : outcome[o] \subseteq outcome'[o]
<1> SUFFICES ASSUME TypeOK, [Next]_vars PROVE \A o \in Ops : outcome[o] \subseteq outcome'[o]
  OBVIOUS
<1>0. outcome \in [Ops -> SUBSET {"delivered", "abandoned"}]
  BY DEF TypeOK
<1>1. ASSUME NEW w \in Workers, NEW m \in sweep[w].late, Expire(w, m)
      PROVE  \A o \in Ops : outcome[o] \subseteq outcome'[o]
  BY <1>0, <1>1 DEF Expire
<1>2. ASSUME NEW w \in Workers, NEW x \in claims[w], NEW result, FanOutEnds(w, x, result)
      PROVE  \A o \in Ops : outcome[o] \subseteq outcome'[o]
  BY <1>0, <1>2 DEF FanOutEnds
<1>3. QED
  BY <1>1, <1>2, ZenonT(60) DEF Next, vars, WorkerStep, Mint, CountMint, Reclaim, TakeOver, ReadDue, ReAdd,
    ZRem, RetireExpired, ConsumeOnce, ScheduleRetry, Retire, XDel, XAck, Abort,
    GoIdle, GoIdleWhileWorked, Tick

\* A worker about to retire got there with the step that recorded the outcome.
LEMMA RetireComesFrom ==
  ASSUME TypeOK, [Next]_vars, NEW w \in Workers, pc'[w] = "retire"
  PROVE  \/ pc[w] = "retire" /\ hand'[w] = hand[w]
         \/ \E x \in claims[w], result \in {"delivered", "abandoned"} :
               FanOutEnds(w, x, result)
<1>0. pc \in [Workers -> Calls] /\ hand \in [Workers -> Ids \cup {NoId}]
  BY DEF TypeOK
<1>1. CASE UNCHANGED <<pc, hand>>
  BY <1>1
<1>2. ASSUME NEW v \in Workers, WorkerStep(v) \/ Abort(v)
      PROVE  \/ pc[w] = "retire" /\ hand'[w] = hand[w]
             \/ \E x \in claims[w], result \in {"delivered", "abandoned"} :
                   FanOutEnds(w, x, result)
  <2>1. CASE \E x \in claims[v], result \in {"delivered", "abandoned"} :
                FanOutEnds(v, x, result)
    BY <1>0, <2>1 DEF FanOutEnds, Goto
  <2>2. CASE ~ \E x \in claims[v], result \in {"delivered", "abandoned"} :
                 FanOutEnds(v, x, result)
    <3>1. v # w => pc'[w] = pc[w] /\ hand'[w] = hand[w]
      BY <1>0, <1>2, <2>2 DEF WorkerStep, Reclaim, TakeOver, ReadDue, Expire, ReAdd, ZRem,
        RetireExpired, SweepOn, ConsumeOnce, ScheduleRetry, Retire, XDel, XAck, Abort, Goto
    <3>2. v = w => pc'[w] # "retire"
      BY <1>0, <1>2, <2>2 DEF WorkerStep, Reclaim, TakeOver, ReadDue, Expire, ReAdd, ZRem,
        RetireExpired, SweepOn, ConsumeOnce, ScheduleRetry, Retire, XDel, XAck, Abort,
        Goto, AfterClaims
    <3>3. QED
      BY <3>1, <3>2
  <2>3. QED
    BY <2>1, <2>2
<1>3. QED
  BY <1>1, <1>2 DEF Next, vars, Mint, CountMint, GoIdle, GoIdleWhileWorked,
    workerVars, Tick

LEMMA RetiresStep ==
  TypeOK /\ CopiesAgree /\ HandRemembered /\ RetiresConcluded /\ [Next]_vars
    => RetiresConcluded'
<1> SUFFICES ASSUME TypeOK, CopiesAgree, HandRemembered, RetiresConcluded, [Next]_vars,
                    NEW w \in Workers, pc'[w] = "retire",
                    NEW x \in Copies', x.id = hand'[w]
             PROVE  outcome'[x.op] # {}
  BY DEF RetiresConcluded
<1>1. CASE pc[w] = "retire" /\ hand'[w] = hand[w]
  <2>1. PICK y \in InMemory(w) : y.id = hand[w]
    BY <1>1 DEF HandRemembered
  <2>2. y \in Copies
    BY <2>1 DEF Copies
  <2>3. PICK z \in Copies : z.id = x.id /\ z.op = x.op
    BY <1>1, <2>1, <2>2, CopiesStep, NewIdUnused DEF AtMostOneNew, Old
  <2>4. outcome[z.op] # {} /\ z.op \in Ops
    BY <1>1, <2>3 DEF RetiresConcluded, CopiesAgree, TypeOK
  <2>5. QED
    BY <2>3, <2>4, OutcomeGrows
<1>2. CASE \E c \in claims[w], result \in {"delivered", "abandoned"} :
              FanOutEnds(w, c, result)
  <2>1. PICK c \in claims[w], result \in {"delivered", "abandoned"} :
          FanOutEnds(w, c, result)
    BY <1>2
  <2>2. x \in Copies /\ c \in Copies /\ x.id = c.id
    BY <2>1 DEF FanOutEnds, Copies, InMemory, Swept, TypeOK
  <2>3. x.op = c.op /\ c.op \in Ops
    BY <2>2 DEF CopiesAgree, TypeOK
  <2>4. QED
    BY <2>1, <2>3 DEF FanOutEnds, TypeOK
<1>3. QED
  BY <1>1, <1>2, RetireComesFrom

\* Every operation without an outcome keeps a copy nobody is about to delete.
LEMMA KeptStep == TypeOK /\ SafeInv /\ [Next]_vars => KeptSafe'
<1> SUFFICES ASSUME TypeOK, SafeInv, [Next]_vars PROVE KeptSafe'
  OBVIOUS
<1> USE DEF Goto
<1>0. /\ pc \in [Workers -> Calls] /\ hand \in [Workers -> Ids \cup {NoId}]
      /\ outcome \in [Ops -> SUBSET {"delivered", "abandoned"}]
      /\ minted \subseteq Ops
      /\ claims \in [Workers -> SUBSET Copy]
      /\ sweep \in [Workers -> [late : SUBSET Copy, timely : SUBSET Copy]]
  BY DEF TypeOK
<1>agree. /\ \A x, y \in Copies : x.id = y.id => x.op = y.op
          /\ \A w \in Workers : \A x \in InMemory(w) : x \in Copies
          /\ stream \subseteq Copies /\ retry \subseteq Copies
  BY DEF SafeInv, CopiesAgree, Copies
<1>kept. \A o \in minted :
        outcome[o] = {} => \E x \in stream \cup retry : x.op = o /\ ~Condemned(x.id)
  BY DEF SafeInv, KeptSafe
\* What a step may do without harm: add copies, and condemn no more than before.
<1>harmless. ASSUME stream \subseteq stream', retry \subseteq retry', minted' = minted,
             \A o \in Ops : outcome[o] \subseteq outcome'[o],
             \A i : Condemned(i)' => Condemned(i)
      PROVE  KeptSafe'
  BY <1>0, <1>kept, <1>harmless DEF KeptSafe
\* The id of a new copy is not the one any worker is about to delete.
<1>fresh. FreshIds # {} => ~Condemned(NewId)
  BY <1>agree, NewIdUnused DEF SafeInv, HandRemembered, Condemned
<1>1. ASSUME NEW o \in Ops, Mint(o) PROVE KeptSafe'
  <2> PICK n : n = NewId
    OBVIOUS
  <2> DEFINE x == [id |-> n, op |-> o, left |-> Unset]
  <2>1. x \in stream' /\ x.id = n /\ x.op = o
    BY <1>1 DEF Mint, AddToStream
  <2>2. \A i : Condemned(i)' <=> Condemned(i)
    BY <1>1 DEF Mint, Condemned
  <2>3. /\ FreshIds # {} /\ stream \subseteq stream' /\ retry' = retry
        /\ minted' = minted \cup {o} /\ outcome' = outcome
    BY <1>1 DEF Mint, AddToStream
  <2> HIDE DEF x
  <2>4. QED
    BY <1>kept, <1>fresh, <2>1, <2>2, <2>3 DEF KeptSafe
<1>2. ASSUME NEW o \in Ops, CountMint(o) PROVE KeptSafe'
  BY <1>harmless, <1>2 DEF CountMint, Condemned
<1>3. ASSUME NEW w \in Workers, Reclaim(w) \/ ReadDue(w) \/ ConsumeOnce(w) PROVE KeptSafe'
  BY <1>0, <1>harmless, <1>3 DEF Reclaim, TakeOver, ReadDue, ConsumeOnce, Condemned
<1>4. ASSUME NEW w \in Workers, NEW m \in sweep[w].late, Expire(w, m) PROVE KeptSafe'
  <2>1. m \in Copies /\ m.op \in Ops
    BY <1>0, <1>agree DEF InMemory, Swept, Copy
  <2>2. \A x \in retry : x.id = m.id => x.op = m.op
    BY <1>agree, <2>1
  <2>3. outcome' = [outcome EXCEPT ![m.op] = @ \cup {"abandoned"}]
    BY <1>4 DEF Expire
  <2>4. \A i : Condemned(i)' => Condemned(i)
    BY <1>0, <1>4 DEF Condemned, Expire
  <2>5. \A x \in stream \cup retry : x.id # m.id => x \in stream' \cup retry'
    BY <1>4 DEF Expire
  <2>6. minted' = minted /\ stream' = stream
    BY <1>4 DEF Expire
  <2>7. QED
    BY <1>0, <1>kept, <2>1, <2>2, <2>3, <2>4, <2>5, <2>6 DEF KeptSafe
<1>5. ASSUME NEW w \in Workers, NEW m \in sweep[w].timely, ReAdd(w, m) PROVE KeptSafe'
  <2>1. m \in Copies
    BY <1>0, <1>agree DEF InMemory, Swept
  <2>2. \A x \in stream \cup retry : x.id = m.id => x.op = m.op
    BY <1>agree, <2>1
  <2>3. \A i : Condemned(i)' => Condemned(i) \/ i = m.id
    BY <1>0, <1>5 DEF Condemned, ReAdd
  <2> PICK n : n = NewId
    OBVIOUS
  <2> DEFINE x == [id |-> n, op |-> m.op, left |-> m.left]
  <2>4. x \in stream' /\ x.id = n /\ x.op = m.op
    BY <1>5 DEF ReAdd, AddToStream
  <2>5. ~Condemned(n)'
    BY <1>5, <1>fresh, <2>1, <2>3, NewIdUnused DEF ReAdd, AddToStream
  <2>6. stream \subseteq stream' /\ retry' = retry /\ UNCHANGED <<minted, outcome>>
    BY <1>5 DEF ReAdd, AddToStream
  <2>7. QED
    BY <2>2, <2>3, <2>4, <2>5, <2>6, <1>kept DEF KeptSafe
<1>6. ASSUME NEW w \in Workers, ZRem(w) PROVE KeptSafe'
  <2>1. \A i : Condemned(i)' => Condemned(i)
    BY <1>0, <1>6 DEF Condemned, ZRem, SweepOn
  <2>2. \A x \in stream \cup retry : ~Condemned(x.id) => x \in stream' \cup retry'
    BY <1>6 DEF ZRem, Condemned
  <2>3. UNCHANGED <<minted, outcome>>
    BY <1>6 DEF ZRem
  <2>4. QED
    BY <2>1, <2>2, <2>3, <1>kept DEF KeptSafe
<1>7. ASSUME NEW w \in Workers, RetireExpired(w) PROVE KeptSafe'
  BY <1>0, <1>harmless, <1>7 DEF RetireExpired, SweepOn, Condemned
<1>8. ASSUME NEW w \in Workers, NEW x \in claims[w], ScheduleRetry(w, x) PROVE KeptSafe'
  <2>1. x \in Copies
    BY <1>0, <1>agree DEF InMemory
  <2>2. \A y \in stream \cup retry : y.id = x.id => y.op = x.op
    BY <1>agree, <2>1
  <2>3. \A i : Condemned(i)' => Condemned(i) \/ i = x.id
    BY <1>0, <1>8 DEF Condemned, ScheduleRetry
  <2> PICK n : n = NewId
    OBVIOUS
  <2> DEFINE y == [id |-> n, op |-> x.op, left |-> Deadline(x.left)]
  <2>4. y \in retry' /\ y.id = n /\ y.op = x.op
    BY <1>8 DEF ScheduleRetry
  <2>5. ~Condemned(n)'
    BY <1>8, <1>fresh, <2>1, <2>3, NewIdUnused DEF ScheduleRetry
  <2>6. retry \subseteq retry' /\ stream' = stream /\ UNCHANGED <<minted, outcome>>
    BY <1>8 DEF ScheduleRetry
  <2>7. QED
    BY <2>2, <2>3, <2>4, <2>5, <2>6, <1>kept DEF KeptSafe
<1>9. ASSUME NEW w \in Workers, NEW x \in claims[w],
             NEW result \in {"delivered", "abandoned"}, FanOutEnds(w, x, result)
      PROVE  KeptSafe'
  BY <1>0, <1>harmless, <1>9, OutcomeGrows DEF FanOutEnds, Condemned
<1>10. ASSUME NEW w \in Workers, Retire(w) PROVE KeptSafe'
  <2>1. \A i : Condemned(i)' => Condemned(i) \/ i = hand[w]
    BY <1>0, <1>10 DEF Condemned, Retire
  <2>2. \A x \in stream \cup retry : x.id = hand[w] => outcome[x.op] # {}
    BY <1>agree, <1>10 DEF Retire, SafeInv, RetiresConcluded
  <2>3. UNCHANGED <<stream, retry, minted, outcome>>
    BY <1>10 DEF Retire
  <2>4. QED
    BY <2>1, <2>2, <2>3, <1>kept DEF KeptSafe
<1>11. ASSUME NEW w \in Workers, XDel(w) PROVE KeptSafe'
  <2>1. \A i : Condemned(i)' => Condemned(i)
    BY <1>0, <1>11 DEF Condemned, XDel
  <2>2. \A x \in stream \cup retry : ~Condemned(x.id) => x \in stream' \cup retry'
    BY <1>11 DEF XDel, Condemned
  <2>3. UNCHANGED <<minted, outcome>>
    BY <1>11 DEF XDel
  <2>4. QED
    BY <2>1, <2>2, <2>3, <1>kept DEF KeptSafe
<1>12. ASSUME NEW w \in Workers, XAck(w) \/ Abort(w) PROVE KeptSafe'
  BY <1>0, <1>harmless, <1>12 DEF XAck, Abort, AfterClaims, Condemned
<1>13. ASSUME NEW i \in pel, GoIdle(i) \/ GoIdleWhileWorked(i) PROVE KeptSafe'
  BY <1>harmless, <1>13 DEF GoIdle, GoIdleWhileWorked, workerVars, Condemned
<1>14. CASE Tick
  <2>1. stream \in SUBSET Copy /\ retry \in SUBSET Copy
    BY DEF TypeOK
  <2>2. /\ \A x \in stream : \E y \in Older(stream) : y.id = x.id /\ y.op = x.op
        /\ \A x \in retry : \E y \in Older(retry) : y.id = x.id /\ y.op = x.op
    BY <2>1, OlderSame
  <2>3. /\ stream' = Older(stream) /\ retry' = Older(retry)
        /\ UNCHANGED <<minted, outcome, pc, hand>>
    BY <1>14 DEF Tick
  <2>4. \A i : Condemned(i)' <=> Condemned(i)
    BY <2>3 DEF Condemned
  <2>5. QED
    BY <2>2, <2>3, <2>4, <1>kept DEF KeptSafe
<1>15. CASE UNCHANGED vars
  BY <1>15, <1>kept DEF vars, KeptSafe, Condemned
<1>16. QED
  BY <1>1, <1>2, <1>3, <1>4, <1>5, <1>6, <1>7, <1>8, <1>9, <1>10, <1>11, <1>12,
    <1>13, <1>14, <1>15 DEF Next, WorkerStep

THEOREM SafeInvariant == Spec => []SafeInv
<1>1. Init => SafeInv
  BY DEF Init, SafeInv, CopiesAgree, HandRemembered, RetiresConcluded, KeptSafe,
    Copies, InMemory, Swept, NoSweep
<1>2. TypeOK /\ SafeInv /\ [Next]_vars => SafeInv'
  BY AgreeStep, HandStep, RetiresStep, KeptStep DEF SafeInv
<1>3. QED
  BY <1>1, <1>2, TypeCorrect, PTL DEF Spec

\* An operation that was minted stays in the stream or in ops:retry until it has an
\* outcome: no crash between two commands and no two workers on one copy lose it.
THEOREM OpsKept == Spec => []NoOpLost
<1>1. SafeInv => NoOpLost
  BY DEF SafeInv, KeptSafe, NoOpLost, OpsOf
<1>2. QED
  BY <1>1, SafeInvariant, PTL

---------------------------------------------------------------------------
(* No entry is stranded *)

LEMMA ReachStep == TypeOK /\ HandRemembered /\ ReachInv /\ [Next]_vars => ReachInv'
<1> SUFFICES ASSUME TypeOK, HandRemembered, ReachInv, [Next]_vars PROVE ReachInv'
  OBVIOUS
<1> USE DEF ReachInv, NoEntryStranded, AckAfterDelete, IdsOf, Goto
<1>0. /\ pc \in [Workers -> Calls] /\ hand \in [Workers -> Ids \cup {NoId}]
      /\ idle \subseteq pel
  BY DEF TypeOK
<1>fresh. FreshIds # {} =>
            \A w \in Workers : pc[w] \in {"xdel", "xack", "zrem"} => hand[w] # NewId
  BY NewIdUnused DEF HandRemembered, Copies
<1>1. ASSUME NEW o \in Ops, Mint(o) PROVE ReachInv'
  BY <1>1, <1>fresh DEF Mint, AddToStream
<1>2. ASSUME NEW o \in Ops, CountMint(o) PROVE ReachInv'
  BY <1>2 DEF CountMint
<1>3. ASSUME NEW w \in Workers, Reclaim(w) \/ ReadDue(w) PROVE ReachInv'
  BY <1>0, <1>3 DEF Reclaim, TakeOver, ReadDue
<1>4. ASSUME NEW w \in Workers, NEW m \in sweep[w].late, Expire(w, m) PROVE ReachInv'
  BY <1>0, <1>4 DEF Expire
<1>5. ASSUME NEW w \in Workers, NEW m \in sweep[w].timely, ReAdd(w, m) PROVE ReachInv'
  BY <1>0, <1>5, <1>fresh DEF ReAdd, AddToStream
<1>6. ASSUME NEW w \in Workers, ZRem(w) \/ RetireExpired(w) PROVE ReachInv'
  BY <1>0, <1>6 DEF ZRem, RetireExpired, SweepOn
<1>7. ASSUME NEW w \in Workers, ConsumeOnce(w) PROVE ReachInv'
  BY <1>0, <1>7 DEF ConsumeOnce
<1>8. ASSUME NEW w \in Workers, NEW x \in claims[w], ScheduleRetry(w, x) PROVE ReachInv'
  BY <1>0, <1>8 DEF ScheduleRetry
<1>9. ASSUME NEW w \in Workers, NEW x \in claims[w], NEW result, FanOutEnds(w, x, result)
      PROVE  ReachInv'
  BY <1>0, <1>9 DEF FanOutEnds
<1>10. ASSUME NEW w \in Workers, Retire(w) \/ XDel(w) PROVE ReachInv'
  BY <1>0, <1>10 DEF Retire, XDel
<1>11. ASSUME NEW w \in Workers, XAck(w) \/ Abort(w) PROVE ReachInv'
  BY <1>0, <1>11 DEF XAck, Abort, AfterClaims
<1>12. ASSUME NEW i \in pel, GoIdle(i) \/ GoIdleWhileWorked(i) PROVE ReachInv'
  BY <1>12 DEF GoIdle, GoIdleWhileWorked, workerVars
<1>13. CASE Tick
  <2>1. \A x \in Older(stream) : \E y \in stream : x.id = y.id
    BY OlderSame DEF TypeOK
  <2>2. stream' = Older(stream) /\ UNCHANGED <<unread, pel, pc, hand>>
    BY <1>13 DEF Tick
  <2>3. QED
    BY <2>1, <2>2
<1>14. CASE UNCHANGED vars
  BY <1>14 DEF vars
<1>15. QED
  BY <1>1, <1>2, <1>3, <1>4, <1>5, <1>6, <1>7, <1>8, <1>9, <1>10, <1>11, <1>12,
    <1>13, <1>14 DEF Next, WorkerStep

\* Every entry of the stream is still to be delivered or pending: XDEL before XACK,
\* and what XAUTOCLAIM drops, never leave one that no command can reach.
THEOREM EntriesReachable == Spec => []NoEntryStranded
<1>1. Init => ReachInv
  BY DEF Init, ReachInv, NoEntryStranded, AckAfterDelete, IdsOf
<1>2. TypeOK /\ SafeInv /\ ReachInv /\ [Next]_vars => ReachInv'
  BY ReachStep DEF SafeInv
<1>3. QED
  BY <1>1, <1>2, TypeCorrect, SafeInvariant, PTL DEF Spec, ReachInv

---------------------------------------------------------------------------
(* Every step is one OpDelivery allows *)

LEMMA HeldIsCopy == ASSUME NEW o PROVE Held(o) <=> \E x \in Copies : x.op = o
BY DEF Held, Copies, InMemory, OpsOf

\* An operation that has been let go of does not come back.
LEMMA NoReturn ==
  ASSUME TypeOK, CopiesAgree, [Next]_vars, NEW o \in minted, ~Held(o)
  PROVE  ~Held(o)'
<1>1. \A x \in Copies : x.op # o
  BY HeldIsCopy
<1>2. \A x \in Copies' : x.op # o
  BY <1>1, CopiesStep DEF AtMostOneNew, Old
<1>3. QED
  BY <1>2 DEF Held, Copies, InMemory, OpsOf

\* What is let go of in a step has an outcome after it.
LEMMA LetGoConcluded ==
  ASSUME NoOpLost', NEW o \in minted', ~Held(o)'
  PROVE  outcome'[o] # {}
BY DEF NoOpLost, Held

\* A step that records an outcome drops no copy.
LEMMA OutcomeSteps ==
  ASSUME TypeOK, CopiesAgree, [Next]_vars, outcome' # outcome
  PROVE  /\ minted' = minted
         /\ \E o \in minted : /\ Held(o)
                              /\ \E r \in {"delivered", "abandoned"} :
                                    outcome' = [outcome EXCEPT ![o] = @ \cup {r}]
         /\ \A o \in Ops : Held(o)' <=> Held(o)
<1>0. /\ \A x, y \in Copies : x.id = y.id => x.op = y.op
      /\ \A x \in Copies : x.op \in minted /\ Held(x.op)
      /\ \A w \in Workers : \A x \in claims[w] \cup Swept(w) : x \in Copies
      /\ retry \subseteq Copies
  BY HeldIsCopy DEF CopiesAgree, Copies, InMemory
<1>1. ASSUME NEW w \in Workers, NEW m \in sweep[w].late, Expire(w, m)
      PROVE  /\ minted' = minted
             /\ \E o \in minted : /\ Held(o)
                                  /\ \E r \in {"delivered", "abandoned"} :
                                        outcome' = [outcome EXCEPT ![o] = @ \cup {r}]
             /\ \A o \in Ops : Held(o)' <=> Held(o)
  <2>1. m \in Copies /\ m.op \in minted /\ Held(m.op)
    BY <1>0 DEF Swept
  <2>2. outcome' = [outcome EXCEPT ![m.op] = @ \cup {"abandoned"}]
    BY <1>1 DEF Expire
  <2>3. ASSUME NEW o \in Ops PROVE Held(o)' <=> Held(o)
    <3>1. UNCHANGED <<stream, claims, sweep>> /\ retry' \subseteq retry
      BY <1>1 DEF Expire
    <3>2. \A x \in retry : x \in retry' \/ x.op = m.op
      BY <1>0, <1>1, <2>1 DEF Expire
    <3>3. m.op \in OpsOf(Swept(w))
      BY DEF OpsOf, Swept
    <3>4. QED
      BY <3>1, <3>2, <3>3 DEF Held, OpsOf, Swept
  <2>4. QED
    BY <1>1, <2>1, <2>2, <2>3 DEF Expire
<1>2. ASSUME NEW w \in Workers, NEW x \in claims[w],
             NEW result \in {"delivered", "abandoned"}, FanOutEnds(w, x, result)
      PROVE  /\ minted' = minted
             /\ \E o \in minted : /\ Held(o)
                                  /\ \E r \in {"delivered", "abandoned"} :
                                        outcome' = [outcome EXCEPT ![o] = @ \cup {r}]
             /\ \A o \in Ops : Held(o)' <=> Held(o)
  <2>1. x.op \in minted /\ Held(x.op)
    BY <1>0
  <2>2. \A o \in Ops : Held(o)' <=> Held(o)
    BY <1>2 DEF FanOutEnds, Held, Swept
  <2>3. QED
    BY <1>2, <2>1, <2>2 DEF FanOutEnds
<1>3. QED
  BY <1>1, <1>2, ZenonT(60) DEF Next, vars, WorkerStep, Mint, CountMint, Reclaim, TakeOver, ReadDue, ReAdd,
    ZRem, RetireExpired, ConsumeOnce, ScheduleRetry, Retire, XDel, XAck, Abort,
    GoIdle, GoIdleWhileWorked, Tick

LEMMA StatusIs ==
  /\ DeliveryStatus = [o \in Ops |-> DeliveryStatus[o]]
  /\ \A o \in Ops : DeliveryStatus[o] = IF o \notin minted THEN "unborn"
                                        ELSE IF Held(o) THEN "pending" ELSE "settled"
BY DEF DeliveryStatus

\* How the abstract status moves: an operation is minted, or some are let go of.
LEMMA StatusSteps ==
  ASSUME TypeOK, CopiesAgree, [Next]_vars
  PROVE  \/ /\ minted' = minted
            /\ \A o \in minted : Held(o)' => Held(o)
         \/ \E o \in Ops \ minted : /\ minted' = minted \cup {o}
                                    /\ \A p \in Ops : Held(p)' <=> (Held(p) \/ p = o)
                                    /\ outcome' = outcome
<1>1. ASSUME NEW o \in Ops, Mint(o)
      PROVE  /\ o \in Ops \ minted
             /\ minted' = minted \cup {o}
             /\ \A p \in Ops : Held(p)' <=> (Held(p) \/ p = o)
             /\ outcome' = outcome
  <2>1. OpsOf(stream)' = OpsOf(stream) \cup {o}
    <3> DEFINE x == [id |-> NewId, op |-> o, left |-> Unset]
    <3>1. stream' = stream \cup {x} /\ x.op = o
      BY <1>1 DEF Mint, AddToStream
    <3> HIDE DEF x
    <3>2. QED
      BY <3>1 DEF OpsOf
  <2>2. UNCHANGED <<retry, claims, sweep, outcome>>
    BY <1>1 DEF Mint
  <2>3. QED
    BY <1>1, <2>1, <2>2 DEF Held, Swept, Mint
<1>2. CASE \E o \in Ops : Mint(o)
  BY <1>1, <1>2
<1>3. CASE ~ \E o \in Ops : Mint(o)
  <2>1. minted' = minted
    BY <1>3, ZenonT(60) DEF Next, vars, WorkerStep, CountMint, Reclaim, TakeOver, ReadDue, Expire, ReAdd, ZRem,
      RetireExpired, ConsumeOnce, ScheduleRetry, FanOutEnds, Retire, XDel, XAck, Abort,
      GoIdle, GoIdleWhileWorked, Tick
  <2>2. QED
    BY <2>1, NoReturn
<1>4. QED
  BY <1>2, <1>3

LEMMA DeliveryStep ==
  TypeOK /\ SafeInv /\ NoOpLost' /\ [Next]_vars => [Delivery!Next]_(Delivery!vars)
<1> SUFFICES ASSUME TypeOK, SafeInv, NoOpLost', [Next]_vars
             PROVE  [Delivery!Next]_(Delivery!vars)
  OBVIOUS
<1> USE DEF Delivery!Next, Delivery!vars, Delivery!Work
<1>0. /\ minted \subseteq Ops /\ outcome \in [Ops -> SUBSET {"delivered", "abandoned"}]
      /\ CopiesAgree
  BY DEF TypeOK, SafeInv
<1>status. /\ DeliveryStatus' = [o \in Ops |-> DeliveryStatus'[o]]
           /\ \A o \in Ops : DeliveryStatus'[o] =
                 IF o \notin minted' THEN "unborn"
                 ELSE IF Held(o)' THEN "pending" ELSE "settled"
  BY DEF DeliveryStatus
<1>1. CASE outcome' # outcome
  <2>1. /\ minted' = minted /\ \A o \in Ops : Held(o)' <=> Held(o)
        /\ \E o \in minted : /\ Held(o)
                             /\ \E r \in {"delivered", "abandoned"} :
                                   outcome' = [outcome EXCEPT ![o] = @ \cup {r}]
    BY <1>0, <1>1, OutcomeSteps
  <2>2. PICK o \in minted, r \in {"delivered", "abandoned"} :
          Held(o) /\ outcome' = [outcome EXCEPT ![o] = @ \cup {r}]
    BY <2>1
  <2>3. DeliveryStatus' = DeliveryStatus
    BY <2>1, StatusIs, <1>status
  <2>4. DeliveryStatus[o] = "pending"
    BY <1>0, <2>2, StatusIs
  <2>5. Delivery!Conclude(o)
    BY <2>2, <2>3, <2>4 DEF Delivery!Conclude, Delivery!Outcomes
  <2>6. QED
    BY <1>0, <2>5
<1>2. ASSUME outcome' = outcome, NEW o \in Ops \ minted, minted' = minted \cup {o},
             \A p \in Ops : Held(p)' <=> (Held(p) \/ p = o)
      PROVE  Delivery!Mint(o)
  <2>1. DeliveryStatus[o] = "unborn"
    BY StatusIs
  <2>2. DeliveryStatus' = [DeliveryStatus EXCEPT ![o] = "pending"]
    BY <1>2, StatusIs, <1>status
  <2>3. QED
    BY <1>2, <2>1, <2>2 DEF Delivery!Mint
<1>3. ASSUME outcome' = outcome, minted' = minted, \A o \in minted : Held(o)' => Held(o)
      PROVE  [Delivery!Next]_(Delivery!vars)
  <2> DEFINE S == {o \in minted : Held(o) /\ ~Held(o)'}
  <2>1. DeliveryStatus' = [o \in Ops |-> IF o \in S THEN "settled" ELSE DeliveryStatus[o]]
    BY <1>0, <1>3, StatusIs, <1>status
  <2>2. \A o \in S : DeliveryStatus[o] = "pending" /\ outcome[o] # {}
    BY <1>0, <1>3, StatusIs, LetGoConcluded
  <2>3. CASE S = {}
    BY <1>3, <2>1, <2>3, StatusIs
  <2>4. CASE S # {}
    <3>1. Delivery!Settle(S) /\ S \in SUBSET Ops
      BY <1>0, <1>3, <2>1, <2>2, <2>4 DEF Delivery!Settle
    <3> HIDE DEF S
    <3>2. QED
      BY <2>4, <3>1
  <2>5. QED
    BY <2>3, <2>4
<1>4. QED
  BY <1>0, <1>1, <1>2, <1>3, StatusSteps

\* The safety half of the refinement: nothing OpStream does is more than OpDelivery
\* allows, whatever crashes, overlaps and retries happen.
THEOREM ImplementsDeliverySteps == Spec => StepsImplementDelivery
<1>1. Init => Delivery!Init
  BY DEF Init, Delivery!Init, DeliveryStatus
<1>2. QED
  BY <1>1, DeliveryStep, TypeCorrect, SafeInvariant, OpsKept, PTL
  DEF Spec, StepsImplementDelivery, Delivery!SafeSpec
=============================================================================
