------------------------------- MODULE Trust -------------------------------
(***************************************************************************)
(* Reviewer Trust of one reader: the score of core/trust.py, the cache in  *)
(* front of it (core/trust_service.py) and the test posts that measure the *)
(* reader (core/probes.py).  The reader's requests - reviews, answers to   *)
(* test posts, the statistics screen - overlap freely.  Python's floats    *)
(* are fixed-point here, in thousandths: One stands for 1.0.               *)
(***************************************************************************)
EXTENDS Integers, FiniteSets

CONSTANTS Requests,            \* requests of the reader in flight at once
          StartInputs,         \* the histories a reader may come with
          ReviewManners,       \* ways to review: sets of {"forward", "hasty"}
          ForwardRates,        \* what the deployment's forward rate may be
          ProbeConfidence, VolumeNeutral, VolumeFull, AnomalyConfidence,
          MinGapReviews, FeedFanout,
          MaxReviews, MaxAnswers, MaxProbes    \* bounds

One     == 1000
Neutral == 500
NoRate  == -1                  \* too few reviews for a population rate

InputType == [answered : 0..MaxAnswers, correct : 0..MaxAnswers, reviews : 0..MaxReviews,
              forwards : 0..MaxReviews, paced : 0..MaxReviews, hasty : 0..MaxReviews]

ASSUME TrustAssumption ==
    /\ StartInputs \subseteq InputType
    /\ ReviewManners \subseteq SUBSET {"forward", "hasty"}
    /\ ForwardRates \subseteq (0..One) \cup {NoRate}
    /\ \A n \in {ProbeConfidence, AnomalyConfidence, FeedFanout} : n \in Nat \ {0}
    /\ \A n \in {VolumeNeutral, VolumeFull, MinGapReviews} : n \in Nat
    /\ \A n \in {MaxReviews, MaxAnswers, MaxProbes} : n \in Nat

VARIABLES inputs,         \* what Postgres holds of the reader: counts of rows
          scoreCache,     \* the cached score, or NoScore
          probesOut,      \* test posts in the reader's queue
          pending,        \* does trust:probe:pending exist
          since,          \* trust:probe:since
          request,        \* per request, where it is and what it has read
          excused         \* history: why two test posts may be out at once

trustVars == <<inputs, scoreCache, probesOut, pending, since, request, excused>>

(* Beside its score an entry carries two ghosts: how many answers it was   *)
(* computed from, and whether an answer overtook it on the way.            *)
NoScore   == [score |-> -1, answered |-> 0, late |-> FALSE]
IdleRequest == [at |-> "idle", inputs |-> << >>, then |-> "idle", late |-> FALSE]

------------------------------------------------------------------------------
(* core/trust.py *)
Clamp01(x) == IF x < 0 THEN 0 ELSE IF x > One THEN One ELSE x
Ratio(n, d) == (n * One) \div d

Shrink(value, confidence) ==
    (Clamp01(confidence) * value + (One - Clamp01(confidence)) * Neutral) \div One

ProbeComponentSwapped(i) ==    \* mutant: wrong answers counted as right ones
    IF i.answered = 0 THEN Neutral
    ELSE Shrink(Clamp01(2 * Ratio(i.answered - i.correct, i.answered) - One),
                Ratio(i.answered, ProbeConfidence))

(* Chance, one half, maps to zero; a thin sample to neutral.               *)
ProbeComponent(i) ==
    IF i.answered = 0 THEN Neutral
    ELSE Shrink(Clamp01(2 * Ratio(i.correct, i.answered) - One),
                Ratio(i.answered, ProbeConfidence))

VolumeComponent(i) ==
    IF VolumeFull <= VolumeNeutral THEN Neutral
    ELSE Neutral + Clamp01(Ratio(i.reviews - VolumeNeutral, VolumeFull - VolumeNeutral)) \div 2

PacePenalty(i) ==              \* TRUST_PACE_TOLERANCE = 0.3
    IF i.paced = 0 THEN 0 ELSE Clamp01(((Ratio(i.hasty, i.paced) - 300) * 10) \div 7)

SkewPenalty(i, mean) ==        \* TRUST_SKEW_TOLERANCE = 0.7
    LET rate == Ratio(i.forwards, i.reviews)
        room == IF rate < mean THEN mean ELSE One - mean
        away == IF rate < mean THEN mean - rate ELSE rate - mean
    IN IF mean = NoRate \/ i.reviews = 0 THEN 0
       ELSE IF room = 0 THEN 0
       ELSE Clamp01(((Clamp01(Ratio(away, room)) - 700) * 10) \div 3)

AnomalyCeiling(i, mean) ==
    One - (Clamp01(PacePenalty(i) + SkewPenalty(i, mean))
             * Clamp01(Ratio(i.reviews, AnomalyConfidence))) \div One

Base(i) == (7 * ProbeComponent(i) + 3 * VolumeComponent(i)) \div 10

(* round(): to the nearest, a half to the even one.                        *)
RoundTenth(x) ==
    LET q == x \div 10
        r == x % 10
    IN IF r > 5 \/ (r = 5 /\ q % 2 = 1) THEN q + 1 ELSE q

ComputeScoreScaled(i, mean) ==         \* mutant: the ceiling scales all of the score
    RoundTenth((Base(i) * AnomalyCeiling(i, mean)) \div One)

ComputeScore(i, mean) ==
    LET b == Base(i)
    IN RoundTenth(IF b > Neutral THEN Neutral + ((b - Neutral) * AnomalyCeiling(i, mean)) \div One
                  ELSE b)

Band(score) == IF score < 35 THEN "low" ELSE IF score >= 70 THEN "high" ELSE "normal"

FanoutFor(score) ==            \* thirds of FEED_FANOUT, rounded half up, never nobody
    LET thirds == IF Band(score) = "low" THEN 2 ELSE IF Band(score) = "high" THEN 4 ELSE 3
        scaled == (2 * FeedFanout * thirds + 3) \div 6
    IN IF scaled < 1 THEN 1 ELSE scaled

------------------------------------------------------------------------------
TrustInit ==
    /\ inputs \in StartInputs
    /\ scoreCache = NoScore
    /\ probesOut = 0
    /\ pending = FALSE
    /\ since = 0
    /\ request = [h \in Requests |-> IdleRequest]
    /\ excused = FALSE

GoTo(h, at) == request' = [request EXCEPT ![h].at = at]
Done(h)     == request' = [request EXCEPT ![h] = IdleRequest]
Doing(h, at)   == request[h].at = at

(* reviewer_trust: the cached score, or the reads of compute(); the        *)
(* deployment's forward rate, cached too, is one of ForwardRates.  A       *)
(* forward goes on to the dice afterwards, the statistics screen is done.  *)
ReadCache(h, then) ==
    request' = [request EXCEPT ![h] =
        [at |-> IF scoreCache = NoScore THEN "readReviews" ELSE then,
         inputs |-> << >>, then |-> then, late |-> FALSE]]

Statistics(h) ==
    /\ Doing(h, "idle") /\ scoreCache = NoScore       \* a hit changes nothing
    /\ ReadCache(h, "idle")
    /\ UNCHANGED <<inputs, scoreCache, probesOut, pending, since, excused>>

ReadReviews(h) ==
    /\ Doing(h, "readReviews")
    /\ request' = [request EXCEPT ![h].at = "readProbes", ![h].inputs = inputs]
    /\ UNCHANGED <<inputs, scoreCache, probesOut, pending, since, excused>>

ReadProbes(h) ==
    /\ Doing(h, "readProbes")
    /\ request' = [request EXCEPT ![h].at = "setCache",
                                  ![h].inputs.answered = inputs.answered,
                                  ![h].inputs.correct = inputs.correct]
    /\ UNCHANGED <<inputs, scoreCache, probesOut, pending, since, excused>>

SetCache(h, rate) ==
    /\ Doing(h, "setCache")
    /\ scoreCache' = [score |-> ComputeScore(request[h].inputs, rate),
                      answered |-> request[h].inputs.answered, late |-> request[h].late]
    /\ IF request[h].then = "idle" THEN Done(h) ELSE GoTo(h, request[h].then)
    /\ UNCHANGED <<inputs, probesOut, pending, since, excused>>

------------------------------------------------------------------------------
(* review_post of a real post: the commit, then the forward, then the dice *)
Review(h, manner) ==
    /\ Doing(h, "idle") /\ inputs.reviews < MaxReviews
    /\ inputs' = [inputs EXCEPT !.reviews = @ + 1,
                                !.forwards = IF "forward" \in manner THEN @ + 1 ELSE @,
                                !.paced = IF inputs.reviews > 0 THEN @ + 1 ELSE @,
                                !.hasty = IF inputs.reviews > 0 /\ "hasty" \in manner THEN @ + 1 ELSE @]
    /\ IF "forward" \in manner THEN ReadCache(h, "dice") ELSE GoTo(h, "dice")
    /\ UNCHANGED <<scoreCache, probesOut, pending, since, excused>>

Minting == {h \in Requests : request[h].at \in {"roll", "mint", "minted"}}

(* should_mint asks, then counts the review and rolls; mint_probe places,  *)
(* then writes the key that is asked for, then the count: each of them a   *)
(* round trip of its own.                                                  *)
AskPendingBlind(h) ==                 \* mutant: the outstanding probe is not asked for
    /\ Doing(h, "dice")
    /\ GoTo(h, "roll")
    /\ excused' = (excused \/ Minting # {})
    /\ UNCHANGED <<inputs, scoreCache, probesOut, pending, since>>

AskPending(h) ==
    /\ Doing(h, "dice")
    /\ IF pending THEN Done(h) ELSE GoTo(h, "roll")
    /\ excused' = (excused \/ (~pending /\ Minting # {}))
    /\ UNCHANGED <<inputs, scoreCache, probesOut, pending, since>>

ShouldMint(h, lucky) ==
    /\ Doing(h, "roll")
    /\ since' = since + 1
    /\ IF since' >= MinGapReviews /\ lucky THEN GoTo(h, "mint") ELSE Done(h)
    /\ UNCHANGED <<inputs, scoreCache, probesOut, pending, excused>>

MintProbe(h, possible) ==             \* no copy, no channel, a full queue: no probe
    /\ Doing(h, "mint") /\ probesOut < MaxProbes
    /\ probesOut' = IF possible THEN probesOut + 1 ELSE probesOut
    /\ IF possible THEN GoTo(h, "minted") ELSE Done(h)
    /\ UNCHANGED <<inputs, scoreCache, pending, since, excused>>

RememberProbe(h) ==
    /\ Doing(h, "minted")
    /\ pending' = TRUE
    /\ GoTo(h, "remembered")
    /\ UNCHANGED <<inputs, scoreCache, probesOut, since, excused>>

RestartGap(h) ==
    /\ Doing(h, "remembered")
    /\ since' = 0
    /\ Done(h)
    /\ UNCHANGED <<inputs, scoreCache, probesOut, pending, excused>>

------------------------------------------------------------------------------
(* review_post of a test post claims it; probes.answer forgets the test    *)
(* post that is outstanding by now, commits, and drops the score.          *)
ClaimProbe(h) ==
    /\ Doing(h, "idle") /\ probesOut > 0
    /\ probesOut' = probesOut - 1
    /\ GoTo(h, "claimed")
    /\ UNCHANGED <<inputs, scoreCache, pending, since, excused>>

Answer(h) ==
    /\ Doing(h, "claimed")
    /\ pending' = FALSE
    /\ GoTo(h, "answer")
    /\ excused' = (excused \/ (pending /\ probesOut > 0))
    /\ UNCHANGED <<inputs, scoreCache, probesOut, since>>

CommitAnswerFirstInvalidates(h, right) ==    \* mutant: the score is dropped too early
    /\ Doing(h, "answer") /\ inputs.answered < MaxAnswers
    /\ inputs' = [inputs EXCEPT !.answered = @ + 1, !.correct = IF right THEN @ + 1 ELSE @]
    /\ Done(h)
    /\ UNCHANGED <<scoreCache, probesOut, pending, since, excused>>

CommitAnswer(h, right) ==
    /\ Doing(h, "answer") /\ inputs.answered < MaxAnswers
    /\ inputs' = [inputs EXCEPT !.answered = @ + 1, !.correct = IF right THEN @ + 1 ELSE @]
    /\ GoTo(h, "invalidate")
    /\ UNCHANGED <<scoreCache, probesOut, pending, since, excused>>

Unrecognised(h) ==                    \* the variant's wording was edited since
    /\ Doing(h, "answer")
    /\ Done(h)
    /\ UNCHANGED <<inputs, scoreCache, probesOut, pending, since, excused>>

(* The answer's request ends; computations that read before it are late.   *)
EndAnswer(h) == request' = [g \in Requests |->
    IF g = h THEN IdleRequest
    ELSE [request[g] EXCEPT !.late = Doing(g, "setCache")]]

Invalidate(h) ==
    /\ Doing(h, "invalidate")
    /\ scoreCache' = NoScore
    /\ EndAnswer(h)
    /\ UNCHANGED <<inputs, probesOut, pending, since, excused>>

------------------------------------------------------------------------------
(* The request is cut off: what it had not yet written stays unwritten.    *)
RequestDies(h) ==
    /\ ~Doing(h, "idle")
    /\ IF Doing(h, "invalidate") THEN EndAnswer(h) ELSE Done(h)
    /\ scoreCache' = IF Doing(h, "invalidate") /\ scoreCache # NoScore
                     THEN [scoreCache EXCEPT !.late = TRUE] ELSE scoreCache
    /\ excused' = (excused \/ Doing(h, "minted"))
    /\ UNCHANGED <<inputs, probesOut, pending, since>>

ScoreExpires ==
    /\ scoreCache # NoScore
    /\ scoreCache' = NoScore
    /\ UNCHANGED <<inputs, probesOut, pending, since, request, excused>>

PendingExpires ==                     \* PENDING_TTL_SECONDS: a day
    /\ pending
    /\ pending' = FALSE
    /\ excused' = (excused \/ probesOut > 0)
    /\ UNCHANGED <<inputs, scoreCache, probesOut, since, request>>

TrustNext ==
    \/ \E h \in Requests :
          \/ Statistics(h) \/ ReadReviews(h) \/ ReadProbes(h)
          \/ \E rate \in ForwardRates : SetCache(h, rate)
          \/ \E manner \in ReviewManners : Review(h, manner)
          \/ \E lucky \in BOOLEAN : ShouldMint(h, lucky)
          \/ \E possible \in BOOLEAN : MintProbe(h, possible)
          \/ \E right \in BOOLEAN : CommitAnswer(h, right)
          \/ AskPending(h) \/ RememberProbe(h) \/ RestartGap(h)
          \/ ClaimProbe(h) \/ Answer(h) \/ Unrecognised(h) \/ Invalidate(h)
          \/ RequestDies(h)
    \/ ScoreExpires \/ PendingExpires

TrustSpec == TrustInit /\ [][TrustNext]_trustVars

------------------------------------------------------------------------------
(* The ceiling's worst case is neutral: a reader is in the low band - the  *)
(* one whose forwards reach fewer people - only if test posts were answered*)
(* wrong, however fast or one-sided the reviewing.                         *)
LowIsEarned ==
    \A rate \in ForwardRates :
        FanoutFor(ComputeScore(inputs, rate)) < FeedFanout => inputs.correct < inputs.answered

(* A right answer never costs a reader who was above chance: neither the   *)
(* rate nor the confidence it gains may lower the score.  (Below chance it *)
(* can: one right answer after several wrong ones adds confidence to a     *)
(* component that is still clamped to zero.)                               *)
RightAnswersNeverCost ==
    [][ inputs'.correct > inputs.correct /\ 2 * inputs.correct >= inputs.answered =>
          \A rate \in ForwardRates :
              ComputeScore(inputs', rate) >= ComputeScore(inputs, rate) ]_trustVars

(* An answered test post shows at once: the cached score knows every answer*)
(* committed, unless a request that read the rows before an answer cached  *)
(* it after, or the answer's request died before dropping the score.       *)
CacheSeesAnswers ==
    scoreCache # NoScore /\ ~scoreCache.late =>
        \/ scoreCache.answered = inputs.answered
        \/ \E h \in Requests : Doing(h, "invalidate")

(* One test post out at a time: two only when reviews overlapped between   *)
(* asking for the key and writing it, a request died between placing and   *)
(* writing it, the outstanding one was ignored for a day, or the answer to *)
(* another test post deleted the key of the one that is out.               *)
OneProbeOut == ~excused => probesOut + Cardinality({h \in Requests : Doing(h, "mint")}) <= 1
=============================================================================
