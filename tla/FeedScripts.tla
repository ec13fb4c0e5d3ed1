---------------------------- MODULE FeedScripts ----------------------------
(***************************************************************************)
(* The Redis keys the feed delivers into, and the three Lua scripts of     *)
(* feed/scripts.py that are the only code that writes them during normal   *)
(* operation.  A script runs without interleaving, so each one is a single *)
(* action on the three variables.                                          *)
(*                                                                         *)
(* A queue is kept as a set: the list is only ever pushed to by `place`,   *)
(* which looks the post up (LPOS) first, so it holds a post at most once,  *)
(* and no decision of the server depends on its order.                     *)
(***************************************************************************)
EXTENDS Naturals, FiniteSets

CONSTANTS
    Users,       \* readers
    Posts,       \* post ids
    MaxSlots,    \* FEED_QUEUE_MAX_SLOTS
    ExcludeSeen  \* FEED_EXCLUDE_SEEN

ASSUME MaxSlotsAssumption == MaxSlots \in Nat \ {0}
ASSUME ExcludeSeenAssumption == ExcludeSeen \in BOOLEAN

VARIABLES
    queue,      \* queue:{user}
    freeQueue,  \* free_queue: the users fan-out may select
    seen        \* seen:{post}: the users the post has been delivered to

feedKeys == <<queue, freeQueue, seen>>

FeedKeysType ==
    /\ queue \in [Users -> SUBSET Posts]
    /\ freeQueue \subseteq Users
    /\ seen \in [Posts -> SUBSET Users]

FeedKeysInit ==
    /\ queue = [u \in Users |-> {}]
    /\ freeQueue = {}
    /\ seen = [p \in Posts |-> {}]

\* LLEN >= max_slots, for a queue with the contents q.
Full(q) == Cardinality(q) >= MaxSlots

---------------------------------------------------------------------------
(* place *)

\* Mutant: fan-out's own filter is trusted and the script does not look again.
RefusesNever(u, p) == FALSE

\* The script answers PLACE_REFUSED: not in the queue now, but delivered before.
Refuses(u, p) ==
    /\ ExcludeSeen
    /\ p \notin queue[u]
    /\ u \in seen[p]

\* The script pushes: neither a no-op re-delivery nor a refusal.
Pushes(u, p) == p \notin queue[u] /\ ~Refuses(u, p)

\* After the push the queue has no room left, so fan-out must stop seeing u.
LeavesFreeQueue(u, p) == Full(queue[u] \cup {p})

Place(u, p) ==
    \/ /\ Pushes(u, p)
       /\ queue' = [queue EXCEPT ![u] = @ \cup {p}]
       /\ seen' = IF ExcludeSeen
                  THEN [seen EXCEPT ![p] = @ \cup {u}]
                  ELSE seen
       /\ freeQueue' = IF LeavesFreeQueue(u, p)
                       THEN freeQueue \ {u}
                       ELSE freeQueue
    \/ /\ ~Pushes(u, p)
       /\ UNCHANGED feedKeys

---------------------------------------------------------------------------
(* claim and ensure_free *)

\* Mutant: the slot that was freed is not announced.
ClaimSilently(u, p) ==
    /\ p \in queue[u]
    /\ queue' = [queue EXCEPT ![u] = @ \ {p}]
    /\ UNCHANGED <<freeQueue, seen>>

\* Mutant: the script's two arguments are taken in the wrong order.
ClaimSwapsArguments(u, p) ==
    /\ p \in queue[u]
    /\ queue' = [queue EXCEPT ![u] = @ \ {p}]
    /\ freeQueue' = IF Full(queue[u] \ {p})
                    THEN freeQueue
                    ELSE freeQueue \cup {p}
    /\ UNCHANGED seen

\* The branch of `claim` that removed something (the other one changes nothing).
Claim(u, p) ==
    /\ p \in queue[u]
    /\ queue' = [queue EXCEPT ![u] = @ \ {p}]
    /\ freeQueue' = IF Full(queue[u] \ {p})
                    THEN freeQueue
                    ELSE freeQueue \cup {u}
    /\ UNCHANGED seen

\* Mutant: the reader is announced without looking at the queue's length.
EnsureFreeAlways(u) ==
    /\ freeQueue' = freeQueue \cup {u}
    /\ UNCHANGED <<queue, seen>>

EnsureFree(u) ==
    /\ freeQueue' = IF Full(queue[u]) THEN freeQueue ELSE freeQueue \cup {u}
    /\ UNCHANGED <<queue, seen>>
=============================================================================
