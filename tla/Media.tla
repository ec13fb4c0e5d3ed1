-------------------------------- MODULE Media --------------------------------
(***************************************************************************)
(* Uploads of one account: posts, feedback and profile pictures, from the  *)
(* file that arrives to the row that names its objects.                    *)
(* core/media_validation.py checks and re-encodes each file, with ffmpeg   *)
(* behind a semaphore; core/storage.py writes the objects, retrying;       *)
(* api/posts.py, api/feedback.py and api/users.py charge, store, commit    *)
(* and clean up, in that order, and core/account_deletion.py removes rows  *)
(* and then objects.  Nothing ties a row in Postgres to an object in the   *)
(* bucket, or a charge in Redis to either, but that order.                 *)
(***************************************************************************)
EXTENDS Integers, Sequences, FiniteSets

CONSTANTS Uploads,           \* requests in flight at once
          Submissions,       \* what they send: [kind, files]
          FfmpegSlots,       \* settings.MEDIA_MAX_CONCURRENT_FFMPEG
          MaxAttempts,       \* settings.STORAGE_MAX_ATTEMPTS
          StartTokens,
          MaxKeys,           \* bound: objects ever written
          MaxMishaps         \* bound: failures of the bucket, of a commit, restarts

Files == [claims : {"image", "video", "other"}, real : {"image", "video", "junk"},
          big : BOOLEAN, fits : BOOLEAN, long : BOOLEAN]
Kinds == {"post", "feedback", "picture", "remove", "delete"}

ASSUME MediaAssumption ==
    /\ IsFiniteSet(Uploads)
    /\ \A s \in Submissions : s.kind \in Kinds /\ s.files \in Seq(Files)
    /\ {FfmpegSlots, MaxAttempts} \subseteq Nat \ {0}
    /\ {StartTokens, MaxKeys, MaxMishaps} \subseteq Nat
(* A profile picture is one part of one name. *)
ASSUME OnePicture == \A s \in Submissions : s.kind = "picture" => Len(s.files) = 1

VARIABLES bucket,            \* the keys of the objects that exist
          lastKey,           \* keys are random; here, numbered
          rows,              \* committed posts and feedback: [kind, keys]
          picture,           \* User.profile_picture_key, or 0
          account,           \* does the account exist
          purse,             \* the account's tokens; a post costs one
          published, enqueued,  \* posts committed; operations added for them
          processes,         \* ffmpeg and ffprobe processes alive
          upload,            \* per request, where it is
          mishaps,
          mayLeak, mayLose   \* history: something happened after which an object, or
                             \* a token or an operation, may be left over

mediaVars == <<bucket, lastKey, rows, picture, account, purse, published, enqueued,
               processes, upload, mishaps, mayLeak, mayLose>>

NoUpload   == [at |-> "idle", kind |-> "none", todo |-> << >>, running |-> FALSE,
               puts |-> 0, key |-> 0, attempt |-> 1, keys |-> {}, previous |-> 0, mine |-> {}]
Referenced == (UNION {row.keys : row \in rows}) \cup ({picture} \ {0})
MyPosts    == {row \in rows : row.kind = "post"}
At(u, at)  == upload[u].at = at
Move(u, at) == upload' = [upload EXCEPT ![u].at = at]
Over(u)    == upload' = [upload EXCEPT ![u] = NoUpload]
CleanUp(u, keys) == upload' = [upload EXCEPT ![u] = [NoUpload EXCEPT !.at = "clean up", !.keys = keys]]
Mishap     == mishaps < MaxMishaps /\ mishaps' = mishaps + 1
PictureKinds == {"picture", "remove", "delete"}
OwnsPicture  == {u \in Uploads : upload[u].kind \in PictureKinds}

MediaInit ==
    /\ bucket = {} /\ lastKey = 0
    /\ rows = {} /\ picture = 0 /\ account = TRUE
    /\ purse = StartTokens /\ published = 0 /\ enqueued = 0
    /\ processes = 0
    /\ upload = [u \in Uploads |-> NoUpload]
    /\ mishaps = 0 /\ mayLeak = FALSE /\ mayLose = FALSE

------------------------------------------------------------------------------
(* What a file is answered, if not "ok".  A file is a record: what its     *)
(* content type claims, what its bytes are, and what would refuse it.      *)
Decodes(f) == f.real = "image"       \* opens within the pixel budget, verifies
ProcessImage(f) ==
    IF f.big THEN "too_large" ELSE IF ~Decodes(f) THEN "invalid_type"
    ELSE IF ~f.fits THEN "invalid_aspect_ratio" ELSE "ok"
ProcessFeedbackImage(f) ==
    IF f.big THEN "too_large" ELSE IF ~Decodes(f) THEN "invalid_type" ELSE "ok"
ProcessProfilePicture(f) ==
    IF f.claims # "image" THEN "invalid_type" ELSE ProcessFeedbackImage(f)
ProcessUpload(f) ==
    CASE f.claims = "image" -> ProcessImage(f)
      [] f.claims = "video" -> IF f.big THEN "too_large" ELSE "transcode"
      [] OTHER              -> "invalid_type"
ProcessFeedbackUpload(f) ==
    CASE f.claims = "image" -> ProcessFeedbackImage(f)
      [] f.claims = "video" -> IF f.big THEN "too_large" ELSE "transcode"
      [] OTHER              -> "invalid_type"
Verdict(kind, f) ==
    CASE kind = "post" -> ProcessUpload(f)
      [] kind = "feedback" -> ProcessFeedbackUpload(f)
      [] OTHER -> ProcessProfilePicture(f)

Submit(u, s) ==
    /\ At(u, "idle") /\ account
    /\ upload' = [upload EXCEPT ![u] =
           [NoUpload EXCEPT !.at = IF s.kind \in {"remove", "delete"} THEN "commit" ELSE "process",
                            !.kind = s.kind, !.todo = s.files,
                            !.previous = IF s.kind \in PictureKinds THEN picture ELSE 0,
                            !.mine = IF s.kind = "delete" THEN MyPosts ELSE {}]]
    /\ mayLeak' = (mayLeak \/ (s.kind \in PictureKinds /\ OwnsPicture # {}))
    /\ UNCHANGED <<bucket, lastKey, rows, picture, account, purse, published, enqueued,
                   processes, mishaps, mayLose>>

FileDone(u, objects) ==
    upload' = [upload EXCEPT ![u].at = "process", ![u].running = FALSE,
                             ![u].todo = Tail(@), ![u].puts = @ + objects]

(* Every file is processed before the first token or object is spent.      *)
ProcessFile(u) ==
    /\ At(u, "process") /\ upload[u].todo # << >>
    /\ LET verdict == Verdict(upload[u].kind, Head(upload[u].todo))
       IN CASE verdict = "ok"        -> FileDone(u, 1)
            [] verdict = "transcode" -> Move(u, "probe")
            [] OTHER                 -> Over(u)
    /\ UNCHANGED <<bucket, lastKey, rows, picture, account, purse, published, enqueued,
                   processes, mishaps, mayLeak, mayLose>>

------------------------------------------------------------------------------
(* A clip is probed, transcoded, measured and given a poster, each by a    *)
(* process of its own behind the semaphore.                                *)
VideoStages == {"probe", "transcode", "measure", "poster"}
Running     == {u \in Uploads : upload[u].running}

StartProcess(u) ==
    /\ upload[u].at \in VideoStages /\ ~upload[u].running
    /\ Cardinality(Running) < FfmpegSlots
    /\ upload' = [upload EXCEPT ![u].running = TRUE]
    /\ processes' = processes + 1
    /\ UNCHANGED <<bucket, lastKey, rows, picture, account, purse, published, enqueued,
                   mishaps, mayLeak, mayLose>>

(* What follows a process that did its work; a clip that is none, or too   *)
(* long, does not get past the first.                                      *)
ProbeVideo(u)  == IF Head(upload[u].todo).real = "video" /\ ~Head(upload[u].todo).long
                  THEN upload' = [upload EXCEPT ![u].at = "transcode", ![u].running = FALSE]
                  ELSE Over(u)
TranscodeVideo(u) == upload' = [upload EXCEPT ![u].at = "measure", ![u].running = FALSE]
MeasureVideo(u)   == upload' = [upload EXCEPT ![u].at = "poster", ![u].running = FALSE]
ExtractPoster(u)  == FileDone(u, 2)
ProcessExits(u) ==
    /\ upload[u].running
    /\ processes' = processes - 1
    /\ CASE At(u, "probe")     -> ProbeVideo(u)
         [] At(u, "transcode") -> TranscodeVideo(u)
         [] At(u, "measure")   -> MeasureVideo(u)
         [] At(u, "poster")    -> ExtractPoster(u)
    /\ UNCHANGED <<bucket, lastKey, rows, picture, account, purse, published, enqueued,
                   mishaps, mayLeak, mayLose>>

(* A process that fails or runs out of time ends the request with a 400;   *)
(* only the poster can be done without.                                    *)
VideoFails(u) == IF At(u, "poster") THEN FileDone(u, 1) ELSE Over(u)
ProcessFails(u) ==
    /\ upload[u].running /\ processes' = processes - 1
    /\ VideoFails(u)
    /\ UNCHANGED <<bucket, lastKey, rows, picture, account, purse, published, enqueued,
                   mishaps, mayLeak, mayLose>>
TimeoutAbandons(u) ==        \* mutant: the slot is freed, the process runs on
    /\ upload[u].running
    /\ VideoFails(u)
    /\ UNCHANGED <<bucket, lastKey, rows, picture, account, purse, published, enqueued,
                   processes, mishaps, mayLeak, mayLose>>
ProcessTimesOut(u) ==        \* killed and waited for, inside the semaphore
    /\ upload[u].running /\ processes' = processes - 1
    /\ VideoFails(u)
    /\ UNCHANGED <<bucket, lastKey, rows, picture, account, purse, published, enqueued,
                   mishaps, mayLeak, mayLose>>

------------------------------------------------------------------------------
(* POST /posts: spend, then store, then commit, then enqueue.              *)
SpendTokens(u) ==
    /\ At(u, "process") /\ upload[u].todo = << >>
    /\ IF upload[u].kind # "post" THEN purse' = purse /\ Move(u, "put")
       ELSE IF purse > 0 THEN purse' = purse - 1 /\ Move(u, "put")
       ELSE purse' = purse /\ Over(u)                      \* 402
    /\ UNCHANGED <<bucket, lastKey, rows, picture, account, published, enqueued, processes,
                   mishaps, mayLeak, mayLose>>

(* One attempt of one PUT.  The key is chosen once; an attempt that failed *)
(* may have written the object all the same.                               *)
KeyOf(u)     == IF upload[u].key = 0 THEN lastKey + 1 ELSE upload[u].key
Putting(u)   ==
    /\ At(u, "put") /\ upload[u].puts > 0 /\ KeyOf(u) <= MaxKeys
    /\ lastKey' = IF upload[u].key = 0 THEN lastKey + 1 ELSE lastKey
PutSucceeds(u) ==
    /\ Putting(u)
    /\ bucket' = bucket \cup {KeyOf(u)}
    /\ upload' = [upload EXCEPT ![u].puts = @ - 1, ![u].key = 0, ![u].attempt = 1,
                                ![u].keys = @ \cup {KeyOf(u)}]
    /\ UNCHANGED <<rows, picture, account, purse, published, enqueued, processes, mishaps,
                   mayLeak, mayLose>>
PutRetries(u, wrote) ==      \* unreachable or overloaded, and _backoff has another attempt
    /\ Putting(u) /\ upload[u].attempt < MaxAttempts
    /\ bucket' = bucket \cup IF wrote THEN {KeyOf(u)} ELSE {}
    /\ upload' = [upload EXCEPT ![u].key = KeyOf(u), ![u].attempt = @ + 1]
    /\ UNCHANGED <<rows, picture, account, purse, published, enqueued, processes, mishaps,
                   mayLeak, mayLose>>
PutFailsOn(u, wrote) ==      \* mutant: a failed upload is taken for a stored one
    /\ Putting(u) /\ Mishap
    /\ bucket' = bucket \cup IF wrote THEN {KeyOf(u)} ELSE {}
    /\ upload' = [upload EXCEPT ![u].puts = @ - 1, ![u].key = 0, ![u].attempt = 1,
                                ![u].keys = @ \cup {KeyOf(u)}]
    /\ UNCHANGED <<rows, picture, account, purse, published, enqueued, processes,
                   mayLeak, mayLose>>
PutFails(u, wrote) ==        \* StorageError: what was written before is deleted, a 503
    /\ Putting(u) /\ Mishap
    /\ bucket' = bucket \cup IF wrote THEN {KeyOf(u)} ELSE {}
    /\ CleanUp(u, upload[u].keys)
    /\ mayLeak' = (mayLeak \/ KeyOf(u) \in bucket')
    /\ mayLose' = (mayLose \/ upload[u].kind = "post")     \* the token is not given back
    /\ UNCHANGED <<rows, picture, account, purse, published, enqueued, processes>>

------------------------------------------------------------------------------
Stored(u) == At(u, "put") /\ upload[u].puts = 0

CommitPost(u) ==
    /\ Stored(u) /\ upload[u].kind = "post" /\ account
    /\ rows' = rows \cup {[kind |-> "post", keys |-> upload[u].keys]}
    /\ published' = published + 1
    /\ upload' = [upload EXCEPT ![u] = [NoUpload EXCEPT !.at = "enqueue"]]
    /\ UNCHANGED <<bucket, lastKey, picture, account, purse, enqueued, processes, mishaps,
                   mayLeak, mayLose>>
EnqueueOperation(u) ==
    /\ At(u, "enqueue")
    /\ enqueued' = enqueued + 1
    /\ Over(u)
    /\ UNCHANGED <<bucket, lastKey, rows, picture, account, purse, published, processes,
                   mishaps, mayLeak, mayLose>>
(* The feedback modelled is signed: its row names the account.  Anonymous  *)
(* feedback names nobody, and commits whether or not the account is there. *)
CommitFeedback(u) ==
    /\ Stored(u) /\ upload[u].kind = "feedback" /\ account
    /\ rows' = rows \cup {[kind |-> "feedback", keys |-> upload[u].keys]}
    /\ Over(u)
    /\ UNCHANGED <<bucket, lastKey, picture, account, purse, published, enqueued, processes,
                   mishaps, mayLeak, mayLose>>
(* Upload, commit, and only then delete the picture that was there when    *)
(* the request began.                                                      *)
CommitPictureKeepsOld(u) ==  \* mutant: the replaced picture's object stays
    /\ Stored(u) /\ upload[u].kind = "picture" /\ account
    /\ \E key \in upload[u].keys : picture' = key
    /\ Over(u)
    /\ UNCHANGED <<bucket, lastKey, rows, account, purse, published, enqueued, processes,
                   mishaps, mayLeak, mayLose>>
CommitPicture(u) ==
    /\ Stored(u) /\ upload[u].kind = "picture" /\ account
    /\ \E key \in upload[u].keys : picture' = key
    /\ CleanUp(u, {upload[u].previous} \ {0})
    /\ UNCHANGED <<bucket, lastKey, rows, account, purse, published, enqueued, processes,
                   mishaps, mayLeak, mayLose>>
RemovePicture(u) ==          \* no picture loaded: the column is not written
    /\ At(u, "commit") /\ upload[u].kind = "remove" /\ account
    /\ picture' = IF upload[u].previous = 0 THEN picture ELSE 0
    /\ CleanUp(u, {upload[u].previous} \ {0})
    /\ UNCHANGED <<bucket, lastKey, rows, account, purse, published, enqueued, processes,
                   mishaps, mayLeak, mayLose>>
(* DELETE /users/me: the posts it read, or none of them; a post that was   *)
(* published since loses its author.                                       *)
DeleteAccount(u, withPosts) ==
    LET gone == IF withPosts THEN upload[u].mine ELSE {}
    IN /\ At(u, "commit") /\ upload[u].kind = "delete"
       /\ account' = FALSE /\ picture' = 0 /\ rows' = rows \ gone
       /\ CleanUp(u, ({upload[u].previous} \ {0}) \cup UNION {row.keys : row \in gone})
       /\ UNCHANGED <<bucket, lastKey, purse, published, enqueued, processes, mishaps,
                      mayLeak, mayLose>>

(* A commit fails, of itself or because the account it names is gone: the  *)
(* objects that were stored are nobody's, and the token is spent.          *)
CommitFails(u) ==
    /\ Stored(u) \/ At(u, "commit")
    /\ IF account THEN Mishap
       ELSE upload[u].kind # "delete" /\ mishaps' = mishaps
    /\ mayLeak' = (mayLeak \/ upload[u].keys # {})
    /\ mayLose' = (mayLose \/ upload[u].kind = "post")
    /\ Over(u)
    /\ UNCHANGED <<bucket, lastKey, rows, picture, account, purse, published, enqueued, processes>>

(* delete_object, best effort: a failure is logged.                        *)
DeleteObject(u, key, deleted) ==
    /\ At(u, "clean up") /\ key \in upload[u].keys
    /\ IF deleted THEN bucket' = bucket \ {key} /\ UNCHANGED <<mishaps, mayLeak>>
       ELSE Mishap /\ mayLeak' = TRUE /\ UNCHANGED bucket
    /\ upload' = [upload EXCEPT ![u].keys = @ \ {key}]
    /\ UNCHANGED <<lastKey, rows, picture, account, purse, published, enqueued, processes, mayLose>>
CleanedUp(u) ==
    /\ At(u, "clean up") /\ upload[u].keys = {}
    /\ Over(u)
    /\ UNCHANGED <<bucket, lastKey, rows, picture, account, purse, published, enqueued,
                   processes, mishaps, mayLeak, mayLose>>

(* The process restarts: what was in flight is forgotten.                  *)
BackendRestarts ==
    /\ Mishap /\ \E u \in Uploads : ~At(u, "idle")
    /\ upload' = [u \in Uploads |-> NoUpload] /\ processes' = 0
    /\ mayLeak' = (mayLeak \/ \E u \in Uploads : upload[u].keys # {} \/ upload[u].key # 0)
    /\ mayLose' = (mayLose \/ \E u \in Uploads : At(u, "enqueue")
                                 \/ (upload[u].kind = "post" /\ At(u, "put")))
    /\ UNCHANGED <<bucket, lastKey, rows, picture, account, purse, published, enqueued>>

MediaNext ==
    \/ \E u \in Uploads :
          \/ \E s \in Submissions : Submit(u, s)
          \/ ProcessFile(u) \/ StartProcess(u) \/ ProcessExits(u)
          \/ ProcessFails(u) \/ ProcessTimesOut(u)
          \/ SpendTokens(u) \/ PutSucceeds(u)
          \/ \E wrote \in BOOLEAN : PutRetries(u, wrote) \/ PutFails(u, wrote)
          \/ CommitPost(u) \/ EnqueueOperation(u) \/ CommitFeedback(u)
          \/ CommitPicture(u) \/ RemovePicture(u)
          \/ \E withPosts \in BOOLEAN : DeleteAccount(u, withPosts)
          \/ CommitFails(u) \/ CleanedUp(u)
          \/ \E key \in upload[u].keys, deleted \in BOOLEAN : DeleteObject(u, key, deleted)
    \/ BackendRestarts

MediaSpec == MediaInit /\ [][MediaNext]_mediaVars

------------------------------------------------------------------------------
(* Orphaned bytes are the cheap failure; a row that names an object that   *)
(* is not there is not, and never happens: not when an upload fails, when  *)
(* pictures replace each other, or when an account goes meanwhile.         *)
ReferencedExists == Referenced \subseteq bucket

(* Between requests nothing is left over: every object is named by a row,  *)
(* and every token bought a post that was handed to the worker - but for   *)
(* what a failing bucket or commit, a restart, or two requests about the   *)
(* profile picture at once may have left.  A bad file never costs a token. *)
NothingLeftOver ==
    (\A u \in Uploads : At(u, "idle")) =>
        /\ mayLeak \/ bucket = Referenced
        /\ mayLose \/ (StartTokens - purse = published /\ enqueued = published)

(* As many ffmpeg processes are alive as hold a slot, timed out ones       *)
(* included: the semaphore bounds what it is there to bound.               *)
ProcessesBounded == processes = Cardinality(Running) /\ processes <= FfmpegSlots
=============================================================================
