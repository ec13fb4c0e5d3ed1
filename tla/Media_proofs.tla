---------------------------- MODULE Media_proofs ----------------------------
(***************************************************************************)
(* What holds of Media for any number of requests, files, objects, slots,  *)
(* attempts and failures: a row never names an object that is not there,   *)
(* no more processes are alive than the semaphore has slots, and between   *)
(* requests nothing is left over.  Of the export beside them (Export): it  *)
(* is one more reader of that system, and accounts for every object.       *)
(***************************************************************************)
EXTENDS Export, SequenceTheorems, FiniteSetTheorems, TLAPS

------------------------------------------------------------------------------
(* Types *)

Stages == VideoStages \cup {"idle", "process", "put", "commit", "enqueue", "clean up"}
Keys   == Nat \ {0}
Row    == [kind : {"post", "feedback"}, keys : SUBSET Keys]
UploadType ==
    [at : Stages, kind : Kinds \cup {"none"}, todo : Seq(Files), running : BOOLEAN, puts : Int,
     key : Nat, attempt : Int, keys : SUBSET Keys, previous : Nat, mine : SUBSET Row]

TypeInv ==
    /\ lastKey \in Nat /\ rows \subseteq Row /\ picture \in Nat
    /\ upload \in [Uploads -> UploadType]
    /\ \A u \in Uploads : upload[u].at \in VideoStages => upload[u].todo # << >>

\* Only this request moves.
Alone(u) ==
    /\ upload' \in [Uploads -> UploadType]
    /\ \A v \in Uploads : v # u => upload'[v] = upload[v]
\* What a request owns and has seen stays, ...
SameKeys(u) ==
    /\ upload'[u].keys = upload[u].keys /\ upload'[u].key = upload[u].key
    /\ upload'[u].previous = upload[u].previous /\ upload'[u].mine = upload[u].mine
SameOrder(u) ==
    /\ upload'[u].kind = upload[u].kind /\ upload'[u].puts = upload[u].puts
    /\ upload'[u].todo = upload[u].todo
\* ... or is forgotten.
Forgotten(u) ==
    /\ upload'[u].keys = {} /\ upload'[u].key = 0
    /\ upload'[u].previous = 0 /\ upload'[u].mine = {}

------------------------------------------------------------------------------
(* What the steps do to their request. *)

\* An idle request is well typed.
LEMMA NoUploadTyped ==
  /\ NoUpload \in UploadType /\ NoUpload.at = "idle" /\ NoUpload.keys = {} /\ NoUpload.key = 0
  /\ NoUpload.previous = 0 /\ NoUpload.mine = {} /\ ~NoUpload.running
  /\ NoUpload.kind = "none" /\ NoUpload.puts = 0 /\ NoUpload.todo = << >>
<1>1. << >> \in Seq(Files)
  BY EmptySeq
<1>2. QED
  BY <1>1 DEF NoUpload, UploadType, Stages, VideoStages, Kinds

\* It is replaced, ...
LEMMA Replaced ==
  ASSUME TypeInv, NEW u \in Uploads, NEW new \in UploadType,
         upload' = [upload EXCEPT ![u] = new]
  PROVE  Alone(u) /\ upload'[u] = new
BY DEF TypeInv, Alone

\* ... it is over, ...
LEMMA Ended ==
  ASSUME TypeInv, NEW u \in Uploads, Over(u)
  PROVE  /\ Alone(u) /\ Forgotten(u) /\ upload'[u].at = "idle" /\ ~upload'[u].running
         /\ upload'[u] = NoUpload
<1>1. Alone(u) /\ upload'[u] = NoUpload
  BY NoUploadTyped, Replaced DEF Over
<1>2. QED
  BY <1>1, NoUploadTyped DEF Forgotten

\* ... it goes on, ...
LEMMA Moved ==
  ASSUME TypeInv, NEW u \in Uploads, NEW at \in Stages, Move(u, at)
  PROVE  /\ Alone(u) /\ SameKeys(u) /\ upload'[u].at = at
         /\ upload'[u].running = upload[u].running /\ upload'[u].todo = upload[u].todo
         /\ SameOrder(u)
<1> DEFINE new == [upload[u] EXCEPT !.at = at]
<1>1. upload[u] \in UploadType
  BY DEF TypeInv
<1>2. /\ new \in UploadType /\ new.at = at /\ new.keys = upload[u].keys
      /\ new.key = upload[u].key /\ new.previous = upload[u].previous
      /\ new.mine = upload[u].mine /\ new.running = upload[u].running
      /\ new.todo = upload[u].todo /\ new.kind = upload[u].kind /\ new.puts = upload[u].puts
  BY <1>1 DEF UploadType
<1>3. upload' = [upload EXCEPT ![u] = new]
  BY <1>1 DEF Move, UploadType
<1> HIDE DEF new
<1>4. QED
  BY <1>2, <1>3, Replaced DEF SameKeys, SameOrder

\* ... it starts or ends a process on its way, ...
LEMMA Turned ==
  ASSUME TypeInv, NEW u \in Uploads, NEW at \in Stages, NEW running \in BOOLEAN,
         upload' = [upload EXCEPT ![u].at = at, ![u].running = running]
  PROVE  /\ Alone(u) /\ SameKeys(u) /\ upload'[u].at = at
         /\ upload'[u].running = running /\ upload'[u].todo = upload[u].todo
         /\ SameOrder(u)
<1> DEFINE new == [upload[u] EXCEPT !.at = at, !.running = running]
<1>1. upload[u] \in UploadType
  BY DEF TypeInv
<1>2. /\ new \in UploadType /\ new.at = at /\ new.keys = upload[u].keys
      /\ new.key = upload[u].key /\ new.previous = upload[u].previous
      /\ new.mine = upload[u].mine /\ new.running = running
      /\ new.todo = upload[u].todo /\ new.kind = upload[u].kind /\ new.puts = upload[u].puts
  BY <1>1 DEF UploadType
<1>3. upload' = [upload EXCEPT ![u] = new]
  BY <1>1 DEF UploadType
<1> HIDE DEF new
<1>4. QED
  BY <1>2, <1>3, Replaced DEF SameKeys, SameOrder

\* A request that starts a process keeps its place and its keys.
LEMMA Started ==
  ASSUME TypeInv, NEW u \in Uploads, upload' = [upload EXCEPT ![u].running = TRUE]
  PROVE  /\ Alone(u) /\ SameKeys(u) /\ upload'[u].at = upload[u].at
         /\ upload'[u].running /\ upload'[u].todo = upload[u].todo /\ SameOrder(u)
<1> DEFINE new == [upload[u] EXCEPT !.running = TRUE]
<1>1. upload[u] \in UploadType
  BY DEF TypeInv
<1>2. /\ new \in UploadType /\ new.at = upload[u].at /\ new.keys = upload[u].keys
      /\ new.key = upload[u].key /\ new.previous = upload[u].previous
      /\ new.mine = upload[u].mine /\ new.running = TRUE /\ new.todo = upload[u].todo
      /\ new.kind = upload[u].kind /\ new.puts = upload[u].puts
  BY <1>1 DEF UploadType
<1>3. upload' = [upload EXCEPT ![u] = new]
  BY <1>1 DEF UploadType
<1> HIDE DEF new
<1>4. QED
  BY <1>2, <1>3, Replaced DEF SameKeys, SameOrder

\* ... it is done with a file, ...
LEMMA FileIsDone ==
  ASSUME TypeInv, NEW u \in Uploads, NEW n \in Nat, FileDone(u, n), upload[u].todo # << >>
  PROVE  /\ Alone(u) /\ SameKeys(u) /\ upload'[u].at = "process" /\ ~upload'[u].running
         /\ upload'[u].kind = upload[u].kind /\ upload'[u].puts = upload[u].puts + n
         /\ upload'[u].todo = Tail(upload[u].todo)
<1> DEFINE rest == Tail(upload[u].todo)
           sum == upload[u].puts + n
           new == [upload[u] EXCEPT !.at = "process", !.running = FALSE, !.todo = rest, !.puts = sum]
<1>1. upload[u] \in UploadType
  BY DEF TypeInv
<1>2. rest \in Seq(Files) /\ sum \in Int
  <2>1. upload[u].todo \in Seq(Files) /\ upload[u].puts \in Int
    BY <1>1 DEF UploadType
  <2>2. QED
    BY <2>1, HeadTailProperties
<1>3. upload' = [upload EXCEPT ![u] = new]
  BY <1>1 DEF FileDone, UploadType
<1> HIDE DEF rest, sum
<1>4. /\ new \in UploadType /\ new.at = "process" /\ new.keys = upload[u].keys
      /\ new.key = upload[u].key /\ new.previous = upload[u].previous
      /\ new.mine = upload[u].mine /\ new.running = FALSE /\ new.kind = upload[u].kind
      /\ new.puts = sum /\ new.todo = rest
  BY <1>1, <1>2 DEF UploadType, Stages
<1> HIDE DEF new
<1>5. QED
  BY <1>3, <1>4, Replaced DEF SameKeys, sum, rest

\* ... or it has objects to delete, and nothing else.
LEMMA CleansUp ==
  ASSUME TypeInv, NEW u \in Uploads, NEW K \in SUBSET Keys, CleanUp(u, K)
  PROVE  /\ Alone(u) /\ upload'[u].at = "clean up" /\ upload'[u].keys = K
         /\ upload'[u].key = 0 /\ upload'[u].previous = 0 /\ upload'[u].mine = {}
         /\ ~upload'[u].running /\ upload'[u].kind = "none"
<1> DEFINE new == [NoUpload EXCEPT !.at = "clean up", !.keys = K]
<1>1. /\ new \in UploadType /\ new.at = "clean up" /\ new.keys = K /\ new.key = 0
      /\ new.previous = 0 /\ new.mine = {} /\ new.running = FALSE /\ new.kind = "none"
  BY NoUploadTyped DEF UploadType, Stages
<1>2. upload' = [upload EXCEPT ![u] = new]
  BY DEF CleanUp
<1> HIDE DEF new
<1>3. QED
  BY <1>1, <1>2, Replaced

------------------------------------------------------------------------------
(* The steps, as far as objects and processes go. *)

\* Only a clip has a process.
RunsInStages == \A u \in Uploads : upload[u].running => upload[u].at \in VideoStages

\* The steps that touch neither the bucket nor a row.
Local(u) ==
    \/ ProcessFile(u) \/ StartProcess(u)
    \/ ProcessExits(u) \/ ProcessFails(u) \/ ProcessTimesOut(u)
    \/ SpendTokens(u) \/ EnqueueOperation(u) \/ CommitFails(u) \/ CleanedUp(u)

\* A step leaves the count of processes alone, or adds its own, or ends it.
Counts(u) ==
    \/ processes' = processes /\ ~upload[u].running /\ ~upload'[u].running
    \/ /\ processes' = processes + 1 /\ ~upload[u].running /\ upload'[u].running
       /\ Cardinality(Running) < FfmpegSlots
    \/ processes' = processes - 1 /\ upload[u].running /\ ~upload'[u].running
Kept(u) ==
    \/ SameKeys(u) /\ upload[u].at # "clean up" /\ upload'[u].at # "clean up"
    \/ Forgotten(u)
Sound(u) ==
    /\ upload'[u].at \in VideoStages => upload'[u].todo # << >>
    /\ upload'[u].running => upload'[u].at \in VideoStages

\* They keep what the request owns, or forget it.
LEMMA LocalSteps ==
  ASSUME TypeInv, RunsInStages, NEW u \in Uploads, Local(u)
  PROVE  /\ UNCHANGED <<bucket, lastKey, rows, picture>>
         /\ Alone(u) /\ Kept(u) /\ Sound(u) /\ Counts(u)
<1> DEFINE Goal == /\ UNCHANGED <<bucket, lastKey, rows, picture>>
                   /\ Alone(u) /\ Kept(u) /\ Sound(u) /\ Counts(u)
<1>0. /\ upload[u] \in UploadType /\ upload[u].running \in BOOLEAN
      /\ upload[u].running => upload[u].at \in VideoStages
      /\ upload[u].at \in VideoStages => upload[u].todo # << >>
  BY DEF TypeInv, RunsInStages, UploadType
<1>a. ASSUME Over(u) PROVE /\ Alone(u) /\ Kept(u) /\ Sound(u)
                           /\ ~upload'[u].running /\ upload'[u].at = "idle"
  BY <1>a, Ended DEF Kept, Sound, VideoStages
<1>b. ASSUME NEW n \in Nat, FileDone(u, n), upload[u].todo # << >>, upload[u].at # "clean up"
      PROVE  Alone(u) /\ Kept(u) /\ Sound(u) /\ ~upload'[u].running
  BY <1>b, FileIsDone DEF Kept, Sound, VideoStages
<1>1. ASSUME ProcessFile(u) PROVE Goal
  <2>1. /\ UNCHANGED <<bucket, lastKey, rows, picture, processes>>
        /\ upload[u].at = "process" /\ upload[u].todo # << >>
        /\ FileDone(u, 1) \/ Move(u, "probe") \/ Over(u)
    BY <1>1 DEF ProcessFile, At
  <2>2. ~upload[u].running
    BY <1>0, <2>1 DEF VideoStages
  <2>3. CASE FileDone(u, 1)
    BY <1>0, <1>b, <2>1, <2>2, <2>3 DEF Counts
  <2>4. CASE Move(u, "probe")
    <3>1. /\ Alone(u) /\ SameKeys(u) /\ upload'[u].at = "probe"
          /\ upload'[u].running = upload[u].running /\ upload'[u].todo = upload[u].todo
      BY <2>4, Moved DEF Stages, VideoStages
    <3>2. QED
      BY <2>1, <2>2, <3>1 DEF Kept, Sound, Counts, VideoStages
  <2>5. CASE Over(u)
    BY <1>0, <1>a, <2>1, <2>2, <2>5 DEF Counts
  <2>6. QED
    BY <2>1, <2>3, <2>4, <2>5
<1>2. ASSUME StartProcess(u) PROVE Goal
  <2>1. /\ UNCHANGED <<bucket, lastKey, rows, picture>>
        /\ upload[u].at \in VideoStages /\ ~upload[u].running
        /\ Cardinality(Running) < FfmpegSlots /\ processes' = processes + 1
        /\ upload' = [upload EXCEPT ![u].running = TRUE]
    BY <1>2 DEF StartProcess
  <2>2. /\ Alone(u) /\ SameKeys(u) /\ upload'[u].at = upload[u].at
        /\ upload'[u].running /\ upload'[u].todo = upload[u].todo
    BY <2>1, Started
  <2>3. QED
    BY <1>0, <2>1, <2>2 DEF Kept, Sound, Counts, VideoStages
<1>3. ASSUME NEW at \in {"transcode", "measure", "poster"}, upload[u].at # "clean up",
             upload[u].todo # << >>,
             upload' = [upload EXCEPT ![u].at = at, ![u].running = FALSE]
      PROVE  Alone(u) /\ Kept(u) /\ Sound(u) /\ ~upload'[u].running
  <2>1. at \in Stages /\ at # "clean up"
    BY DEF Stages, VideoStages
  <2>2. QED
    BY <1>3, <2>1, Turned DEF Kept, Sound
<1>4. ASSUME ProcessExits(u) PROVE Goal
  <2>1. /\ UNCHANGED <<bucket, lastKey, rows, picture>> /\ processes' = processes - 1
        /\ upload[u].running
    BY <1>4 DEF ProcessExits
  <2>2. upload[u].at \in VideoStages /\ upload[u].todo # << >> /\ upload[u].at # "clean up"
    BY <1>0, <2>1 DEF VideoStages
  <2>3. \/ Over(u) \/ FileDone(u, 2)
        \/ upload' = [upload EXCEPT ![u].at = "transcode", ![u].running = FALSE]
        \/ upload' = [upload EXCEPT ![u].at = "measure", ![u].running = FALSE]
        \/ upload' = [upload EXCEPT ![u].at = "poster", ![u].running = FALSE]
    BY <1>4, <2>2 DEF ProcessExits, At, VideoStages, ProbeVideo, TranscodeVideo, MeasureVideo,
       ExtractPoster
  <2>4. Alone(u) /\ Kept(u) /\ Sound(u) /\ ~upload'[u].running
    BY <1>a, <1>b, <1>3, <2>2, <2>3
  <2>5. QED
    BY <2>1, <2>4 DEF Counts
<1>5. ASSUME ProcessFails(u) \/ ProcessTimesOut(u) PROVE Goal
  <2>1. /\ UNCHANGED <<bucket, lastKey, rows, picture>> /\ processes' = processes - 1
        /\ upload[u].running /\ (FileDone(u, 1) \/ Over(u))
    BY <1>5 DEF ProcessFails, ProcessTimesOut, VideoFails
  <2>2. upload[u].todo # << >> /\ upload[u].at # "clean up"
    BY <1>0, <2>1 DEF VideoStages
  <2>3. Alone(u) /\ Kept(u) /\ Sound(u) /\ ~upload'[u].running
    BY <1>a, <1>b, <2>1, <2>2
  <2>4. QED
    BY <2>1, <2>3 DEF Counts
<1>6. ASSUME SpendTokens(u) PROVE Goal
  <2>1. /\ UNCHANGED <<bucket, lastKey, rows, picture, processes>> /\ upload[u].at = "process"
        /\ Move(u, "put") \/ Over(u)
    BY <1>6 DEF SpendTokens, At
  <2>2. ~upload[u].running
    BY <1>0, <2>1 DEF VideoStages
  <2>3. CASE Move(u, "put")
    <3>1. /\ Alone(u) /\ SameKeys(u) /\ upload'[u].at = "put"
          /\ upload'[u].running = upload[u].running
      BY <2>3, Moved DEF Stages
    <3>2. QED
      BY <2>1, <2>2, <3>1 DEF Kept, Sound, Counts, VideoStages
  <2>4. CASE Over(u)
    BY <1>0, <1>a, <2>1, <2>2, <2>4 DEF Counts
  <2>5. QED
    BY <2>1, <2>3, <2>4
<1>7. ASSUME EnqueueOperation(u) \/ CommitFails(u) \/ CleanedUp(u) PROVE Goal
  <2>1. /\ UNCHANGED <<bucket, lastKey, rows, picture, processes>> /\ Over(u)
        /\ upload[u].at \in {"enqueue", "put", "commit", "clean up"}
    BY <1>7 DEF EnqueueOperation, CommitFails, CleanedUp, Stored, At
  <2>2. ~upload[u].running
    BY <1>0, <2>1 DEF VideoStages
  <2>3. QED
    BY <1>0, <1>a, <2>1, <2>2 DEF Counts
<1>8. QED
  BY <1>1, <1>2, <1>4, <1>5, <1>6, <1>7 DEF Local

\* The others are not about processes.
NotProcesses(u) == Alone(u) /\ Sound(u) /\ UNCHANGED processes
                   /\ ~upload[u].running /\ ~upload'[u].running

\* Outside the stages of a clip, nothing runs and nothing is said of `todo`.
LEMMA Outside ==
  ASSUME TypeInv, RunsInStages, NEW u \in Uploads, upload[u].at \notin VideoStages,
         upload'[u].at \notin VideoStages, upload'[u].running \in {FALSE, upload[u].running},
         Alone(u), UNCHANGED processes
  PROVE  NotProcesses(u)
BY DEF RunsInStages, NotProcesses, Sound

\* A request begins with nothing of its own, and a look at what there is.
LEMMA Submitted ==
  ASSUME TypeInv, RunsInStages, MediaAssumption,
         NEW u \in Uploads, NEW s \in Submissions, Submit(u, s)
  PROVE  /\ UNCHANGED <<bucket, lastKey, rows, picture>> /\ NotProcesses(u)
         /\ upload'[u].at # "clean up" /\ upload'[u].keys = {} /\ upload'[u].key = 0
         /\ upload'[u].previous \in {0, picture} /\ upload'[u].mine \subseteq rows
         /\ s.kind \in PictureKinds => upload'[u].previous = picture
         /\ upload'[u].kind = s.kind /\ upload'[u].todo = s.files /\ upload'[u].puts = 0
         /\ upload[u].at = "idle" /\ upload'[u].at \in {"commit", "process"}
<1> DEFINE at == IF s.kind \in {"remove", "delete"} THEN "commit" ELSE "process"
           previous == IF s.kind \in PictureKinds THEN picture ELSE 0
           mine == IF s.kind = "delete" THEN MyPosts ELSE {}
           new == [NoUpload EXCEPT !.at = at, !.kind = s.kind, !.todo = s.files,
                                   !.previous = previous, !.mine = mine]
<1>0. s.kind \in Kinds /\ s.files \in Seq(Files)
  BY DEF MediaAssumption
<1>1. /\ at \in {"commit", "process"} /\ previous \in {0, picture} /\ mine \subseteq rows
      /\ s.kind \in Kinds /\ s.files \in Seq(Files) /\ previous \in Nat /\ mine \in SUBSET Row
  BY <1>0 DEF MyPosts, TypeInv
<1>a. s.kind \in PictureKinds => previous = picture
  OBVIOUS
<1>2. /\ UNCHANGED <<bucket, lastKey, rows, picture, processes>> /\ upload[u].at = "idle"
      /\ upload' = [upload EXCEPT ![u] = new]
  BY DEF Submit, At
<1> HIDE DEF at, previous, mine
<1>3. /\ new \in UploadType /\ new.at = at /\ new.keys = {} /\ new.key = 0
      /\ new.previous = previous /\ new.mine = mine /\ new.running = FALSE
      /\ new.kind = s.kind /\ new.todo = s.files /\ new.puts = 0
  BY <1>1, NoUploadTyped DEF UploadType, Stages
<1> HIDE DEF new
<1>4. Alone(u) /\ upload'[u] = new
  BY <1>2, <1>3, Replaced
<1>5. NotProcesses(u)
  BY <1>1, <1>2, <1>3, <1>4, Outside DEF VideoStages
<1>6. QED
  BY <1>1, <1>a, <1>2, <1>3, <1>4, <1>5

\* An attempt to write is about the request's key, or a fresh one.
LEMMA Puts ==
  ASSUME TypeInv, NEW u \in Uploads, Putting(u)
  PROVE  /\ KeyOf(u) \in Keys /\ KeyOf(u) \in {upload[u].key, lastKey + 1}
         /\ KeyOf(u) # 0 /\ upload[u].at = "put" /\ lastKey' \in Nat /\ lastKey <= lastKey'
         /\ upload[u].key <= lastKey => KeyOf(u) <= lastKey'
<1>1. upload[u].key \in Nat /\ lastKey \in Nat
  BY DEF TypeInv, UploadType
<1>2. QED
  BY <1>1 DEF Putting, KeyOf, At, Keys

\* It writes, and the object is the request's, or it will try again.
LEMMA PutSteps ==
  ASSUME TypeInv, RunsInStages, NEW u \in Uploads,
         PutSucceeds(u) \/ \E wrote \in BOOLEAN : PutRetries(u, wrote)
  PROVE  /\ UNCHANGED <<rows, picture>> /\ NotProcesses(u) /\ Putting(u)
         /\ upload'[u].at = "put"
         /\ upload'[u].previous = upload[u].previous /\ upload'[u].mine = upload[u].mine
         /\ upload'[u].key \in {0, KeyOf(u)} /\ bucket \subseteq bucket'
         /\ \/ upload'[u].keys = upload[u].keys
            \/ upload'[u].keys = upload[u].keys \cup {KeyOf(u)} /\ KeyOf(u) \in bucket'
         /\ bucket' \subseteq bucket \cup {KeyOf(u)}
         /\ upload'[u].kind = upload[u].kind /\ upload'[u].todo = upload[u].todo
         /\ \/ /\ upload'[u].puts = upload[u].puts - 1 /\ upload'[u].key = 0
               /\ upload'[u].keys = upload[u].keys \cup {KeyOf(u)}
            \/ /\ upload'[u].puts = upload[u].puts /\ upload'[u].key = KeyOf(u)
               /\ upload'[u].keys = upload[u].keys
<1> DEFINE K == KeyOf(u)
<1>0. /\ Putting(u) /\ UNCHANGED <<rows, picture, processes>>
  BY DEF PutSucceeds, PutRetries
<1>1. K \in Keys /\ upload[u].at = "put"
  BY <1>0, Puts
<1>2. upload[u] \in UploadType
  BY DEF TypeInv
<1>3. CASE PutSucceeds(u)
  <2> DEFINE puts == upload[u].puts - 1
             keys == upload[u].keys \cup {K}
             none == 0
             first == 1
             new == [upload[u] EXCEPT !.puts = puts, !.key = none, !.attempt = first, !.keys = keys]
  <2>1. bucket' = bucket \cup {K} /\ upload' = [upload EXCEPT ![u] = new]
    BY <1>2, <1>3 DEF PutSucceeds, UploadType
  <2>2. puts \in Int /\ keys \in SUBSET Keys /\ none \in Nat /\ first \in Int
    BY <1>1, <1>2 DEF UploadType
  <2> HIDE DEF puts, keys, none, first
  <2>3. /\ new \in UploadType /\ new.at = upload[u].at /\ new.keys = keys /\ new.key = none
        /\ new.previous = upload[u].previous /\ new.mine = upload[u].mine
        /\ new.running = upload[u].running /\ new.puts = puts
        /\ new.kind = upload[u].kind /\ new.todo = upload[u].todo
    BY <1>2, <2>2 DEF UploadType
  <2> HIDE DEF new
  <2>4. Alone(u) /\ upload'[u] = new
    BY <2>1, <2>3, Replaced
  <2>5. NotProcesses(u)
    BY <1>0, <1>1, <2>3, <2>4, Outside DEF VideoStages
  <2>6. keys = upload[u].keys \cup {K} /\ none = 0 /\ puts = upload[u].puts - 1
    BY DEF keys, none, puts
  <2>7. bucket' \subseteq bucket \cup {K} /\ bucket \subseteq bucket' /\ K \in bucket'
    BY <2>1
  <2>8. QED
    BY <1>0, <1>1, <2>3, <2>4, <2>5, <2>6, <2>7
<1>4. ASSUME NEW wrote \in BOOLEAN, PutRetries(u, wrote)
      PROVE  /\ upload'[u].at = "put" /\ NotProcesses(u)
             /\ upload'[u].previous = upload[u].previous /\ upload'[u].mine = upload[u].mine
             /\ upload'[u].key = K /\ bucket \subseteq bucket' /\ bucket' \subseteq bucket \cup {K}
             /\ upload'[u].keys = upload[u].keys /\ upload'[u].puts = upload[u].puts
             /\ upload'[u].kind = upload[u].kind /\ upload'[u].todo = upload[u].todo
  <2> DEFINE attempt == upload[u].attempt + 1
             new == [upload[u] EXCEPT !.key = K, !.attempt = attempt]
  <2>a. bucket \subseteq bucket' /\ bucket' \subseteq bucket \cup {K}
    BY <1>4 DEF PutRetries
  <2>1. upload' = [upload EXCEPT ![u] = new]
    BY <1>2, <1>4 DEF PutRetries, UploadType
  <2>2. attempt \in Int /\ K \in Nat
    BY <1>1, <1>2 DEF UploadType, Keys
  <2> HIDE DEF attempt, K
  <2>3. /\ new \in UploadType /\ new.at = upload[u].at /\ new.keys = upload[u].keys
        /\ new.key = K /\ new.previous = upload[u].previous /\ new.mine = upload[u].mine
        /\ new.running = upload[u].running /\ new.puts = upload[u].puts
        /\ new.kind = upload[u].kind /\ new.todo = upload[u].todo
    BY <1>2, <2>2 DEF UploadType
  <2> HIDE DEF new
  <2>4. Alone(u) /\ upload'[u] = new
    BY <2>1, <2>3, Replaced
  <2>5. NotProcesses(u)
    BY <1>0, <1>1, <2>3, <2>4, Outside DEF VideoStages
  <2>6. QED
    BY <1>1, <2>a, <2>3, <2>4, <2>5
<1>5. QED
  BY <1>0, <1>3, <1>4

\* It gives up, and deletes what it had written.
LEMMA GivesUp ==
  ASSUME TypeInv, RunsInStages, NEW u \in Uploads, NEW wrote \in BOOLEAN, PutFails(u, wrote)
  PROVE  /\ UNCHANGED <<rows, picture>> /\ NotProcesses(u) /\ Putting(u)
         /\ bucket \subseteq bucket'
         /\ upload'[u].at = "clean up" /\ upload'[u].keys = upload[u].keys
         /\ upload'[u].key = 0 /\ upload'[u].previous = 0 /\ upload'[u].mine = {}
         /\ upload'[u].kind = "none"
<1>1. /\ UNCHANGED <<rows, picture, processes>> /\ Putting(u) /\ bucket \subseteq bucket'
      /\ CleanUp(u, upload[u].keys)
  BY DEF PutFails
<1>2. upload[u].keys \in SUBSET Keys
  BY DEF TypeInv, UploadType
<1>3. /\ Alone(u) /\ upload'[u].at = "clean up" /\ upload'[u].keys = upload[u].keys
      /\ upload'[u].key = 0 /\ upload'[u].previous = 0 /\ upload'[u].mine = {}
      /\ ~upload'[u].running /\ upload'[u].kind = "none"
  BY <1>1, <1>2, CleansUp
<1>4. upload[u].at = "put" /\ upload'[u].running = FALSE
  BY <1>1, <1>3 DEF Putting, At, Alone, UploadType
<1>5. NotProcesses(u)
  BY <1>1, <1>3, <1>4, Outside DEF VideoStages
<1>6. QED
  BY <1>1, <1>3, <1>5

\* A row gets the keys of its request, which is over.
LEMMA RowCommitted ==
  ASSUME TypeInv, RunsInStages, NEW u \in Uploads, CommitPost(u) \/ CommitFeedback(u)
  PROVE  /\ UNCHANGED <<bucket, lastKey, picture>> /\ NotProcesses(u) /\ Forgotten(u)
         /\ upload[u].at = "put"
         /\ \E row \in Row : rows' = rows \cup {row} /\ row.keys = upload[u].keys
         /\ upload'[u].kind = "none"
         /\ upload'[u].at = IF CommitPost(u) THEN "enqueue" ELSE "idle"
<1>0. upload[u].keys \in SUBSET Keys
  BY DEF TypeInv, UploadType
<1>1. /\ UNCHANGED <<bucket, lastKey, picture, processes>> /\ upload[u].at = "put"
  BY DEF CommitPost, CommitFeedback, Stored, At
<1>2. CASE CommitPost(u)
  <2> DEFINE new == [NoUpload EXCEPT !.at = "enqueue"]
             row == [kind |-> "post", keys |-> upload[u].keys]
  <2>1. row \in Row /\ row.keys = upload[u].keys /\ rows' = rows \cup {row}
    BY <1>0, <1>2 DEF CommitPost, Row
  <2>2. /\ new \in UploadType /\ new.at = "enqueue" /\ new.keys = {} /\ new.key = 0
        /\ new.previous = 0 /\ new.mine = {} /\ new.running = FALSE /\ new.kind = "none"
    BY NoUploadTyped DEF UploadType, Stages
  <2>3. upload' = [upload EXCEPT ![u] = new]
    BY <1>2 DEF CommitPost
  <2> HIDE DEF new, row
  <2>4. Alone(u) /\ upload'[u] = new
    BY <2>2, <2>3, Replaced
  <2>5. NotProcesses(u)
    BY <1>1, <2>2, <2>4, Outside DEF VideoStages
  <2>6. QED
    BY <1>1, <1>2, <2>1, <2>2, <2>4, <2>5 DEF Forgotten
<1>3. CASE CommitFeedback(u)
  <2> DEFINE row == [kind |-> "feedback", keys |-> upload[u].keys]
  <2>1. row \in Row /\ row.keys = upload[u].keys /\ rows' = rows \cup {row} /\ Over(u)
    BY <1>0, <1>3 DEF CommitFeedback, Row
  <2> HIDE DEF row
  <2>2. /\ Alone(u) /\ Forgotten(u) /\ upload'[u].at = "idle" /\ ~upload'[u].running
        /\ upload'[u].running = FALSE /\ upload'[u].kind = "none"
    BY <2>1, Ended, NoUploadTyped DEF Alone, UploadType
  <2>3. NotProcesses(u)
    BY <1>1, <2>2, Outside DEF VideoStages
  <2>a. ~CommitPost(u)
    BY <1>3 DEF CommitPost, CommitFeedback
  <2>4. QED
    BY <1>1, <2>1, <2>2, <2>3, <2>a
<1>4. QED
  BY <1>2, <1>3

\* A request that cleans up has done with processes.
LEMMA Cleaning ==
  ASSUME TypeInv, RunsInStages, NEW u \in Uploads, NEW K \in SUBSET Keys, CleanUp(u, K),
         upload[u].at \notin VideoStages, UNCHANGED processes
  PROVE  /\ NotProcesses(u) /\ upload'[u].at = "clean up" /\ upload'[u].keys = K
         /\ upload'[u].key = 0 /\ upload'[u].previous = 0 /\ upload'[u].mine = {}
         /\ upload'[u].kind = "none"
<1>1. /\ Alone(u) /\ upload'[u].at = "clean up" /\ upload'[u].keys = K
      /\ upload'[u].key = 0 /\ upload'[u].previous = 0 /\ upload'[u].mine = {}
      /\ ~upload'[u].running /\ upload'[u].kind = "none"
  BY CleansUp
<1>2. upload'[u].running = FALSE /\ upload'[u].at \notin VideoStages
  BY <1>1 DEF Alone, UploadType, VideoStages
<1>3. QED
  BY <1>1, <1>2, Outside

\* The picture is one of the request's objects; the one it replaces goes.
LEMMA PictureCommitted ==
  ASSUME TypeInv, RunsInStages, NEW u \in Uploads, CommitPicture(u)
  PROVE  /\ UNCHANGED <<bucket, lastKey, rows>> /\ NotProcesses(u)
         /\ upload[u].at = "put" /\ picture' \in upload[u].keys
         /\ upload'[u].at = "clean up" /\ upload'[u].keys = {upload[u].previous} \ {0}
         /\ upload'[u].key = 0 /\ upload'[u].previous = 0 /\ upload'[u].mine = {}
         /\ upload'[u].kind = "none"
<1> DEFINE K == {upload[u].previous} \ {0}
<1>1. /\ UNCHANGED <<bucket, lastKey, rows, processes>> /\ upload[u].at = "put"
      /\ picture' \in upload[u].keys /\ CleanUp(u, K)
  BY DEF CommitPicture, Stored, At
<1>2. K \in SUBSET Keys
  BY DEF TypeInv, UploadType, Keys
<1> HIDE DEF K
<1>3. /\ NotProcesses(u) /\ upload'[u].at = "clean up" /\ upload'[u].keys = K
      /\ upload'[u].key = 0 /\ upload'[u].previous = 0 /\ upload'[u].mine = {}
      /\ upload'[u].kind = "none"
  BY <1>1, <1>2, Cleaning DEF VideoStages
<1>4. QED
  BY <1>1, <1>3 DEF K

\* What is erased is the picture, or some of the posts the request has seen;
\* their objects, and the picture it has seen, go.
Erases(u, gone) ==
    /\ gone \subseteq upload[u].mine /\ rows' = rows \ gone
    /\ picture' = 0 \/ (picture' = picture /\ upload[u].previous = 0)
    /\ upload'[u].keys = ({upload[u].previous} \ {0}) \cup UNION {row.keys : row \in gone}
\* Both steps that erase do this.
LEMMA Erased ==
  ASSUME TypeInv, RunsInStages, NEW u \in Uploads,
         RemovePicture(u) \/ \E withPosts \in BOOLEAN : DeleteAccount(u, withPosts)
  PROVE  /\ UNCHANGED <<bucket, lastKey>> /\ NotProcesses(u)
         /\ \E gone \in SUBSET upload[u].mine : Erases(u, gone)
         /\ upload'[u].at = "clean up"
         /\ upload'[u].key = 0 /\ upload'[u].previous = 0 /\ upload'[u].mine = {}
         /\ upload'[u].kind = "none"
<1> DEFINE K(gone) == ({upload[u].previous} \ {0}) \cup UNION {row.keys : row \in gone}
<1>1. upload[u].previous \in Nat /\ upload[u].mine \in SUBSET Row
  BY DEF TypeInv, UploadType
<1>2. ASSUME NEW gone \in SUBSET upload[u].mine PROVE K(gone) \in SUBSET Keys
  BY <1>1 DEF Keys, Row
<1>3. \E gone \in SUBSET upload[u].mine :
         /\ CleanUp(u, K(gone)) /\ rows' = rows \ gone
         /\ picture' = 0 \/ (picture' = picture /\ upload[u].previous = 0)
  <2>1. CASE RemovePicture(u)
    <3>1. K({}) = {upload[u].previous} \ {0}
      OBVIOUS
    <3>2. CleanUp(u, K({})) /\ rows' = rows \ {}
          /\ (picture' = 0 \/ (picture' = picture /\ upload[u].previous = 0))
      BY <2>1, <3>1 DEF RemovePicture
    <3>3. QED
      BY <3>2
  <2>2. ASSUME NEW withPosts \in BOOLEAN, DeleteAccount(u, withPosts)
        PROVE  \E gone \in SUBSET upload[u].mine :
                  CleanUp(u, K(gone)) /\ rows' = rows \ gone /\ picture' = 0
    <3>1. PICK gone \in {upload[u].mine, {}} :
             CleanUp(u, K(gone)) /\ rows' = rows \ gone /\ picture' = 0
      BY <2>2 DEF DeleteAccount
    <3>2. gone \in SUBSET upload[u].mine
      BY <3>1
    <3>3. QED
      BY <3>1, <3>2
  <2>3. QED
    BY <2>1, <2>2
<1>4. UNCHANGED <<bucket, lastKey, processes>> /\ upload[u].at = "commit"
  BY DEF RemovePicture, DeleteAccount, At
<1>5. PICK gone \in SUBSET upload[u].mine :
         /\ CleanUp(u, K(gone)) /\ rows' = rows \ gone
         /\ picture' = 0 \/ (picture' = picture /\ upload[u].previous = 0)
  BY <1>3
<1>6. K(gone) \in SUBSET Keys
  BY <1>2
<1> HIDE DEF K
<1>7. /\ NotProcesses(u) /\ upload'[u].at = "clean up" /\ upload'[u].keys = K(gone)
      /\ upload'[u].key = 0 /\ upload'[u].previous = 0 /\ upload'[u].mine = {}
      /\ upload'[u].kind = "none"
  BY <1>4, <1>5, <1>6, Cleaning DEF VideoStages
<1>8. Erases(u, gone)
  BY <1>5, <1>7 DEF Erases, K
<1>9. QED
  BY <1>4, <1>7, <1>8

\* An object goes, or stays behind.
LEMMA Deleted ==
  ASSUME TypeInv, RunsInStages, NEW u \in Uploads, NEW key, NEW deleted,
         DeleteObject(u, key, deleted)
  PROVE  /\ UNCHANGED <<lastKey, rows, picture>> /\ NotProcesses(u)
         /\ upload[u].at = "clean up" /\ key \in upload[u].keys
         /\ bucket \ {key} \subseteq bucket'
         /\ upload'[u].at = "clean up" /\ upload'[u].keys \subseteq upload[u].keys
         /\ upload'[u].key = upload[u].key
         /\ upload'[u].previous = upload[u].previous /\ upload'[u].mine = upload[u].mine
         /\ upload'[u].keys = upload[u].keys \ {key} /\ SameOrder(u)
<1> DEFINE keys == upload[u].keys \ {key}
           new == [upload[u] EXCEPT !.keys = keys]
<1>1. upload[u] \in UploadType /\ keys \in SUBSET Keys /\ keys \subseteq upload[u].keys
  BY DEF TypeInv, UploadType
<1>2. /\ UNCHANGED <<lastKey, rows, picture, processes>>
      /\ upload[u].at = "clean up" /\ key \in upload[u].keys
      /\ bucket \ {key} \subseteq bucket' /\ upload' = [upload EXCEPT ![u] = new]
  BY <1>1 DEF DeleteObject, At, UploadType
<1> HIDE DEF keys
<1>3. /\ new \in UploadType /\ new.at = upload[u].at /\ new.keys = keys
      /\ new.key = upload[u].key /\ new.previous = upload[u].previous
      /\ new.mine = upload[u].mine /\ new.running = upload[u].running
      /\ new.kind = upload[u].kind /\ new.puts = upload[u].puts /\ new.todo = upload[u].todo
  BY <1>1 DEF UploadType
<1> HIDE DEF new
<1>4. Alone(u) /\ upload'[u] = new
  BY <1>2, <1>3, Replaced
<1>5. NotProcesses(u)
  BY <1>2, <1>3, <1>4, Outside DEF VideoStages
<1>6. QED
  BY <1>1, <1>2, <1>3, <1>4, <1>5 DEF keys, SameOrder

\* A restart forgets every request.
LEMMA Restarted ==
  ASSUME TypeInv, BackendRestarts
  PROVE  /\ UNCHANGED <<bucket, lastKey, rows, picture>> /\ processes' = 0
         /\ upload' \in [Uploads -> UploadType]
         /\ \A u \in Uploads : /\ Forgotten(u) /\ upload'[u].at = "idle" /\ ~upload'[u].running
                             /\ upload'[u] = NoUpload
<1>1. /\ UNCHANGED <<bucket, lastKey, rows, picture>> /\ processes' = 0
      /\ upload' = [u \in Uploads |-> NoUpload]
  BY DEF BackendRestarts
<1>2. QED
  BY <1>1, NoUploadTyped DEF Forgotten

------------------------------------------------------------------------------
(* Types, and as many processes as slots. *)

\* What the next step is.
Writes(u) ==
    \/ PutSucceeds(u) \/ \E wrote \in BOOLEAN : PutRetries(u, wrote)
Remaining(u) ==
    \/ Writes(u) \/ \E wrote \in BOOLEAN : PutFails(u, wrote)
    \/ CommitPost(u) \/ CommitFeedback(u) \/ CommitPicture(u)
    \/ RemovePicture(u) \/ \E withPosts \in BOOLEAN : DeleteAccount(u, withPosts)
    \/ \E key \in upload[u].keys, deleted \in BOOLEAN : DeleteObject(u, key, deleted)
\* A step is a request's own, its arrival, one of those above, or a restart.
LEMMA NextSteps ==
  ASSUME [MediaNext]_mediaVars
  PROVE  \/ \E u \in Uploads : Local(u) \/ (\E s \in Submissions : Submit(u, s)) \/ Remaining(u)
         \/ BackendRestarts
         \/ UNCHANGED mediaVars
BY DEF MediaNext, Local, Remaining, Writes

\* The remaining steps are not about processes, and rows and keys stay typed.
LEMMA RemainingSteps ==
  ASSUME TypeInv, RunsInStages, NEW u \in Uploads, Remaining(u)
  PROVE  NotProcesses(u) /\ lastKey' \in Nat /\ rows' \subseteq Row /\ picture' \in Nat
<1>0. lastKey \in Nat /\ rows \subseteq Row /\ picture \in Nat /\ upload[u].keys \in SUBSET Nat
  BY DEF TypeInv, UploadType, Keys
<1>1. ASSUME Writes(u) PROVE NotProcesses(u) /\ lastKey' \in Nat /\ UNCHANGED <<rows, picture>>
  BY <1>1, PutSteps, Puts DEF Writes
<1>2. ASSUME NEW wrote \in BOOLEAN, PutFails(u, wrote)
      PROVE  NotProcesses(u) /\ lastKey' \in Nat /\ UNCHANGED <<rows, picture>>
  BY <1>2, GivesUp, Puts
<1>3. ASSUME CommitPost(u) \/ CommitFeedback(u)
      PROVE  NotProcesses(u) /\ lastKey' = lastKey /\ rows' \subseteq Row /\ picture' = picture
  BY <1>0, <1>3, RowCommitted
<1>4. ASSUME CommitPicture(u)
      PROVE  NotProcesses(u) /\ lastKey' = lastKey /\ rows' = rows /\ picture' \in Nat
  BY <1>0, <1>4, PictureCommitted
<1>5. ASSUME RemovePicture(u) \/ \E withPosts \in BOOLEAN : DeleteAccount(u, withPosts)
      PROVE  NotProcesses(u) /\ lastKey' = lastKey /\ rows' \subseteq Row /\ picture' \in Nat
  <2>1. /\ UNCHANGED <<bucket, lastKey>> /\ NotProcesses(u)
        /\ \E gone \in SUBSET upload[u].mine : Erases(u, gone)
    BY <1>5, Erased
  <2>2. rows' \subseteq rows /\ picture' \in {0, picture}
    BY <2>1 DEF Erases
  <2>3. QED
    BY <1>0, <2>1, <2>2
<1>6. ASSUME NEW key, NEW deleted, DeleteObject(u, key, deleted)
      PROVE  NotProcesses(u) /\ lastKey' = lastKey /\ UNCHANGED <<rows, picture>>
  BY <1>6, Deleted
<1>7. QED
  BY <1>0, <1>1, <1>2, <1>3, <1>4, <1>5, <1>6 DEF Remaining

\* Every step of a request counts its process, or is not about processes.
LEMMA RequestSteps ==
  ASSUME MediaAssumption, TypeInv, RunsInStages, NEW u \in Uploads,
         Local(u) \/ (\E s \in Submissions : Submit(u, s)) \/ Remaining(u)
  PROVE  /\ Alone(u) /\ Sound(u) /\ Counts(u)
         /\ lastKey' \in Nat /\ rows' \subseteq Row /\ picture' \in Nat
<1>0. lastKey \in Nat /\ rows \subseteq Row /\ picture \in Nat
  BY DEF TypeInv
<1>1. CASE Local(u)
  BY <1>0, <1>1, LocalSteps
<1>2. ASSUME NEW s \in Submissions, Submit(u, s)
      PROVE  NotProcesses(u) /\ UNCHANGED <<lastKey, rows, picture>>
  BY <1>2, Submitted
<1>3. CASE \E s \in Submissions : Submit(u, s)
  BY <1>0, <1>2, <1>3 DEF NotProcesses, Counts
<1>4. CASE Remaining(u)
  BY <1>4, RemainingSteps DEF NotProcesses, Counts
<1>5. QED
  BY <1>1, <1>3, <1>4

SlotInv == TypeInv /\ RunsInStages

\* Every step keeps the types.
LEMMA SlotStep == MediaAssumption /\ SlotInv /\ [MediaNext]_mediaVars => SlotInv'
<1> SUFFICES ASSUME MediaAssumption, TypeInv, RunsInStages, [MediaNext]_mediaVars
             PROVE  TypeInv' /\ RunsInStages'
  BY DEF SlotInv
<1>1. ASSUME NEW u \in Uploads,
             Local(u) \/ (\E s \in Submissions : Submit(u, s)) \/ Remaining(u)
      PROVE  TypeInv' /\ RunsInStages'
  <2>1. /\ Alone(u) /\ Sound(u)
        /\ lastKey' \in Nat /\ rows' \subseteq Row /\ picture' \in Nat
    BY <1>1, RequestSteps
  <2>2. TypeInv'
    BY <2>1 DEF TypeInv, Alone, Sound
  <2>3. RunsInStages'
    BY <2>1 DEF RunsInStages, Alone, Sound
  <2>4. QED
    BY <2>2, <2>3
<1>2. CASE BackendRestarts
  <2>1. /\ UNCHANGED <<bucket, lastKey, rows, picture>>
        /\ upload' \in [Uploads -> UploadType]
        /\ \A u \in Uploads : upload'[u].at = "idle" /\ ~upload'[u].running
    BY <1>2, Restarted
  <2>2. QED
    BY <2>1 DEF TypeInv, RunsInStages, VideoStages
<1>3. CASE UNCHANGED mediaVars
  BY <1>3 DEF mediaVars, TypeInv, RunsInStages
<1>4. QED
  BY <1>1, <1>2, <1>3, NextSteps

\* They hold at the start.
LEMMA SlotStarts == MediaInit => SlotInv
<1> SUFFICES ASSUME MediaInit PROVE TypeInv /\ RunsInStages
  BY DEF SlotInv
<1>1. /\ lastKey = 0 /\ rows = {} /\ picture = 0 /\ upload = [u \in Uploads |-> NoUpload]
  BY DEF MediaInit
<1>2. upload \in [Uploads -> UploadType]
      /\ \A u \in Uploads : upload[u].at = "idle" /\ ~upload[u].running
  BY <1>1, NoUploadTyped
<1>3. QED
  BY <1>1, <1>2 DEF TypeInv, RunsInStages, VideoStages

\* Every step keeps the count of processes.
LEMMA ProcessStep ==
  MediaAssumption /\ SlotInv /\ ProcessesBounded /\ [MediaNext]_mediaVars => ProcessesBounded'
<1> SUFFICES ASSUME MediaAssumption, TypeInv, RunsInStages, ProcessesBounded,
                    [MediaNext]_mediaVars
             PROVE  ProcessesBounded'
  BY DEF SlotInv
<1>0. /\ IsFiniteSet(Running) /\ Cardinality(Running) \in Nat /\ FfmpegSlots \in Nat
      /\ processes = Cardinality(Running) /\ processes <= FfmpegSlots
  <2>1. IsFiniteSet(Running) /\ FfmpegSlots \in Nat
    BY FS_Subset DEF MediaAssumption, Running
  <2>2. QED
    BY <2>1, FS_CardinalityType DEF ProcessesBounded
<1>1. ASSUME NEW u \in Uploads,
             Local(u) \/ (\E s \in Submissions : Submit(u, s)) \/ Remaining(u)
      PROVE  ProcessesBounded'
  <2>1. /\ Counts(u) /\ \A v \in Uploads : v # u => upload'[v] = upload[v]
    BY <1>1, RequestSteps DEF Alone
  <2>2. CASE processes' = processes /\ ~upload[u].running /\ ~upload'[u].running
    <3>1. Running' = Running
      BY <2>1, <2>2 DEF Running
    <3>2. QED
      BY <1>0, <2>2, <3>1 DEF ProcessesBounded
  <2>3. CASE /\ processes' = processes + 1 /\ ~upload[u].running /\ upload'[u].running
             /\ Cardinality(Running) < FfmpegSlots
    <3>1. Running' = Running \cup {u} /\ u \notin Running
      BY <2>1, <2>3 DEF Running
    <3>2. Cardinality(Running \cup {u}) = Cardinality(Running) + 1
      BY <1>0, <3>1, FS_AddElement
    <3>3. QED
      BY <1>0, <2>3, <3>1, <3>2 DEF ProcessesBounded
  <2>4. CASE processes' = processes - 1 /\ upload[u].running /\ ~upload'[u].running
    <3>1. Running' = Running \ {u} /\ u \in Running
      BY <2>1, <2>4 DEF Running
    <3>2. Cardinality(Running \ {u}) = Cardinality(Running) - 1
      BY <1>0, <3>1, FS_RemoveElement
    <3>3. QED
      BY <1>0, <2>4, <3>1, <3>2 DEF ProcessesBounded
  <2>5. QED
    BY <2>1, <2>2, <2>3, <2>4 DEF Counts
<1>2. CASE BackendRestarts
  <2>1. processes' = 0 /\ Running' = {}
    BY <1>2, Restarted DEF Running
  <2>2. QED
    BY <1>0, <2>1, FS_EmptySet DEF ProcessesBounded
<1>3. CASE UNCHANGED mediaVars
  BY <1>3 DEF mediaVars, ProcessesBounded, Running
<1>4. QED
  BY <1>1, <1>2, <1>3, NextSteps

\* As many processes are alive as hold a slot, the timed out ones included.
THEOREM SlotsBoundProcesses == MediaSpec => []ProcessesBounded
<1>1. MediaInit => ProcessesBounded
  <2>1. SUFFICES ASSUME MediaInit PROVE ProcessesBounded
    OBVIOUS
  <2>2. processes = 0 /\ Running = {} /\ FfmpegSlots \in Nat
    BY <2>1, NoUploadTyped, MediaAssumption DEF MediaInit, Running, MediaAssumption
  <2>3. QED
    BY <2>2, FS_EmptySet DEF ProcessesBounded
<1>2. SlotInv /\ ProcessesBounded /\ [MediaNext]_mediaVars => SlotInv' /\ ProcessesBounded'
  BY MediaAssumption, SlotStep, ProcessStep
<1>3. QED
  BY <1>1, <1>2, SlotStarts, PTL DEF MediaSpec

------------------------------------------------------------------------------
(* Objects: whose they are, and that a row's are there. *)

Named(k)   == k = picture \/ \E row \in rows : k \in row.keys
Pending(u) == IF At(u, "clean up") THEN {} ELSE upload[u].keys \cup ({upload[u].key} \ {0})
Doomed(u)  == IF At(u, "clean up") THEN upload[u].keys ELSE {}

\* A fresh key is nobody's, ...
KeysOld ==
    /\ picture <= lastKey /\ \A row \in rows : \A k \in row.keys : k <= lastKey
    /\ \A u \in Uploads :
          /\ \A k \in upload[u].keys : k <= lastKey
          /\ upload[u].key <= lastKey /\ upload[u].previous <= lastKey
          /\ \A row \in upload[u].mine : \A k \in row.keys : k <= lastKey
\* ... no row names what is still being stored or is to be deleted, ...
NotNamed == \A u \in Uploads : \A k \in Pending(u) \cup Doomed(u) : ~Named(k)
\* ... what is being stored is one request's, and none other has seen it, ...
PendingApart ==
    \A u, v \in Uploads : \A k \in Pending(u) :
        /\ u # v => k \notin Pending(v)
        /\ k \notin Doomed(v) /\ k # upload[v].previous
        /\ \A row \in upload[v].mine : k \notin row.keys
\* ... no two rows name the same object, ...
RowsApart ==
    \A row \in rows : picture \notin row.keys
        /\ \A other \in rows : \A k \in row.keys : k \in other.keys => other = row
\* ... what a request has seen is still what it was, or named no longer, ...
SeenGone ==
    \A u \in Uploads :
        /\ \A row \in rows : upload[u].previous \notin row.keys
        /\ \A mine \in upload[u].mine :
              /\ picture \notin mine.keys
              /\ mine \in rows \/ \A row \in rows : \A k \in mine.keys : k \notin row.keys
\* ... and what is named, or stored and not to be deleted, is there.
KeysExist ==
    /\ picture = 0 \/ picture \in bucket
    /\ \A row \in rows : row.keys \subseteq bucket
    /\ \A u \in Uploads : upload[u].at # "clean up" => upload[u].keys \subseteq bucket

KeysInv == KeysOld /\ NotNamed /\ PendingApart /\ RowsApart /\ SeenGone /\ KeysExist

\* What the invariant needs of the types.
LEMMA KeyTypes ==
  ASSUME TypeInv
  PROVE  /\ lastKey \in Nat /\ 0 <= lastKey /\ picture \in Nat
         /\ \A row \in rows : \A k \in row.keys : k \in Nat /\ k # 0
         /\ \A u \in Uploads :
               /\ \A k \in upload[u].keys : k \in Nat /\ k # 0
               /\ upload[u].key \in Nat /\ upload[u].previous \in Nat
               /\ \A row \in upload[u].mine : \A k \in row.keys : k \in Nat /\ k # 0
<1>1. lastKey \in Nat
  BY DEF TypeInv
<1>2. lastKey \in Nat /\ 0 <= lastKey
  BY <1>1
<1>3. QED
  BY <1>2 DEF TypeInv, UploadType, Row, Keys

\* Who only looks, forgets or goes on disturbs nothing.
LEMMA KeysQuiet ==
  ASSUME TypeInv, KeysInv, UNCHANGED <<bucket, lastKey, rows, picture>>,
         \A u \in Uploads :
            /\ upload'[u].keys \subseteq upload[u].keys /\ upload'[u].key \in {0, upload[u].key}
            /\ upload'[u].previous \in {0, picture, upload[u].previous}
            /\ upload'[u].mine \subseteq upload[u].mine \cup rows
            /\ \/ upload'[u].at = "clean up" <=> upload[u].at = "clean up"
               \/ upload'[u].keys = {} /\ upload'[u].key = 0
  PROVE  KeysInv'
<1>1. \A u \in Uploads : Pending(u)' \subseteq Pending(u) /\ Doomed(u)' \subseteq Doomed(u)
  BY DEF Pending, Doomed, At
<1>2. KeysOld'
  <2>1. 0 <= lastKey
    BY KeyTypes
  <2>2. ASSUME NEW u \in Uploads
        PROVE  /\ \A k \in upload'[u].keys : k <= lastKey
               /\ upload'[u].key <= lastKey /\ upload'[u].previous <= lastKey
               /\ \A row \in upload'[u].mine : \A k \in row.keys : k <= lastKey
    BY <2>1 DEF KeysInv, KeysOld
  <2>3. QED
    BY <2>2 DEF KeysInv, KeysOld
<1>3. NotNamed'
  BY <1>1 DEF KeysInv, NotNamed, Named
<1>4. PendingApart'
  <2>1. SUFFICES ASSUME NEW u \in Uploads, NEW v \in Uploads, NEW k \in Pending(u)'
                 PROVE  /\ u # v => k \notin Pending(v)'
                        /\ k \notin Doomed(v)' /\ k # upload'[v].previous
                        /\ \A row \in upload'[v].mine : k \notin row.keys
    BY DEF PendingApart
  <2>2. k \in Pending(u) /\ k # 0
    BY <1>1, <2>1, KeyTypes DEF Pending
  <2>3. k # picture /\ \A row \in rows : k \notin row.keys
    BY <2>2 DEF KeysInv, NotNamed, Named
  <2>4. /\ u # v => k \notin Pending(v)
        /\ k \notin Doomed(v) /\ k # upload[v].previous
        /\ \A row \in upload[v].mine : k \notin row.keys
    BY <2>2 DEF KeysInv, PendingApart
  <2>5. \A row \in upload'[v].mine : k \notin row.keys
    BY <2>3, <2>4
  <2>6. QED
    BY <1>1, <2>2, <2>3, <2>4, <2>5
<1>5. RowsApart'
  BY DEF KeysInv, RowsApart
<1>6. SeenGone'
  <2>1. ASSUME NEW u \in Uploads, NEW row \in rows PROVE upload'[u].previous \notin row.keys
    <3>1. 0 \notin row.keys
      BY <2>1, KeyTypes
    <3>2. picture \notin row.keys /\ upload[u].previous \notin row.keys
      BY <2>1 DEF KeysInv, SeenGone, RowsApart
    <3>3. QED
      BY <3>1, <3>2
  <2>2. ASSUME NEW u \in Uploads, NEW mine \in upload'[u].mine
        PROVE  /\ picture \notin mine.keys
               /\ mine \in rows \/ \A row \in rows : \A k \in mine.keys : k \notin row.keys
    <3>1. CASE mine \in rows
      BY <3>1 DEF KeysInv, RowsApart
    <3>2. CASE mine \in upload[u].mine
      BY <3>2 DEF KeysInv, SeenGone
    <3>3. QED
      BY <2>2, <3>1, <3>2
  <2>3. QED
    BY <2>1, <2>2 DEF SeenGone
<1>7. KeysExist'
  BY DEF KeysInv, KeysExist
<1>8. QED
  BY <1>2, <1>3, <1>4, <1>5, <1>6, <1>7 DEF KeysInv

\* The others keep what is theirs.
LEMMA OthersKeep ==
  ASSUME NEW u \in Uploads, Alone(u), NEW v \in Uploads, v # u
  PROVE  Pending(v)' = Pending(v) /\ Doomed(v)' = Doomed(v) /\ upload'[v] = upload[v]
BY DEF Alone, Pending, Doomed, At

\* A write adds one key, its own or a fresh one.
LEMMA KeysWritten ==
  ASSUME TypeInv, RunsInStages, KeysInv, NEW u \in Uploads, Writes(u)
  PROVE  KeysInv'
<1> DEFINE K == KeyOf(u)
<1>1. /\ UNCHANGED <<rows, picture>> /\ Alone(u) /\ Putting(u)
      /\ upload'[u].at = "put"
      /\ upload'[u].previous = upload[u].previous /\ upload'[u].mine = upload[u].mine
      /\ upload'[u].key \in {0, K} /\ bucket \subseteq bucket'
      /\ \/ upload'[u].keys = upload[u].keys
         \/ upload'[u].keys = upload[u].keys \cup {K} /\ K \in bucket'
  BY PutSteps DEF Writes, NotProcesses
<1>2. /\ K \in Nat /\ K # 0 /\ K \in {upload[u].key, lastKey + 1} /\ upload[u].at = "put"
      /\ lastKey' \in Nat /\ lastKey <= lastKey' /\ K <= lastKey'
  BY <1>1, Puts DEF Keys, KeysInv, KeysOld
<1> HIDE DEF K
<1>3. Pending(u)' \subseteq Pending(u) \cup {K} /\ Doomed(u)' = {} /\ Doomed(u) = {}
  BY <1>1, <1>2 DEF Pending, Doomed, At
<1>4. K \in Pending(u) \/ K = lastKey + 1
  BY <1>2 DEF Pending, At
<1>5. \A v \in Uploads : v # u =>
         Pending(v)' = Pending(v) /\ Doomed(v)' = Doomed(v) /\ upload'[v] = upload[v]
  BY <1>1, OthersKeep
<1>6. \A v \in Uploads : \A k \in Pending(v) \cup Doomed(v) : k \in Nat /\ k <= lastKey
  BY KeyTypes DEF KeysInv, KeysOld, Pending, Doomed
<1>7. /\ ~Named(K)
      /\ \A v \in Uploads : /\ v # u => K \notin Pending(v)
                            /\ K \notin Doomed(v) /\ K # upload[v].previous
                            /\ \A row \in upload[v].mine : K \notin row.keys
  <2>1. CASE K \in Pending(u)
    BY <2>1 DEF KeysInv, NotNamed, PendingApart
  <2>2. CASE K = lastKey + 1
    <3>1. lastKey \in Nat /\ ~(K <= lastKey)
      BY <2>2, KeyTypes
    <3>2. ~Named(K)
      BY <3>1 DEF KeysInv, KeysOld, Named
    <3>3. QED
      BY <1>6, <3>1, <3>2 DEF KeysInv, KeysOld
  <2>3. QED
    BY <1>4, <2>1, <2>2
<1>8. KeysOld'
  <2>1. \A k \in Nat : k <= lastKey => k <= lastKey'
    BY <1>2, KeyTypes
  <2>2. picture' <= lastKey' /\ \A row \in rows' : \A k \in row.keys : k <= lastKey'
    BY <1>1, <2>1, KeyTypes DEF KeysInv, KeysOld
  <2>3. ASSUME NEW v \in Uploads
        PROVE  /\ \A k \in upload'[v].keys : k <= lastKey'
               /\ upload'[v].key <= lastKey' /\ upload'[v].previous <= lastKey'
               /\ \A row \in upload'[v].mine : \A k \in row.keys : k <= lastKey'
    BY <1>1, <1>2, <1>5, <2>1, KeyTypes DEF KeysInv, KeysOld
  <2>4. QED
    BY <2>2, <2>3 DEF KeysOld
<1>9. NotNamed'
  BY <1>1, <1>3, <1>5, <1>7 DEF KeysInv, NotNamed, Named
<1>10. PendingApart'
  BY <1>1, <1>3, <1>5, <1>7 DEF KeysInv, PendingApart
<1>11. RowsApart' /\ SeenGone'
  BY <1>1, <1>5 DEF KeysInv, RowsApart, SeenGone
<1>12. KeysExist'
  BY <1>1, <1>2, <1>5 DEF KeysInv, KeysExist
<1>13. QED
  BY <1>8, <1>9, <1>10, <1>11, <1>12 DEF KeysInv

\* Who gives up turns what was pending into what is to be deleted.
LEMMA KeysDropped ==
  ASSUME TypeInv, RunsInStages, KeysInv, NEW u \in Uploads, NEW wrote \in BOOLEAN,
         PutFails(u, wrote)
  PROVE  KeysInv'
<1>1. /\ UNCHANGED <<rows, picture>> /\ Alone(u) /\ Putting(u) /\ bucket \subseteq bucket'
      /\ upload'[u].at = "clean up" /\ upload'[u].keys = upload[u].keys
      /\ upload'[u].key = 0 /\ upload'[u].previous = 0 /\ upload'[u].mine = {}
  BY GivesUp DEF NotProcesses
<1>2. upload[u].at = "put" /\ lastKey' \in Nat /\ lastKey <= lastKey' /\ 0 <= lastKey'
  <2>1. upload[u].at = "put" /\ lastKey' \in Nat /\ lastKey <= lastKey'
    BY <1>1, Puts
  <2>2. QED
    BY <2>1
<1>3. Pending(u)' = {} /\ Doomed(u)' \subseteq Pending(u)
  BY <1>1, <1>2 DEF Pending, Doomed, At
<1>4. \A v \in Uploads : v # u =>
         Pending(v)' = Pending(v) /\ Doomed(v)' = Doomed(v) /\ upload'[v] = upload[v]
  BY <1>1, OthersKeep
<1>5. KeysOld'
  <2>1. \A k \in Nat : k <= lastKey => k <= lastKey'
    BY <1>2, KeyTypes
  <2>2. picture' <= lastKey' /\ \A row \in rows' : \A k \in row.keys : k <= lastKey'
    BY <1>1, <2>1, KeyTypes DEF KeysInv, KeysOld
  <2>3. ASSUME NEW v \in Uploads
        PROVE  /\ \A k \in upload'[v].keys : k <= lastKey'
               /\ upload'[v].key <= lastKey' /\ upload'[v].previous <= lastKey'
               /\ \A row \in upload'[v].mine : \A k \in row.keys : k <= lastKey'
    BY <1>1, <1>2, <1>4, <2>1, KeyTypes DEF KeysInv, KeysOld
  <2>4. QED
    BY <2>2, <2>3 DEF KeysOld
<1>6. NotNamed'
  BY <1>1, <1>3, <1>4 DEF KeysInv, NotNamed, Named
<1>7. PendingApart'
  <2>1. SUFFICES ASSUME NEW v \in Uploads, NEW w \in Uploads, NEW k \in Pending(v)'
                 PROVE  /\ v # w => k \notin Pending(w)'
                        /\ k \notin Doomed(w)' /\ k # upload'[w].previous
                        /\ \A row \in upload'[w].mine : k \notin row.keys
    BY DEF PendingApart
  <2>2. v # u /\ k \in Pending(v) /\ k # 0
    BY <1>3, <1>4, <2>1, KeyTypes DEF Pending
  <2>3. /\ v # w => k \notin Pending(w)
        /\ k \notin Doomed(w) /\ k # upload[w].previous
        /\ \A row \in upload[w].mine : k \notin row.keys
    BY <2>2 DEF KeysInv, PendingApart
  <2>4. CASE w = u
    BY <1>1, <1>3, <2>2, <2>3, <2>4
  <2>5. CASE w # u
    BY <1>4, <2>3, <2>5
  <2>6. QED
    BY <2>4, <2>5
<1>8. RowsApart'
  BY <1>1 DEF KeysInv, RowsApart
<1>9. SeenGone'
  BY <1>1, <1>4, KeyTypes DEF KeysInv, SeenGone
<1>10. KeysExist'
  BY <1>1, <1>2, <1>4 DEF KeysInv, KeysExist
<1>11. QED
  BY <1>5, <1>6, <1>7, <1>8, <1>9, <1>10 DEF KeysInv

\* A committed row names what its request had stored.
LEMMA KeysCommitted ==
  ASSUME TypeInv, RunsInStages, KeysInv, NEW u \in Uploads, CommitPost(u) \/ CommitFeedback(u)
  PROVE  KeysInv'
<1>1. /\ UNCHANGED <<bucket, lastKey, picture>> /\ Alone(u) /\ Forgotten(u)
      /\ upload[u].at = "put"
      /\ \E row \in Row : rows' = rows \cup {row} /\ row.keys = upload[u].keys
  BY RowCommitted DEF NotProcesses
<1>2. PICK new \in Row : rows' = rows \cup {new} /\ new.keys = upload[u].keys
  BY <1>1
<1>3. /\ Pending(u)' = {} /\ Doomed(u)' = {} /\ new.keys \subseteq Pending(u)
  BY <1>1, <1>2 DEF Pending, Doomed, At, Forgotten
<1>4. \A v \in Uploads : v # u =>
         Pending(v)' = Pending(v) /\ Doomed(v)' = Doomed(v) /\ upload'[v] = upload[v]
  BY <1>1, OthersKeep
<1>5. \A k \in new.keys :
         /\ ~Named(k) /\ k # picture /\ \A row \in rows : k \notin row.keys
         /\ \A v \in Uploads : /\ v # u => k \notin Pending(v)
                               /\ k \notin Doomed(v) /\ k # upload[v].previous
                               /\ \A row \in upload[v].mine : k \notin row.keys
  BY <1>3 DEF KeysInv, NotNamed, PendingApart, Named
<1>6. upload'[u].keys = {} /\ upload'[u].key = 0 /\ upload'[u].previous = 0 /\ upload'[u].mine = {}
  BY <1>1 DEF Forgotten
<1>7. KeysOld'
  <2>1. \A k \in new.keys : k <= lastKey
    BY <1>2 DEF KeysInv, KeysOld
  <2>2. picture' <= lastKey' /\ \A row \in rows' : \A k \in row.keys : k <= lastKey'
    BY <1>1, <1>2, <2>1 DEF KeysInv, KeysOld
  <2>3. ASSUME NEW v \in Uploads
        PROVE  /\ \A k \in upload'[v].keys : k <= lastKey
               /\ upload'[v].key <= lastKey /\ upload'[v].previous <= lastKey
               /\ \A row \in upload'[v].mine : \A k \in row.keys : k <= lastKey
    BY <1>4, <1>6, KeyTypes DEF KeysInv, KeysOld
  <2>4. QED
    BY <1>1, <2>2, <2>3 DEF KeysOld
<1>8. NotNamed'
  <2>1. SUFFICES ASSUME NEW v \in Uploads, NEW k \in Pending(v)' \cup Doomed(v)'
                 PROVE  k # picture /\ \A row \in rows' : k \notin row.keys
    BY <1>1 DEF NotNamed, Named
  <2>2. v # u /\ k \in Pending(v) \cup Doomed(v)
    BY <1>3, <1>4, <2>1
  <2>3. k # picture /\ \A row \in rows : k \notin row.keys
    BY <2>2 DEF KeysInv, NotNamed, Named
  <2>4. k \notin new.keys
    BY <1>5, <2>2
  <2>5. QED
    BY <1>2, <2>3, <2>4
<1>9. PendingApart'
  <2>1. SUFFICES ASSUME NEW v \in Uploads, NEW w \in Uploads, NEW k \in Pending(v)'
                 PROVE  /\ v # w => k \notin Pending(w)'
                        /\ k \notin Doomed(w)' /\ k # upload'[w].previous
                        /\ \A row \in upload'[w].mine : k \notin row.keys
    BY DEF PendingApart
  <2>2. v # u /\ k \in Pending(v) /\ k # 0
    BY <1>3, <1>4, <2>1, KeyTypes DEF Pending
  <2>3. /\ v # w => k \notin Pending(w)
        /\ k \notin Doomed(w) /\ k # upload[w].previous
        /\ \A row \in upload[w].mine : k \notin row.keys
    BY <2>2 DEF KeysInv, PendingApart
  <2>4. CASE w = u
    BY <1>3, <1>6, <2>2, <2>4
  <2>5. CASE w # u
    BY <1>4, <2>3, <2>5
  <2>6. QED
    BY <2>4, <2>5
<1>10. RowsApart'
  <2>1. \A row \in rows' : picture \notin row.keys
    BY <1>2, <1>5 DEF KeysInv, RowsApart
  <2>2. ASSUME NEW row \in rows', NEW other \in rows', NEW k \in row.keys, k \in other.keys
        PROVE  other = row
    BY <1>2, <1>5, <2>2 DEF KeysInv, RowsApart
  <2>3. QED
    BY <1>1, <2>1, <2>2 DEF RowsApart
<1>11. SeenGone'
  <2>1. ASSUME NEW v \in Uploads, NEW row \in rows' PROVE upload'[v].previous \notin row.keys
    <3>1. 0 \notin row.keys
      BY <1>2, <2>1 DEF TypeInv, Row, Keys
    <3>2. CASE v = u
      BY <1>6, <3>1, <3>2
    <3>3. CASE v # u
      BY <1>2, <1>4, <1>5, <3>3 DEF KeysInv, SeenGone
    <3>4. QED
      BY <3>2, <3>3
  <2>2. ASSUME NEW v \in Uploads, NEW mine \in upload'[v].mine
        PROVE  /\ picture \notin mine.keys
               /\ mine \in rows' \/ \A row \in rows' : \A k \in mine.keys : k \notin row.keys
    <3>1. mine \in upload[v].mine
      BY <1>4, <1>6, <2>2
    <3>2. picture \notin mine.keys
          /\ (mine \in rows \/ \A row \in rows : \A k \in mine.keys : k \notin row.keys)
      BY <3>1 DEF KeysInv, SeenGone
    <3>3. \A k \in mine.keys : k \notin new.keys
      BY <1>5, <3>1
    <3>4. QED
      BY <1>2, <3>2, <3>3
  <2>3. QED
    BY <1>1, <2>1, <2>2 DEF SeenGone
<1>12. KeysExist'
  <2>1. new.keys \subseteq bucket
    BY <1>1, <1>2 DEF KeysInv, KeysExist
  <2>2. \A row \in rows' : row.keys \subseteq bucket
    BY <1>2, <2>1 DEF KeysInv, KeysExist
  <2>3. \A v \in Uploads : upload'[v].at # "clean up" => upload'[v].keys \subseteq bucket
    BY <1>4, <1>6 DEF KeysInv, KeysExist
  <2>4. QED
    BY <1>1, <2>2, <2>3 DEF KeysInv, KeysExist
<1>13. QED
  BY <1>7, <1>8, <1>9, <1>10, <1>11, <1>12 DEF KeysInv

\* A new picture was stored by its request; the one before it is not named.
LEMMA KeysPictured ==
  ASSUME TypeInv, RunsInStages, KeysInv, NEW u \in Uploads, CommitPicture(u)
  PROVE  KeysInv'
<1>1. /\ UNCHANGED <<bucket, lastKey, rows>> /\ Alone(u)
      /\ upload[u].at = "put" /\ picture' \in upload[u].keys
      /\ upload'[u].at = "clean up" /\ upload'[u].keys = {upload[u].previous} \ {0}
      /\ upload'[u].key = 0 /\ upload'[u].previous = 0 /\ upload'[u].mine = {}
  BY PictureCommitted DEF NotProcesses
<1>2. /\ Pending(u)' = {} /\ Doomed(u)' \subseteq {upload[u].previous}
      /\ picture' \in Pending(u)
  BY <1>1 DEF Pending, Doomed, At
<1>3. \A v \in Uploads : v # u =>
         Pending(v)' = Pending(v) /\ Doomed(v)' = Doomed(v) /\ upload'[v] = upload[v]
  BY <1>1, OthersKeep
<1>4. /\ \A row \in rows : picture' \notin row.keys
      /\ \A v \in Uploads : /\ v # u => picture' \notin Pending(v)
                            /\ picture' \notin Doomed(v) /\ picture' # upload[v].previous
                            /\ \A row \in upload[v].mine : picture' \notin row.keys
  BY <1>2 DEF KeysInv, NotNamed, PendingApart, Named
<1>5. KeysOld'
  <2>1. picture' <= lastKey /\ upload[u].previous <= lastKey /\ 0 <= lastKey
    BY <1>1, KeyTypes DEF KeysInv, KeysOld
  <2>2. ASSUME NEW v \in Uploads
        PROVE  /\ \A k \in upload'[v].keys : k <= lastKey
               /\ upload'[v].key <= lastKey /\ upload'[v].previous <= lastKey
               /\ \A row \in upload'[v].mine : \A k \in row.keys : k <= lastKey
    BY <1>1, <1>3, <2>1 DEF KeysInv, KeysOld
  <2>3. QED
    BY <1>1, <2>1, <2>2 DEF KeysInv, KeysOld
<1>6. NotNamed'
  <2>1. SUFFICES ASSUME NEW v \in Uploads, NEW k \in Pending(v)' \cup Doomed(v)'
                 PROVE  k # picture' /\ \A row \in rows : k \notin row.keys
    BY <1>1 DEF NotNamed, Named
  <2>2. CASE v = u
    <3>1. k = upload[u].previous
      BY <1>2, <2>1, <2>2
    <3>2. QED
      BY <1>4, <3>1 DEF KeysInv, SeenGone
  <2>3. CASE v # u
    BY <1>3, <1>4, <2>1, <2>3 DEF KeysInv, NotNamed, Named
  <2>4. QED
    BY <2>2, <2>3
<1>7. PendingApart'
  <2>1. SUFFICES ASSUME NEW v \in Uploads, NEW w \in Uploads, NEW k \in Pending(v)'
                 PROVE  /\ v # w => k \notin Pending(w)'
                        /\ k \notin Doomed(w)' /\ k # upload'[w].previous
                        /\ \A row \in upload'[w].mine : k \notin row.keys
    BY DEF PendingApart
  <2>2. v # u /\ k \in Pending(v) /\ k # 0
    BY <1>2, <1>3, <2>1, KeyTypes DEF Pending
  <2>3. /\ v # w => k \notin Pending(w)
        /\ k \notin Doomed(w) /\ k # upload[w].previous
        /\ \A row \in upload[w].mine : k \notin row.keys
    BY <2>2 DEF KeysInv, PendingApart
  <2>4. CASE w = u
    BY <1>1, <1>2, <2>2, <2>3, <2>4
  <2>5. CASE w # u
    BY <1>3, <2>3, <2>5
  <2>6. QED
    BY <2>4, <2>5
<1>8. RowsApart'
  BY <1>1, <1>4 DEF KeysInv, RowsApart
<1>9. SeenGone'
  <2>1. ASSUME NEW v \in Uploads, NEW row \in rows PROVE upload'[v].previous \notin row.keys
    <3>1. 0 \notin row.keys
      BY <2>1, KeyTypes
    <3>2. QED
      BY <1>1, <1>3, <3>1 DEF KeysInv, SeenGone
  <2>2. ASSUME NEW v \in Uploads, NEW mine \in upload'[v].mine
        PROVE  /\ picture' \notin mine.keys
               /\ mine \in rows \/ \A row \in rows : \A k \in mine.keys : k \notin row.keys
    <3>1. mine \in upload[v].mine
      BY <1>1, <1>3, <2>2
    <3>2. QED
      BY <1>4, <3>1 DEF KeysInv, SeenGone
  <2>3. QED
    BY <1>1, <2>1, <2>2 DEF SeenGone
<1>10. KeysExist'
  BY <1>1, <1>3 DEF KeysInv, KeysExist
<1>11. QED
  BY <1>5, <1>6, <1>7, <1>8, <1>9, <1>10 DEF KeysInv

\* What is erased is named no longer.
LEMMA KeysErased ==
  ASSUME TypeInv, RunsInStages, KeysInv, NEW u \in Uploads,
         RemovePicture(u) \/ \E withPosts \in BOOLEAN : DeleteAccount(u, withPosts)
  PROVE  KeysInv'
<1>0. /\ UNCHANGED <<bucket, lastKey>> /\ NotProcesses(u)
      /\ \E gone \in SUBSET upload[u].mine : Erases(u, gone)
      /\ upload'[u].at = "clean up"
      /\ upload'[u].key = 0 /\ upload'[u].previous = 0 /\ upload'[u].mine = {}
  BY Erased
<1>1. /\ UNCHANGED <<bucket, lastKey>> /\ Alone(u)
      /\ \E gone \in SUBSET upload[u].mine : Erases(u, gone)
      /\ upload'[u].at = "clean up"
      /\ upload'[u].key = 0 /\ upload'[u].previous = 0 /\ upload'[u].mine = {}
  BY <1>0 DEF NotProcesses
<1>2. PICK gone \in SUBSET upload[u].mine : Erases(u, gone)
  BY <1>1
<1>3. /\ rows' = rows \ gone /\ rows' \subseteq rows
      /\ picture' = 0 \/ (picture' = picture /\ upload[u].previous = 0)
      /\ \A k \in upload'[u].keys :
            (k = upload[u].previous /\ k # 0) \/ \E row \in gone : k \in row.keys
  BY <1>2 DEF Erases
<1>4. Pending(u)' = {} /\ Doomed(u)' = upload'[u].keys
  BY <1>1 DEF Pending, Doomed, At
<1>5. \A v \in Uploads : v # u =>
         Pending(v)' = Pending(v) /\ Doomed(v)' = Doomed(v) /\ upload'[v] = upload[v]
  BY <1>1, OthersKeep
<1>6. \A k \in upload'[u].keys : /\ k # 0 /\ k <= lastKey /\ k # picture'
                                 /\ \A row \in rows' : k \notin row.keys
                                 /\ \A v \in Uploads : k \notin Pending(v)
  <2>1. SUFFICES ASSUME NEW k \in upload'[u].keys
                 PROVE  /\ k # 0 /\ k <= lastKey /\ k # picture'
                        /\ \A row \in rows' : k \notin row.keys
                        /\ \A v \in Uploads : k \notin Pending(v)
    OBVIOUS
  <2>2. CASE k = upload[u].previous /\ k # 0
    BY <1>3, <2>2 DEF KeysInv, KeysOld, SeenGone, PendingApart
  <2>3. ASSUME NEW mine \in gone, k \in mine.keys
        PROVE  /\ k # 0 /\ k <= lastKey /\ k # picture'
               /\ \A row \in rows' : k \notin row.keys
               /\ \A v \in Uploads : k \notin Pending(v)
    <3>1. mine \in upload[u].mine
      BY <1>2
    <3>2. k # 0 /\ k <= lastKey /\ k # picture /\ \A v \in Uploads : k \notin Pending(v)
      BY <2>3, <3>1, KeyTypes DEF KeysInv, KeysOld, SeenGone, PendingApart
    <3>3. ASSUME NEW row \in rows' PROVE k \notin row.keys
      <4>1. row \in rows /\ row # mine
        BY <1>3, <2>3, <3>3
      <4>2. CASE mine \in rows
        BY <2>3, <4>1, <4>2 DEF KeysInv, RowsApart
      <4>3. CASE \A other \in rows : \A j \in mine.keys : j \notin other.keys
        BY <2>3, <4>1, <4>3
      <4>4. QED
        BY <3>1, <4>2, <4>3 DEF KeysInv, SeenGone
    <3>4. QED
      BY <1>3, <3>2, <3>3
  <2>4. QED
    BY <1>3, <2>2, <2>3
<1>7. KeysOld'
  <2>1. picture' <= lastKey /\ 0 <= lastKey
    BY <1>3, KeyTypes DEF KeysInv, KeysOld
  <2>2. ASSUME NEW v \in Uploads
        PROVE  /\ \A k \in upload'[v].keys : k <= lastKey
               /\ upload'[v].key <= lastKey /\ upload'[v].previous <= lastKey
               /\ \A row \in upload'[v].mine : \A k \in row.keys : k <= lastKey
    BY <1>1, <1>5, <1>6, <2>1 DEF KeysInv, KeysOld
  <2>3. QED
    BY <1>1, <1>3, <2>1, <2>2 DEF KeysInv, KeysOld
<1>8. NotNamed'
  <2>1. SUFFICES ASSUME NEW v \in Uploads, NEW k \in Pending(v)' \cup Doomed(v)'
                 PROVE  k # picture' /\ \A row \in rows' : k \notin row.keys
    BY DEF NotNamed, Named
  <2>2. CASE v = u
    BY <1>4, <1>6, <2>1, <2>2
  <2>3. CASE v # u
    <3>1. k \in Pending(v) \cup Doomed(v) /\ k # 0
      BY <1>5, <2>1, <2>3, KeyTypes DEF Pending, Doomed
    <3>2. k # picture /\ \A row \in rows : k \notin row.keys
      BY <3>1 DEF KeysInv, NotNamed, Named
    <3>3. QED
      BY <1>3, <3>1, <3>2
  <2>4. QED
    BY <2>2, <2>3
<1>9. PendingApart'
  <2>1. SUFFICES ASSUME NEW v \in Uploads, NEW w \in Uploads, NEW k \in Pending(v)'
                 PROVE  /\ v # w => k \notin Pending(w)'
                        /\ k \notin Doomed(w)' /\ k # upload'[w].previous
                        /\ \A row \in upload'[w].mine : k \notin row.keys
    BY DEF PendingApart
  <2>2. v # u /\ k \in Pending(v) /\ k # 0
    BY <1>4, <1>5, <2>1, KeyTypes DEF Pending
  <2>3. /\ v # w => k \notin Pending(w)
        /\ k \notin Doomed(w) /\ k # upload[w].previous
        /\ \A row \in upload[w].mine : k \notin row.keys
    BY <2>2 DEF KeysInv, PendingApart
  <2>4. CASE w = u
    BY <1>1, <1>4, <1>6, <2>2, <2>4
  <2>5. CASE w # u
    BY <1>5, <2>3, <2>5
  <2>6. QED
    BY <2>4, <2>5
<1>10. RowsApart'
  <2>1. ASSUME NEW row \in rows' PROVE picture' \notin row.keys
    <3>1. 0 \notin row.keys /\ picture \notin row.keys
      BY <1>3, <2>1, KeyTypes DEF KeysInv, RowsApart
    <3>2. QED
      BY <1>3, <3>1
  <2>2. QED
    BY <1>3, <2>1 DEF KeysInv, RowsApart
<1>11. SeenGone'
  <2>1. ASSUME NEW v \in Uploads, NEW row \in rows' PROVE upload'[v].previous \notin row.keys
    <3>1. row \in rows /\ 0 \notin row.keys
      BY <1>3, <2>1, KeyTypes
    <3>2. QED
      BY <1>1, <1>5, <3>1 DEF KeysInv, SeenGone
  <2>2. ASSUME NEW v \in Uploads, NEW mine \in upload'[v].mine
        PROVE  /\ picture' \notin mine.keys
               /\ mine \in rows' \/ \A row \in rows' : \A k \in mine.keys : k \notin row.keys
    <3>1. mine \in upload[v].mine
      BY <1>1, <1>5, <2>2
    <3>2. 0 \notin mine.keys /\ picture \notin mine.keys
      BY <3>1, KeyTypes DEF KeysInv, SeenGone
    <3>3. ASSUME mine \in rows, mine \notin rows', NEW row \in rows', NEW k \in mine.keys
          PROVE  k \notin row.keys
      BY <1>3, <3>3 DEF KeysInv, RowsApart
    <3>4. ASSUME \A row \in rows : \A k \in mine.keys : k \notin row.keys
          PROVE  \A row \in rows' : \A k \in mine.keys : k \notin row.keys
      BY <1>3, <3>4
    <3>5. mine \in rows' \/ \A row \in rows' : \A k \in mine.keys : k \notin row.keys
      BY <3>1, <3>3, <3>4 DEF KeysInv, SeenGone
    <3>6. QED
      BY <1>3, <3>2, <3>5
  <2>3. QED
    BY <2>1, <2>2 DEF SeenGone
<1>12. KeysExist'
  BY <1>1, <1>3, <1>5 DEF KeysInv, KeysExist
<1>13. QED
  BY <1>7, <1>8, <1>9, <1>10, <1>11, <1>12 DEF KeysInv

\* What is deleted is nobody's.
LEMMA KeysDeleted ==
  ASSUME TypeInv, RunsInStages, KeysInv, NEW u \in Uploads, NEW key, NEW deleted,
         DeleteObject(u, key, deleted)
  PROVE  KeysInv'
<1>1. /\ UNCHANGED <<lastKey, rows, picture>> /\ Alone(u)
      /\ upload[u].at = "clean up" /\ key \in upload[u].keys
      /\ bucket \ {key} \subseteq bucket'
      /\ upload'[u].at = "clean up" /\ upload'[u].keys \subseteq upload[u].keys
      /\ upload'[u].key = upload[u].key
      /\ upload'[u].previous = upload[u].previous /\ upload'[u].mine = upload[u].mine
  BY Deleted DEF NotProcesses
<1>2. Pending(u)' = {} /\ Pending(u) = {} /\ Doomed(u)' \subseteq Doomed(u) /\ key \in Doomed(u)
  BY <1>1 DEF Pending, Doomed, At
<1>3. \A v \in Uploads : v # u =>
         Pending(v)' = Pending(v) /\ Doomed(v)' = Doomed(v) /\ upload'[v] = upload[v]
  BY <1>1, OthersKeep
<1>4. /\ key # picture /\ \A row \in rows : key \notin row.keys
      /\ \A v \in Uploads : key \notin Pending(v)
  BY <1>2 DEF KeysInv, NotNamed, Named, PendingApart
<1>5. KeysOld'
  BY <1>1, <1>3 DEF KeysInv, KeysOld
<1>6. NotNamed'
  BY <1>1, <1>2, <1>3 DEF KeysInv, NotNamed, Named
<1>7. PendingApart'
  <2>1. SUFFICES ASSUME NEW v \in Uploads, NEW w \in Uploads, NEW k \in Pending(v)'
                 PROVE  /\ v # w => k \notin Pending(w)'
                        /\ k \notin Doomed(w)' /\ k # upload'[w].previous
                        /\ \A row \in upload'[w].mine : k \notin row.keys
    BY DEF PendingApart
  <2>2. k \in Pending(v)
    BY <1>2, <1>3, <2>1
  <2>3. /\ v # w => k \notin Pending(w)
        /\ k \notin Doomed(w) /\ k # upload[w].previous
        /\ \A row \in upload[w].mine : k \notin row.keys
    BY <2>2 DEF KeysInv, PendingApart
  <2>4. CASE w = u
    BY <1>1, <1>2, <2>3, <2>4
  <2>5. CASE w # u
    BY <1>3, <2>3, <2>5
  <2>6. QED
    BY <2>4, <2>5
<1>8. RowsApart' /\ SeenGone'
  BY <1>1, <1>3 DEF KeysInv, RowsApart, SeenGone
<1>9. KeysExist'
  <2>1. ASSUME NEW v \in Uploads, upload'[v].at # "clean up"
        PROVE  upload'[v].keys \subseteq bucket'
    <3>1. v # u /\ upload'[v] = upload[v]
      BY <1>1, <1>3, <2>1
    <3>2. upload[v].keys \subseteq bucket /\ upload[v].keys \subseteq Pending(v)
      BY <2>1, <3>1 DEF KeysInv, KeysExist, Pending, At
    <3>3. QED
      BY <1>1, <1>4, <3>1, <3>2
  <2>2. picture' = 0 \/ picture' \in bucket'
    BY <1>1, <1>4 DEF KeysInv, KeysExist
  <2>3. \A row \in rows' : row.keys \subseteq bucket'
    BY <1>1, <1>4 DEF KeysInv, KeysExist
  <2>4. QED
    BY <2>1, <2>2, <2>3 DEF KeysExist
<1>10. QED
  BY <1>5, <1>6, <1>7, <1>8, <1>9 DEF KeysInv

\* Every step keeps it.
LEMMA KeysStep ==
  MediaAssumption /\ SlotInv /\ KeysInv /\ [MediaNext]_mediaVars => KeysInv'
<1> SUFFICES ASSUME MediaAssumption, TypeInv, RunsInStages, KeysInv, [MediaNext]_mediaVars
             PROVE  KeysInv'
  BY DEF SlotInv
<1>1. ASSUME NEW u \in Uploads, Local(u) PROVE KeysInv'
  <2>1. UNCHANGED <<bucket, lastKey, rows, picture>> /\ Alone(u) /\ Kept(u)
    BY <1>1, LocalSteps
  <2>2. ASSUME NEW v \in Uploads
        PROVE  /\ upload'[v].keys \subseteq upload[v].keys /\ upload'[v].key \in {0, upload[v].key}
               /\ upload'[v].previous \in {0, picture, upload[v].previous}
               /\ upload'[v].mine \subseteq upload[v].mine \cup rows
               /\ \/ upload'[v].at = "clean up" <=> upload[v].at = "clean up"
                  \/ upload'[v].keys = {} /\ upload'[v].key = 0
    BY <2>1 DEF Alone, Kept, SameKeys, Forgotten
  <2>3. QED
    BY <2>1, <2>2, KeysQuiet
<1>2. ASSUME NEW u \in Uploads, NEW s \in Submissions, Submit(u, s) PROVE KeysInv'
  <2>1. /\ UNCHANGED <<bucket, lastKey, rows, picture>> /\ Alone(u)
        /\ upload'[u].keys = {} /\ upload'[u].key = 0
        /\ upload'[u].previous \in {0, picture} /\ upload'[u].mine \subseteq rows
    BY <1>2, Submitted DEF NotProcesses
  <2>2. ASSUME NEW v \in Uploads
        PROVE  /\ upload'[v].keys \subseteq upload[v].keys /\ upload'[v].key \in {0, upload[v].key}
               /\ upload'[v].previous \in {0, picture, upload[v].previous}
               /\ upload'[v].mine \subseteq upload[v].mine \cup rows
               /\ \/ upload'[v].at = "clean up" <=> upload[v].at = "clean up"
                  \/ upload'[v].keys = {} /\ upload'[v].key = 0
    BY <2>1 DEF Alone
  <2>3. QED
    BY <2>1, <2>2, KeysQuiet
<1>3. ASSUME NEW u \in Uploads, Remaining(u) PROVE KeysInv'
  BY <1>3, KeysWritten, KeysDropped, KeysCommitted, KeysPictured, KeysErased, KeysDeleted
    DEF Remaining
<1>4. CASE BackendRestarts
  <2>1. /\ UNCHANGED <<bucket, lastKey, rows, picture>>
        /\ \A u \in Uploads : Forgotten(u)
    BY <1>4, Restarted
  <2>2. QED
    BY <2>1, KeysQuiet DEF Forgotten
<1>5. CASE UNCHANGED mediaVars
  BY <1>5, KeysQuiet DEF mediaVars
<1>6. QED
  BY <1>1, <1>2, <1>3, <1>4, <1>5, NextSteps

\* A row never names an object that is not there: not when an upload fails or
\* is retried, when pictures replace each other, or when an account goes
\* meanwhile, however many requests overlap.
THEOREM RowsNameObjects == MediaSpec => []ReferencedExists
<1>1. MediaInit => KeysInv
  <2>1. SUFFICES ASSUME MediaInit PROVE KeysInv
    OBVIOUS
  <2>2. /\ bucket = {} /\ lastKey = 0 /\ rows = {} /\ picture = 0
        /\ upload = [u \in Uploads |-> NoUpload]
    BY <2>1 DEF MediaInit
  <2>3. \A u \in Uploads : /\ upload[u].keys = {} /\ upload[u].key = 0
                           /\ upload[u].previous = 0 /\ upload[u].mine = {}
    BY <2>2, NoUploadTyped
  <2>4. \A u \in Uploads : Pending(u) = {} /\ Doomed(u) = {}
    BY <2>3 DEF Pending, Doomed
  <2>5. KeysOld /\ SeenGone /\ RowsApart /\ KeysExist
    <3>1. 0 <= lastKey
      BY <2>2
    <3>2. KeysOld
      BY <2>2, <2>3, <3>1 DEF KeysOld
    <3>3. SeenGone /\ RowsApart /\ KeysExist
      BY <2>2, <2>3 DEF SeenGone, RowsApart, KeysExist
    <3>4. QED
      BY <3>2, <3>3
  <2>6. NotNamed /\ PendingApart
    BY <2>4 DEF NotNamed, PendingApart
  <2>7. QED
    BY <2>5, <2>6 DEF KeysInv
<1>2. KeysInv => ReferencedExists
  <2>1. SUFFICES ASSUME KeysExist, NEW k \in Referenced PROVE k \in bucket
    BY DEF KeysInv, ReferencedExists
  <2>2. (k = picture /\ k # 0) \/ \E row \in rows : k \in row.keys
    BY <2>1 DEF Referenced
  <2>3. QED
    BY <2>1, <2>2 DEF KeysExist
<1>3. SlotInv /\ KeysInv /\ [MediaNext]_mediaVars => SlotInv' /\ KeysInv'
  BY MediaAssumption, SlotStep, KeysStep
<1>4. QED
  BY <1>1, <1>2, <1>3, SlotStarts, PTL DEF MediaSpec

------------------------------------------------------------------------------
(* What is left over between requests. *)

\* What a request holds of the bucket: what it has stored, is storing, or will delete.
Own(u) == upload[u].keys \cup ({upload[u].key} \ {0})
FileStages == VideoStages \cup {"process"}

\* A profile picture is one file, and its request stores one object at most.
OneObject(u) ==
    /\ upload[u].at \notin VideoStages /\ upload[u].puts >= 0
    /\ \/ upload[u].keys = {} /\ Len(upload[u].todo) + upload[u].puts <= 1
       \/ /\ Len(upload[u].todo) = 0 /\ upload[u].puts = 0
          /\ \E k \in upload[u].keys : upload[u].keys = {k}
\* A request holds objects while it stores or deletes them, and a key while it has one to store.
Tidy(u) ==
    /\ upload[u].at \notin {"put", "clean up"} => upload[u].keys = {}
    /\ upload[u].key # 0 => upload[u].at = "put" /\ upload[u].puts > 0
    /\ upload[u].kind = "picture" => OneObject(u)

\* Until two requests about the picture have met, one at a time has seen the picture there is, ...
PictureAlone ==
    mayLeak \/ \A u \in OwnsPicture : upload[u].previous = picture /\ \A v \in OwnsPicture : v = u
\* ... and every object is named by a row or held by a request.
NoOrphans ==
    mayLeak \/ \A k \in bucket : k \in Referenced \/ \E u \in Uploads : k \in Own(u)
LeakInv == (\A u \in Uploads : Tidy(u)) /\ bucket \subseteq Keys /\ PictureAlone /\ NoOrphans

\* The next file, or the next stage of a clip, or all files are done.
Goes(u) ==
    /\ SameKeys(u) /\ upload'[u].kind = upload[u].kind /\ upload[u].at \in FileStages
    /\ upload'[u].at = "put" => SpendTokens(u)
    /\ \/ /\ upload'[u].puts = upload[u].puts /\ upload'[u].todo = upload[u].todo
          /\ upload'[u].at \in FileStages \cup {"put"}
          /\ upload[u].at = "process" /\ upload[u].kind = "picture" =>
               upload'[u].at \notin VideoStages
       \/ /\ upload[u].todo # << >> /\ upload'[u].todo = Tail(upload[u].todo)
          /\ upload'[u].at = "process"
          /\ \E n \in {1, 2} : /\ upload'[u].puts = upload[u].puts + n
                               /\ upload[u].at = "process" => n = 1

\* A picture is never a clip.
LEMMA PictureVerdict == \A f : Verdict("picture", f) # "transcode"
BY DEF Verdict, ProcessProfilePicture, ProcessFeedbackImage

\* Steps that touch neither the bucket nor a row end a request, or go on with its files.
LEMMA LocalShape ==
  ASSUME TypeInv, RunsInStages, NEW u \in Uploads, Local(u)
  PROVE  Over(u) \/ Goes(u)
<1>0. /\ upload[u].running => upload[u].at \in VideoStages
      /\ upload[u].at \in VideoStages => upload[u].todo # << >>
  BY DEF TypeInv, RunsInStages
<1>d. ASSUME NEW n \in {1, 2}, FileDone(u, n), upload[u].todo # << >>, upload[u].at \in FileStages,
             upload[u].at = "process" => n = 1
      PROVE  Goes(u)
  <2>1. n \in Nat
    BY <1>d
  <2>2. QED
    BY <1>d, <2>1, FileIsDone DEF Goes
<1>s. ASSUME SameKeys(u), SameOrder(u), upload[u].at \in FileStages,
             upload'[u].at \in FileStages \cup {"put"},
             upload[u].at = "process" /\ upload[u].kind = "picture" => upload'[u].at \notin VideoStages,
             upload'[u].at = "put" => SpendTokens(u)
      PROVE  Goes(u)
  BY <1>s DEF Goes, SameOrder
<1>1. ASSUME ProcessFile(u) PROVE Over(u) \/ Goes(u)
  <2>1. /\ upload[u].at = "process" /\ upload[u].todo # << >>
        /\ \/ FileDone(u, 1) \/ Over(u)
           \/ Move(u, "probe") /\ Verdict(upload[u].kind, Head(upload[u].todo)) = "transcode"
    BY <1>1 DEF ProcessFile, At
  <2>2. upload[u].at \in FileStages
    BY <2>1 DEF FileStages
  <2>3. CASE FileDone(u, 1)
    BY <1>d, <2>1, <2>2, <2>3
  <2>4. CASE Move(u, "probe") /\ Verdict(upload[u].kind, Head(upload[u].todo)) = "transcode"
    <3>1. "probe" \in Stages /\ "probe" \in FileStages
      BY DEF Stages, FileStages, VideoStages
    <3>2. SameKeys(u) /\ SameOrder(u) /\ upload'[u].at = "probe"
      BY <2>4, <3>1, Moved
    <3>3. upload[u].kind # "picture"
      BY <2>4, PictureVerdict
    <3>4. QED
      BY <1>s, <2>2, <3>1, <3>2, <3>3
  <2>5. QED
    BY <2>1, <2>3, <2>4
<1>2. ASSUME StartProcess(u) PROVE Goes(u)
  <2>1. upload[u].at \in VideoStages /\ upload' = [upload EXCEPT ![u].running = TRUE]
    BY <1>2 DEF StartProcess
  <2>2. SameKeys(u) /\ SameOrder(u) /\ upload'[u].at = upload[u].at
    BY <2>1, Started
  <2>3. upload[u].at \in FileStages /\ upload[u].at \notin {"process", "put"}
    BY <2>1 DEF FileStages, VideoStages
  <2>4. QED
    BY <1>s, <2>2, <2>3
<1>3. ASSUME NEW at \in {"transcode", "measure", "poster"}, upload[u].at \in VideoStages,
             upload' = [upload EXCEPT ![u].at = at, ![u].running = FALSE]
      PROVE  Goes(u)
  <2>1. at \in Stages /\ at \in FileStages
    BY DEF Stages, FileStages, VideoStages
  <2>2. SameKeys(u) /\ SameOrder(u) /\ upload'[u].at = at
    BY <1>3, <2>1, Turned
  <2>3. upload[u].at \in FileStages /\ upload[u].at # "process"
    BY <1>3 DEF FileStages, VideoStages
  <2>4. QED
    BY <1>s, <2>1, <2>2, <2>3
<1>4. ASSUME ProcessExits(u) PROVE Over(u) \/ Goes(u)
  <2>1. upload[u].at \in VideoStages /\ upload[u].todo # << >>
    BY <1>0, <1>4 DEF ProcessExits
  <2>2. upload[u].at \in FileStages /\ upload[u].at # "process"
    BY <2>1 DEF FileStages, VideoStages
  <2>3. \/ Over(u) \/ FileDone(u, 2)
        \/ upload' = [upload EXCEPT ![u].at = "transcode", ![u].running = FALSE]
        \/ upload' = [upload EXCEPT ![u].at = "measure", ![u].running = FALSE]
        \/ upload' = [upload EXCEPT ![u].at = "poster", ![u].running = FALSE]
    BY <1>4, <2>1 DEF ProcessExits, At, VideoStages, ProbeVideo, TranscodeVideo, MeasureVideo,
       ExtractPoster
  <2>4. QED
    BY <1>d, <1>3, <2>1, <2>2, <2>3
<1>5. ASSUME ProcessFails(u) \/ ProcessTimesOut(u) PROVE Over(u) \/ Goes(u)
  <2>1. upload[u].running /\ (FileDone(u, 1) \/ Over(u))
    BY <1>5 DEF ProcessFails, ProcessTimesOut, VideoFails
  <2>2. upload[u].todo # << >> /\ upload[u].at \in FileStages
    BY <1>0, <2>1 DEF FileStages
  <2>3. QED
    BY <1>d, <2>1, <2>2
<1>6. ASSUME SpendTokens(u) PROVE Over(u) \/ Goes(u)
  <2>1. upload[u].at = "process" /\ (Move(u, "put") \/ Over(u))
    BY <1>6 DEF SpendTokens, At
  <2>2. CASE Move(u, "put")
    <3>1. "put" \in Stages /\ "put" \notin VideoStages /\ upload[u].at \in FileStages
      BY <2>1 DEF Stages, VideoStages, FileStages
    <3>2. SameKeys(u) /\ SameOrder(u) /\ upload'[u].at = "put"
      BY <2>2, <3>1, Moved
    <3>3. QED
      BY <1>6, <1>s, <3>1, <3>2
  <2>3. QED
    BY <2>1, <2>2
<1>7. ASSUME EnqueueOperation(u) \/ CommitFails(u) \/ CleanedUp(u) PROVE Over(u)
  BY <1>7 DEF EnqueueOperation, CommitFails, CleanedUp
<1>8. QED
  BY <1>1, <1>2, <1>4, <1>5, <1>6, <1>7 DEF Local

\* A request that is over holds nothing.
LEMMA OverTidy ==
  ASSUME NEW u \in Uploads, upload'[u] = NoUpload
  PROVE  Tidy(u)' /\ Own(u)' = {} /\ u \notin OwnsPicture'
<1>1. /\ upload'[u].keys = {} /\ upload'[u].key = 0 /\ upload'[u].kind = "none"
  BY NoUploadTyped
<1>2. QED
  BY <1>1 DEF Tidy, Own, OwnsPicture, PictureKinds

\* Going on keeps it tidy.
LEMMA GoesTidy ==
  ASSUME TypeInv, NEW u \in Uploads, Tidy(u), Goes(u)
  PROVE  /\ Tidy(u)' /\ Own(u) = {} /\ Own(u)' = {}
         /\ upload'[u].kind = upload[u].kind /\ upload'[u].previous = upload[u].previous
<1>1. upload[u].at \notin {"put", "clean up"}
  BY DEF Goes, FileStages, VideoStages
<1>2. /\ upload[u].keys = {} /\ upload[u].key = 0 /\ upload'[u].keys = {} /\ upload'[u].key = 0
      /\ upload'[u].kind = upload[u].kind /\ upload'[u].previous = upload[u].previous
  BY <1>1 DEF Tidy, Goes, SameKeys
<1>3. ASSUME upload[u].kind = "picture" PROVE OneObject(u)'
  <2>1. OneObject(u)
    BY <1>3 DEF Tidy
  <2>2. /\ upload[u].at = "process" /\ upload[u].puts >= 0 /\ Len(upload[u].todo) + upload[u].puts <= 1
    BY <1>2, <2>1 DEF OneObject, Goes, FileStages
  <2>3. upload[u].todo \in Seq(Files) /\ upload[u].puts \in Int
    BY DEF TypeInv, UploadType
  <2>4. CASE /\ upload'[u].puts = upload[u].puts /\ upload'[u].todo = upload[u].todo
             /\ upload'[u].at \notin VideoStages
    BY <1>2, <2>2, <2>4 DEF OneObject
  <2>5. CASE /\ upload[u].todo # << >> /\ upload'[u].todo = Tail(upload[u].todo)
             /\ upload'[u].at = "process" /\ upload'[u].puts = upload[u].puts + 1
    <3> DEFINE was == upload[u].todo
    <3>1. Len(Tail(was)) = Len(was) - 1 /\ Len(was) \in Nat
      BY <2>3, <2>5, HeadTailProperties, LenProperties
    <3>2. "process" \notin VideoStages
      BY DEF VideoStages
    <3>3. /\ Len(upload'[u].todo) + upload'[u].puts <= 1 /\ upload'[u].puts >= 0
      BY <2>2, <2>3, <2>5, <3>1
    <3>4. QED
      BY <1>2, <2>5, <3>2, <3>3 DEF OneObject
  <2>6. \/ /\ upload'[u].puts = upload[u].puts /\ upload'[u].todo = upload[u].todo
           /\ upload'[u].at \notin VideoStages
        \/ /\ upload[u].todo # << >> /\ upload'[u].todo = Tail(upload[u].todo)
           /\ upload'[u].at = "process" /\ upload'[u].puts = upload[u].puts + 1
    BY <1>3, <2>2 DEF Goes
  <2>7. QED
    BY <2>4, <2>5, <2>6
<1>4. QED
  BY <1>2, <1>3 DEF Tidy, Own

------------------------------------------------------------------------------
(* How the steps keep the bucket tidy. *)

\* No object loses the row or the request it belongs to.
OrphansKept(u) ==
    mayLeak' \/ \A k \in bucket' :
        \/ k \in Referenced' \/ k \in Own(u)'
        \/ k \in bucket /\ k \notin Referenced /\ k \notin Own(u)
\* A request about the picture has seen it, alone, or says no more about it.
PictureKept(u) ==
    \/ mayLeak'
    \/ u \notin OwnsPicture' /\ (picture' = picture \/ u \in OwnsPicture)
    \/ /\ u \in OwnsPicture' /\ (u \in OwnsPicture \/ OwnsPicture = {})
       /\ picture' = picture /\ upload'[u].previous = picture

\* A request that leaves its own things in order leaves all in order.
LEMMA LeakKept ==
  ASSUME LeakInv, NEW u \in Uploads, Alone(u), mayLeak => mayLeak',
         bucket' \subseteq Keys, Tidy(u)', OrphansKept(u), PictureKept(u)
  PROVE  LeakInv'
<1>0. \A v \in Uploads : v # u => upload'[v] = upload[v]
  BY DEF Alone
<1>1. \A v \in Uploads : Tidy(v)'
  <2>1. SUFFICES ASSUME NEW v \in Uploads, v # u PROVE Tidy(v)'
    OBVIOUS
  <2>2. Tidy(v) /\ upload'[v] = upload[v]
    BY <1>0, <2>1 DEF LeakInv
  <2>3. QED
    BY <2>2 DEF Tidy, OneObject
<1>2. NoOrphans'
  <2>1. SUFFICES ASSUME ~mayLeak', NEW k \in bucket',
                        k \in bucket, k \notin Referenced, k \notin Own(u)
                 PROVE  \E v \in Uploads : k \in Own(v)'
    BY DEF OrphansKept, NoOrphans
  <2>2. PICK v \in Uploads : k \in Own(v)
    BY <2>1 DEF LeakInv, NoOrphans
  <2>3. Own(v)' = Own(v)
    BY <1>0, <2>1, <2>2 DEF Own
  <2>4. QED
    BY <2>2, <2>3
<1>3. PictureAlone'
  <2>1. SUFFICES ASSUME ~mayLeak'
                 PROVE  \A v \in OwnsPicture' :
                            upload'[v].previous = picture' /\ \A w \in OwnsPicture' : w = v
    BY DEF PictureAlone
  <2>2. /\ OwnsPicture' \subseteq Uploads /\ OwnsPicture \subseteq Uploads
        /\ \A v \in Uploads : v # u => (v \in OwnsPicture' <=> v \in OwnsPicture)
    BY <1>0 DEF OwnsPicture
  <2>3. \A v \in OwnsPicture : upload[v].previous = picture /\ \A w \in OwnsPicture : w = v
    BY <2>1 DEF LeakInv, PictureAlone
  <2>4. CASE u \notin OwnsPicture' /\ (picture' = picture \/ u \in OwnsPicture)
    BY <1>0, <2>2, <2>3, <2>4
  <2>5. CASE /\ u \in OwnsPicture' /\ (u \in OwnsPicture \/ OwnsPicture = {})
             /\ picture' = picture /\ upload'[u].previous = picture
    BY <1>0, <2>2, <2>3, <2>5
  <2>6. QED
    BY <2>1, <2>4, <2>5 DEF PictureKept
<1>4. QED
  BY <1>1, <1>2, <1>3 DEF LeakInv

\* A request that says of the picture what it said is as alone as it was.
LEMMA SamePicture ==
  ASSUME LeakInv, NEW u \in Uploads, mayLeak => mayLeak', picture' = picture,
         upload'[u].kind = upload[u].kind, upload'[u].previous = upload[u].previous
  PROVE  PictureKept(u)
<1>1. u \in OwnsPicture' <=> u \in OwnsPicture
  BY DEF OwnsPicture
<1>2. u \in OwnsPicture => mayLeak \/ upload[u].previous = picture
  BY DEF LeakInv, PictureAlone
<1>3. QED
  BY <1>1, <1>2 DEF PictureKept

\* So is one that has nothing more to say.
LEMMA NoPicture ==
  ASSUME NEW u \in Uploads, upload'[u].kind = "none", picture' = picture \/ u \in OwnsPicture
  PROVE  PictureKept(u)
BY DEF PictureKept, OwnsPicture, PictureKinds

\* A request that cleans up is tidy.
LEMMA CleaningTidy ==
  ASSUME NEW u \in Uploads, upload'[u].at = "clean up", upload'[u].key = 0,
         upload'[u].kind = "none"
  PROVE  Tidy(u)' /\ Own(u)' = upload'[u].keys
BY DEF Tidy, Own

\* What is named in the bucket, and who has the rest.
LEMMA Names ==
  /\ \A k : k \in Referenced <=> (k = picture /\ k # 0) \/ \E row \in rows : k \in row.keys
  /\ \A k : k \in Referenced' <=> (k = picture' /\ k # 0) \/ \E row \in rows' : k \in row.keys
BY DEF Referenced

\* The steps about neither the bucket nor a row.
LEMMA LeakLocal ==
  ASSUME TypeInv, RunsInStages, LeakInv, NEW u \in Uploads, Local(u)
  PROVE  LeakInv'
<1>1. UNCHANGED <<bucket, lastKey, rows, picture>> /\ Alone(u)
  BY LocalSteps
<1>2. /\ mayLeak => mayLeak'
      /\ CommitFails(u) => mayLeak' \/ upload[u].keys = {}
  <2>1. ASSUME CommitFails(u) PROVE (mayLeak => mayLeak') /\ (mayLeak' \/ upload[u].keys = {})
    <3>1. mayLeak' = (mayLeak \/ upload[u].keys # {})
      BY <2>1 DEF CommitFails
    <3>2. QED
      BY <3>1, Zenon
  <2>2. ASSUME ~CommitFails(u) PROVE mayLeak' = mayLeak
    BY <2>2 DEF Local, ProcessFile, StartProcess, ProcessExits, ProcessFails, ProcessTimesOut,
       SpendTokens, EnqueueOperation, CleanedUp
  <2>3. QED
    BY <2>1, <2>2
<1>3. Tidy(u) /\ bucket \subseteq Keys /\ Referenced' = Referenced
  BY <1>1 DEF LeakInv, Referenced
<1>4. CASE Goes(u)
  <2>1. /\ Tidy(u)' /\ Own(u) = {} /\ Own(u)' = {}
        /\ upload'[u].kind = upload[u].kind /\ upload'[u].previous = upload[u].previous
    BY <1>3, <1>4, GoesTidy
  <2>2. PictureKept(u)
    BY <1>1, <1>2, <2>1, SamePicture
  <2>3. OrphansKept(u)
    BY <1>1, <2>1, <1>3 DEF OrphansKept
  <2>4. QED
    BY <1>1, <1>2, <1>3, <2>1, <2>2, <2>3, LeakKept
<1>5. CASE Over(u)
  <2>1. upload'[u] = NoUpload /\ upload'[u].kind = "none"
    BY <1>5, Ended, NoUploadTyped
  <2>2. Tidy(u)' /\ Own(u)' = {}
    BY <2>1, OverTidy
  <2>3. PictureKept(u)
    BY <1>1, <2>1, NoPicture
  <2>4. mayLeak' \/ Own(u) = {}
    <3>1. CASE CommitFails(u)
      <4>1. upload[u].at # "put" \/ ~(upload[u].puts > 0)
        BY <3>1 DEF CommitFails, Stored, At
      <4>2. upload[u].key = 0
        BY <1>3, <4>1 DEF Tidy
      <4>3. QED
        BY <1>2, <3>1, <4>2 DEF Own
    <3>2. CASE CleanedUp(u)
      <4>1. upload[u].at = "clean up" /\ upload[u].keys = {}
        BY <3>2 DEF CleanedUp, At
      <4>2. QED
        BY <1>3, <4>1 DEF Tidy, Own
    <3>3. CASE ~CommitFails(u) /\ ~CleanedUp(u)
      <4>1. upload[u].at \in VideoStages \cup {"process", "enqueue"}
        BY <3>3 DEF Local, ProcessFile, StartProcess, ProcessExits, ProcessFails,
           ProcessTimesOut, SpendTokens, EnqueueOperation, At, RunsInStages
      <4>2. upload[u].at \notin {"put", "clean up"}
        BY <4>1 DEF VideoStages
      <4>3. QED
        BY <1>3, <4>2 DEF Tidy, Own
    <3>4. QED
      BY <3>1, <3>2, <3>3
  <2>5. OrphansKept(u)
    BY <1>1, <1>3, <2>4 DEF OrphansKept
  <2>6. QED
    BY <1>1, <1>2, <1>3, <2>2, <2>3, <2>5, LeakKept
<1>6. QED
  BY <1>4, <1>5, LocalShape

\* A new request, and what it has seen of the picture.
LEMMA LeakSubmit ==
  ASSUME TypeInv, RunsInStages, MediaAssumption, OnePicture, LeakInv,
         NEW u \in Uploads, NEW s \in Submissions, Submit(u, s)
  PROVE  LeakInv'
<1>1. /\ UNCHANGED <<bucket, rows, picture>> /\ Alone(u)
      /\ upload'[u].keys = {} /\ upload'[u].key = 0
      /\ s.kind \in PictureKinds => upload'[u].previous = picture
      /\ upload'[u].kind = s.kind /\ upload'[u].todo = s.files /\ upload'[u].puts = 0
      /\ upload[u].at = "idle" /\ upload'[u].at \in {"commit", "process"}
  BY Submitted DEF NotProcesses
<1>2. /\ mayLeak => mayLeak'
      /\ s.kind \in PictureKinds => mayLeak' \/ OwnsPicture = {}
  BY DEF Submit
<1>3. Tidy(u) /\ bucket \subseteq Keys /\ Referenced' = Referenced
  BY <1>1 DEF LeakInv, Referenced
<1>4. Tidy(u)'
  <2>1. ASSUME s.kind = "picture" PROVE OneObject(u)'
    <3>1. Len(s.files) = 1
      BY <2>1 DEF OnePicture
    <3>2. upload'[u].at \notin VideoStages
      BY <1>1 DEF VideoStages
    <3>3. Len(upload'[u].todo) + upload'[u].puts <= 1 /\ upload'[u].puts >= 0
      BY <1>1, <3>1
    <3>4. QED
      BY <1>1, <3>2, <3>3 DEF OneObject
  <2>2. QED
    BY <1>1, <2>1 DEF Tidy
<1>5. OrphansKept(u)
  <2>1. Own(u) = {}
    BY <1>1, <1>3 DEF Tidy, Own
  <2>2. QED
    BY <1>1, <1>3, <2>1 DEF OrphansKept
<1>6. PictureKept(u)
  <2>1. u \in OwnsPicture' <=> s.kind \in PictureKinds
    BY <1>1 DEF OwnsPicture
  <2>2. QED
    BY <1>1, <1>2, <2>1 DEF PictureKept
<1>7. QED
  BY <1>1, <1>2, <1>3, <1>4, <1>5, <1>6, LeakKept

\* What is written is the request's.
LEMMA LeakWrites ==
  ASSUME TypeInv, RunsInStages, LeakInv, NEW u \in Uploads, Writes(u)
  PROVE  LeakInv'
<1> DEFINE K == KeyOf(u)
<1>1. /\ UNCHANGED <<rows, picture>> /\ Alone(u) /\ Putting(u) /\ upload'[u].at = "put"
      /\ upload'[u].previous = upload[u].previous /\ upload'[u].kind = upload[u].kind
      /\ upload'[u].todo = upload[u].todo
      /\ bucket' \subseteq bucket \cup {K}
      /\ \/ /\ upload'[u].puts = upload[u].puts - 1 /\ upload'[u].key = 0
            /\ upload'[u].keys = upload[u].keys \cup {K}
         \/ /\ upload'[u].puts = upload[u].puts /\ upload'[u].key = K
            /\ upload'[u].keys = upload[u].keys
  BY PutSteps DEF Writes, NotProcesses
<1>2. /\ K \in Keys /\ K # 0 /\ upload[u].puts > 0 /\ upload[u].at = "put"
      /\ upload[u].key # 0 => K = upload[u].key
  BY <1>1, Puts DEF Putting, KeyOf
<1>3. mayLeak' = mayLeak
  BY DEF Writes, PutSucceeds, PutRetries
<1>4. /\ Tidy(u) /\ bucket \subseteq Keys /\ Referenced' = Referenced
      /\ upload[u].puts \in Int /\ upload[u].todo \in Seq(Files)
  BY <1>1 DEF LeakInv, Referenced, TypeInv, UploadType
<1> HIDE DEF K
<1>5. Tidy(u)'
  <2>1. upload'[u].key # 0 => upload'[u].puts > 0
    BY <1>1, <1>2
  <2>2. ASSUME upload[u].kind = "picture" PROVE OneObject(u)'
    <3>1. OneObject(u)
      BY <1>4, <2>2 DEF Tidy
    <3>2. /\ upload[u].keys = {} /\ upload[u].puts >= 0
          /\ Len(upload[u].todo) + upload[u].puts <= 1
      BY <1>2, <1>4, <3>1 DEF OneObject
    <3>3. Len(upload[u].todo) \in Nat
      BY <1>4, LenProperties
    <3>4. upload[u].puts = 1 /\ Len(upload[u].todo) = 0
      BY <1>2, <1>4, <3>2, <3>3
    <3>5. upload'[u].at \notin VideoStages
      BY <1>1 DEF VideoStages
    <3>6. CASE /\ upload'[u].puts = upload[u].puts - 1
               /\ upload'[u].keys = upload[u].keys \cup {K}
      <4>1. upload'[u].keys = {K} /\ upload'[u].puts = 0 /\ Len(upload'[u].todo) = 0
        BY <1>1, <3>2, <3>4, <3>6
      <4>2. QED
        BY <3>5, <4>1 DEF OneObject
    <3>7. CASE upload'[u].puts = upload[u].puts /\ upload'[u].keys = upload[u].keys
      BY <1>1, <3>2, <3>5, <3>7 DEF OneObject
    <3>8. QED
      BY <1>1, <3>6, <3>7
  <2>3. QED
    BY <1>1, <2>1, <2>2 DEF Tidy
<1>6. OrphansKept(u)
  <2>1. K \in Own(u)' /\ Own(u) \subseteq Own(u)'
    BY <1>1, <1>2 DEF Own
  <2>2. QED
    BY <1>1, <1>4, <2>1 DEF OrphansKept
<1>7. PictureKept(u)
  BY <1>1, <1>3, SamePicture
<1>8. bucket' \subseteq Keys
  BY <1>1, <1>2, <1>4
<1>9. QED
  BY <1>1, <1>3, <1>5, <1>6, <1>7, <1>8, LeakKept

\* What was written before is deleted; what may have been written at last is not.
LEMMA LeakGivesUp ==
  ASSUME TypeInv, RunsInStages, LeakInv, NEW u \in Uploads,
         NEW wrote \in BOOLEAN, PutFails(u, wrote)
  PROVE  LeakInv'
<1> DEFINE K == KeyOf(u)
<1>1. /\ UNCHANGED <<rows, picture>> /\ Alone(u) /\ Putting(u)
      /\ upload'[u].at = "clean up" /\ upload'[u].keys = upload[u].keys
      /\ upload'[u].key = 0 /\ upload'[u].kind = "none"
  BY GivesUp DEF NotProcesses
<1>2. K \in Keys /\ (upload[u].key # 0 => K = upload[u].key)
  BY <1>1, Puts DEF KeyOf
<1>3. bucket' \subseteq bucket \cup {K}
  BY DEF PutFails
<1>4. (mayLeak => mayLeak') /\ (mayLeak' \/ K \notin bucket')
  <2>1. mayLeak' = (mayLeak \/ K \in bucket')
    BY DEF PutFails
  <2>2. QED
    BY <2>1, Zenon
<1>5. bucket \subseteq Keys /\ Referenced' = Referenced
  BY <1>1 DEF LeakInv, Referenced
<1> HIDE DEF K
<1>6. Tidy(u)' /\ Own(u)' = upload[u].keys
  BY <1>1, CleaningTidy
<1>7. OrphansKept(u)
  <2>1. SUFFICES ASSUME K \notin bucket', NEW k \in bucket', k \in Own(u) PROVE k \in Own(u)'
    BY <1>3, <1>4, <1>5 DEF OrphansKept
  <2>2. k # K
    BY <2>1
  <2>3. k \in upload[u].keys
    BY <1>2, <2>1, <2>2 DEF Own
  <2>4. QED
    BY <1>6, <2>3
<1>8. PictureKept(u)
  BY <1>1, NoPicture
<1>9. bucket' \subseteq Keys
  BY <1>2, <1>3, <1>5
<1>10. QED
  BY <1>1, <1>4, <1>6, <1>7, <1>8, <1>9, LeakKept

\* What was stored for a post or feedback is named by its row.
LEMMA LeakRow ==
  ASSUME TypeInv, RunsInStages, LeakInv, NEW u \in Uploads, CommitPost(u) \/ CommitFeedback(u)
  PROVE  LeakInv'
<1>1. /\ UNCHANGED <<bucket, picture>> /\ Alone(u) /\ Forgotten(u)
      /\ upload'[u].kind = "none"
  BY RowCommitted DEF NotProcesses
<1>2. PICK row \in Row : rows' = rows \cup {row} /\ row.keys = upload[u].keys
  BY RowCommitted
<1>3. mayLeak' = mayLeak /\ ~(upload[u].puts > 0)
  BY DEF CommitPost, CommitFeedback, Stored
<1>4. /\ Tidy(u) /\ bucket \subseteq Keys
      /\ \A k : k \in Referenced' <=> k \in Referenced \/ k \in upload[u].keys
  BY <1>1, <1>2, Names DEF LeakInv
<1>5. Tidy(u)'
  BY <1>1 DEF Tidy, Forgotten
<1>6. OrphansKept(u)
  <2>1. Own(u) = upload[u].keys
    BY <1>3, <1>4 DEF Tidy, Own
  <2>2. QED
    BY <1>1, <1>4, <2>1 DEF OrphansKept
<1>7. PictureKept(u)
  BY <1>1, NoPicture
<1>8. QED
  BY <1>1, <1>3, <1>4, <1>5, <1>6, <1>7, LeakKept

\* The one object of a picture is named; the one it replaces will go.
LEMMA LeakPicture ==
  ASSUME TypeInv, RunsInStages, LeakInv, NEW u \in Uploads, CommitPicture(u)
  PROVE  LeakInv'
<1>1. /\ UNCHANGED <<bucket, rows>> /\ Alone(u) /\ picture' \in upload[u].keys
      /\ upload'[u].at = "clean up" /\ upload'[u].keys = {upload[u].previous} \ {0}
      /\ upload'[u].key = 0 /\ upload'[u].kind = "none"
  BY PictureCommitted DEF NotProcesses
<1>2. mayLeak' = mayLeak /\ ~(upload[u].puts > 0) /\ upload[u].kind = "picture"
  BY DEF CommitPicture, Stored
<1>3. u \in OwnsPicture /\ (mayLeak \/ upload[u].previous = picture)
  <2>1. u \in OwnsPicture
    BY <1>2 DEF OwnsPicture, PictureKinds
  <2>2. QED
    BY <2>1 DEF LeakInv, PictureAlone
<1>4. Tidy(u) /\ bucket \subseteq Keys /\ upload[u].keys \in SUBSET Keys
  BY DEF LeakInv, TypeInv, UploadType
<1>5. Own(u) = {picture'} /\ picture' # 0
  <2>1. OneObject(u) /\ upload[u].key = 0
    BY <1>2, <1>4 DEF Tidy
  <2>2. upload[u].keys = {picture'}
    BY <1>1, <2>1 DEF OneObject
  <2>3. picture' \in Keys
    BY <1>1, <1>4
  <2>4. QED
    BY <2>1, <2>2, <2>3 DEF Own, Keys
<1>6. Tidy(u)' /\ Own(u)' = {upload[u].previous} \ {0}
  BY <1>1, CleaningTidy
<1>7. OrphansKept(u)
  <2>1. SUFFICES ASSUME upload[u].previous = picture, NEW k \in bucket'
                 PROVE  \/ k \in Referenced' \/ k \in Own(u)'
                        \/ k \in bucket /\ k \notin Referenced /\ k \notin Own(u)
    BY <1>2, <1>3 DEF OrphansKept
  <2>2. CASE k = picture'
    BY <1>5, <2>2, Names
  <2>3. CASE k = picture /\ k # 0
    BY <1>6, <2>1, <2>3
  <2>4. CASE \E row \in rows : k \in row.keys
    BY <1>1, <2>4, Names
  <2>5. CASE k # picture' /\ k \notin Referenced
    BY <1>1, <1>5, <2>1, <2>5
  <2>6. QED
    BY <2>2, <2>3, <2>4, <2>5, Names
<1>8. PictureKept(u)
  BY <1>1, <1>3, NoPicture
<1>9. QED
  BY <1>1, <1>2, <1>4, <1>6, <1>7, <1>8, LeakKept

\* What is erased will go.
LEMMA LeakErased ==
  ASSUME TypeInv, RunsInStages, LeakInv, NEW u \in Uploads,
         RemovePicture(u) \/ \E withPosts \in BOOLEAN : DeleteAccount(u, withPosts)
  PROVE  LeakInv'
<1>1. /\ UNCHANGED bucket /\ Alone(u) /\ \E gone \in SUBSET upload[u].mine : Erases(u, gone)
      /\ upload'[u].at = "clean up" /\ upload'[u].key = 0 /\ upload'[u].kind = "none"
  BY Erased DEF NotProcesses
<1>2. PICK gone \in SUBSET upload[u].mine : Erases(u, gone)
  BY <1>1
<1>3. /\ rows' = rows \ gone
      /\ picture' = 0 \/ (picture' = picture /\ upload[u].previous = 0)
      /\ upload'[u].keys = ({upload[u].previous} \ {0}) \cup UNION {row.keys : row \in gone}
  BY <1>2 DEF Erases
<1>4. mayLeak' = mayLeak /\ upload[u].at = "commit" /\ upload[u].kind \in {"remove", "delete"}
  BY DEF RemovePicture, DeleteAccount, At
<1>5. u \in OwnsPicture /\ (mayLeak \/ upload[u].previous = picture)
  <2>1. u \in OwnsPicture
    BY <1>4 DEF OwnsPicture, PictureKinds
  <2>2. QED
    BY <2>1 DEF LeakInv, PictureAlone
<1>6. bucket \subseteq Keys /\ Own(u) = {}
  BY <1>4 DEF LeakInv, Tidy, Own
<1>7. Tidy(u)' /\ Own(u)' = upload'[u].keys
  BY <1>1, CleaningTidy
<1>8. OrphansKept(u)
  <2>1. SUFFICES ASSUME upload[u].previous = picture, NEW k \in bucket, k \in Referenced
                 PROVE  k \in Referenced' \/ k \in upload'[u].keys
    BY <1>1, <1>4, <1>5, <1>6, <1>7 DEF OrphansKept
  <2>2. CASE k = picture /\ k # 0
    BY <1>3, <2>1, <2>2
  <2>3. ASSUME NEW row \in rows, k \in row.keys
        PROVE  k \in Referenced' \/ k \in upload'[u].keys
    <3>1. CASE row \in gone
      BY <1>3, <2>3, <3>1
    <3>2. CASE row \notin gone
      BY <1>3, <2>3, <3>2, Names
    <3>3. QED
      BY <3>1, <3>2
  <2>4. QED
    BY <2>1, <2>2, <2>3, Names
<1>9. PictureKept(u)
  BY <1>1, <1>5, NoPicture
<1>10. QED
  BY <1>1, <1>4, <1>6, <1>7, <1>8, <1>9, LeakKept

\* An object that was to go goes, or may be left over.
LEMMA LeakDeleted ==
  ASSUME TypeInv, RunsInStages, LeakInv, NEW u \in Uploads, NEW key, NEW deleted \in BOOLEAN,
         DeleteObject(u, key, deleted)
  PROVE  LeakInv'
<1>1. /\ UNCHANGED <<rows, picture>> /\ Alone(u) /\ upload'[u].at = "clean up"
      /\ upload[u].at = "clean up" /\ upload'[u].key = upload[u].key
      /\ upload'[u].previous = upload[u].previous
      /\ upload'[u].keys = upload[u].keys \ {key} /\ SameOrder(u)
  BY Deleted DEF NotProcesses
<1>2. \/ bucket' = bucket \ {key} /\ mayLeak' = mayLeak
      \/ mayLeak' = TRUE /\ bucket' = bucket
  BY DEF DeleteObject
<1>3. Tidy(u) /\ bucket \subseteq Keys /\ Referenced' = Referenced
  BY <1>1 DEF LeakInv, Referenced
<1>4. upload[u].key = 0
  BY <1>1, <1>3 DEF Tidy
<1>5. Tidy(u)'
  <2>1. ASSUME upload[u].kind = "picture" PROVE OneObject(u)'
    <3>1. OneObject(u)
      BY <1>3, <2>1 DEF Tidy
    <3>2. /\ upload'[u].at \notin VideoStages /\ upload'[u].puts = upload[u].puts
          /\ upload'[u].todo = upload[u].todo /\ upload[u].puts >= 0
      BY <1>1, <3>1 DEF SameOrder, OneObject, VideoStages
    <3>3. CASE upload[u].keys = {} /\ Len(upload[u].todo) + upload[u].puts <= 1
      BY <1>1, <3>2, <3>3 DEF OneObject
    <3>4. CASE /\ Len(upload[u].todo) = 0 /\ upload[u].puts = 0
               /\ \E k \in upload[u].keys : upload[u].keys = {k}
      <4>1. Len(upload'[u].todo) + upload'[u].puts <= 1
        BY <3>2, <3>4
      <4>2. upload'[u].keys = {} \/ upload'[u].keys = upload[u].keys
        BY <1>1, <3>4
      <4>3. QED
        BY <3>2, <3>4, <4>1, <4>2 DEF OneObject
    <3>5. QED
      BY <3>1, <3>3, <3>4 DEF OneObject
  <2>2. QED
    BY <1>1, <1>4, <2>1 DEF Tidy, SameOrder
<1>6. OrphansKept(u)
  BY <1>1, <1>2, <1>3, <1>4 DEF OrphansKept, Own
<1>7. mayLeak => mayLeak'
  BY <1>2
<1>8. PictureKept(u)
  BY <1>1, <1>7, SamePicture DEF SameOrder
<1>9. QED
  BY <1>1, <1>2, <1>3, <1>5, <1>6, <1>7, <1>8, LeakKept

\* Every step keeps it.
LEMMA LeakStep ==
  MediaAssumption /\ OnePicture /\ SlotInv /\ LeakInv /\ [MediaNext]_mediaVars => LeakInv'
<1> SUFFICES ASSUME MediaAssumption, OnePicture, TypeInv, RunsInStages, LeakInv,
                    [MediaNext]_mediaVars
             PROVE  LeakInv'
  BY DEF SlotInv
<1>1. ASSUME NEW u \in Uploads, Remaining(u) PROVE LeakInv'
  BY <1>1, LeakWrites, LeakGivesUp, LeakRow, LeakPicture, LeakErased, LeakDeleted DEF Remaining
<1>2. CASE BackendRestarts
  <2>1. /\ UNCHANGED <<bucket, rows, picture>>
        /\ \A u \in Uploads : upload'[u] = NoUpload
    BY <1>2, Restarted
  <2>2. /\ mayLeak => mayLeak'
        /\ \A u \in Uploads : mayLeak' \/ (upload[u].keys = {} /\ upload[u].key = 0)
    <3>1. mayLeak' = (mayLeak \/ \E u \in Uploads : upload[u].keys # {} \/ upload[u].key # 0)
      BY <1>2 DEF BackendRestarts
    <3>2. QED
      BY <3>1, Zenon
  <2>3. \A u \in Uploads : Tidy(u)' /\ Own(u)' = {} /\ u \notin OwnsPicture'
    BY <2>1, OverTidy
  <2>4. NoOrphans'
    <3>1. mayLeak' \/ \A u \in Uploads : Own(u) = {}
      BY <2>2 DEF Own
    <3>2. QED
      BY <2>1, <2>2, <3>1 DEF LeakInv, NoOrphans, Referenced
  <2>5. PictureAlone'
    <3>1. OwnsPicture' = {}
      BY <2>3 DEF OwnsPicture
    <3>2. QED
      BY <3>1 DEF PictureAlone
  <2>6. QED
    BY <2>1, <2>3, <2>4, <2>5 DEF LeakInv
<1>3. CASE UNCHANGED mediaVars
  BY <1>3 DEF mediaVars, LeakInv, Tidy, OneObject, Own, PictureAlone, NoOrphans, OwnsPicture,
     Referenced
<1>4. QED
  BY <1>1, <1>2, <1>3, LeakLocal, LeakSubmit, NextSteps

------------------------------------------------------------------------------
(* Tokens, posts and operations. *)

\* Posts that are paid for and not committed, and those committed and not handed to the worker.
Unpublished == {u \in Uploads : At(u, "put") /\ upload[u].kind = "post"}
Waiting     == {u \in Uploads : At(u, "enqueue")}
Books ==
    mayLose \/ /\ StartTokens - purse = published + Cardinality(Unpublished)
               /\ published = enqueued + Cardinality(Waiting)
BooksInv == purse \in Int /\ published \in Int /\ enqueued \in Int /\ Books

\* A request enters one of the sets, leaves it, or does neither.
Same(S, T)      == T = S
Enters(u, S, T) == u \notin S /\ T = S \cup {u}
Leaves(u, S, T) == u \in S /\ T = S \ {u}

\* What a step of one request may do to the books.
Pays(u) ==
    \/ mayLose' /\ purse' \in Int /\ published' \in Int /\ enqueued' \in Int
    \/ UNCHANGED <<purse, published, enqueued>> /\ Same(Unpublished, Unpublished')
         /\ Same(Waiting, Waiting')
    \/ purse' = purse - 1 /\ UNCHANGED <<published, enqueued>>
         /\ Enters(u, Unpublished, Unpublished') /\ Same(Waiting, Waiting')
    \/ published' = published + 1 /\ UNCHANGED <<purse, enqueued>>
         /\ Leaves(u, Unpublished, Unpublished') /\ Enters(u, Waiting, Waiting')
    \/ enqueued' = enqueued + 1 /\ UNCHANGED <<purse, published>>
         /\ Same(Unpublished, Unpublished') /\ Leaves(u, Waiting, Waiting')

\* The size of a set of requests goes with it.
LEMMA SetSizes ==
  ASSUME MediaAssumption, NEW S \in SUBSET Uploads, NEW u \in Uploads
  PROVE  /\ Cardinality(S) \in Nat
         /\ u \notin S => Cardinality(S \cup {u}) = Cardinality(S) + 1
         /\ u \in S => Cardinality(S \ {u}) = Cardinality(S) - 1
<1>1. IsFiniteSet(S)
  BY FS_Subset DEF MediaAssumption
<1>2. QED
  BY <1>1, FS_CardinalityType, FS_AddElement, FS_RemoveElement

\* Such a step keeps the books.
LEMMA BooksKept ==
  ASSUME MediaAssumption, BooksInv, NEW u \in Uploads, mayLose => mayLose', Pays(u)
  PROVE  BooksInv'
<1> DEFINE n == Cardinality(Unpublished)
           m == Cardinality(Waiting)
           nn == Cardinality(Unpublished')
           mm == Cardinality(Waiting')
<1>1. Unpublished \in SUBSET Uploads /\ Waiting \in SUBSET Uploads
  BY DEF Unpublished, Waiting
<1>2. n \in Nat /\ m \in Nat
  BY <1>1, SetSizes
<1>3. StartTokens \in Int /\ purse \in Int /\ published \in Int /\ enqueued \in Int
  BY DEF BooksInv, MediaAssumption
<1>4. mayLose' \/ (StartTokens - purse = published + n /\ published = enqueued + m)
  BY DEF BooksInv, Books
<1>5. (Same(Unpublished, Unpublished') => nn = n) /\ (Same(Waiting, Waiting') => mm = m)
  BY DEF Same
<1>6. (Enters(u, Unpublished, Unpublished') => nn = n + 1) /\ (Enters(u, Waiting, Waiting') => mm = m + 1)
  BY <1>1, SetSizes DEF Enters
<1>7. (Leaves(u, Unpublished, Unpublished') => nn = n - 1) /\ (Leaves(u, Waiting, Waiting') => mm = m - 1)
  BY <1>1, SetSizes DEF Leaves
<1>8. SUFFICES /\ purse' \in Int /\ published' \in Int /\ enqueued' \in Int
               /\ mayLose' \/ (StartTokens - purse' = published' + nn /\ published' = enqueued' + mm)
  BY DEF BooksInv, Books
<1> HIDE DEF n, m, nn, mm
<1>9. CASE mayLose' /\ purse' \in Int /\ published' \in Int /\ enqueued' \in Int
  BY <1>9
<1>10. CASE UNCHANGED <<purse, published, enqueued>> /\ nn = n /\ mm = m
  BY <1>3, <1>4, <1>10
<1>11. CASE purse' = purse - 1 /\ UNCHANGED <<published, enqueued>> /\ nn = n + 1 /\ mm = m
  BY <1>2, <1>3, <1>4, <1>11
<1>12. CASE published' = published + 1 /\ UNCHANGED <<purse, enqueued>> /\ nn = n - 1 /\ mm = m + 1
  BY <1>2, <1>3, <1>4, <1>12
<1>13. CASE enqueued' = enqueued + 1 /\ UNCHANGED <<purse, published>> /\ nn = n /\ mm = m - 1
  BY <1>2, <1>3, <1>4, <1>13
<1>14. QED
  BY <1>5, <1>6, <1>7, <1>9, <1>10, <1>11, <1>12, <1>13 DEF Pays

\* Where a request is says in which set it is.
LEMMA SetsMove ==
  ASSUME NEW u \in Uploads, Alone(u)
  PROVE  /\ (u \in Unpublished' <=> u \in Unpublished) => Same(Unpublished, Unpublished')
         /\ (u \in Waiting' <=> u \in Waiting) => Same(Waiting, Waiting')
         /\ u \in Unpublished' /\ u \notin Unpublished => Enters(u, Unpublished, Unpublished')
         /\ u \in Waiting' /\ u \notin Waiting => Enters(u, Waiting, Waiting')
         /\ u \notin Unpublished' /\ u \in Unpublished => Leaves(u, Unpublished, Unpublished')
         /\ u \notin Waiting' /\ u \in Waiting => Leaves(u, Waiting, Waiting')
<1>1. /\ Unpublished \subseteq Uploads /\ Unpublished' \subseteq Uploads
      /\ Waiting \subseteq Uploads /\ Waiting' \subseteq Uploads
  BY DEF Unpublished, Waiting
<1>2. \A v \in Uploads : v # u => /\ v \in Unpublished' <=> v \in Unpublished
                                  /\ v \in Waiting' <=> v \in Waiting
  BY DEF Alone, Unpublished, Waiting, At
<1>3. QED
  BY <1>1, <1>2 DEF Same, Enters, Leaves

\* A request that is in neither set before and after says nothing of the books.
LEMMA NotAboutBooks ==
  ASSUME NEW u \in Uploads, Alone(u), UNCHANGED <<purse, published, enqueued>>,
         u \notin Unpublished, u \notin Unpublished', u \notin Waiting, u \notin Waiting'
  PROVE  Pays(u)
BY SetsMove DEF Pays

\* Membership, in the words of the steps.
LEMMA InSets ==
  ASSUME NEW u \in Uploads
  PROVE  /\ u \in Unpublished <=> upload[u].at = "put" /\ upload[u].kind = "post"
         /\ u \in Unpublished' <=> upload'[u].at = "put" /\ upload'[u].kind = "post"
         /\ u \in Waiting <=> upload[u].at = "enqueue"
         /\ u \in Waiting' <=> upload'[u].at = "enqueue"
BY DEF Unpublished, Waiting, At

\* A token is spent, an operation added, a failed commit loses one; the others cost nothing.
LEMMA BooksLocal ==
  ASSUME MediaAssumption, TypeInv, RunsInStages, BooksInv, NEW u \in Uploads, Local(u)
  PROVE  BooksInv'
<1>1. Alone(u)
  BY LocalSteps
<1>2. ASSUME Over(u) PROVE u \notin Unpublished' /\ u \notin Waiting'
  BY <1>2, Ended, InSets
<1>3. CASE SpendTokens(u)
  <2>1. /\ UNCHANGED <<published, enqueued, mayLose>> /\ upload[u].at = "process"
        /\ \/ upload[u].kind # "post" /\ purse' = purse /\ Move(u, "put")
           \/ upload[u].kind = "post" /\ purse' = purse - 1 /\ Move(u, "put")
           \/ purse' = purse /\ Over(u)
    BY <1>3 DEF SpendTokens, At
  <2>2. u \notin Unpublished /\ u \notin Waiting
    BY <2>1, InSets
  <2>3. ASSUME Move(u, "put")
        PROVE  u \notin Waiting' /\ (u \in Unpublished' <=> upload[u].kind = "post")
    <3>1. "put" \in Stages
      BY DEF Stages
    <3>2. upload'[u].at = "put" /\ upload'[u].kind = upload[u].kind
      BY <2>3, <3>1, Moved DEF SameOrder
    <3>3. QED
      BY <3>2, InSets
  <2>4. CASE upload[u].kind = "post" /\ purse' = purse - 1 /\ Move(u, "put")
    <3>1. Enters(u, Unpublished, Unpublished') /\ Same(Waiting, Waiting')
      BY <1>1, <2>2, <2>3, <2>4, SetsMove
    <3>2. QED
      BY <2>1, <2>4, <3>1, BooksKept DEF Pays
  <2>5. CASE purse' = purse /\ (Over(u) \/ (upload[u].kind # "post" /\ Move(u, "put")))
    <3>1. u \notin Unpublished' /\ u \notin Waiting'
      BY <1>2, <2>3, <2>5
    <3>2. QED
      BY <1>1, <2>1, <2>2, <2>5, <3>1, NotAboutBooks, BooksKept
  <2>6. QED
    BY <2>1, <2>4, <2>5
<1>4. CASE EnqueueOperation(u)
  <2>1. /\ UNCHANGED <<purse, published, mayLose>> /\ enqueued' = enqueued + 1
        /\ upload[u].at = "enqueue" /\ Over(u)
    BY <1>4 DEF EnqueueOperation, At
  <2>2. Leaves(u, Waiting, Waiting') /\ Same(Unpublished, Unpublished')
    BY <1>1, <1>2, <2>1, SetsMove, InSets
  <2>3. QED
    BY <2>1, <2>2, BooksKept DEF Pays
<1>5. CASE CommitFails(u)
  <2>1. /\ UNCHANGED <<purse, published, enqueued>> /\ upload[u].at \in {"put", "commit"}
        /\ mayLose' = (mayLose \/ upload[u].kind = "post") /\ Over(u)
    BY <1>5 DEF CommitFails, Stored, At
  <2>2. (mayLose => mayLose') /\ (mayLose' \/ upload[u].kind # "post")
    BY <2>1, Zenon
  <2>3. u \notin Waiting /\ (upload[u].kind # "post" => u \notin Unpublished)
    BY <2>1, InSets
  <2>4. CASE mayLose'
    BY <2>1, <2>4, BooksKept DEF Pays, BooksInv
  <2>5. CASE upload[u].kind # "post"
    BY <1>1, <1>2, <2>1, <2>2, <2>3, <2>5, NotAboutBooks, BooksKept
  <2>6. QED
    BY <2>2, <2>4, <2>5
<1>6. CASE ~SpendTokens(u) /\ ~EnqueueOperation(u) /\ ~CommitFails(u)
  <2>1. /\ UNCHANGED <<purse, published, enqueued, mayLose>>
        /\ upload[u].at \in VideoStages \cup {"process", "clean up"}
    BY <1>6 DEF Local, ProcessFile, StartProcess, ProcessExits, ProcessFails, ProcessTimesOut,
       CleanedUp, At, RunsInStages
  <2>2. upload[u].at \notin {"put", "enqueue"}
    BY <2>1 DEF VideoStages
  <2>3. upload'[u].at \notin {"put", "enqueue"}
    <3>1. CASE Goes(u)
      BY <1>6, <3>1 DEF Goes, FileStages, VideoStages
    <3>2. CASE Over(u)
      BY <3>2, Ended
    <3>3. QED
      BY <3>1, <3>2, LocalShape
  <2>4. QED
    BY <1>1, <2>1, <2>2, <2>3, InSets, NotAboutBooks, BooksKept
<1>7. QED
  BY <1>3, <1>4, <1>5, <1>6

\* The steps that write a row or an object: a commit publishes, a failed upload loses a token.
LEMMA BooksRemaining ==
  ASSUME MediaAssumption, TypeInv, RunsInStages, BooksInv, NEW u \in Uploads, Remaining(u)
  PROVE  BooksInv'
<1>1. Alone(u)
  BY RemainingSteps DEF NotProcesses
<1>2. CASE Writes(u)
  <2>1. UNCHANGED <<purse, published, enqueued, mayLose>>
    BY <1>2 DEF Writes, PutSucceeds, PutRetries
  <2>2. upload[u].at = "put" /\ upload'[u].at = "put" /\ upload'[u].kind = upload[u].kind
    BY <1>2, PutSteps, Puts DEF Writes
  <2>3. (u \in Unpublished' <=> u \in Unpublished) /\ (u \in Waiting' <=> u \in Waiting)
    BY <2>2, InSets
  <2>4. Same(Unpublished, Unpublished') /\ Same(Waiting, Waiting')
    BY <1>1, <2>3, SetsMove
  <2>5. QED
    BY <2>1, <2>4, BooksKept DEF Pays
<1>3. ASSUME NEW wrote \in BOOLEAN, PutFails(u, wrote) PROVE BooksInv'
  <2>1. /\ UNCHANGED <<purse, published, enqueued>>
        /\ mayLose' = (mayLose \/ upload[u].kind = "post")
    BY <1>3 DEF PutFails
  <2>2. (mayLose => mayLose') /\ (mayLose' \/ upload[u].kind # "post")
    BY <2>1, Zenon
  <2>3. upload[u].at = "put" /\ upload'[u].at = "clean up"
    BY <1>3, GivesUp, Puts
  <2>4. CASE mayLose'
    BY <2>1, <2>4, BooksKept DEF Pays, BooksInv
  <2>5. CASE upload[u].kind # "post"
    <3>1. u \notin Unpublished /\ u \notin Unpublished' /\ u \notin Waiting /\ u \notin Waiting'
      BY <2>3, <2>5, InSets
    <3>2. QED
      BY <1>1, <2>1, <2>2, <3>1, NotAboutBooks, BooksKept
  <2>6. QED
    BY <2>2, <2>4, <2>5
<1>4. CASE CommitPost(u)
  <2>1. /\ published' = published + 1 /\ UNCHANGED <<purse, enqueued, mayLose>>
        /\ upload[u].at = "put" /\ upload[u].kind = "post"
    BY <1>4 DEF CommitPost, Stored, At
  <2>2. upload'[u].at = "enqueue"
    BY <1>4, RowCommitted
  <2>3. Leaves(u, Unpublished, Unpublished') /\ Enters(u, Waiting, Waiting')
    BY <1>1, <2>1, <2>2, SetsMove, InSets
  <2>4. QED
    BY <2>1, <2>3, BooksKept DEF Pays
\* Neither before nor after is this request a post that is paid for.
<1>5. ASSUME upload[u].at = "put" => upload[u].kind # "post", upload[u].at # "enqueue",
             upload'[u].at \in {"idle", "clean up"}, UNCHANGED <<purse, published, enqueued, mayLose>>
      PROVE  BooksInv'
  <2>1. u \notin Unpublished /\ u \notin Unpublished' /\ u \notin Waiting /\ u \notin Waiting'
    BY <1>5, InSets
  <2>2. QED
    BY <1>1, <1>5, <2>1, NotAboutBooks, BooksKept
<1>6. CASE CommitFeedback(u)
  <2>1. /\ UNCHANGED <<purse, published, enqueued, mayLose>>
        /\ upload[u].at = "put" /\ upload[u].kind = "feedback" /\ Over(u)
    BY <1>6 DEF CommitFeedback, Stored, At
  <2>2. upload'[u].at = "idle"
    BY <2>1, Ended
  <2>3. QED
    BY <1>5, <2>1, <2>2
<1>7. CASE CommitPicture(u)
  <2>1. /\ UNCHANGED <<purse, published, enqueued, mayLose>>
        /\ upload[u].at = "put" /\ upload[u].kind = "picture"
    BY <1>7 DEF CommitPicture, Stored, At
  <2>2. upload'[u].at = "clean up"
    BY <1>7, PictureCommitted
  <2>3. QED
    BY <1>5, <2>1, <2>2
<1>8. CASE RemovePicture(u) \/ \E withPosts \in BOOLEAN : DeleteAccount(u, withPosts)
  <2>1. UNCHANGED <<purse, published, enqueued, mayLose>> /\ upload[u].at = "commit"
    BY <1>8 DEF RemovePicture, DeleteAccount, At
  <2>2. upload'[u].at = "clean up"
    BY <1>8, Erased
  <2>3. QED
    BY <1>5, <2>1, <2>2
<1>9. ASSUME NEW key, NEW deleted, DeleteObject(u, key, deleted) PROVE BooksInv'
  <2>1. UNCHANGED <<purse, published, enqueued, mayLose>>
    BY <1>9 DEF DeleteObject
  <2>2. upload[u].at = "clean up" /\ upload'[u].at = "clean up"
    BY <1>9, Deleted
  <2>3. QED
    BY <1>5, <2>1, <2>2
<1>10. QED
  BY <1>2, <1>3, <1>4, <1>6, <1>7, <1>8, <1>9 DEF Remaining

\* Every step keeps the books.
LEMMA BooksStep ==
  MediaAssumption /\ SlotInv /\ BooksInv /\ [MediaNext]_mediaVars => BooksInv'
<1> SUFFICES ASSUME MediaAssumption, TypeInv, RunsInStages, BooksInv, [MediaNext]_mediaVars
             PROVE  BooksInv'
  BY DEF SlotInv
<1>1. ASSUME NEW u \in Uploads, NEW s \in Submissions, Submit(u, s) PROVE BooksInv'
  <2>1. /\ UNCHANGED <<purse, published, enqueued, mayLose>> /\ Alone(u)
        /\ upload[u].at = "idle" /\ upload'[u].at \in {"commit", "process"}
    <3>1. UNCHANGED <<purse, published, enqueued, mayLose>>
      BY <1>1 DEF Submit
    <3>2. QED
      BY <1>1, <3>1, Submitted DEF NotProcesses
  <2>2. u \notin Unpublished /\ u \notin Unpublished' /\ u \notin Waiting /\ u \notin Waiting'
    BY <2>1, InSets
  <2>3. QED
    BY <2>1, <2>2, NotAboutBooks, BooksKept
<1>2. CASE BackendRestarts
  <2>1. /\ UNCHANGED <<purse, published, enqueued>>
        /\ mayLose' = (mayLose \/ \E u \in Uploads : At(u, "enqueue")
                                     \/ (upload[u].kind = "post" /\ At(u, "put")))
    BY <1>2 DEF BackendRestarts
  <2>2. /\ mayLose => mayLose'
        /\ mayLose' \/ \A u \in Uploads : ~At(u, "enqueue") /\ ~(upload[u].kind = "post" /\ At(u, "put"))
    BY <2>1, Zenon
  <2>3. \A u \in Uploads : upload'[u].at = "idle"
    BY <1>2, Restarted
  <2>4. Unpublished' = {} /\ Waiting' = {}
    BY <2>3 DEF Unpublished, Waiting, At
  <2>5. CASE mayLose'
    BY <2>1, <2>5 DEF BooksInv, Books
  <2>6. CASE ~mayLose'
    <3>1. Unpublished = {} /\ Waiting = {}
      BY <2>2, <2>6 DEF Unpublished, Waiting
    <3>2. /\ Cardinality(Unpublished') = Cardinality(Unpublished)
          /\ Cardinality(Waiting') = Cardinality(Waiting)
      BY <2>4, <3>1
    <3>3. QED
      BY <2>1, <2>2, <2>6, <3>2 DEF BooksInv, Books
  <2>7. QED
    BY <2>5, <2>6
<1>3. CASE UNCHANGED mediaVars
  <2>1. Unpublished' = Unpublished /\ Waiting' = Waiting
    BY <1>3 DEF mediaVars, Unpublished, Waiting, At
  <2>2. UNCHANGED <<purse, published, enqueued, mayLose>>
    BY <1>3 DEF mediaVars
  <2>3. QED
    BY <2>1, <2>2 DEF BooksInv, Books
<1>4. QED
  BY <1>1, <1>2, <1>3, BooksLocal, BooksRemaining, NextSteps

\* The bucket and the books are in order at the start.
LEMMA OrderAtFirst == MediaAssumption /\ MediaInit => LeakInv /\ BooksInv
<1> SUFFICES ASSUME MediaAssumption, MediaInit PROVE LeakInv /\ BooksInv
  OBVIOUS
<1>1. /\ bucket = {} /\ purse = StartTokens /\ published = 0 /\ enqueued = 0
      /\ upload = [u \in Uploads |-> NoUpload] /\ StartTokens \in Nat
  BY DEF MediaInit, MediaAssumption
<1>2. \A u \in Uploads : /\ upload[u].at = "idle" /\ upload[u].keys = {} /\ upload[u].key = 0
                         /\ upload[u].kind = "none"
  BY <1>1, NoUploadTyped
<1>3. LeakInv
  <2>1. OwnsPicture = {}
    BY <1>2 DEF OwnsPicture, PictureKinds
  <2>2. \A u \in Uploads : Tidy(u)
    BY <1>2 DEF Tidy
  <2>3. QED
    BY <1>1, <2>1, <2>2 DEF LeakInv, PictureAlone, NoOrphans
<1>4. BooksInv
  <2>1. Unpublished = {} /\ Waiting = {}
    BY <1>2 DEF Unpublished, Waiting, At
  <2>2. Cardinality(Unpublished) = 0 /\ Cardinality(Waiting) = 0
    BY <2>1, FS_EmptySet
  <2>3. QED
    BY <1>1, <2>2 DEF BooksInv, Books
<1>5. QED
  BY <1>3, <1>4

\* With no request in flight, every object is a row's, every row's object is there,
\* and tokens, posts and operations agree.
LEMMA NothingIsLeft ==
  ASSUME MediaAssumption, LeakInv, BooksInv, ReferencedExists
  PROVE  NothingLeftOver
<1> SUFFICES ASSUME \A u \in Uploads : At(u, "idle")
             PROVE  /\ mayLeak \/ bucket = Referenced
                    /\ mayLose \/ (StartTokens - purse = published /\ enqueued = published)
  BY DEF NothingLeftOver
<1>1. \A u \in Uploads : Own(u) = {}
  BY DEF LeakInv, Tidy, Own, At
<1>2. mayLeak \/ bucket = Referenced
  BY <1>1 DEF LeakInv, NoOrphans, ReferencedExists
<1>3. Unpublished = {} /\ Waiting = {}
  BY DEF Unpublished, Waiting, At
<1>4. Cardinality(Unpublished) = 0 /\ Cardinality(Waiting) = 0
  BY <1>3, FS_EmptySet
<1>5. mayLose \/ (StartTokens - purse = published /\ enqueued = published)
  BY <1>4 DEF BooksInv, Books
<1>6. QED
  BY <1>2, <1>5

\* Between requests nothing is left over: every object is named by a row, every token bought
\* a post and every post was handed to the worker - but for what the noted mishaps left.
THEOREM NothingIsLeftOver == MediaSpec => []NothingLeftOver
<1>1. SlotInv /\ LeakInv /\ BooksInv /\ [MediaNext]_mediaVars => SlotInv' /\ LeakInv' /\ BooksInv'
  BY MediaAssumption, OnePicture, SlotStep, LeakStep, BooksStep
<1>2. MediaInit => SlotInv /\ LeakInv /\ BooksInv
  BY MediaAssumption, SlotStarts, OrderAtFirst
<1>3. LeakInv /\ BooksInv /\ ReferencedExists => NothingLeftOver
  BY MediaAssumption, NothingIsLeft
<1>4. QED
  BY <1>1, <1>2, <1>3, RowsNameObjects, PTL DEF MediaSpec

------------------------------------------------------------------------------
(* The export beside the uploads. *)

\* What is known of the archive: all that is listed is somewhere in it, only what the bucket
\* lost or refused is missing, and what is still to fetch is there or was lost meanwhile.
Shaped ==
    archive = [at |-> archive.at, listed |-> archive.listed, todo |-> archive.todo,
               packed |-> archive.packed, missing |-> archive.missing]
AllListed == archive.listed = archive.todo \cup archive.packed \cup archive.missing
OnlyLost  == archive.missing \subseteq vanished /\ archive.todo \subseteq bucket \cup vanished
Emptied   == ArchiveAt("done") => archive.todo = {}
Untouched == ArchiveAt("idle") => archive = NoArchive
ArchiveInv == Shaped /\ AllListed /\ OnlyLost /\ Emptied /\ Untouched

\* Listing objects that are there.
LEMMA Lists ==
  ASSUME ArchiveInv, NEW K \in SUBSET bucket, NEW next \in {"posts", "feedback", "stream"},
         Attach(K, next), bucket' = bucket,
         vanished' = vanished \/ (ArchiveAt("idle") /\ vanished' = {})
  PROVE  ArchiveInv'
<1>1. archive' = [at |-> next, listed |-> archive.listed \cup K, todo |-> archive.todo \cup K,
                  packed |-> archive.packed, missing |-> archive.missing]
  BY DEF ArchiveInv, Shaped, Attach
<1>2. /\ archive'.at = next /\ archive'.listed = archive.listed \cup K
      /\ archive'.todo = archive.todo \cup K
      /\ archive'.packed = archive.packed /\ archive'.missing = archive.missing
  BY <1>1
<1>3. Shaped' /\ AllListed'
  BY <1>1, <1>2 DEF ArchiveInv, Shaped, AllListed
<1>4. OnlyLost'
  <2>1. CASE vanished' = vanished
    BY <1>2, <2>1 DEF ArchiveInv, OnlyLost
  <2>2. CASE ArchiveAt("idle") /\ vanished' = {}
    <3>1. archive.todo = {} /\ archive.missing = {}
      BY <2>2 DEF ArchiveInv, Untouched, NoArchive
    <3>2. QED
      BY <1>2, <3>1 DEF OnlyLost
  <2>3. QED
    BY <2>1, <2>2
<1>5. Emptied' /\ Untouched'
  BY <1>2 DEF Emptied, Untouched, ArchiveAt
<1>6. QED
  BY <1>3, <1>4, <1>5 DEF ArchiveInv

\* An object that is fetched, or noted as missing, is accounted for.
LEMMA Fetches ==
  ASSUME ArchiveInv, NEW key \in archive.todo,
         PackObject(key) \/ \E answered \in BOOLEAN : MissObject(key, answered)
  PROVE  ArchiveInv'
<1>1. archive.at = "stream" /\ bucket' = bucket
  BY DEF PackObject, MissObject, ArchiveAt, mediaVars
<1>2. CASE PackObject(key)
  <2>1. archive' = [at |-> archive.at, listed |-> archive.listed, todo |-> archive.todo \ {key},
                    packed |-> archive.packed \cup {key}, missing |-> archive.missing]
    BY <1>2 DEF PackObject, ArchiveInv, Shaped
  <2>2. /\ archive'.at = archive.at /\ archive'.listed = archive.listed
        /\ archive'.todo = archive.todo \ {key} /\ archive'.packed = archive.packed \cup {key}
        /\ archive'.missing = archive.missing /\ vanished' = vanished
    BY <1>2, <2>1 DEF PackObject
  <2>3. AllListed' /\ OnlyLost'
    BY <1>1, <2>2 DEF ArchiveInv, AllListed, OnlyLost
  <2>4. QED
    BY <1>1, <2>1, <2>2, <2>3 DEF ArchiveInv, Shaped, Emptied, Untouched, ArchiveAt
<1>3. ASSUME NEW answered \in BOOLEAN, MissObject(key, answered) PROVE ArchiveInv'
  <2>1. archive' = [at |-> archive.at, listed |-> archive.listed, todo |-> archive.todo \ {key},
                    packed |-> archive.packed, missing |-> archive.missing \cup {key}]
    BY <1>3 DEF MissObject, ArchiveInv, Shaped
  <2>2. /\ archive'.at = archive.at /\ archive'.listed = archive.listed
        /\ archive'.todo = archive.todo \ {key} /\ archive'.packed = archive.packed
        /\ archive'.missing = archive.missing \cup {key}
    BY <2>1
  <2>3. vanished \subseteq vanished' /\ key \in vanished'
    <3>1. CASE answered
      BY <1>3, <3>1 DEF MissObject, ArchiveInv, OnlyLost
    <3>2. CASE ~answered
      BY <1>3, <3>2 DEF MissObject
    <3>3. QED
      BY <3>1, <3>2
  <2>4. AllListed' /\ OnlyLost'
    BY <1>1, <2>2, <2>3 DEF ArchiveInv, AllListed, OnlyLost
  <2>5. QED
    BY <1>1, <2>1, <2>2, <2>4 DEF ArchiveInv, Shaped, Emptied, Untouched, ArchiveAt
<1>4. QED
  BY <1>2, <1>3

\* Every step of the export, and every step beside it, keeps this.
LEMMA ArchiveStep ==
  ArchiveInv /\ ReferencedExists /\ [ExportNext]_<<mediaVars, exportVars>> => ArchiveInv'
<1> SUFFICES ASSUME ArchiveInv, ReferencedExists, [ExportNext]_<<mediaVars, exportVars>>
             PROVE  ArchiveInv'
  OBVIOUS
<1>1. /\ {picture} \ {0} \subseteq bucket /\ \A row \in rows : row.keys \subseteq bucket
  BY DEF ReferencedExists, Referenced
<1>2. CASE CollectAccount
  BY <1>1, <1>2, Lists DEF CollectAccount, mediaVars
<1>3. CASE CollectPosts
  <2>1. PostKeys \subseteq bucket
    BY <1>1 DEF PostKeys, MyPosts
  <2>2. QED
    BY <1>3, <2>1, Lists DEF CollectPosts, mediaVars
<1>4. CASE CollectFeedback
  <2>1. FeedbackKeys \subseteq bucket
    BY <1>1 DEF FeedbackKeys
  <2>2. QED
    BY <1>4, <2>1, Lists DEF CollectFeedback, mediaVars
<1>5. CASE FinishArchive
  <2>1. /\ archive' = [at |-> "done", listed |-> archive.listed, todo |-> archive.todo,
                       packed |-> archive.packed, missing |-> archive.missing]
        /\ archive.todo = {} /\ vanished' = vanished /\ bucket' = bucket
    BY <1>5 DEF FinishArchive, ArchiveInv, Shaped, mediaVars
  <2>2. /\ archive'.at = "done" /\ archive'.listed = archive.listed
        /\ archive'.todo = archive.todo /\ archive'.packed = archive.packed
        /\ archive'.missing = archive.missing
    BY <2>1
  <2>3. QED
    BY <2>1, <2>2 DEF ArchiveInv, Shaped, AllListed, OnlyLost, Emptied, Untouched, ArchiveAt
<1>6. CASE ExportEnds
  BY <1>6 DEF ExportEnds, NoArchive, ArchiveInv, Shaped, AllListed, OnlyLost, Emptied,
     Untouched, ArchiveAt
<1>7. CASE Beside
  <2>1. archive' = archive /\ vanished' = IF ArchiveAt("idle") THEN {}
                                          ELSE vanished \cup (bucket \ bucket')
    BY <1>7 DEF Beside
  <2>2. OnlyLost'
    <3>1. CASE ArchiveAt("idle")
      BY <2>1, <3>1 DEF ArchiveInv, OnlyLost, Untouched, NoArchive
    <3>2. CASE ~ArchiveAt("idle")
      BY <2>1, <3>2 DEF ArchiveInv, OnlyLost
    <3>3. QED
      BY <3>1, <3>2
  <2>3. QED
    BY <2>1, <2>2 DEF ArchiveInv, Shaped, AllListed, Emptied, Untouched, ArchiveAt
<1>8. CASE UNCHANGED <<mediaVars, exportVars>>
  BY <1>8 DEF mediaVars, exportVars, ArchiveInv, Shaped, AllListed, OnlyLost, Emptied,
     Untouched, ArchiveAt
<1>9. QED
  BY <1>2, <1>3, <1>4, <1>5, <1>6, <1>7, <1>8, Fetches DEF ExportNext

\* Beside an export the uploads are what they are without one: every behaviour of Export
\* is one of Media.
THEOREM ExportIsMedia == ExportSpec => MediaSpec
<1>1. ExportInit => MediaInit
  BY DEF ExportInit
<1>2. [ExportNext]_<<mediaVars, exportVars>> => [MediaNext]_mediaVars
  BY DEF ExportNext, CollectAccount, CollectPosts, CollectFeedback, PackObject, MissObject,
     FinishArchive, ExportEnds, Beside, exportVars
<1>3. QED
  BY <1>1, <1>2, PTL DEF ExportSpec, MediaSpec

\* Every path the document of an export names is in the archive or in the list of what is
\* missing, and only what was deleted under the export, or refused, is in that list.
THEOREM ExportIsAccounted == ExportSpec => []ExportAccounted
<1>1. ExportInit => ArchiveInv
  BY DEF ExportInit, NoArchive, ArchiveInv, Shaped, AllListed, OnlyLost, Emptied, Untouched,
     ArchiveAt
<1>2. ArchiveInv => ExportAccounted
  BY DEF ArchiveInv, AllListed, OnlyLost, Emptied, ExportAccounted
<1>3. QED
  BY <1>1, <1>2, ArchiveStep, ExportIsMedia, RowsNameObjects, PTL DEF ExportSpec
=============================================================================
