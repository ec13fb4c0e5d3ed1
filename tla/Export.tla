-------------------------------- MODULE Export --------------------------------
(***************************************************************************)
(* GET /users/me/export (core/account_export.py) beside the uploads of     *)
(* Media: the document is collected by one query after another, names the  *)
(* path of every object it found, and goes out first; the objects are then *)
(* fetched one by one, with the status line long gone.                     *)
(***************************************************************************)
EXTENDS Media

CONSTANT MaxBeside           \* bound: requests in flight beside an export

(* The poster of a feedback clip is not exported; clips stay out of the    *)
(* feedback here.                                                          *)
ASSUME ExportAssumption ==
    \A s \in Submissions : s.kind = "feedback" =>
        \A i \in DOMAIN s.files : s.files[i].claims # "video"

VARIABLES archive,           \* the export: [at, listed, todo, packed, missing]
          vanished           \* history: what the bucket lost, or refused, meanwhile

exportVars == <<archive, vanished>>

NoArchive == [at |-> "idle", listed |-> {}, todo |-> {}, packed |-> {}, missing |-> {}]
ArchiveAt(at) == archive.at = at

ExportInit == MediaInit /\ archive = NoArchive /\ vanished = {}

(* The picture is the loaded user's; _attach queues what it lists.         *)
Attach(keys, next) ==
    archive' = [archive EXCEPT !.listed = @ \cup keys, !.todo = @ \cup keys, !.at = next]

CollectAccount ==
    /\ ArchiveAt("idle") /\ account
    /\ Attach({picture} \ {0}, "posts")
    /\ vanished' = {}
    /\ UNCHANGED mediaVars
(* A post whose author is gone is nobody's.                                *)
PostKeys     == IF account THEN UNION {row.keys : row \in MyPosts} ELSE {}
FeedbackKeys == IF account THEN UNION {row.keys : row \in rows \ MyPosts} ELSE {}
CollectPosts ==
    /\ ArchiveAt("posts")
    /\ Attach(PostKeys, "feedback")
    /\ UNCHANGED <<vanished, mediaVars>>
CollectFeedback ==           \* the last to attach anything: the document is complete
    /\ ArchiveAt("feedback")
    /\ Attach(FeedbackKeys, "stream")
    /\ UNCHANGED <<vanished, mediaVars>>

(* get_object, with its retries: an object that is gone, or a bucket that  *)
(* does not answer, is noted and the stream goes on.                       *)
PackObject(key) ==
    /\ ArchiveAt("stream") /\ key \in archive.todo /\ key \in bucket
    /\ archive' = [archive EXCEPT !.todo = @ \ {key}, !.packed = @ \cup {key}]
    /\ UNCHANGED <<vanished, mediaVars>>
MissForgets(key, answered) ==        \* mutant: a failed fetch is skipped
    /\ ArchiveAt("stream") /\ key \in archive.todo
    /\ archive' = [archive EXCEPT !.todo = @ \ {key}]
    /\ vanished' = IF answered THEN vanished ELSE vanished \cup {key}
    /\ UNCHANGED mediaVars
MissObject(key, answered) ==
    /\ ArchiveAt("stream") /\ key \in archive.todo /\ (answered => key \notin bucket)
    /\ archive' = [archive EXCEPT !.todo = @ \ {key}, !.missing = @ \cup {key}]
    /\ vanished' = IF answered THEN vanished ELSE vanished \cup {key}
    /\ UNCHANGED mediaVars

FinishArchive ==                     \* UNAVAILABLE.txt, if anything is missing
    /\ ArchiveAt("stream") /\ archive.todo = {}
    /\ archive' = [archive EXCEPT !.at = "done"]
    /\ UNCHANGED <<vanished, mediaVars>>
ExportEnds ==                        \* downloaded, or the client went away
    /\ ~ArchiveAt("idle")
    /\ archive' = NoArchive /\ vanished' = {}
    /\ UNCHANGED mediaVars

Beside ==
    /\ MediaNext
    /\ Cardinality({u \in Uploads : upload'[u].at # "idle"}) <= MaxBeside
    /\ archive' = archive
    /\ vanished' = IF ArchiveAt("idle") THEN {} ELSE vanished \cup (bucket \ bucket')

ExportNext ==
    \/ CollectAccount \/ CollectPosts \/ CollectFeedback
    \/ \E key \in archive.todo :
          PackObject(key) \/ \E answered \in BOOLEAN : MissObject(key, answered)
    \/ FinishArchive \/ ExportEnds
    \/ Beside

ExportSpec == ExportInit /\ [][ExportNext]_<<mediaVars, exportVars>>

------------------------------------------------------------------------------
(* Every path the document names is in the archive or in the list of what  *)
(* is not - and only what was deleted under the export, or what the bucket *)
(* refused to give, is in that list.                                       *)
ExportAccounted ==
    ArchiveAt("done") =>
        /\ archive.listed = archive.packed \cup archive.missing
        /\ archive.missing \subseteq vanished
=============================================================================
