------------------------------ MODULE Audience ------------------------------
(***************************************************************************)
(* Who fan-out can reach: one reader's memberships in the audience sets of *)
(* Redis (a channel's own set and one per language), mirrored from the     *)
(* reader's rows in Postgres by subscribe, unsubscribe, the change of      *)
(* languages, the deletion of the account and rebuild_from_pg, and the     *)
(* running total of all memberships that the price divides by.  Each of    *)
(* them commits to Postgres first, then writes the sets in one MULTI, then *)
(* moves the total by the number of members that changed.                  *)
(***************************************************************************)
EXTENDS Integers, FiniteSets

CONSTANTS Editors,           \* requests and rebuilds in flight at once
          Channels,
          Languages,         \* languages.reading_languages()
          MaxAccidents       \* bound: edits that overlap another or die, losses of Redis

Plain == "plain"             \* keys.channel, beside keys.audience of each language
Tags  == Languages \cup {Plain}

ASSUME AudienceAssumption ==
    /\ Languages # {} /\ Plain \notin Languages /\ MaxAccidents \in Nat
    /\ IsFiniteSet(Editors) /\ IsFiniteSet(Channels) /\ IsFiniteSet(Languages)

VARIABLES reader,            \* the rows: [exists, channels, languages]
          members,           \* the sets holding the reader: <<channel, language or Plain>>
          subsTotal,         \* keys.SUBS_TOTAL
          edit,              \* per editor, where it is and what it read
          accidents,         \* how many of them there were
          mirror,            \* history: "lost" since Redis lost its data, "skewed" since an
                             \* edit overlapped another or died after its commit, or "true"
          miscounted         \* history: one died between the sets and the total, or a
                             \* rebuild set the total of sets that did not mirror the rows

audienceVars == <<reader, members, subsTotal, edit, accidents, mirror, miscounted>>

(* `joined` and `left` are the memberships that its MULTI has changed.     *)
NoEdit == [at |-> "idle", channels |-> {}, languages |-> {}, joined |-> {}, left |-> {}]

(* What the rows say the sets should be.                                   *)
Memberships(channels, languages) == channels \X (languages \cup {Plain})
Wanted == IF reader.exists THEN Memberships(reader.channels, reader.languages) ELSE {}

EditAt(e, at) == edit[e].at = at
OpenEdits      == {e \in Editors : ~EditAt(e, "idle")}
Retire(e)     == edit' = [edit EXCEPT ![e] = NoEdit]
StartEdit(e, at, channels, languages) ==
    /\ reader.exists /\ EditAt(e, "idle")
    /\ accidents + Cardinality(OpenEdits) <= MaxAccidents
    /\ accidents' = accidents + Cardinality(OpenEdits)
    /\ edit' = [edit EXCEPT ![e] = [NoEdit EXCEPT !.at = at, !.channels = channels,
                                                  !.languages = languages]]
    /\ mirror' = IF OpenEdits = {} THEN mirror ELSE "skewed"

(* One MULTI: join some sets and leave others; SADD and SREM answer how    *)
(* many there were to join or leave.                                       *)
Rewrite(e, joined, left) ==
    /\ members' = (members \cup joined) \ left
    /\ edit' = [edit EXCEPT ![e].at = "count", ![e].joined = joined \ members,
                                               ![e].left = left \cap members]
    /\ UNCHANGED <<reader, subsTotal, accidents, mirror, miscounted>>

AudienceInit ==
    /\ \E languages \in (SUBSET Languages) \ {{}} :
          reader = [exists |-> TRUE, channels |-> {}, languages |-> languages]
    /\ members = {} /\ subsTotal = 0
    /\ edit = [e \in Editors |-> NoEdit]
    /\ accidents = 0 /\ mirror = "true" /\ miscounted = FALSE

------------------------------------------------------------------------------
(* POST /channels/{id}/subscribe: the user, with the languages they had    *)
(* then, was loaded with the request.                                      *)
SubscribeLoad(e, ch) ==
    /\ StartEdit(e, "subscribe", {ch}, reader.languages)
    /\ UNCHANGED <<reader, members, subsTotal, miscounted>>

(* An account deleted meanwhile fails the insert's foreign key.            *)
SubscribeCommit(e) ==
    /\ EditAt(e, "subscribe")
    /\ reader' = IF reader.exists THEN [reader EXCEPT !.channels = @ \cup edit[e].channels]
                 ELSE reader
    /\ IF reader.exists THEN edit' = [edit EXCEPT ![e].at = "sync subscribe"] ELSE Retire(e)
    /\ UNCHANGED <<members, subsTotal, accidents, mirror, miscounted>>

SyncSubscribe(e) ==
    /\ EditAt(e, "sync subscribe")
    /\ Rewrite(e, Memberships(edit[e].channels, edit[e].languages), {})

UnsubscribeLoad(e, ch) ==
    /\ StartEdit(e, "unsubscribe", {ch}, {})
    /\ UNCHANGED <<reader, members, subsTotal, miscounted>>

UnsubscribeCommit(e) ==
    /\ EditAt(e, "unsubscribe")
    /\ reader' = [reader EXCEPT !.channels = @ \ edit[e].channels]
    /\ edit' = [edit EXCEPT ![e].at = "sync unsubscribe"]
    /\ UNCHANGED <<members, subsTotal, accidents, mirror, miscounted>>

SyncUnsubscribeAccepted(e) ==     \* mutant: only the languages accepted now are left
    /\ EditAt(e, "sync unsubscribe")
    /\ Rewrite(e, {}, Memberships(edit[e].channels, edit[e].languages))

SyncUnsubscribe(e) ==             \* every language, accepted or not
    /\ EditAt(e, "sync unsubscribe")
    /\ Rewrite(e, {}, Memberships(edit[e].channels, Languages))

------------------------------------------------------------------------------
(* PUT /users/me/content-languages: commit if it changes anything, read    *)
(* the channels, rewrite the sets in any case.                             *)
LanguagesLoad(e, languages) ==
    /\ StartEdit(e, IF languages = reader.languages THEN "languages" ELSE "change languages",
                 {}, languages)
    /\ UNCHANGED <<reader, members, subsTotal, miscounted>>

LanguagesCommit(e) ==             \* an account deleted meanwhile: no row to update, a 500
    /\ EditAt(e, "change languages")
    /\ reader' = IF reader.exists THEN [reader EXCEPT !.languages = edit[e].languages] ELSE reader
    /\ IF reader.exists THEN edit' = [edit EXCEPT ![e].at = "languages"] ELSE Retire(e)
    /\ UNCHANGED <<members, subsTotal, accidents, mirror, miscounted>>

LanguagesChannels(e) ==
    /\ EditAt(e, "languages")
    /\ edit' = [edit EXCEPT ![e].at = "sync languages", ![e].channels = reader.channels]
    /\ UNCHANGED <<reader, members, subsTotal, accidents, mirror, miscounted>>

SyncContentLanguages(e) ==
    /\ EditAt(e, "sync languages")
    /\ Rewrite(e, edit[e].channels \X edit[e].languages,
                  edit[e].channels \X (Languages \ edit[e].languages))

------------------------------------------------------------------------------
(* DELETE /users/me: the channels are read before the rows go.             *)
DeletionReads(e) ==
    /\ StartEdit(e, "delete", reader.channels, {})
    /\ UNCHANGED <<reader, members, subsTotal, miscounted>>

DeletionCommit(e) ==
    /\ EditAt(e, "delete")
    /\ reader' = [exists |-> FALSE, channels |-> {}, languages |-> {}]
    /\ edit' = [edit EXCEPT ![e].at = "purge"]    \* deleted already: purged once more
    /\ UNCHANGED <<members, subsTotal, accidents, mirror, miscounted>>

PurgeUser(e) ==
    /\ EditAt(e, "purge")
    /\ Rewrite(e, {}, Memberships(edit[e].channels, Languages))

(* The total moves by what the MULTI changed, in a call of its own.        *)
CountAll(e) ==                    \* mutant: by what it could have changed
    /\ EditAt(e, "count")
    /\ subsTotal' = subsTotal + Cardinality(edit[e].joined)
                       - IF edit[e].left = {} THEN 0 ELSE Cardinality(Tags)
    /\ Retire(e)
    /\ UNCHANGED <<reader, members, accidents, mirror, miscounted>>

CountChanged(e) ==
    /\ EditAt(e, "count")
    /\ subsTotal' = subsTotal + Cardinality(edit[e].joined) - Cardinality(edit[e].left)
    /\ Retire(e)
    /\ UNCHANGED <<reader, members, accidents, mirror, miscounted>>

------------------------------------------------------------------------------
(* rebuild_from_pg: the rows once, then one SADD at a time, then the total *)
(* set to what the rows add up to.  It leaves no set.                      *)
RebuildReads(e) ==
    /\ StartEdit(e, "rebuild", reader.channels, reader.languages)
    /\ UNCHANGED <<reader, members, subsTotal, miscounted>>

RebuildAdds(e) ==
    LET missing == Memberships(edit[e].channels, edit[e].languages) \ members
    IN /\ EditAt(e, "rebuild")
       /\ \E m \in missing : members' = members \cup {m}
       /\ UNCHANGED <<reader, subsTotal, edit, accidents, mirror, miscounted>>

RebuildTotals(e) ==
    LET rows == Memberships(edit[e].channels, edit[e].languages)
    IN /\ EditAt(e, "rebuild") /\ rows \subseteq members
       /\ subsTotal' = Cardinality(rows)
       /\ miscounted' = (rows # members \/ OpenEdits # {e})
       /\ mirror' = IF mirror = "lost" THEN "true" ELSE mirror
       /\ Retire(e)
       /\ UNCHANGED <<reader, members, accidents>>

------------------------------------------------------------------------------
EditorDies(e) ==
    /\ ~EditAt(e, "idle")
    /\ mirror' = IF edit[e].at \in {"sync subscribe", "sync unsubscribe", "languages",
                                    "sync languages", "purge"} THEN "skewed" ELSE mirror
    /\ miscounted' = (miscounted \/ EditAt(e, "count") \/ EditAt(e, "rebuild"))
    /\ Retire(e)
    /\ accidents < MaxAccidents /\ accidents' = accidents + 1
    /\ UNCHANGED <<reader, members, subsTotal>>

(* Redis restarts empty. *)
RedisLoss ==
    /\ members # {}
    /\ members' = {} /\ subsTotal' = 0
    /\ mirror' = IF OpenEdits = {} THEN "lost" ELSE "skewed"
    /\ miscounted' = (OpenEdits # {})
    /\ accidents < MaxAccidents /\ accidents' = accidents + 1
    /\ UNCHANGED <<reader, edit>>

AudienceNext ==
    \/ RedisLoss
    \/ \E e \in Editors :
        \/ \E ch \in Channels : SubscribeLoad(e, ch) \/ UnsubscribeLoad(e, ch)
        \/ SubscribeCommit(e) \/ SyncSubscribe(e)
        \/ UnsubscribeCommit(e) \/ SyncUnsubscribe(e)
        \/ \E languages \in (SUBSET Languages) \ {{}} : LanguagesLoad(e, languages)
        \/ LanguagesCommit(e) \/ LanguagesChannels(e) \/ SyncContentLanguages(e)
        \/ DeletionReads(e) \/ DeletionCommit(e) \/ PurgeUser(e)
        \/ CountChanged(e)
        \/ RebuildReads(e) \/ RebuildAdds(e) \/ RebuildTotals(e)
        \/ EditorDies(e)

AudienceSpec == AudienceInit /\ [][AudienceNext]_audienceVars

------------------------------------------------------------------------------
(* Between edits the sets are what the rows say, a deleted account's none, *)
(* unless an edit overlapped another or died after its commit: nothing     *)
(* orders the mirror writes of two requests like their commits.  After a   *)
(* loss of Redis they are again once a rebuild has run.                    *)
MirrorsPostgres == mirror = "true" /\ OpenEdits = {} => members = Wanted

(* The price's denominator counts the memberships there are, those of an   *)
(* edit between its two calls apart - however edits overlap and die, but   *)
(* for a death in that window and a rebuild that counted the rows while    *)
(* the sets said something else.                                           *)
Uncounted(changed) == UNION {{e} \X changed[e] : e \in Editors}
Joined     == Uncounted([e \in Editors |-> edit[e].joined])
Left       == Uncounted([e \in Editors |-> edit[e].left])
Rebuilding == \E e \in Editors : EditAt(e, "rebuild")
TotalCountsMembers ==
    ~miscounted /\ ~Rebuilding =>
        subsTotal + Cardinality(Joined) = Cardinality(members) + Cardinality(Left)
=============================================================================
