----------------------------- MODULE ContentStore -----------------------------
(***************************************************************************)
(* One content type of the CMS (admin/cms.py) in one process: its records, *)
(* their revisions, the requests that change them and the publisher, a     *)
(* background task that publishes what is due.  A request looks at a       *)
(* record, may wait until the user's permission to publish is known, then  *)
(* changes the record and waits for the save; others run at every wait.    *)
(*                                                                         *)
(* A record's status is "draft" for all that nothing looks for (review,    *)
(* archived), "published" for approved as well; publish_at is a time to    *)
(* come or past, or "unfit": validate() takes any value, and one that is   *)
(* no string (a number, a list) cannot be compared with the time, so that  *)
(* publish_due() raises at it.  Of updated_at it matters that every change *)
(* changes it, and a record's other fields do not.  Every user may create, *)
(* update, delete and restore; only publishers have cms.publish_content.   *)
(* What a save writes is not modelled, but that it takes time and may fail;*)
(* of the lock in Redis (see PublisherLock) that it may be another's.      *)
(***************************************************************************)
EXTENDS Naturals, Sequences

CONSTANTS Contents,      \* the ids of records
          Edits,         \* requests that change content
          Bodies,        \* bound: what the requests of a run ask for
          MaxRevisions,  \* bound: revisions of the type's records
          MaxMishaps     \* bound: saves and calls of Redis that fail

ASSUME ContentAssumption == MaxRevisions \in Nat /\ MaxMishaps \in Nat

VARIABLES
    contents,   \* ContentType.items
    ahead,      \* the order of ContentType.items: which record stands before which
    revisions,  \* ContentType.revisions
    edits,      \* where each request is, by whom it is and what it is about
    publisher,  \* where CMS._publish_loop is
    mishaps     \* how many saves and calls of Redis have failed

contentVars == <<contents, ahead, revisions, edits, publisher, mishaps>>

Statuses == {"draft", "scheduled", "published"}
Times == {"never", "future", "past", "unfit"}
Snapshot == [status : Statuses, publishAt : Times]
Revision == [id : Contents, record : Snapshot]
Blank == [status |-> "draft", publishAt |-> "never"]
Content == [updated : BOOLEAN, status : Statuses, publishAt : Times]
NewContent == [updated |-> FALSE, status |-> "draft", publishAt |-> "never"]
Gone == [updated |-> FALSE, status |-> "gone", publishAt |-> "never"]
\* What a request's body asks for; "same" is a key that it leaves out.  A time in
\* the past is one to come that comes at once.
Body == [status : {"same"} \union Statuses, publishAt : {"same", "future", "unfit"}]

ASSUME BodiesAssumption == Bodies \subseteq Body

Away == [at |-> "away", by |-> "editor", kind |-> "none", id |-> "none", data |-> Blank]

ContentTypeOK ==
    /\ contents \in [Contents -> Content \union {Gone}]
    /\ ahead \subseteq Contents \X Contents
    /\ revisions \in Seq(Revision) /\ Len(revisions) <= MaxRevisions
    /\ \A r \in Edits : /\ edits[r].at \in {"away", "cleared", "saving", "listing"}
                        /\ edits[r].by \in {"editor", "publisher"}
                        /\ edits[r].kind \in {"none", "update", "create", "restore"}
    /\ publisher \in {"off", "sleeping", "refused", "saving", "recording", "dead"}
    /\ mishaps \in 0..MaxMishaps

ContentInit ==
    /\ contents = [i \in Contents |-> Gone]
    /\ ahead = {} /\ revisions = <<>>
    /\ edits = [r \in Edits |-> Away]
    /\ publisher = "off" /\ mishaps = 0

-----------------------------------------------------------------------------
Due(c) == c.status = "scheduled" /\ c.publishAt = "past"
\* The record with another status, and a new updated_at.
WithStatus(c, status) == [c EXCEPT !.status = status, !.updated = ~@]
Published(c) == IF Due(c) THEN WithStatus(c, "published") ELSE c
\* What a revision keeps of a record.
SnapshotOf(c) == [status |-> c.status, publishAt |-> c.publishAt]

\* publish_due() looks at the records in their order, and raises at the first
\* scheduled one whose publish_at does not compare: what stands before it is
\* published, what stands behind it is not.
Unfit(c) == c.status = "scheduled" /\ c.publishAt = "unfit"
PublishingRaises == \E i \in Contents : Unfit(contents[i])
Blocked(i) == \E j \in Contents : Unfit(contents[j]) /\ <<j, i>> \in ahead
Publishes == [i \in Contents |-> IF Blocked(i) THEN contents[i] ELSE Published(contents[i])]

\* A new record stands behind all others, a deleted one has no place, and one that
\* is written again keeps its place.
Present == {i \in Contents : contents[i] # Gone}
PlacedAfter(i) == IF i \in Present THEN ahead ELSE ahead \union (Present \X {i})
Without(i) == {p \in ahead : i \notin {p[1], p[2]}}

\* update(), restore() and create(): the record that comes of a body and a record.
Merged(c, data) ==
    [updated |-> ~c.updated,
     status |-> IF data.status = "same" THEN c.status ELSE data.status,
     publishAt |-> IF data.publishAt = "same" THEN c.publishAt ELSE data.publishAt]

Protected == {"scheduled", "published"}
Live(c) == c.status \in Protected

\* What counts as a publish_at: "unfit" does, whatever it is.
Scheduling == {"future", "past", "unfit"}

\* Mutant of NeedsPublisher: only the status that is asked for counts.
NeedsForStatus(c, data) == data.status \in Protected \/ data.publishAt \in Scheduling

\* _authorize_publication(): whether cms.publish_content is required.
NeedsPublisher(c, data) ==
    \/ Live(c) \/ data.status \in Protected
    \/ data.publishAt \in Scheduling

-----------------------------------------------------------------------------
\* The change itself: the record is written and a revision is added, both at
\* once, and the save begins.  What is gone by then is not found; only
\* restore() brings it back.
Apply(r, by, kind, i, data) ==
    IF kind = "update" /\ contents[i] = Gone
    THEN edits' = [edits EXCEPT ![r] = Away] /\ UNCHANGED <<contents, ahead, revisions>>
    ELSE LET c == Merged(IF contents[i] = Gone THEN NewContent ELSE contents[i], data)
         IN /\ contents' = [contents EXCEPT ![i] = c]
            /\ ahead' = PlacedAfter(i)
            /\ revisions' = Append(revisions, [id |-> i, record |-> SnapshotOf(c)])
            /\ edits' = [edits EXCEPT ![r] = [Away EXCEPT !.at = "saving", !.by = by]]

\* What a request may be about.  A new record has an id never used before, and a
\* restored one is a revision; its publish_at may have passed since.
Asks(kind, i, data) ==
    \/ /\ kind = "create" /\ data \in Bodies
       /\ \A n \in DOMAIN revisions : revisions[n].id # i
       /\ \A r \in Edits : edits[r].at = "cleared" /\ edits[r].id = i => edits[r].kind # "create"
    \/ kind = "update" /\ data \in Bodies /\ contents[i] # Gone
    \/ /\ kind = "restore"
       /\ \E n \in DOMAIN revisions :
             /\ revisions[n].id = i
             /\ \/ data = revisions[n].record
                \/ /\ revisions[n].record.publishAt = "future"
                   /\ data = [revisions[n].record EXCEPT !.publishAt = "past"]

\* api_create(), each record of api_import(), api_update() and api_restore().
\* Without protected content there is no await between looking and changing; an
\* editor without the permission is refused and nothing changes.
Edit(r) ==
    /\ edits[r].at = "away"
    /\ \E by \in {"editor", "publisher"}, kind \in {"create", "update", "restore"},
          i \in Contents, data \in Bodies \union Snapshot :
          /\ Len(revisions) < MaxRevisions
          /\ Asks(kind, i, data)
          /\ IF NeedsPublisher(contents[i], data)
             THEN /\ by = "publisher"
                  /\ edits' = [edits EXCEPT ![r] = [at |-> "cleared", by |-> by, kind |-> kind,
                                                    id |-> i, data |-> data]]
                  /\ UNCHANGED <<contents, ahead, revisions>>
             ELSE Apply(r, by, kind, i, data)
    /\ UNCHANGED <<publisher, mishaps>>

\* The permission has been found, and the request goes on.
EditCleared(r) ==
    /\ edits[r].at = "cleared" /\ Len(revisions) < MaxRevisions
    /\ Apply(r, edits[r].by, edits[r].kind, edits[r].id, edits[r].data)
    /\ UNCHANGED <<publisher, mishaps>>

\* api_delete(): the permission to delete is all it takes.
DeleteContent(r) ==
    /\ edits[r].at = "away"
    /\ \E i \in Contents :
          /\ contents[i] # Gone /\ Len(revisions) < MaxRevisions
          /\ contents' = [contents EXCEPT ![i] = Gone]
          /\ ahead' = Without(i)
          /\ revisions' = Append(revisions, [id |-> i, record |-> SnapshotOf(contents[i])])
    /\ edits' = [edits EXCEPT ![r] = [Away EXCEPT !.at = "saving"]]
    /\ UNCHANGED <<publisher, mishaps>>

\* api_action() with "publish" or "unpublish", which leave no revision.
\* Selected records that do not exist are passed over.
SetStatus(r) ==
    /\ edits[r].at = "away"
    /\ \E ids \in SUBSET Contents, status \in {"published", "draft"} :
          contents' = [i \in Contents |-> IF i \in ids /\ contents[i] # Gone
                                          THEN WithStatus(contents[i], status)
                                          ELSE contents[i]]
    /\ edits' = [edits EXCEPT ![r] = [Away EXCEPT !.at = "saving", !.by = "publisher"]]
    /\ UNCHANGED <<ahead, revisions, publisher, mishaps>>

\* api_list() publishes what is due and saves it, then query() publishes what has
\* come due meanwhile, which is not saved.  When publish_due() raises, the client
\* gets an error, and what it had published stays, unsaved.
List(r) ==
    /\ edits[r].at = "away"
    /\ contents' = Publishes /\ contents' # contents
    /\ edits' = [edits EXCEPT ![r] = [Away EXCEPT !.at = IF PublishingRaises THEN "away" ELSE "listing"]]
    /\ UNCHANGED <<ahead, revisions, publisher, mishaps>>

\* A request's save ends; one that fails is an error to the client.
Saves(r) ==
    /\ edits[r].at \in {"saving", "listing"}
    /\ edits' = [edits EXCEPT ![r] = Away]
    /\ \/ /\ contents' = IF edits[r].at = "listing" THEN Publishes ELSE contents
          /\ UNCHANGED mishaps
       \/ /\ mishaps < MaxMishaps /\ mishaps' = mishaps + 1
          /\ UNCHANGED contents
    /\ UNCHANGED <<ahead, revisions, publisher>>

-----------------------------------------------------------------------------
\* _start_publisher(): a task that has ended is still there and not replaced.
StartPublisher ==
    /\ publisher = "off" /\ publisher' = "sleeping"
    /\ UNCHANGED <<contents, ahead, revisions, edits, mishaps>>

\* _stop_publisher(): wherever the loop is waiting.
StopPublisher ==
    /\ publisher # "off" /\ publisher' = "off"
    /\ UNCHANGED <<contents, ahead, revisions, edits, mishaps>>

\* The pause is over, and the lock in Redis is another process's: this round
\* publishes nothing.
PublisherIsRefused ==
    /\ publisher = "sleeping" /\ publisher' = "refused"
    /\ UNCHANGED <<contents, ahead, revisions, edits, mishaps>>

\* The pause after a refused round.
PublisherPauses ==
    /\ publisher = "refused" /\ publisher' = "sleeping"
    /\ UNCHANGED <<contents, ahead, revisions, edits, mishaps>>

\* The pause is over, and the round is this process's: what is due is published, and
\* saved if there is any.  When publish_due() raises, what it had published is not
\* saved, and the jobs of all that is scheduled get a retry that nobody looks for.
PublisherWakes ==
    /\ publisher = "sleeping"
    /\ contents' = Publishes
    /\ PublishingRaises \/ contents' # contents
    /\ publisher' = IF PublishingRaises THEN "recording" ELSE "saving"
    /\ UNCHANGED <<ahead, revisions, edits, mishaps>>

\* Mutant of PublisherSaves: the jobs are saved again and again.
PublisherSavesForever ==
    /\ publisher \in {"saving", "recording"}
    /\ \/ publisher = "saving" /\ publisher' = "sleeping" /\ UNCHANGED mishaps
       \/ /\ mishaps < MaxMishaps /\ mishaps' = mishaps + 1
          /\ publisher' = "recording"
    /\ UNCHANGED <<contents, ahead, revisions, edits>>

\* The save succeeds, or it fails and the jobs are saved with a retry in them; an
\* error of that save nobody catches, and it ends the task.
PublisherSaves ==
    /\ publisher \in {"saving", "recording"}
    /\ \/ publisher' = "sleeping" /\ UNCHANGED mishaps
       \/ /\ mishaps < MaxMishaps /\ mishaps' = mishaps + 1
          /\ publisher' = IF publisher = "saving" THEN "recording" ELSE "dead"
    /\ UNCHANGED <<contents, ahead, revisions, edits>>

\* Redis fails when the lock is taken, before the round, or given back, after it:
\* neither is within a try, and the task ends.
PublisherLosesRedis ==
    /\ publisher \in {"sleeping", "saving", "recording"} /\ publisher' = "dead"
    /\ mishaps < MaxMishaps /\ mishaps' = mishaps + 1
    /\ UNCHANGED <<contents, ahead, revisions, edits>>

\* The time of a scheduled record comes.
ComesDue ==
    /\ \E i \in Contents : /\ contents[i].publishAt = "future"
                           /\ contents' = [contents EXCEPT ![i].publishAt = "past"]
    /\ UNCHANGED <<ahead, revisions, edits, publisher, mishaps>>

PublisherRuns == PublisherPauses \/ PublisherWakes \/ PublisherSaves

ContentNext ==
    \/ \E r \in Edits : \/ Edit(r) \/ EditCleared(r) \/ DeleteContent(r)
                        \/ SetStatus(r) \/ List(r) \/ Saves(r)
    \/ StartPublisher \/ StopPublisher \/ ComesDue
    \/ PublisherIsRefused \/ PublisherLosesRedis \/ PublisherRuns

\* The event loop runs what is ready, the sleeps of the publisher end, and its calls
\* return: it does not stay where it is for ever.
ContentFairness == WF_contentVars(PublisherRuns)

ContentSpec == ContentInit /\ [][ContentNext]_contentVars /\ ContentFairness

-----------------------------------------------------------------------------
\* The step is a publisher's request, and it changes content now.
ByPublisher == \E r \in Edits : /\ edits'[r].at = "saving" /\ edits[r].at # "saving"
                                /\ edits'[r].by = "publisher"

\* Content that is live, or becomes so, is changed by nobody without the
\* permission to publish, though records are published and unpublished while
\* requests wait.  Only deleting takes no such permission, and the passing of
\* time makes what is scheduled published.
LiveNeedsPermission ==
    [][\A i \in Contents :
          contents'[i] # contents[i] /\ (Live(contents[i]) \/ Live(contents'[i])) =>
             \/ ByPublisher
             \/ contents'[i] = Gone
             \/ contents'[i] = Published(contents[i])
             \/ contents'[i] = [contents[i] EXCEPT !.publishAt = "past"]]_contentVars

\* Scheduled content whose time has come is published, or is no longer scheduled,
\* whatever fails and however requests interleave with the publisher, but for four
\* causes, each of which has to last: the publisher is stopped; it has died, of two
\* failed saves in a row or of Redis; its lock is refused again and again; or before
\* the record stands a scheduled one whose publish_at does not compare, at which
\* every round and every list raises.
DueIsPublished ==
    \A i \in Contents :
        Due(contents[i]) ~> \/ ~Due(contents[i])
                            \/ publisher \in {"off", "dead", "refused"}
                            \/ Blocked(i)
===============================================================================
