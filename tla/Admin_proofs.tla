------------------------------ MODULE Admin_proofs ------------------------------
(***************************************************************************)
(* What the parts of the admin guarantee, for any number of requests,      *)
(* records, processes and faults: who changes live content, what becomes   *)
(* of the audit trail and of credentials that have ended.                  *)
(***************************************************************************)
EXTENDS ContentStore, AdminMfa, AuditLog, SequenceTheorems, TLAPS

-----------------------------------------------------------------------------
(* Content *)

Ask == Body \union Snapshot

\* A request that waits for nothing but its turn has the permission, and asks for
\* what bodies and revisions can hold.
ClearedIsAPublisher ==
    \A r \in Edits : edits[r].at = "cleared" =>
        /\ edits[r].by = "publisher" /\ edits[r].id \in Contents /\ edits[r].data \in Ask

Places == {"away", "cleared", "saving", "listing"}
Kinds == {"none", "update", "create", "restore"}
Users == {"editor", "publisher"}
Request == [at : Places, by : Users, kind : Kinds, id : Contents \union {"none"}, data : Ask]

RevisionsFit ==
    /\ revisions \in Seq(Revision) /\ Len(revisions) <= MaxRevisions
    /\ ahead \subseteq Contents \X Contents

PublisherFits ==
    /\ publisher \in {"off", "sleeping", "refused", "saving", "recording", "dead"}
    /\ mishaps \in 0..MaxMishaps

ContentInv ==
    /\ contents \in [Contents -> Content \union {Gone}]
    /\ RevisionsFit /\ PublisherFits
    /\ edits \in [Edits -> Request] /\ ClearedIsAPublisher

LEMMA RecordsStayRecords ==
  /\ Gone \notin Content /\ Blank \in Ask /\ Blank \in Snapshot
  /\ \A c \in Content \union {Gone} : SnapshotOf(c) \in Snapshot \/ c = Gone
  /\ \A c \in Content \union {Gone} : Published(c) \in Content \union {Gone}
  /\ \A c \in Content, status \in Statuses : WithStatus(c, status) \in Content
  /\ \A c \in Content, data \in Ask : Merged(c, data) \in Content
  <1>1. /\ Gone \notin Content /\ Blank \in Ask /\ Blank \in Snapshot
    BY DEF Gone, Content, Blank, Ask, Snapshot, Statuses, Times
  <1>2. ASSUME NEW c \in Content, NEW status \in Statuses PROVE WithStatus(c, status) \in Content
    BY <1>2 DEF WithStatus, Content, Statuses
  <1>3. ASSUME NEW c \in Content \union {Gone} PROVE Published(c) \in Content \union {Gone}
    <2>1. CASE c = Gone
      BY <2>1 DEF Published, Due, Gone
    <2>2. CASE c \in Content
      BY <1>2, <2>2 DEF Published, Statuses
    <2>3. QED
      BY <2>1, <2>2
  <1>4. ASSUME NEW c \in Content PROVE SnapshotOf(c) \in Snapshot
    BY DEF SnapshotOf, Snapshot, Content
  <1>5. ASSUME NEW c \in Content, NEW data \in Ask PROVE Merged(c, data) \in Content
    <2>1. /\ data.status \in Statuses \union {"same"} /\ data.publishAt \in Times \union {"same"}
      BY DEF Ask, Body, Snapshot, Statuses, Times
    <2>2. /\ c.status \in Statuses /\ c.publishAt \in Times
      BY DEF Content
    <2>3. (~c.updated) \in BOOLEAN
      OBVIOUS
    <2>4. QED
      BY <2>1, <2>2, <2>3 DEF Merged, Content
  <1>6. QED
    BY <1>1, <1>2, <1>3, <1>4, <1>5

LEMMA OneMoreRevision ==
  ASSUME RevisionsFit, NEW i \in Contents, Len(revisions) < MaxRevisions, NEW c \in Snapshot,
         revisions' = Append(revisions, [id |-> i, record |-> c]),
         ahead' \subseteq Contents \X Contents
  PROVE  RevisionsFit'
  <1>1. PICK v \in Revision : v = [id |-> i, record |-> c]
    BY DEF Revision
  <1>2. revisions' = Append(revisions, v) /\ revisions \in Seq(Revision)
    BY <1>1 DEF RevisionsFit
  <1>3. revisions' \in Seq(Revision) /\ Len(revisions') = Len(revisions) + 1
    BY <1>2
  <1>4. Len(revisions) \in Nat /\ MaxRevisions \in Nat
    BY <1>2, ContentAssumption
  <1>5. QED
    BY <1>3, <1>4 DEF RevisionsFit

\* A request gets another place, where it has been cleared only if it is a publisher's.
LEMMA RequestGoes ==
  ASSUME ContentInv, NEW r \in Edits, NEW e \in Request, edits' = [edits EXCEPT ![r] = e],
         e.at = "cleared" => e.by = "publisher" /\ e.id \in Contents /\ e.data \in Ask
  PROVE  edits' \in [Edits -> Request] /\ ClearedIsAPublisher'
  BY DEF ContentInv, ClearedIsAPublisher

LEMMA AwayIsARequest ==
  /\ Away \in Request /\ Away.at = "away"
  /\ \A by \in Users, at \in Places : /\ [Away EXCEPT !.at = at] \in Request /\ [Away EXCEPT !.at = at].at = at
                                      /\ [Away EXCEPT !.at = at, !.by = by] \in Request
                                      /\ [Away EXCEPT !.at = at, !.by = by].at = at
                                      /\ [Away EXCEPT !.at = at, !.by = by].by = by
  BY RecordsStayRecords DEF Away, Request, Users, Places, Kinds

LEMMA ApplyKeeps ==
  ASSUME ContentInv, NEW r \in Edits, NEW by \in Users, NEW kind, NEW i \in Contents, NEW data \in Ask,
         Len(revisions) < MaxRevisions, Apply(r, by, kind, i, data), UNCHANGED <<publisher, mishaps>>
  PROVE  ContentInv'
  <1>1. CASE kind = "update" /\ contents[i] = Gone
    <2>1. edits' = [edits EXCEPT ![r] = Away] /\ UNCHANGED <<contents, ahead, revisions>>
      BY <1>1 DEF Apply
    <2>2. edits' \in [Edits -> Request] /\ ClearedIsAPublisher'
      BY <2>1, RequestGoes, AwayIsARequest
    <2>3. QED
      BY <2>1, <2>2 DEF ContentInv, RevisionsFit, PublisherFits
  <1>2. CASE ~(kind = "update" /\ contents[i] = Gone)
    <2> DEFINE old == IF contents[i] = Gone THEN NewContent ELSE contents[i]
    <2>1. PICK c : /\ c = Merged(old, data) /\ contents' = [contents EXCEPT ![i] = c]
                   /\ ahead' = PlacedAfter(i)
                   /\ revisions' = Append(revisions, [id |-> i, record |-> SnapshotOf(c)])
                   /\ edits' = [edits EXCEPT ![r] = [Away EXCEPT !.at = "saving", !.by = by]]
      BY <1>2 DEF Apply
    <2>2. old \in Content
      BY DEF ContentInv, NewContent, Content, Statuses, Times
    <2>3. c \in Content
      BY <2>1, <2>2, RecordsStayRecords
    <2>4. SnapshotOf(c) \in Snapshot
      BY <2>3 DEF SnapshotOf, Snapshot, Content
    <2>5. contents' \in [Contents -> Content \union {Gone}]
      BY <2>1, <2>3 DEF ContentInv
    <2>6. RevisionsFit'
      <3>1. ahead' \subseteq Contents \X Contents
        BY <2>1 DEF PlacedAfter, Present, ContentInv, RevisionsFit
      <3>2. QED
        BY <2>1, <2>4, <3>1, OneMoreRevision DEF ContentInv
    <2>7. edits' \in [Edits -> Request] /\ ClearedIsAPublisher'
      <3>1. "saving" # "cleared"
        OBVIOUS
      <3>2. PICK e : e = [Away EXCEPT !.at = "saving", !.by = by]
        OBVIOUS
      <3>3. e \in Request /\ e.at = "saving"
        <4>1. "saving" \in Places
          BY DEF Places
        <4>2. /\ [Away EXCEPT !.at = "saving", !.by = by] \in Request
              /\ [Away EXCEPT !.at = "saving", !.by = by].at = "saving"
          BY <4>1, AwayIsARequest
        <4>3. QED
          BY <3>2, <4>2
      <3>4. edits' = [edits EXCEPT ![r] = e] /\ e.at # "cleared"
        BY <2>1, <3>1, <3>2, <3>3
      <3>5. QED
        BY <3>3, <3>4, RequestGoes
    <2>8. QED
      BY <2>5, <2>6, <2>7 DEF ContentInv, PublisherFits
  <1>3. QED
    BY <1>1, <1>2

\* What a request may be about is a body or a revision.
LEMMA WhatIsAsked ==
  ASSUME NEW kind, NEW i \in Contents, NEW data, data \in Bodies \union Snapshot
  PROVE  data \in Ask
  BY BodiesAssumption DEF Ask

LEMMA ContentNextKeeps ==
  ASSUME ContentInv, [ContentNext]_contentVars
  PROVE  ContentInv'
  <1>1. ASSUME NEW r \in Edits, Edit(r) PROVE ContentInv'
    <2>1. PICK by \in Users, kind \in {"create", "update", "restore"}, i \in Contents, data \in Ask :
             /\ Len(revisions) < MaxRevisions
             /\ IF NeedsPublisher(contents[i], data)
                THEN /\ by = "publisher"
                     /\ edits' = [edits EXCEPT ![r] = [at |-> "cleared", by |-> by, kind |-> kind,
                                                       id |-> i, data |-> data]]
                     /\ UNCHANGED <<contents, ahead, revisions>>
                ELSE Apply(r, by, kind, i, data)
      BY <1>1, BodiesAssumption DEF Edit, Users, Ask
    <2>2. UNCHANGED <<publisher, mishaps>>
      BY <1>1 DEF Edit
    <2>3. CASE NeedsPublisher(contents[i], data)
      <3>1. PICK e : e = [at |-> "cleared", by |-> by, kind |-> kind, id |-> i, data |-> data]
        OBVIOUS
      <3>2. e \in Request /\ e.by = by /\ e.id = i /\ e.data = data
        BY <3>1 DEF Request, Places, Kinds
      <3>3. edits' = [edits EXCEPT ![r] = e] /\ by = "publisher" /\ UNCHANGED <<contents, ahead, revisions>>
        BY <2>1, <2>3, <3>1
      <3>4. edits' \in [Edits -> Request] /\ ClearedIsAPublisher'
        BY <3>2, <3>3, RequestGoes
      <3>5. QED
        BY <2>2, <3>3, <3>4 DEF ContentInv, RevisionsFit, PublisherFits
    <2>4. CASE ~NeedsPublisher(contents[i], data)
      BY <2>1, <2>2, <2>4, ApplyKeeps
    <2>5. QED
      BY <2>3, <2>4
  <1>2. ASSUME NEW r \in Edits, EditCleared(r) PROVE ContentInv'
    <2>1. /\ edits[r].id \in Contents /\ edits[r].data \in Ask /\ edits[r].by \in Users
          /\ Len(revisions) < MaxRevisions
          /\ Apply(r, edits[r].by, edits[r].kind, edits[r].id, edits[r].data)
          /\ UNCHANGED <<publisher, mishaps>>
      BY <1>2 DEF EditCleared, ContentInv, ClearedIsAPublisher, Request
    <2>2. QED
      BY <2>1, ApplyKeeps
  <1>3. ASSUME NEW r \in Edits, DeleteContent(r) PROVE ContentInv'
    <2>1. PICK i \in Contents : /\ contents[i] # Gone /\ Len(revisions) < MaxRevisions
                                /\ contents' = [contents EXCEPT ![i] = Gone]
                                /\ ahead' = Without(i)
                                /\ revisions' = Append(revisions, [id |-> i, record |-> SnapshotOf(contents[i])])
      BY <1>3 DEF DeleteContent
    <2>2. edits' = [edits EXCEPT ![r] = [Away EXCEPT !.at = "saving"]] /\ UNCHANGED <<publisher, mishaps>>
      BY <1>3 DEF DeleteContent
    <2>3. SnapshotOf(contents[i]) \in Snapshot
      BY <2>1, RecordsStayRecords DEF ContentInv
    <2>4. RevisionsFit'
      <3>1. ahead' \subseteq Contents \X Contents
        BY <2>1 DEF Without, ContentInv, RevisionsFit
      <3>2. QED
        BY <2>1, <2>3, <3>1, OneMoreRevision DEF ContentInv
    <2>5. edits' \in [Edits -> Request] /\ ClearedIsAPublisher'
      <3>1. "saving" \in Places /\ "editor" \in Users /\ "saving" # "cleared"
        BY DEF Places, Users
      <3>2. QED
        BY <2>2, <3>1, RequestGoes, AwayIsARequest
    <2>6. contents' \in [Contents -> Content \union {Gone}]
      BY <2>1 DEF ContentInv
    <2>7. QED
      BY <2>2, <2>4, <2>5, <2>6 DEF ContentInv, PublisherFits
  <1>4. ASSUME NEW r \in Edits, SetStatus(r) PROVE ContentInv'
    <2>1. PICK ids \in SUBSET Contents, status \in Statuses :
             contents' = [i \in Contents |-> IF i \in ids /\ contents[i] # Gone
                                             THEN WithStatus(contents[i], status) ELSE contents[i]]
      BY <1>4 DEF SetStatus, Statuses
    <2>2. contents' \in [Contents -> Content \union {Gone}]
      BY <2>1, RecordsStayRecords DEF ContentInv
    <2>3. /\ edits' = [edits EXCEPT ![r] = [Away EXCEPT !.at = "saving", !.by = "publisher"]]
          /\ UNCHANGED <<ahead, revisions, publisher, mishaps>>
      BY <1>4 DEF SetStatus
    <2>4. edits' \in [Edits -> Request] /\ ClearedIsAPublisher'
      <3>1. PICK e : e = [Away EXCEPT !.at = "saving", !.by = "publisher"]
        OBVIOUS
      <3>2. e \in Request /\ e.at = "saving"
        <4>1. "saving" \in Places /\ "publisher" \in Users
          BY DEF Places, Users
        <4>2. /\ [Away EXCEPT !.at = "saving", !.by = "publisher"] \in Request
              /\ [Away EXCEPT !.at = "saving", !.by = "publisher"].at = "saving"
          BY <4>1, AwayIsARequest
        <4>3. QED
          BY <3>1, <4>2
      <3>3. edits' = [edits EXCEPT ![r] = e] /\ e.at # "cleared"
        BY <2>3, <3>1, <3>2
      <3>4. QED
        BY <3>2, <3>3, RequestGoes
    <2>5. QED
      BY <2>2, <2>3, <2>4 DEF ContentInv, RevisionsFit, PublisherFits
  <1>5. contents' = Publishes => contents' \in [Contents -> Content \union {Gone}]
    BY RecordsStayRecords DEF ContentInv, Publishes
  <1>6. ASSUME NEW r \in Edits, List(r) PROVE ContentInv'
    <2>1. PICK at \in {"away", "listing"} :
             edits' = [edits EXCEPT ![r] = [Away EXCEPT !.at = at]] /\ contents' = Publishes
      BY <1>6 DEF List
    <2>2. UNCHANGED <<ahead, revisions, publisher, mishaps>>
      BY <1>6 DEF List
    <2>3. edits' \in [Edits -> Request] /\ ClearedIsAPublisher'
      <3>1. at \in Places /\ at # "cleared" /\ "editor" \in Users
        BY DEF Places, Users
      <3>2. QED
        BY <2>1, <3>1, RequestGoes, AwayIsARequest
    <2>4. QED
      BY <1>5, <2>1, <2>2, <2>3 DEF ContentInv, RevisionsFit, PublisherFits
  <1>7. ASSUME NEW r \in Edits, Saves(r) PROVE ContentInv'
    <2>1. /\ edits' = [edits EXCEPT ![r] = Away] /\ UNCHANGED <<ahead, revisions, publisher>>
          /\ contents' = Publishes \/ contents' = contents
      BY <1>7 DEF Saves
    <2>2. mishaps' \in 0..MaxMishaps
      <3>1. mishaps' = mishaps \/ (mishaps < MaxMishaps /\ mishaps' = mishaps + 1)
        BY <1>7 DEF Saves
      <3>2. mishaps \in 0..MaxMishaps /\ MaxMishaps \in Nat
        BY ContentAssumption DEF ContentInv, PublisherFits
      <3>3. QED
        BY <3>1, <3>2
    <2>3. edits' \in [Edits -> Request] /\ ClearedIsAPublisher'
      BY <2>1, RequestGoes, AwayIsARequest
    <2>4. contents' \in [Contents -> Content \union {Gone}]
      BY <1>5, <2>1 DEF ContentInv
    <2>5. QED
      BY <2>1, <2>2, <2>3, <2>4 DEF ContentInv, RevisionsFit, PublisherFits
  <1>8. CASE StartPublisher \/ StopPublisher \/ PublisherIsRefused \/ PublisherPauses \/ PublisherWakes
    <2>1. /\ contents' = Publishes \/ contents' = contents
          /\ publisher' \in {"off", "sleeping", "refused", "saving", "recording", "dead"}
          /\ UNCHANGED <<ahead, revisions, edits, mishaps>>
      BY <1>8 DEF StartPublisher, StopPublisher, PublisherIsRefused, PublisherPauses, PublisherWakes
    <2>2. contents' \in [Contents -> Content \union {Gone}]
      BY <1>5, <2>1 DEF ContentInv
    <2>3. QED
      BY <2>1, <2>2 DEF ContentInv, RevisionsFit, PublisherFits, ClearedIsAPublisher
  <1>9. CASE PublisherSaves \/ PublisherLosesRedis
    <2>1. /\ publisher' \in {"off", "sleeping", "refused", "saving", "recording", "dead"}
          /\ UNCHANGED <<contents, ahead, revisions, edits>>
      BY <1>9 DEF PublisherSaves, PublisherLosesRedis
    <2>2. mishaps' \in 0..MaxMishaps
      <3>1. mishaps' = mishaps \/ (mishaps < MaxMishaps /\ mishaps' = mishaps + 1)
        BY <1>9 DEF PublisherSaves, PublisherLosesRedis
      <3>2. mishaps \in 0..MaxMishaps /\ MaxMishaps \in Nat
        BY ContentAssumption DEF ContentInv, PublisherFits
      <3>3. QED
        BY <3>1, <3>2
    <2>3. QED
      BY <2>1, <2>2 DEF ContentInv, RevisionsFit, PublisherFits, ClearedIsAPublisher
  <1>10. CASE ComesDue
    <2>1. PICK i \in Contents : contents[i].publishAt = "future"
                                /\ contents' = [contents EXCEPT ![i].publishAt = "past"]
      BY <1>10 DEF ComesDue
    <2>2. UNCHANGED <<ahead, revisions, edits, publisher, mishaps>>
      BY <1>10 DEF ComesDue
    <2>3. contents' \in [Contents -> Content \union {Gone}]
      BY <2>1 DEF ContentInv, Content, Gone, Statuses, Times
    <2>4. QED
      BY <2>2, <2>3 DEF ContentInv, RevisionsFit, PublisherFits, ClearedIsAPublisher
  <1>11. CASE UNCHANGED contentVars
    BY <1>11 DEF contentVars, ContentInv, RevisionsFit, PublisherFits, ClearedIsAPublisher
  <1>12. QED
    BY <1>1, <1>2, <1>3, <1>4, <1>6, <1>7, <1>8, <1>9, <1>10, <1>11 DEF ContentNext, PublisherRuns

LEMMA AlwaysContentInv == ContentSpec => []ContentInv
  <1>1. ContentInit => ContentInv
    <2> SUFFICES ASSUME ContentInit PROVE ContentInv
      OBVIOUS
    <2>1. RevisionsFit
      BY ContentAssumption DEF ContentInit, RevisionsFit
    <2>2. PublisherFits
      <3>1. mishaps = 0 /\ publisher = "off"
        BY DEF ContentInit
      <3>2. mishaps \in 0..MaxMishaps
        BY <3>1, ContentAssumption
      <3>3. QED
        BY <3>1, <3>2 DEF PublisherFits
    <2>3. edits \in [Edits -> Request] /\ ClearedIsAPublisher
      BY AwayIsARequest DEF ContentInit, ClearedIsAPublisher
    <2>4. contents \in [Contents -> Content \union {Gone}]
      BY DEF ContentInit
    <2>5. QED
      BY <2>1, <2>2, <2>3, <2>4 DEF ContentInv
  <1>2. QED
    BY <1>1, ContentNextKeeps, PTL DEF ContentSpec

\* Records, revisions and requests keep their shape, and there are no more revisions
\* than the bound, whoever changes what meanwhile.
THEOREM ContentTypeCorrect == ContentSpec => []ContentTypeOK
  <1>1. ContentInv => ContentTypeOK
    BY DEF ContentInv, ContentTypeOK, RevisionsFit, PublisherFits, Request, Places, Users, Kinds
  <1>2. QED
    BY <1>1, AlwaysContentInv, PTL

-----------------------------------------------------------------------------
(* Who changes live content *)

\* What a step may do to a record, live before or after it.
MayChange(i) ==
    \/ ByPublisher
    \/ contents'[i] = Gone
    \/ contents'[i] = Published(contents[i])
    \/ contents'[i] = [contents[i] EXCEPT !.publishAt = "past"]

LiveStep ==
    \A i \in Contents :
        contents'[i] # contents[i] /\ (Live(contents[i]) \/ Live(contents'[i])) => MayChange(i)

\* Neither a body nor a revision makes a record live that needs no publisher.
LEMMA DraftsStayDrafts ==
  ASSUME NEW c \in Content \union {Gone}, NEW data \in Ask, ~NeedsPublisher(c, data)
  PROVE  ~Live(c) /\ ~Live(Merged(IF c = Gone THEN NewContent ELSE c, data))
  BY DEF NeedsPublisher, Live, Protected, Merged, NewContent

\* The change of a request touches its record and no other.
LEMMA ApplyTouches ==
  ASSUME ContentInv, NEW r \in Edits, NEW by, NEW kind, NEW i \in Contents, NEW data,
         Apply(r, by, kind, i, data)
  PROVE  \/ contents' = contents
         \/ /\ \A j \in Contents \ {i} : contents'[j] = contents[j]
            /\ contents'[i] = Merged(IF contents[i] = Gone THEN NewContent ELSE contents[i], data)
            /\ edits'[r].at = "saving" /\ edits'[r].by = by
  <1>1. CASE kind = "update" /\ contents[i] = Gone
    BY <1>1 DEF Apply
  <1>2. CASE ~(kind = "update" /\ contents[i] = Gone)
    <2> DEFINE old == IF contents[i] = Gone THEN NewContent ELSE contents[i]
    <2>1. /\ contents' = [contents EXCEPT ![i] = Merged(old, data)]
          /\ edits' = [edits EXCEPT ![r] = [Away EXCEPT !.at = "saving", !.by = by]]
      BY <1>2 DEF Apply
    <2>2. /\ \A j \in Contents \ {i} : contents'[j] = contents[j]
          /\ contents'[i] = Merged(old, data)
      BY <2>1 DEF ContentInv
    <2>3. edits'[r].at = "saving" /\ edits'[r].by = by
      BY <2>1 DEF ContentInv, Away
    <2>4. QED
      BY <2>2, <2>3
  <1>3. QED
    BY <1>1, <1>2

LEMMA ContentStepIsLive ==
  ASSUME ContentInv, ContentNext
  PROVE  LiveStep
  <1>1. ASSUME NEW r \in Edits, Edit(r) PROVE LiveStep
    <2>1. PICK by \in Users, kind \in {"create", "update", "restore"}, i \in Contents, data \in Ask :
             IF NeedsPublisher(contents[i], data) THEN contents' = contents
                                                  ELSE Apply(r, by, kind, i, data)
      BY <1>1, BodiesAssumption DEF Edit, Users, Ask
    <2>2. CASE contents' = contents
      BY <2>2 DEF LiveStep
    <2>3. CASE ~NeedsPublisher(contents[i], data) /\ contents' # contents
      <3>1. /\ \A j \in Contents \ {i} : contents'[j] = contents[j]
            /\ contents'[i] = Merged(IF contents[i] = Gone THEN NewContent ELSE contents[i], data)
        BY <2>1, <2>3, ApplyTouches
      <3>2. ~Live(contents[i]) /\ ~Live(contents'[i])
        BY <2>3, <3>1, DraftsStayDrafts DEF ContentInv
      <3>3. QED
        BY <3>1, <3>2 DEF LiveStep
    <2>4. QED
      BY <2>1, <2>2, <2>3
  <1>2. ASSUME NEW r \in Edits, EditCleared(r) PROVE LiveStep
    <2>1. /\ edits[r].at = "cleared" /\ edits[r].by = "publisher" /\ edits[r].id \in Contents
          /\ Apply(r, edits[r].by, edits[r].kind, edits[r].id, edits[r].data)
      BY <1>2 DEF EditCleared, ContentInv, ClearedIsAPublisher
    <2>2. contents' = contents \/ (edits'[r].at = "saving" /\ edits'[r].by = "publisher")
      BY <2>1, ApplyTouches
    <2>3. contents' = contents \/ ByPublisher
      BY <2>1, <2>2 DEF ByPublisher
    <2>4. QED
      BY <2>3 DEF LiveStep, MayChange
  <1>3. ASSUME NEW r \in Edits, DeleteContent(r) PROVE LiveStep
    BY <1>3 DEF DeleteContent, LiveStep, MayChange, ContentInv
  <1>4. ASSUME NEW r \in Edits, SetStatus(r) PROVE LiveStep
    <2>1. edits'[r].at = "saving" /\ edits'[r].by = "publisher" /\ edits[r].at = "away"
      BY <1>4 DEF SetStatus, ContentInv, Away
    <2>2. ByPublisher
      BY <2>1 DEF ByPublisher
    <2>3. QED
      BY <2>2 DEF LiveStep, MayChange
  <1>5. ASSUME contents' = Publishes \/ contents' = contents PROVE LiveStep
    BY <1>5 DEF LiveStep, MayChange, Publishes
  <1>6. ASSUME NEW r \in Edits, List(r) \/ Saves(r) PROVE LiveStep
    BY <1>5, <1>6 DEF List, Saves
  <1>7. CASE StartPublisher \/ StopPublisher \/ PublisherIsRefused \/ PublisherLosesRedis \/ PublisherRuns
    BY <1>5, <1>7 DEF StartPublisher, StopPublisher, PublisherIsRefused, PublisherLosesRedis, PublisherRuns,
                      PublisherPauses, PublisherWakes, PublisherSaves
  <1>8. CASE ComesDue
    BY <1>8 DEF ComesDue, LiveStep, MayChange, ContentInv
  <1>9. QED
    BY <1>1, <1>2, <1>3, <1>4, <1>6, <1>7, <1>8 DEF ContentNext

\* Live content, and what becomes live, changes by a publisher's request, by
\* deletion or by the passing of time alone, for any number of requests that look
\* at a record, wait and change it.
THEOREM OnlyPublishersChangeLive == ContentSpec => LiveNeedsPermission
  <1>1. ContentInv /\ [ContentNext]_contentVars => [LiveStep]_contentVars
    BY ContentStepIsLive
  <1>2. [LiveStep]_contentVars <=>
          [\A i \in Contents :
              contents'[i] # contents[i] /\ (Live(contents[i]) \/ Live(contents'[i])) =>
                 \/ ByPublisher
                 \/ contents'[i] = Gone
                 \/ contents'[i] = Published(contents[i])
                 \/ contents'[i] = [contents[i] EXCEPT !.publishAt = "past"]]_contentVars
    BY DEF LiveStep, MayChange
  <1>3. QED
    BY <1>1, <1>2, AlwaysContentInv, PTL DEF ContentSpec, LiveNeedsPermission

-----------------------------------------------------------------------------
(* Second factors *)

Sequence(s) == s \in Seq(Drawn)
Distinct(s) == \A i, k \in DOMAIN s : s[i] = s[k] => i = k
UpTo(n) == {x \in Drawn : x <= n}

\* What is stored with every change is what is in memory.
TablesAreStored == savedDevices = devices /\ savedResets = resets

\* All that was drawn is drawn by now.
DrawnSoFar ==
    /\ mfa.codes \union mfa.pendingCodes \subseteq UpTo(drawn)
    /\ savedRecord.codes \union savedRecord.pendingCodes \subseteq UpTo(drawn)
    /\ resets \subseteq UpTo(drawn) /\ Range(devices) \subseteq UpTo(drawn)
    /\ revoked \subseteq UpTo(drawn) /\ spent \subseteq UpTo(drawn)

\* A value is a code, a code to be confirmed or a token to reset a password.
OneUse(r) == /\ r.codes \intersect r.pendingCodes = {}
             /\ (r.codes \union r.pendingCodes) \intersect resets = {}

\* What is accepted now was not spent before, if no restart read such a thing.
NoneSpent == (mfa.codes \union mfa.pendingCodes \union resets) \intersect spent = {}

MfaInv ==
    /\ MfaTypeOK /\ TablesAreStored /\ DrawnSoFar
    /\ OneUse(mfa) /\ OneUse(savedRecord) /\ Distinct(devices)
    /\ RevokedDeviceIsRefused
    /\ reread = TRUE \/ (NoneSpent /\ respent = FALSE)

LEMMA PartOfDrawn ==
  ASSUME NEW s \in Seq(Drawn), NEW m \in 1..Len(s) + 1, NEW n \in 0..Len(s)
  PROVE  /\ SubSeq(s, m, n) \in Seq(Drawn)
         /\ Len(SubSeq(s, m, n)) = IF m <= n THEN n - m + 1 ELSE 0
         /\ \A i \in DOMAIN SubSeq(s, m, n) : m + i - 1 \in DOMAIN s /\ SubSeq(s, m, n)[i] = s[m + i - 1]
         /\ Range(SubSeq(s, m, n)) \subseteq Range(s)
         /\ Distinct(s) => Distinct(SubSeq(s, m, n))
  <1>1. m \in Int /\ n \in Int /\ Len(s) \in Nat /\ \A i \in m..n : s[i] \in Drawn
    OBVIOUS
  <1>2. /\ SubSeq(s, m, n) \in Seq(Drawn)
        /\ Len(SubSeq(s, m, n)) = IF m <= n THEN n - m + 1 ELSE 0
        /\ \A i \in 1..n - m + 1 : SubSeq(s, m, n)[i] = s[m + i - 1]
    BY SMTT(30), <1>1, SubSeqProperties
  <1>3. DOMAIN SubSeq(s, m, n) = 1..Len(SubSeq(s, m, n)) /\ Len(SubSeq(s, m, n)) \in Nat
    BY <1>2
  <1>4. \A i \in DOMAIN SubSeq(s, m, n) : i \in 1..n - m + 1 /\ m + i - 1 \in DOMAIN s /\ i \in Nat
    BY <1>1, <1>2, <1>3
  <1>5. Range(SubSeq(s, m, n)) \subseteq Range(s)
    BY <1>2, <1>4 DEF Range
  <1>6. Distinct(s) => Distinct(SubSeq(s, m, n))
    <2> SUFFICES ASSUME Distinct(s), NEW i \in DOMAIN SubSeq(s, m, n), NEW k \in DOMAIN SubSeq(s, m, n),
                        SubSeq(s, m, n)[i] = SubSeq(s, m, n)[k]
                 PROVE  i = k
      BY DEF Distinct
    <2>1. m + i - 1 = m + k - 1
      BY <1>2, <1>4 DEF Distinct
    <2>2. i \in Nat /\ k \in Nat /\ m \in Int
      BY <1>1, <1>4
    <2>3. QED
      BY <2>1, <2>2
  <1>7. QED
    BY <1>2, <1>4, <1>5, <1>6

LEMMA OneMoreDevice ==
  ASSUME NEW s \in Seq(Drawn), NEW x \in Drawn, Distinct(s), x \notin Range(s)
  PROVE  /\ Append(s, x) \in Seq(Drawn) /\ Distinct(Append(s, x))
         /\ Range(Append(s, x)) = Range(s) \union {x} /\ Len(Append(s, x)) = Len(s) + 1
  <1>1. /\ Append(s, x) \in Seq(Drawn) /\ Len(s) \in Nat /\ DOMAIN s = 1..Len(s)
        /\ DOMAIN Append(s, x) = 1..(Len(s) + 1) /\ Len(Append(s, x)) = Len(s) + 1
        /\ \A i \in DOMAIN s : i \in DOMAIN Append(s, x) /\ Append(s, x)[i] = s[i]
        /\ Append(s, x)[Len(s) + 1] = x
        /\ \A i \in DOMAIN Append(s, x) : i \in DOMAIN s \/ i = Len(s) + 1
    OBVIOUS
  <1>2. Len(s) + 1 \in DOMAIN Append(s, x)
    BY <1>1
  <1>3. QED
    BY <1>1, <1>2 DEF Range, Distinct

\* The newest devices, with one more: no other is among them.
LEMMA NewestDevices ==
  ASSUME NEW s \in Seq(Drawn), Distinct(s), DevicesKept \in Nat
  PROVE  /\ Newest(s) \in Seq(Drawn) /\ Len(Newest(s)) <= DevicesKept
         /\ Range(Newest(s)) \subseteq Range(s) /\ Distinct(Newest(s))
  <1>1. CASE Len(s) > DevicesKept
    <2>1. /\ Len(s) - DevicesKept + 1 \in 1..Len(s) + 1 /\ Len(s) \in 0..Len(s) /\ Len(s) \in Nat
      BY <1>1
    <2>2. Newest(s) = SubSeq(s, Len(s) - DevicesKept + 1, Len(s))
      BY <1>1 DEF Newest
    <2>3. /\ Newest(s) \in Seq(Drawn) /\ Range(Newest(s)) \subseteq Range(s) /\ Distinct(Newest(s))
      BY <2>1, <2>2, PartOfDrawn
    <2>4. Len(Newest(s)) = IF Len(s) - DevicesKept + 1 <= Len(s)
                           THEN Len(s) - (Len(s) - DevicesKept + 1) + 1 ELSE 0
      BY <2>1, <2>2, PartOfDrawn
    <2>5. PICK n \in Nat : n = Len(s)
      BY <2>1
    <2>6. Len(Newest(s)) <= DevicesKept
      BY <2>4, <2>5
    <2>7. QED
      BY <2>3, <2>6
  <1>2. CASE ~(Len(s) > DevicesKept)
    <2>1. Newest(s) = s
      BY <1>2 DEF Newest
    <2>2. Len(s) <= DevicesKept
      BY <1>2
    <2>3. QED
      BY <2>1, <2>2
  <1>3. QED
    BY <1>1, <1>2

\* A device that is removed is not among those left.
LEMMA OneDeviceLess ==
  ASSUME NEW s \in Seq(Drawn), Distinct(s), NEW n \in DOMAIN s
  PROVE  /\ RemoveAt(s, n) \in Seq(Drawn) /\ Len(RemoveAt(s, n)) <= Len(s)
         /\ Range(RemoveAt(s, n)) \subseteq Range(s) \ {s[n]} /\ Distinct(RemoveAt(s, n))
  <1> DEFINE before == SubSeq(s, 1, n - 1)
             after == SubSeq(s, n + 1, Len(s))
  <1>1. /\ n \in Nat /\ Len(s) \in Nat /\ n >= 1 /\ n <= Len(s)
        /\ 1 \in 1..Len(s) + 1 /\ n - 1 \in 0..Len(s) /\ n + 1 \in 1..Len(s) + 1 /\ Len(s) \in 0..Len(s)
    OBVIOUS
  <1>2. PICK b : b = before
    OBVIOUS
  <1>3. PICK a : a = after
    OBVIOUS
  <1>4. /\ b \in Seq(Drawn) /\ Len(b) = n - 1
        /\ \A i \in DOMAIN b : i \in 1..(n - 1) /\ i \in DOMAIN s /\ b[i] = s[i]
    <2>1. /\ b \in Seq(Drawn) /\ Len(b) = IF 1 <= n - 1 THEN (n - 1) - 1 + 1 ELSE 0
          /\ \A i \in DOMAIN b : 1 + i - 1 \in DOMAIN s /\ b[i] = s[1 + i - 1]
      BY <1>1, <1>2, PartOfDrawn
    <2>2. Len(b) = n - 1 /\ DOMAIN b = 1..Len(b)
      BY <1>1, <2>1
    <2>3. \A i \in DOMAIN b : i \in 1..(n - 1) /\ 1 + i - 1 = i
      BY <1>1, <2>2
    <2>4. QED
      BY <2>1, <2>2, <2>3
  <1>5. /\ a \in Seq(Drawn) /\ Len(a) = Len(s) - n
        /\ \A i \in DOMAIN a : i \in 1..(Len(s) - n) /\ n + i \in DOMAIN s /\ a[i] = s[n + i]
    <2>1. /\ a \in Seq(Drawn) /\ Len(a) = IF n + 1 <= Len(s) THEN Len(s) - (n + 1) + 1 ELSE 0
          /\ \A i \in DOMAIN a : (n + 1) + i - 1 \in DOMAIN s /\ a[i] = s[(n + 1) + i - 1]
      BY SMTT(60), <1>1, <1>3, PartOfDrawn
    <2>2. Len(a) = Len(s) - n /\ DOMAIN a = 1..Len(a)
      BY <1>1, <2>1
    <2>3. \A i \in DOMAIN a : i \in 1..(Len(s) - n) /\ (n + 1) + i - 1 = n + i
      BY <1>1, <2>2
    <2>4. QED
      BY <2>1, <2>2, <2>3
  <1>6. PICK t : t = b \o a
    OBVIOUS
  <1>7. /\ RemoveAt(s, n) = t /\ t \in Seq(Drawn) /\ Len(t) = Len(s) - 1 /\ DOMAIN t = 1..(Len(s) - 1)
        /\ \A i \in DOMAIN t : t[i] = IF i <= n - 1 THEN b[i] ELSE a[i - (n - 1)]
    <2>1. RemoveAt(s, n) = t
      BY <1>2, <1>3, <1>6 DEF RemoveAt
    <2>2. /\ t \in Seq(Drawn) /\ Len(t) = Len(b) + Len(a) /\ DOMAIN t = 1..Len(t)
          /\ \A i \in 1..Len(b) + Len(a) : t[i] = IF i <= Len(b) THEN b[i] ELSE a[i - Len(b)]
      <3>1. b \in Seq(Drawn) /\ a \in Seq(Drawn)
        BY <1>4, <1>5
      <3>2. QED
        BY <1>6, <3>1
    <2>3. Len(b) + Len(a) = Len(s) - 1 /\ Len(b) = n - 1
      BY <1>1, <1>4, <1>5
    <2>4. QED
      BY <2>1, <2>2, <2>3
  <1>8. ASSUME NEW i \in DOMAIN t
        PROVE  \E k \in DOMAIN s : k = (IF i <= n - 1 THEN i ELSE i + 1) /\ t[i] = s[k] /\ k # n /\ i \in Nat
    <2>1. i \in Nat /\ i >= 1 /\ i <= Len(s) - 1
      BY <1>1, <1>7, <1>8
    <2>2. CASE i <= n - 1
      <3>1. i \in DOMAIN b /\ i # n
        BY <1>1, <1>4, <2>1, <2>2
      <3>2. QED
        BY <1>4, <1>7, <2>1, <2>2, <3>1
    <2>3. CASE ~(i <= n - 1)
      <3>1. i - (n - 1) \in DOMAIN a /\ n + (i - (n - 1)) = i + 1 /\ i + 1 # n
        BY SMTT(30), <1>1, <1>5, <2>1, <2>3
      <3>2. QED
        BY <1>5, <1>7, <2>1, <2>3, <3>1
    <2>4. QED
      BY <2>2, <2>3
  <1>9. Range(t) \subseteq Range(s) \ {s[n]}
    BY <1>8 DEF Range, Distinct
  <1>10. Distinct(t)
    <2> SUFFICES ASSUME NEW i \in DOMAIN t, NEW k \in DOMAIN t, t[i] = t[k] PROVE i = k
      BY DEF Distinct
    <2>1. (IF i <= n - 1 THEN i ELSE i + 1) = (IF k <= n - 1 THEN k ELSE k + 1)
      BY <1>8 DEF Distinct
    <2>2. i \in Nat /\ k \in Nat
      BY <1>8
    <2>3. QED
      BY <1>1, <2>1, <2>2
  <1>11. QED
    BY <1>1, <1>7, <1>9, <1>10

LEMMA MfaParts ==
  ASSUME MfaInv
  PROVE  /\ mfa \in MfaRecord /\ savedRecord \in MfaRecord
         /\ mfa.codes \subseteq Drawn /\ mfa.pendingCodes \subseteq Drawn
         /\ mfa.secret \in 0..MaxDrawn /\ mfa.pending \in 0..MaxDrawn
         /\ savedRecord.codes \subseteq Drawn /\ savedRecord.pendingCodes \subseteq Drawn
         /\ devices \in Seq(Drawn) /\ Len(devices) <= DevicesKept /\ resets \subseteq Drawn
         /\ drawn \in 0..MaxDrawn /\ reboots \in 0..MaxReboots /\ MaxDrawn \in Nat /\ MaxReboots \in Nat
         /\ DevicesKept \in Nat /\ revoked \subseteq Drawn /\ spent \subseteq Drawn
  BY MfaAssumption DEF MfaInv, MfaTypeOK, MfaRecord

LEMMA NoDevices ==
  /\ <<>> \in Seq(Drawn) /\ Len(<<>>) = 0 /\ Range(<<>>) = {} /\ Distinct(<<>>)
  BY DEF Range, Distinct

\* What is drawn was not there before.
LEMMA FreshlyDrawn ==
  ASSUME MfaInv, Draws
  PROVE  /\ drawn' \in Drawn /\ drawn' \in 0..MaxDrawn /\ drawn' \in UpTo(drawn') /\ drawn' \notin UpTo(drawn)
         /\ UpTo(drawn) \subseteq UpTo(drawn')
  BY MfaParts DEF Draws, UpTo, Drawn

\* A step that changes the account's codes, or nothing: the tables, the stored record and
\* the devices stay.
LEMMA CodesChange ==
  ASSUME MfaInv, mfa' \in MfaRecord, UNCHANGED <<devices, resets, reboots, revoked, reread>>,
         saving' \in BOOLEAN, respent' \in BOOLEAN, drawn' \in 0..MaxDrawn, UpTo(drawn) \subseteq UpTo(drawn'),
         spent' \subseteq UpTo(drawn), UNCHANGED <<savedDevices, savedResets>>,
         savedRecord' = savedRecord \/ savedRecord' = mfa,
         mfa'.codes \union mfa'.pendingCodes \subseteq UpTo(drawn'), OneUse(mfa'),
         reread = FALSE => respent' = FALSE /\ NoneSpent'
  PROVE  MfaInv'
  <1>1. MfaTypeOK'
    BY MfaParts DEF MfaTypeOK, MfaInv, UpTo
  <1>2. TablesAreStored' /\ Distinct(devices') /\ RevokedDeviceIsRefused'
    BY DEF MfaInv, TablesAreStored, RevokedDeviceIsRefused
  <1>3. DrawnSoFar'
    BY DEF MfaInv, DrawnSoFar
  <1>4. OneUse(mfa)' /\ OneUse(savedRecord)'
    BY DEF MfaInv, OneUse
  <1>5. reread' = TRUE \/ (NoneSpent' /\ respent' = FALSE)
    BY DEF MfaInv, MfaTypeOK
  <1>6. QED
    BY <1>1, <1>2, <1>3, <1>4, <1>5 DEF MfaInv

LEMMA CodesSteps ==
  ASSUME MfaInv, NEW x,
         \/ BeginMfaSetup \/ ConfirmMfaSetup \/ DisableMfa \/ SaveMfa \/ DisableIsRefused(x) \/ LoginWithCode(x)
  PROVE  MfaInv'
  <1>1. CASE BeginMfaSetup
    <2>1. /\ mfa' = [mfa EXCEPT !.pending = drawn', !.pendingCodes = {drawn'}] /\ Draws /\ saving' = TRUE
          /\ UNCHANGED <<devices, resets, savedRecord, savedDevices, savedResets, reboots, revoked, reread,
                         spent, respent>>
      BY <1>1 DEF BeginMfaSetup, mfaStore, mfaHistory
    <2>2. /\ mfa'.codes = mfa.codes /\ mfa'.pendingCodes = {drawn'} /\ mfa' \in MfaRecord
      BY <2>1, FreshlyDrawn, MfaParts DEF MfaRecord
    <2>3. mfa'.codes \union mfa'.pendingCodes \subseteq UpTo(drawn')
      BY <2>1, <2>2, FreshlyDrawn DEF MfaInv, DrawnSoFar
    <2>4. drawn' \notin mfa.codes /\ drawn' \notin resets /\ drawn' \notin spent
      BY <2>1, FreshlyDrawn DEF MfaInv, DrawnSoFar
    <2>5. OneUse(mfa')
      BY <2>1, <2>2, <2>4 DEF MfaInv, OneUse
    <2>6. reread = FALSE => respent' = FALSE /\ NoneSpent'
      BY <2>1, <2>2, <2>4 DEF MfaInv, NoneSpent
    <2>7. spent' \subseteq UpTo(drawn) /\ respent' \in BOOLEAN
      BY <2>1 DEF MfaInv, DrawnSoFar, MfaTypeOK
    <2>8. QED
      BY <2>1, <2>2, <2>3, <2>5, <2>6, <2>7, FreshlyDrawn, CodesChange
  <1>2. CASE ConfirmMfaSetup
    <2>1. /\ mfa' = [secret |-> mfa.pending, codes |-> mfa.pendingCodes, pending |-> 0, pendingCodes |-> {}]
          /\ saving' = TRUE /\ spent' = spent \union mfa.codes
          /\ UNCHANGED <<devices, resets, savedRecord, savedDevices, savedResets, drawn, reboots, revoked,
                         reread, respent>>
      BY <1>2 DEF ConfirmMfaSetup, mfaStore
    <2>2. mfa'.codes = mfa.pendingCodes /\ mfa'.pendingCodes = {}
      BY <2>1
    <2>3. mfa' \in MfaRecord
      BY <2>1, MfaParts DEF MfaRecord
    <2>4. mfa'.codes \union mfa'.pendingCodes \subseteq UpTo(drawn') /\ OneUse(mfa')
      BY <2>1, <2>2 DEF MfaInv, DrawnSoFar, OneUse
    <2>5. reread = FALSE => respent' = FALSE /\ NoneSpent'
      BY <2>1, <2>2 DEF MfaInv, NoneSpent, OneUse
    <2>6. spent' \subseteq UpTo(drawn) /\ respent' \in BOOLEAN /\ drawn' \in 0..MaxDrawn
      BY <2>1 DEF MfaInv, DrawnSoFar, MfaTypeOK
    <2>7. QED
      BY <2>1, <2>3, <2>4, <2>5, <2>6, CodesChange
  <1>3. CASE DisableMfa
    <2>1. /\ mfa' = [mfa EXCEPT !.secret = 0, !.codes = {}] /\ saving' = TRUE /\ spent' = spent \union mfa.codes
          /\ UNCHANGED <<devices, resets, savedRecord, savedDevices, savedResets, drawn, reboots, revoked, reread>>
      BY <1>3 DEF DisableMfa, mfaStore
    <2>2. respent' = respent \/ \E code \in mfa.codes : respent' = (respent \/ code \in spent)
      BY <1>3 DEF DisableMfa
    <2>3. /\ mfa'.codes = {} /\ mfa'.pendingCodes = mfa.pendingCodes /\ mfa' \in MfaRecord
      <3>1. 0 \in 0..MaxDrawn
        BY MfaParts
      <3>2. mfa \in MfaRecord
        BY MfaParts
      <3>3. QED
        BY <2>1, <3>1, <3>2 DEF MfaRecord
    <2>4. mfa'.codes \union mfa'.pendingCodes \subseteq UpTo(drawn') /\ OneUse(mfa')
      BY <2>1, <2>3 DEF MfaInv, DrawnSoFar, OneUse
    <2>5. reread = FALSE => respent' = FALSE
      BY <2>2 DEF MfaInv, NoneSpent
    <2>6. reread = FALSE => NoneSpent'
      BY <2>1, <2>3 DEF MfaInv, NoneSpent, OneUse
    <2>7. respent' \in BOOLEAN
      BY <2>2 DEF MfaInv, MfaTypeOK
    <2>8. spent' \subseteq UpTo(drawn) /\ drawn' \in 0..MaxDrawn
      BY <2>1, MfaParts DEF MfaInv, DrawnSoFar
    <2>9. QED
      BY <2>1, <2>3, <2>4, <2>5, <2>6, <2>7, <2>8, CodesChange
  <1>4. CASE SaveMfa
    <2>1. /\ saving' = FALSE /\ savedRecord' = mfa
          /\ UNCHANGED <<mfa, devices, resets, savedDevices, savedResets, drawn, reboots, revoked, spent, reread,
                         respent>>
      BY <1>4 DEF SaveMfa, mfaMemory, mfaHistory
    <2>2. /\ mfa' \in MfaRecord /\ drawn' \in 0..MaxDrawn /\ respent' \in BOOLEAN
          /\ spent' \subseteq UpTo(drawn) /\ OneUse(mfa')
          /\ mfa'.codes \union mfa'.pendingCodes \subseteq UpTo(drawn')
          /\ (reread = FALSE => respent' = FALSE /\ NoneSpent')
      BY <2>1 DEF MfaInv, MfaTypeOK, DrawnSoFar, OneUse, NoneSpent
    <2>3. QED
      BY <2>1, <2>2, CodesChange
  <1>5. CASE DisableIsRefused(x) \/ LoginWithCode(x)
    <2>1. /\ mfa' = [mfa EXCEPT !.codes = @ \ {x}] /\ x \in mfa.codes
          /\ spent' = spent \union {x} /\ respent' = (respent \/ x \in spent)
          /\ UNCHANGED <<devices, resets, savedRecord, savedDevices, savedResets, drawn, reboots, revoked, reread>>
      BY <1>5 DEF DisableIsRefused, LoginWithCode, WithoutCode, Spends, mfaStore
    <2>2. saving' \in BOOLEAN /\ respent' \in BOOLEAN
      BY <1>5, <2>1 DEF DisableIsRefused, LoginWithCode, MfaInv, MfaTypeOK
    <2>3. mfa'.codes = mfa.codes \ {x} /\ mfa'.pendingCodes = mfa.pendingCodes /\ mfa' \in MfaRecord
      BY <2>1, MfaParts DEF MfaRecord
    <2>4. mfa'.codes \union mfa'.pendingCodes \subseteq UpTo(drawn') /\ OneUse(mfa')
      BY <2>1, <2>3 DEF MfaInv, DrawnSoFar, OneUse
    <2>5. reread = FALSE => respent' = FALSE
      BY <2>1 DEF MfaInv, NoneSpent
    <2>6. reread = FALSE => NoneSpent'
      BY <2>1, <2>3 DEF MfaInv, NoneSpent, OneUse
    <2>7. spent' \subseteq UpTo(drawn) /\ drawn' \in 0..MaxDrawn
      BY <2>1, MfaParts DEF MfaInv, DrawnSoFar
    <2>8. QED
      BY <2>1, <2>2, <2>3, <2>4, <2>5, <2>6, <2>7, CodesChange
  <1>6. QED
    BY <1>1, <1>2, <1>3, <1>4, <1>5

\* A step that changes the devices or the tokens, and stores both tables.
LEMMA TablesChange ==
  ASSUME MfaInv, mfa' \in MfaRecord, savedRecord' \in MfaRecord, OneUse(mfa)', OneUse(savedRecord)',
         mfa'.codes \union mfa'.pendingCodes \subseteq UpTo(drawn'),
         savedRecord'.codes \union savedRecord'.pendingCodes \subseteq UpTo(drawn'),
         devices' \in Seq(Drawn), Len(devices') <= DevicesKept, Distinct(devices'),
         Range(devices') \subseteq UpTo(drawn'), Range(devices') \intersect revoked' = {},
         resets' \subseteq UpTo(drawn'), revoked' \subseteq UpTo(drawn'), spent' \subseteq UpTo(drawn'),
         savedDevices' = devices', savedResets' = resets', drawn' \in 0..MaxDrawn, reboots' \in 0..MaxReboots,
         saving' \in BOOLEAN, reread' \in BOOLEAN, respent' \in BOOLEAN,
         reread' = FALSE => respent' = FALSE /\ NoneSpent'
  PROVE  MfaInv'
  <1>1. MfaTypeOK'
    BY DEF MfaTypeOK, UpTo
  <1>2. TablesAreStored' /\ Distinct(devices)' /\ RevokedDeviceIsRefused' /\ DrawnSoFar'
    BY DEF TablesAreStored, RevokedDeviceIsRefused, DrawnSoFar, Distinct
  <1>3. reread' = TRUE \/ (NoneSpent' /\ respent' = FALSE)
    OBVIOUS
  <1>4. QED
    BY <1>1, <1>2, <1>3 DEF MfaInv

\* revoke_all_trusted_devices()
LEMMA AllRevoked ==
  ASSUME MfaInv, RevokeAllTrustedDevices, resets' = resets
  PROVE  /\ devices' = <<>> /\ savedDevices' = devices' /\ savedResets' = resets'
         /\ revoked' \subseteq UpTo(drawn)
  BY DEF MfaInv, TablesAreStored, DrawnSoFar, RevokeAllTrustedDevices, PersistAuthTokens

LEMMA DeviceSteps ==
  ASSUME MfaInv, NEW x,
         \/ LoginWithDevice(x) \/ IssueTrustedDevice \/ RevokeTrustedDevice(x)
         \/ RegenerateMfaRecoveryCodes \/ ChangePassword
  PROVE  MfaInv'
  <1>1. /\ saving' \in BOOLEAN /\ reread' \in BOOLEAN /\ respent' \in BOOLEAN
        /\ reread' = reread /\ respent' = respent /\ reboots' = reboots /\ resets' = resets
    BY DEF LoginWithDevice, IssueTrustedDevice, RevokeTrustedDevice, RegenerateMfaRecoveryCodes, ChangePassword,
           MfaInv, MfaTypeOK, mfaHistory, mfaMemory
  <1>2. /\ OneUse(savedRecord) /\ OneUse(mfa) /\ reboots' \in 0..MaxReboots
        /\ mfa.codes \union mfa.pendingCodes \subseteq UpTo(drawn)
        /\ savedRecord.codes \union savedRecord.pendingCodes \subseteq UpTo(drawn)
        /\ resets \subseteq UpTo(drawn) /\ revoked \subseteq UpTo(drawn) /\ spent \subseteq UpTo(drawn)
        /\ Range(devices) \subseteq UpTo(drawn) /\ Distinct(devices) /\ Range(devices) \intersect revoked = {}
        /\ (reread = FALSE => respent = FALSE /\ NoneSpent)
    BY <1>1, MfaParts DEF MfaInv, DrawnSoFar, RevokedDeviceIsRefused
  <1>3. CASE LoginWithDevice(x)
    <2>1. /\ UNCHANGED <<mfa, devices, savedRecord, drawn, revoked, spent>>
          /\ savedDevices' = devices' /\ savedResets' = resets'
      BY <1>3 DEF LoginWithDevice, mfaMemory, mfaHistory, PersistAuthTokens
    <2>2. NoneSpent' <=> NoneSpent
      BY <1>1, <2>1 DEF NoneSpent
    <2>3. OneUse(mfa)' /\ OneUse(savedRecord)'
      BY <1>1, <1>2, <2>1 DEF OneUse
    <2>4. QED
      BY <1>1, <1>2, <2>1, <2>2, <2>3, MfaParts, TablesChange
  <1>4. CASE IssueTrustedDevice
    <2>1. /\ Draws /\ devices' = Newest(Append(devices, drawn')) /\ UNCHANGED <<mfa, savedRecord, revoked, spent>>
          /\ savedDevices' = devices' /\ savedResets' = resets'
      BY <1>4 DEF IssueTrustedDevice, mfaHistory, PersistAuthTokens
    <2>2. /\ drawn' \in Drawn /\ drawn' \notin Range(devices) /\ drawn' \notin revoked
          /\ drawn' \in UpTo(drawn') /\ UpTo(drawn) \subseteq UpTo(drawn') /\ drawn' \in 0..MaxDrawn
      BY <1>2, <2>1, FreshlyDrawn
    <2>3. PICK more : more = Append(devices, drawn')
      OBVIOUS
    <2>4. more \in Seq(Drawn) /\ Distinct(more) /\ Range(more) = Range(devices) \union {drawn'}
      BY <1>2, <2>2, <2>3, MfaParts, OneMoreDevice
    <2>5. /\ devices' \in Seq(Drawn) /\ Len(devices') <= DevicesKept /\ Distinct(devices')
          /\ Range(devices') \subseteq Range(devices) \union {drawn'}
      BY <2>1, <2>3, <2>4, MfaParts, NewestDevices
    <2>6. /\ Range(devices') \subseteq UpTo(drawn') /\ Range(devices') \intersect revoked' = {}
          /\ resets' \subseteq UpTo(drawn') /\ revoked' \subseteq UpTo(drawn') /\ spent' \subseteq UpTo(drawn')
          /\ mfa'.codes \union mfa'.pendingCodes \subseteq UpTo(drawn')
          /\ savedRecord'.codes \union savedRecord'.pendingCodes \subseteq UpTo(drawn')
      BY <1>1, <1>2, <2>1, <2>2, <2>5
    <2>7. NoneSpent' <=> NoneSpent
      BY <1>1, <2>1 DEF NoneSpent
    <2>8. OneUse(mfa)' /\ OneUse(savedRecord)'
      BY <1>1, <1>2, <2>1 DEF OneUse
    <2>9. QED
      BY <1>1, <1>2, <2>1, <2>2, <2>5, <2>6, <2>7, <2>8, MfaParts, TablesChange
  <1>5. CASE RevokeTrustedDevice(x)
    <2>1. PICK n \in DOMAIN devices : devices[n] = x /\ devices' = RemoveAt(devices, n)
      BY <1>5 DEF RevokeTrustedDevice
    <2>2. /\ UNCHANGED <<mfa, savedRecord, drawn, spent>> /\ revoked' = revoked \union {x}
          /\ savedDevices' = devices' /\ savedResets' = resets' /\ x \in Range(devices)
      BY <1>5, <2>1 DEF RevokeTrustedDevice, PersistAuthTokens, Range
    <2>3. /\ devices' \in Seq(Drawn) /\ Len(devices') <= Len(devices) /\ Distinct(devices')
          /\ Range(devices') \subseteq Range(devices) \ {x}
      BY <1>2, <2>1, MfaParts, OneDeviceLess
    <2>4. Len(devices') <= DevicesKept
      <3>1. Len(devices') \in Nat /\ Len(devices) \in Nat /\ Len(devices) <= DevicesKept /\ DevicesKept \in Nat
        BY <2>3, MfaParts
      <3>2. QED
        BY <2>3, <3>1
    <2>5. /\ Range(devices') \subseteq UpTo(drawn') /\ Range(devices') \intersect revoked' = {}
          /\ revoked' \subseteq UpTo(drawn')
      BY <1>2, <2>2, <2>3
    <2>6. NoneSpent' <=> NoneSpent
      BY <1>1, <2>2 DEF NoneSpent
    <2>7. OneUse(mfa)' /\ OneUse(savedRecord)'
      BY <1>1, <1>2, <2>2 DEF OneUse
    <2>8. QED
      BY <1>1, <1>2, <2>2, <2>3, <2>4, <2>5, <2>6, <2>7, MfaParts, TablesChange
  <1>6. CASE RegenerateMfaRecoveryCodes
    <2>1. /\ Draws /\ mfa' = [mfa EXCEPT !.codes = {drawn'}] /\ spent' = spent \union mfa.codes
          /\ RevokeAllTrustedDevices /\ savedRecord' = savedRecord
      BY <1>6 DEF RegenerateMfaRecoveryCodes
    <2>2. /\ drawn' \in Drawn /\ drawn' \notin UpTo(drawn)
          /\ drawn' \in UpTo(drawn') /\ UpTo(drawn) \subseteq UpTo(drawn') /\ drawn' \in 0..MaxDrawn
      BY <2>1, FreshlyDrawn
    <2>3. mfa' \in MfaRecord /\ mfa'.codes = {drawn'} /\ mfa'.pendingCodes = mfa.pendingCodes
      BY <2>1, <2>2, MfaParts DEF MfaRecord
    <2>4. /\ devices' = <<>> /\ savedDevices' = devices' /\ savedResets' = resets'
          /\ revoked' \subseteq UpTo(drawn)
      BY <1>1, <2>1, AllRevoked
    <2>5. /\ Range(devices') \subseteq UpTo(drawn') /\ Range(devices') \intersect revoked' = {}
          /\ devices' \in Seq(Drawn) /\ Len(devices') <= DevicesKept /\ Distinct(devices')
      <3>1. Len(devices') = 0 /\ DevicesKept \in Nat
        BY <2>4, MfaParts, NoDevices
      <3>2. QED
        BY <2>4, <3>1, NoDevices
    <2>6. /\ resets' \subseteq UpTo(drawn') /\ revoked' \subseteq UpTo(drawn') /\ spent' \subseteq UpTo(drawn')
          /\ mfa'.codes \union mfa'.pendingCodes \subseteq UpTo(drawn')
          /\ savedRecord'.codes \union savedRecord'.pendingCodes \subseteq UpTo(drawn')
      BY <1>1, <1>2, <2>1, <2>2, <2>3, <2>4
    <2>7. OneUse(mfa)' /\ OneUse(savedRecord)'
      BY <1>1, <1>2, <2>1, <2>2, <2>3 DEF OneUse
    <2>8. reread' = FALSE => respent' = FALSE /\ NoneSpent'
      BY <1>1, <1>2, <2>1, <2>2, <2>3 DEF NoneSpent, OneUse
    <2>9. savedRecord' \in MfaRecord
      BY <2>1, MfaParts
    <2>10. QED
      BY <1>1, <1>2, <2>2, <2>3, <2>4, <2>5, <2>6, <2>7, <2>8, <2>9, TablesChange
  <1>7. CASE ChangePassword
    <2>1. /\ UNCHANGED <<mfa, drawn, spent>> /\ savedRecord' = mfa /\ RevokeAllTrustedDevices
      BY <1>7 DEF ChangePassword
    <2>2. /\ devices' = <<>> /\ savedDevices' = devices' /\ savedResets' = resets'
          /\ revoked' \subseteq UpTo(drawn)
      BY <1>1, <2>1, AllRevoked
    <2>3. /\ Range(devices') \subseteq UpTo(drawn') /\ Range(devices') \intersect revoked' = {}
          /\ devices' \in Seq(Drawn) /\ Len(devices') <= DevicesKept /\ Distinct(devices')
      <3>1. Len(devices') = 0 /\ DevicesKept \in Nat
        BY <2>2, MfaParts, NoDevices
      <3>2. QED
        BY <2>2, <3>1, NoDevices
    <2>4. NoneSpent' <=> NoneSpent
      BY <1>1, <2>1 DEF NoneSpent
    <2>5. OneUse(mfa)' /\ OneUse(savedRecord)'
      BY <1>1, <1>2, <2>1 DEF OneUse
    <2>6. mfa' \in MfaRecord /\ savedRecord' \in MfaRecord /\ drawn' \in 0..MaxDrawn
      BY <2>1, MfaParts
    <2>7. QED
      BY <1>1, <1>2, <2>1, <2>2, <2>3, <2>4, <2>5, <2>6, TablesChange
  <1>8. QED
    BY <1>3, <1>4, <1>5, <1>6, <1>7

LEMMA ResetSteps ==
  ASSUME MfaInv, NEW x, RequestPasswordReset \/ ResetWith(x) \/ ResetDies(x) \/ Reboot
  PROVE  MfaInv'
  <1>1. /\ OneUse(savedRecord) /\ OneUse(mfa) /\ savedDevices = devices /\ savedResets = resets
        /\ mfa.codes \union mfa.pendingCodes \subseteq UpTo(drawn)
        /\ savedRecord.codes \union savedRecord.pendingCodes \subseteq UpTo(drawn)
        /\ resets \subseteq UpTo(drawn) /\ revoked \subseteq UpTo(drawn) /\ spent \subseteq UpTo(drawn)
        /\ Range(devices) \subseteq UpTo(drawn) /\ Distinct(devices) /\ Range(devices) \intersect revoked = {}
        /\ (reread = FALSE => respent = FALSE /\ NoneSpent)
        /\ reread \in BOOLEAN /\ respent \in BOOLEAN /\ saving \in BOOLEAN
    BY DEF MfaInv, DrawnSoFar, RevokedDeviceIsRefused, TablesAreStored, MfaTypeOK
  <1>2. ASSUME Draws
        PROVE  /\ drawn' \in 0..MaxDrawn /\ drawn' \in UpTo(drawn') /\ drawn' \notin UpTo(drawn)
               /\ UpTo(drawn) \subseteq UpTo(drawn')
    BY <1>2, FreshlyDrawn
  <1>3. CASE RequestPasswordReset
    <2>1. /\ Draws /\ resets' = resets \union {drawn'} /\ savedDevices' = devices' /\ savedResets' = resets'
          /\ UNCHANGED <<mfa, devices, savedRecord, saving, reboots, revoked, spent, reread, respent>>
      BY <1>3 DEF RequestPasswordReset, PersistAuthTokens, mfaHistory
    <2>2. OneUse(mfa)' /\ OneUse(savedRecord)'
      BY <1>1, <1>2, <2>1 DEF OneUse
    <2>3. reread = FALSE => respent' = FALSE /\ NoneSpent'
      BY <1>1, <1>2, <2>1 DEF NoneSpent
    <2>4. QED
      BY <1>1, <1>2, <2>1, <2>2, <2>3, MfaParts, TablesChange
  <1>4. CASE ResetWith(x)
    <2>1. /\ x \in resets /\ resets' = resets \ {x} /\ devices' = <<>> /\ savedRecord' = mfa
          /\ savedDevices' = devices' /\ savedResets' = resets'
          /\ revoked' = revoked \union Range(devices)
          /\ spent' = spent \union {x} /\ respent' = (respent \/ x \in spent)
          /\ UNCHANGED <<mfa, saving, drawn, reboots, reread>>
      BY <1>4 DEF ResetWith, PersistAuthTokens, Spends
    <2>2. OneUse(mfa)' /\ OneUse(savedRecord)'
      BY <1>1, <2>1 DEF OneUse
    <2>3. reread' = FALSE => respent' = FALSE /\ NoneSpent'
      BY <1>1, <2>1 DEF NoneSpent, OneUse
    <2>4. Len(devices') <= DevicesKept
      <3>1. Len(devices') = 0 /\ DevicesKept \in Nat
        BY <2>1, MfaParts, NoDevices
      <3>2. QED
        BY <3>1
    <2>5. /\ Range(devices') \subseteq UpTo(drawn') /\ Range(devices') \intersect revoked' = {}
          /\ devices' \in Seq(Drawn) /\ Distinct(devices')
      BY <2>1, NoDevices
    <2>6. /\ mfa' \in MfaRecord /\ savedRecord' \in MfaRecord /\ drawn' \in 0..MaxDrawn
          /\ reboots' \in 0..MaxReboots
      BY <2>1, MfaParts
    <2>7. respent' \in BOOLEAN
      BY <1>1, <2>1
    <2>8. QED
      BY <1>1, <2>1, <2>2, <2>3, <2>4, <2>5, <2>6, <2>7, TablesChange
  <1>5. ASSUME NEW record \in MfaRecord, OneUse(record), record.codes \union record.pendingCodes \subseteq UpTo(drawn),
               NEW ds \in Seq(Drawn), Len(ds) <= DevicesKept, Distinct(ds), Range(ds) \subseteq UpTo(drawn),
               Range(ds) \intersect revoked' = {}, Reads(record, ds, resets),
               drawn' = drawn, revoked' \subseteq UpTo(drawn), spent' \subseteq UpTo(drawn), respent' \in BOOLEAN,
               reread' = FALSE => respent' = FALSE
        PROVE  MfaInv'
    <2>1. /\ mfa' = record /\ devices' = ds /\ resets' = resets /\ savedRecord' = record /\ savedDevices' = ds
          /\ savedResets' = resets /\ saving' = FALSE /\ reboots < MaxReboots /\ reboots' = reboots + 1
          /\ reread' = (reread \/ spent' \intersect (record.codes \union record.pendingCodes \union resets) # {})
      BY <1>5 DEF Reads
    <2>2. reboots' \in 0..MaxReboots
      BY <2>1, MfaParts
    <2>3. OneUse(mfa)' /\ OneUse(savedRecord)'
      BY <1>5, <2>1 DEF OneUse
    <2>4. reread' = FALSE => NoneSpent'
      BY <2>1 DEF NoneSpent
    <2>5. reread' \in BOOLEAN
      BY <1>1, <2>1
    <2>6. QED
      BY <1>1, <1>5, <2>1, <2>2, <2>3, <2>4, <2>5, MfaParts, TablesChange
  <1>6. CASE Reboot
    <2>1. UNCHANGED <<drawn, revoked, spent, respent>> /\ Reads(savedRecord, savedDevices, savedResets)
      BY <1>6 DEF Reboot
    <2>2. reread' = FALSE => reread = FALSE
      BY <1>1, <2>1 DEF Reads
    <2>3. QED
      BY <1>1, <1>5, <2>1, <2>2, MfaParts
  <1>7. CASE ResetDies(x)
    <2>1. /\ x \in resets /\ spent' = spent \union {x} /\ respent' = (respent \/ x \in spent)
          /\ revoked' = revoked \union Range(devices) /\ drawn' = drawn
          /\ Reads(mfa, IF devices = <<>> THEN savedDevices ELSE <<>>, resets)
      BY <1>7 DEF ResetDies, Spends
    <2>2. Reads(mfa, <<>>, resets)
      BY <1>1, <2>1
    <2>3. /\ <<>> \in Seq(Drawn) /\ Len(<<>>) <= DevicesKept /\ Distinct(<<>>)
          /\ Range(<<>>) \subseteq UpTo(drawn) /\ Range(<<>>) \intersect revoked' = {}
      <3>1. Len(<<>>) = 0 /\ DevicesKept \in Nat
        BY MfaParts, NoDevices
      <3>2. QED
        BY <3>1, NoDevices
    <2>4. reread' = TRUE
      BY <1>1, <2>1, <2>2 DEF Reads
    <2>5. respent' \in BOOLEAN /\ spent' \subseteq UpTo(drawn) /\ revoked' \subseteq UpTo(drawn)
      BY <1>1, <2>1
    <2>6. QED
      BY <1>1, <1>5, <2>1, <2>2, <2>3, <2>4, <2>5, MfaParts
  <1>8. QED
    BY <1>3, <1>4, <1>6, <1>7

LEMMA MfaNextKeeps ==
  ASSUME MfaInv, [MfaNext]_mfaVars
  PROVE  MfaInv'
  <1>1. CASE UNCHANGED mfaVars
    BY <1>1 DEF mfaVars, mfaMemory, mfaStore, mfaHistory, MfaInv, MfaTypeOK, TablesAreStored, DrawnSoFar,
                OneUse, Distinct, RevokedDeviceIsRefused, NoneSpent
  <1>2. CASE \/ BeginMfaSetup \/ ConfirmMfaSetup \/ DisableMfa \/ SaveMfa
             \/ \E x \in Drawn : DisableIsRefused(x) \/ LoginWithCode(x)
    BY <1>2, CodesSteps
  <1>3. CASE \/ IssueTrustedDevice \/ RegenerateMfaRecoveryCodes \/ ChangePassword
             \/ \E x \in Drawn : LoginWithDevice(x) \/ RevokeTrustedDevice(x)
    BY <1>3, DeviceSteps
  <1>4. CASE RequestPasswordReset \/ Reboot \/ \E x \in Drawn : ResetWith(x) \/ ResetDies(x)
    BY <1>4, ResetSteps
  <1>5. QED
    BY <1>1, <1>2, <1>3, <1>4 DEF MfaNext

LEMMA AlwaysMfaInv == MfaSpec => []MfaInv
  <1>1. ASSUME MfaInit PROVE MfaInv
    <2>1. /\ mfa = NoMfa /\ savedRecord = NoMfa /\ devices = <<>> /\ savedDevices = <<>>
          /\ resets = {} /\ savedResets = {} /\ drawn = 0 /\ reboots = 0 /\ revoked = {} /\ spent = {}
          /\ saving = FALSE /\ reread = FALSE /\ respent = FALSE
      BY <1>1 DEF MfaInit
    <2>2. NoMfa \in MfaRecord /\ NoMfa.codes = {} /\ NoMfa.pendingCodes = {}
      BY MfaAssumption DEF NoMfa, MfaRecord
    <2>3. Len(devices) <= DevicesKept
      <3>1. Len(devices) = 0 /\ DevicesKept \in Nat
        BY <2>1, MfaAssumption, NoDevices
      <3>2. QED
        BY <3>1
    <2>4. MfaTypeOK
      <3>1. drawn \in 0..MaxDrawn /\ reboots \in 0..MaxReboots
        BY <2>1, MfaAssumption
      <3>2. saving \in BOOLEAN /\ reread \in BOOLEAN /\ respent \in BOOLEAN
        BY <2>1
      <3>3. devices \in Seq(Drawn) /\ savedDevices \in Seq(Drawn) /\ Len(savedDevices) <= DevicesKept
        BY <2>1, <2>3, NoDevices
      <3>4. QED
        BY <2>1, <2>2, <2>3, <3>1, <3>2, <3>3 DEF MfaTypeOK
    <2>5. DrawnSoFar /\ OneUse(mfa) /\ OneUse(savedRecord) /\ NoneSpent
      BY <2>1, <2>2, NoDevices DEF DrawnSoFar, OneUse, NoneSpent
    <2>6. TablesAreStored /\ Distinct(devices) /\ RevokedDeviceIsRefused
      BY <2>1, NoDevices DEF TablesAreStored, RevokedDeviceIsRefused
    <2>7. QED
      BY <2>1, <2>4, <2>5, <2>6 DEF MfaInv
  <1>2. QED
    BY <1>1, MfaNextKeeps, PTL DEF MfaSpec

\* The account's record, its devices, of which there are never more than are kept, and
\* its tokens keep their shape, in memory and in the store.
THEOREM MfaTypeCorrect == MfaSpec => []MfaTypeOK
  BY AlwaysMfaInv, PTL DEF MfaInv

\* A revoked device, an accepted or replaced recovery code and an accepted reset token
\* admit nobody again, whatever the form handlers, sign-ins, resets and restarts do in
\* between, unless a restart has read a code or token back from the store.
THEOREM CredentialsStayEnded == MfaSpec => []CredentialsEnd
  <1>1. MfaInv => CredentialsEnd
    BY DEF MfaInv, CredentialsEnd, SingleUse
  <1>2. QED
    BY <1>1, AlwaysMfaInv, PTL

-----------------------------------------------------------------------------
(* The audit trail *)

PruneRecord == [at : {"idle", "read", "anchoring", "cutting"}, kept : Seq(Entry),
                before : 0..MaxEntries + 1, anchor : Hashes, anchors : Seq(Hashes)]
VerifyRecord == [at : {"idle", "anchors"}, anchors : Seq(Hashes), overlapped : BOOLEAN]

Prunes(p) == pruning[p].at # "idle"
Cuts(p) == pruning[p].at = "cutting"
Looks(v) == verifying[v].at = "anchors"

\* Entries in a chain that begins with `start`.
Linked(es, start) == \A i \in DOMAIN es : es[i].previous = IF i = 1 THEN start ELSE es[i - 1].hash
Has(es, n) == \E i \in DOMAIN es : es[i].hash = n

AuditShape ==
    /\ log \in Seq(Entry) /\ anchors \in Seq(Hashes)
    /\ pruning \in [Pruners -> PruneRecord] /\ verifying \in [Verifiers -> VerifyRecord]
    /\ appended \in 0..MaxEntries /\ prunes \in 0..MaxPrunes /\ cut \in 0..MaxEntries + 1
    /\ Len(anchors) <= AnchorsKept

\* While prunes do not clash there is one at most.  What it keeps is a chain that begins
\* with its anchor, which is the last in the store once it has been set.
OnePrune == \A p, q \in Pruners : Prunes(p) /\ Prunes(q) => p = q
KeptIsLinked == \A p \in Pruners : Prunes(p) => Linked(pruning[p].kept, pruning[p].anchor)
AnchorIsSet == \A p \in Pruners : Cuts(p) => Start(anchors) = pruning[p].anchor
LogIsLinked == (\A p \in Pruners : ~Cuts(p)) => Linked(log, Start(anchors))
\* A verify() that no prune overlapped has read the anchors there are.
LooksRight ==
    \A v \in Verifiers : Looks(v) /\ verifying[v].overlapped = FALSE =>
        /\ \A p \in Pruners : ~Cuts(p)
        /\ Start(verifying[v].anchors) = Start(anchors)

ChainHolds == OnePrune /\ KeptIsLinked /\ AnchorIsSet /\ LogIsLinked /\ LooksRight

\* While no append came during a prune, what it keeps is all it was asked to keep.
KeptIsAll ==
    \A p \in Pruners : Prunes(p) =>
        \A n \in 1..appended : n >= cut /\ n >= pruning[p].before => Has(pruning[p].kept, n)
AllThere == \A n \in 1..appended : n >= cut => Has(log, n)

AuditInv ==
    /\ AuditShape
    /\ lateAppend \in BOOLEAN /\ prunesClash \in BOOLEAN /\ alarm \in BOOLEAN
    /\ prunesClash = FALSE => ChainHolds /\ alarm = FALSE
    /\ lateAppend = FALSE => KeptIsAll /\ AllThere

LEMMA LinkedIsVerified ==
  ASSUME NEW es, NEW hs
  PROVE  Verifies(es, hs) <=> Linked(es, Start(hs))
  BY DEF Verifies, Linked

LEMMA OneMoreEntry ==
  ASSUME NEW es \in Seq(Entry), NEW start, NEW e \in Entry, Linked(es, start),
         e.previous = IF es = <<>> THEN start ELSE es[Len(es)].hash
  PROVE  Linked(Append(es, e), start)
  <1>1. /\ Len(es) \in Nat /\ DOMAIN Append(es, e) = 1..(Len(es) + 1)
        /\ \A i \in 1..Len(es) : Append(es, e)[i] = es[i]
        /\ Append(es, e)[Len(es) + 1] = e /\ (es = <<>> <=> Len(es) = 0) /\ DOMAIN es = 1..Len(es)
    OBVIOUS
  <1>2. PICK t : t = Append(es, e)
    OBVIOUS
  <1>3. ASSUME NEW i \in 1..Len(es) PROVE t[i].previous = IF i = 1 THEN start ELSE t[i - 1].hash
    <2>1. t[i] = es[i] /\ (i # 1 => t[i - 1] = es[i - 1]) /\ i \in DOMAIN es
      BY <1>1, <1>2
    <2>2. QED
      BY <2>1 DEF Linked
  <1>4. t[Len(es) + 1].previous = IF Len(es) + 1 = 1 THEN start ELSE t[Len(es)].hash
    <2>1. CASE es = <<>>
      BY <1>1, <1>2, <2>1
    <2>2. CASE es # <<>>
      <3>1. Len(es) \in 1..Len(es) /\ Len(es) + 1 # 1
        BY <1>1, <2>2
      <3>2. QED
        BY <1>1, <1>2, <2>2, <3>1
    <2>3. QED
      BY <2>1, <2>2
  <1>5. \A i \in 1..(Len(es) + 1) : i \in 1..Len(es) \/ i = Len(es) + 1
    BY <1>1
  <1>6. (Len(es) + 1) - 1 = Len(es)
    BY <1>1
  <1>7. \A i \in 1..(Len(es) + 1) : t[i].previous = IF i = 1 THEN start ELSE t[i - 1].hash
    BY <1>3, <1>4, <1>5, <1>6
  <1>8. DOMAIN t = 1..(Len(es) + 1)
    BY <1>1, <1>2
  <1>9. QED
    BY <1>2, <1>7, <1>8 DEF Linked

\* What is left of a chain begins with what its first entry was chained to.
LEMMA RestIsLinked ==
  ASSUME NEW es \in Seq(Entry), NEW start, Linked(es, start), NEW n \in 1..Len(es)
  PROVE  /\ Kept(es, n) \in Seq(Entry) /\ Len(Kept(es, n)) = Len(es) - n
         /\ \A i \in 1..Len(es) - n : Kept(es, n)[i] = es[n + i]
         /\ Kept(es, n) # <<>> => Linked(Kept(es, n), Kept(es, n)[1].previous)
         /\ Kept(es, n) = <<>> => \A x : Linked(Kept(es, n), x)
  <1>1. /\ n + 1 \in Int /\ Len(es) \in Nat /\ n \in Nat /\ n <= Len(es)
        /\ \A i \in n + 1..Len(es) : es[i] \in Entry
    OBVIOUS
  <1>2. PICK t : t = Kept(es, n)
    OBVIOUS
  <1>3. /\ t \in Seq(Entry) /\ Len(t) = IF n + 1 <= Len(es) THEN Len(es) - (n + 1) + 1 ELSE 0
        /\ \A i \in 1..Len(es) - (n + 1) + 1 : t[i] = es[(n + 1) + i - 1]
    BY <1>1, <1>2, SubSeqProperties DEF Kept
  <1>4. Len(t) = Len(es) - n /\ DOMAIN t = 1..Len(t)
    BY <1>1, <1>3
  <1>5. \A i \in 1..Len(es) - n : t[i] = es[n + i]
    <2> SUFFICES ASSUME NEW i \in 1..Len(es) - n PROVE t[i] = es[n + i]
      OBVIOUS
    <2>1. (n + 1) + i - 1 = n + i /\ i \in 1..Len(es) - (n + 1) + 1
      BY <1>1
    <2>2. QED
      BY <1>3, <2>1
  <1>6. ASSUME NEW i \in DOMAIN t, i # 1 PROVE t[i].previous = t[i - 1].hash
    <2>1. /\ n + i \in DOMAIN es /\ n + i # 1 /\ i - 1 \in 1..Len(es) - n /\ i \in 1..Len(es) - n
          /\ (n + i) - 1 = n + (i - 1)
      BY <1>1, <1>4, <1>6
    <2>2. es[n + i].previous = es[(n + i) - 1].hash
      BY <2>1 DEF Linked
    <2>3. QED
      BY <1>5, <2>1, <2>2
  <1>7. QED
    <2>1. t # <<>> => Linked(t, t[1].previous)
      BY <1>6 DEF Linked
    <2>2. t = <<>> => \A x : Linked(t, x)
      BY <1>4 DEF Linked
    <2>3. QED
      BY <1>2, <1>3, <1>4, <1>5, <2>1, <2>2

LEMMA AuditParts ==
  ASSUME AuditInv
  PROVE  /\ AuditShape
         /\ log \in Seq(Entry) /\ anchors \in Seq(Hashes)
         /\ pruning \in [Pruners -> PruneRecord] /\ verifying \in [Verifiers -> VerifyRecord]
         /\ appended \in 0..MaxEntries /\ prunes \in 0..MaxPrunes /\ cut \in 0..MaxEntries + 1
         /\ MaxEntries \in Nat /\ MaxPrunes \in Nat /\ AnchorsKept \in Nat \ {0}
  BY AuditAssumption DEF AuditInv, AuditShape

LEMMA StartIsHash ==
  ASSUME NEW hs \in Seq(Hashes)
  PROVE  Start(hs) \in Hashes
  <1>1. 0 \in Hashes
    BY AuditAssumption DEF Hashes
  <1>2. ASSUME hs # <<>> PROVE hs[Len(hs)] \in Hashes
    <2>1. Len(hs) \in Nat /\ Len(hs) # 0 /\ DOMAIN hs = 1..Len(hs)
      BY <1>2, EmptySeq
    <2>2. Len(hs) \in DOMAIN hs
      BY <2>1
    <2>3. \A i \in DOMAIN hs : hs[i] \in Hashes
      OBVIOUS
    <2>4. QED
      BY <2>2, <2>3
  <1>3. QED
    BY <1>1, <1>2 DEF Start, Genesis

LEMMA NextIsEntry ==
  ASSUME AuditInv, appended < MaxEntries
  PROVE  /\ appended + 1 \in 1..MaxEntries /\ appended + 1 \in 0..MaxEntries
         /\ PreviousHash(log, anchors) \in Hashes
         /\ [hash |-> appended + 1, previous |-> PreviousHash(log, anchors)] \in Entry
  <1>1. appended + 1 \in 1..MaxEntries /\ appended + 1 \in 0..MaxEntries
    BY AuditParts
  <1>2. log # <<>> => log[Len(log)] \in Entry
    BY AuditParts
  <1>3. log # <<>> => log[Len(log)].hash \in Hashes
    <2>1. \A e \in Entry : e.hash \in 1..MaxEntries
      BY DEF Entry
    <2>2. \A n \in 1..MaxEntries : n \in Hashes
      BY DEF Hashes
    <2>3. QED
      BY <1>2, <2>1, <2>2
  <1>4. PreviousHash(log, anchors) \in Hashes
    BY <1>3, StartIsHash, AuditParts DEF PreviousHash
  <1>5. QED
    BY <1>1, <1>4 DEF Entry

LEMMA AppendKeepsTrail ==
  ASSUME AuditInv, AppendEntry
  PROVE  AuditInv'
  <1>1. PICK e : e = [hash |-> appended + 1, previous |-> PreviousHash(log, anchors)]
    OBVIOUS
  <1>2. /\ e \in Entry /\ e.hash = appended + 1 /\ e.previous = PreviousHash(log, anchors)
        /\ appended' = appended + 1 /\ appended' \in 0..MaxEntries
        /\ log' = Append(log, e) /\ log' \in Seq(Entry)
    BY <1>1, NextIsEntry, AuditParts DEF AppendEntry
  <1>3. /\ UNCHANGED <<anchors, pruning, verifying, prunes, cut, prunesClash, alarm>>
        /\ (lateAppend' <=> lateAppend \/ Pruning # {}) /\ lateAppend' \in BOOLEAN
    BY DEF AppendEntry, AuditInv
  <1>4. AuditShape'
    BY <1>2, <1>3 DEF AuditInv, AuditShape
  <1>5. prunesClash' = FALSE => ChainHolds' /\ alarm' = FALSE
    <2> SUFFICES ASSUME prunesClash = FALSE PROVE ChainHolds' /\ alarm' = FALSE
      BY <1>3
    <2>1. ChainHolds /\ alarm' = FALSE
      BY <1>3 DEF AuditInv
    <2>2. OnePrune' /\ KeptIsLinked' /\ AnchorIsSet' /\ LooksRight'
      BY <1>3, <2>1 DEF ChainHolds, OnePrune, KeptIsLinked, AnchorIsSet, LooksRight, Prunes, Cuts, Looks
    <2>3. LogIsLinked'
      <3> SUFFICES ASSUME \A p \in Pruners : ~Cuts(p) PROVE Linked(log', Start(anchors))
        BY <1>3 DEF LogIsLinked, Cuts
      <3>1. Linked(log, Start(anchors))
        BY <2>1 DEF ChainHolds, LogIsLinked
      <3>2. e.previous = IF log = <<>> THEN Start(anchors) ELSE log[Len(log)].hash
        BY <1>2 DEF PreviousHash
      <3>3. QED
        BY <1>2, <3>1, <3>2, OneMoreEntry, AuditParts
    <2>4. QED
      BY <2>1, <2>2, <2>3 DEF ChainHolds
  <1>6. lateAppend' = FALSE => KeptIsAll' /\ AllThere'
    <2> SUFFICES ASSUME lateAppend = FALSE, Pruning = {} PROVE KeptIsAll' /\ AllThere'
      BY <1>3 DEF AuditInv
    <2>1. \A p \in Pruners : ~Prunes(p)
      BY DEF Pruning, Prunes
    <2>2. KeptIsAll'
      BY <1>3, <2>1 DEF KeptIsAll, Prunes
    <2>3. Len(log) + 1 \in DOMAIN log' /\ log'[Len(log) + 1] = e
      BY <1>2, AuditParts
    <2>4. \A i \in DOMAIN log : i \in DOMAIN log' /\ log'[i] = log[i]
      BY <1>2, AuditParts
    <2>5. Has(log', appended + 1)
      BY <1>2, <2>3 DEF Has
    <2>6. \A n : Has(log, n) => Has(log', n)
      BY <2>4 DEF Has
    <2>7. \A n \in 1..appended' : n \in 1..appended \/ n = appended + 1
      BY <1>2, AuditParts
    <2>8. AllThere'
      BY <1>3, <2>5, <2>6, <2>7 DEF AllThere, AuditInv
    <2>9. QED
      BY <2>2, <2>8
  <1>7. QED
    BY <1>3, <1>4, <1>5, <1>6 DEF AuditInv

LEMMA PruneReadsKeeps ==
  ASSUME AuditInv, NEW p \in Pruners, NEW before \in 1..appended + 1, PruneReads(p, before)
  PROVE  AuditInv'
  <1>1. PICK n \in Older(log, before) :
            /\ prunes < MaxPrunes /\ prunes' = prunes + 1
            /\ pruning' = [pruning EXCEPT ![p] =
                  [at |-> "read", kept |-> Kept(log, n), before |-> before, anchors |-> <<>>,
                   anchor |-> IF Kept(log, n) # <<>> THEN Kept(log, n)[1].previous ELSE log[Len(log)].hash]]
    BY DEF PruneReads
  <1>2. /\ ~Prunes(p) /\ (prunesClash' <=> prunesClash \/ Pruning # {}) /\ prunesClash' \in BOOLEAN
        /\ UNCHANGED <<log, anchors, verifying, appended, cut, lateAppend, alarm>>
    BY DEF PruneReads, Prunes, auditDocuments, AuditInv
  <1>3. /\ n \in 1..Len(log) /\ \A i \in DOMAIN log : i <= n <=> log[i].hash < before
    BY DEF Older
  <1>4. PICK kept : kept = Kept(log, n)
    OBVIOUS
  <1>5. PICK anchor : anchor = IF kept # <<>> THEN kept[1].previous ELSE log[Len(log)].hash
    OBVIOUS
  <1>6. kept \in Seq(Entry) /\ Len(kept) = Len(log) - n /\ \A i \in 1..Len(log) - n : kept[i] = log[n + i]
    <2>1. /\ n + 1 \in Int /\ Len(log) \in Nat /\ n \in Nat /\ n <= Len(log)
          /\ \A i \in n + 1..Len(log) : log[i] \in Entry
      BY SMTT(30), <1>3, AuditParts
    <2>2. /\ kept \in Seq(Entry) /\ Len(kept) = IF n + 1 <= Len(log) THEN Len(log) - (n + 1) + 1 ELSE 0
          /\ \A i \in 1..Len(log) - (n + 1) + 1 : kept[i] = log[(n + 1) + i - 1]
      BY SMTT(30), <1>4, <2>1, SubSeqProperties DEF Kept
    <2>3. Len(kept) = Len(log) - n
      BY <2>1, <2>2
    <2>4. \A i \in 1..Len(log) - n : (n + 1) + i - 1 = n + i /\ i \in 1..Len(log) - (n + 1) + 1
      BY <2>1
    <2>5. QED
      BY <2>2, <2>3, <2>4
  <1>7. anchor \in Hashes
    <2>1. \A e \in Entry : e.previous \in Hashes /\ e.hash \in Hashes
      <3>1. \A e \in Entry : e.hash \in 1..MaxEntries /\ e.previous \in Hashes
        BY DEF Entry
      <3>2. QED
        BY <3>1 DEF Hashes
    <2>2. kept # <<>> => kept[1] \in Entry
      BY <1>6
    <2>3. log[Len(log)] \in Entry
      BY <1>3, AuditParts
    <2>4. QED
      BY <1>5, <2>1, <2>2, <2>3
  <1>8. before \in 0..MaxEntries + 1 /\ prunes' \in 0..MaxPrunes
    BY <1>1, AuditParts
  <1>9. PICK r : r = [at |-> "read", kept |-> kept, before |-> before, anchors |-> <<>>, anchor |-> anchor]
    OBVIOUS
  <1>10. r \in PruneRecord /\ r.kept = kept /\ r.before = before /\ r.anchor = anchor
         /\ r.at # "idle" /\ r.at # "cutting"
    BY <1>6, <1>7, <1>8, <1>9 DEF PruneRecord
  <1>11. /\ pruning' = [pruning EXCEPT ![p] = r] /\ pruning'[p] = r
         /\ \A q \in Pruners \ {p} : pruning'[q] = pruning[q]
         /\ pruning' \in [Pruners -> PruneRecord]
    BY <1>1, <1>4, <1>5, <1>9, <1>10, AuditParts
  <1>12. AuditShape'
    BY <1>2, <1>8, <1>11, AuditParts DEF AuditShape
  <1>13. \A q \in Pruners : Cuts(q)' <=> (q # p /\ Cuts(q))
    BY <1>10, <1>11 DEF Cuts
  <1>14. prunesClash' = FALSE => ChainHolds' /\ alarm' = FALSE
    <2> SUFFICES ASSUME prunesClash = FALSE, Pruning = {} PROVE ChainHolds' /\ alarm' = FALSE
      BY <1>2 DEF AuditInv
    <2>1. ChainHolds /\ alarm' = FALSE
      BY <1>2 DEF AuditInv
    <2>2. \A q \in Pruners : ~Prunes(q) /\ ~Cuts(q)
      BY DEF Pruning, Prunes, Cuts
    <2>3. \A q \in Pruners : Prunes(q)' => q = p
      BY <1>11, <2>2 DEF Prunes
    <2>4. OnePrune'
      BY <2>3 DEF OnePrune
    <2>5. Linked(log, Start(anchors))
      BY <2>1, <2>2 DEF ChainHolds, LogIsLinked
    <2>6. Linked(kept, anchor)
      BY <1>3, <1>4, <1>5, <2>5, RestIsLinked, AuditParts
    <2>7. KeptIsLinked'
      BY <1>10, <1>11, <2>3, <2>6 DEF KeptIsLinked
    <2>8. AnchorIsSet'
      BY <1>13, <2>2 DEF AnchorIsSet
    <2>9. LogIsLinked'
      BY <1>2, <2>5 DEF LogIsLinked
    <2>10. LooksRight'
      BY <1>2, <1>13, <2>1, <2>2 DEF LooksRight, Looks, ChainHolds
    <2>11. QED
      BY <2>1, <2>4, <2>7, <2>8, <2>9, <2>10 DEF ChainHolds
  <1>15. lateAppend' = FALSE => KeptIsAll' /\ AllThere'
    <2> SUFFICES ASSUME lateAppend = FALSE PROVE KeptIsAll' /\ AllThere'
      BY <1>2
    <2>1. KeptIsAll /\ AllThere
      BY DEF AuditInv
    <2>2. AllThere'
      BY <1>2, <2>1 DEF AllThere
    <2>3. ASSUME NEW m \in 1..appended, m >= cut, m >= before PROVE Has(kept, m)
      <3>1. PICK i \in DOMAIN log : log[i].hash = m
        BY <2>1, <2>3 DEF AllThere, Has
      <3>2. i \in Nat /\ i <= Len(log) /\ Len(log) \in Nat /\ n \in Nat /\ m \in Nat /\ before \in Nat /\ ~(i <= n)
        <4>1. i \in Nat /\ i <= Len(log) /\ Len(log) \in Nat /\ n \in Nat
          BY <1>3, <3>1, AuditParts
        <4>2. m \in Nat /\ before \in Nat
          BY AuditParts
        <4>3. ~(m < before)
          BY <2>3, <4>2
        <4>4. QED
          BY <1>3, <3>1, <4>1, <4>2, <4>3
      <3>3. i - n \in 1..Len(log) - n /\ n + (i - n) = i
        BY <3>2
      <3>4. i - n \in DOMAIN kept
        BY <1>6, <3>2, <3>3
      <3>5. kept[i - n].hash = m
        BY <1>6, <3>1, <3>3
      <3>6. QED
        BY <3>4, <3>5 DEF Has
    <2>4. KeptIsAll'
      <3> SUFFICES ASSUME NEW q \in Pruners, Prunes(q)', NEW m \in 1..appended, m >= cut, m >= pruning'[q].before
                   PROVE  Has(pruning'[q].kept, m)
        BY <1>2 DEF KeptIsAll
      <3>1. CASE q = p
        BY <1>10, <1>11, <2>3, <3>1
      <3>2. CASE q # p
        BY <1>11, <2>1, <3>2 DEF KeptIsAll, Prunes
      <3>3. QED
        BY <3>1, <3>2
    <2>5. QED
      BY <2>2, <2>4
  <1>16. lateAppend' \in BOOLEAN /\ alarm' \in BOOLEAN
    BY <1>2 DEF AuditInv
  <1>17. QED
    BY <1>2, <1>12, <1>14, <1>15, <1>16 DEF AuditInv

LEMMA PruneReadsAnchorsKeeps ==
  ASSUME AuditInv, NEW p \in Pruners, PruneReadsAnchors(p)
  PROVE  AuditInv'
  <1>1. /\ UNCHANGED <<log, anchors, verifying, appended, prunes, cut, lateAppend, prunesClash, alarm>>
        /\ Prunes(p) /\ ~Cuts(p)
        /\ pruning' = [pruning EXCEPT ![p].at = "anchoring", ![p].anchors = anchors]
    BY DEF PruneReadsAnchors, auditDocuments, auditHistory, Prunes, Cuts
  <1>2. PICK r : r = [[pruning[p] EXCEPT !.at = "anchoring"] EXCEPT !.anchors = anchors]
    OBVIOUS
  <1>3. /\ r \in PruneRecord /\ r.kept = pruning[p].kept /\ r.before = pruning[p].before
        /\ r.anchor = pruning[p].anchor /\ r.at # "idle" /\ r.at # "cutting"
    BY <1>2, AuditParts DEF PruneRecord
  <1>4. /\ pruning' = [pruning EXCEPT ![p] = r] /\ pruning'[p] = r
        /\ \A q \in Pruners \ {p} : pruning'[q] = pruning[q]
        /\ pruning' \in [Pruners -> PruneRecord]
    BY <1>1, <1>2, <1>3, AuditParts
  <1>5. \A q \in Pruners :
          /\ Prunes(q)' <=> Prunes(q)
          /\ Cuts(q)' <=> Cuts(q)
          /\ pruning'[q].kept = pruning[q].kept /\ pruning'[q].before = pruning[q].before
          /\ pruning'[q].anchor = pruning[q].anchor
    BY <1>1, <1>3, <1>4 DEF Prunes, Cuts
  <1>6. AuditShape'
    BY <1>1, <1>4 DEF AuditInv, AuditShape
  <1>7. ChainHolds => ChainHolds'
    BY <1>1, <1>5 DEF ChainHolds, OnePrune, KeptIsLinked, AnchorIsSet, LogIsLinked, LooksRight, Looks
  <1>8. KeptIsAll /\ AllThere => KeptIsAll' /\ AllThere'
    BY <1>1, <1>5 DEF KeptIsAll, AllThere
  <1>9. QED
    BY <1>1, <1>6, <1>7, <1>8 DEF AuditInv

\* Once a prune has written, the verify() under way are no longer ones it did not overlap.
LEMMA OverlappedLooks ==
  ASSUME AuditShape, verifying' = Overlapped
  PROVE  /\ verifying' \in [Verifiers -> VerifyRecord]
         /\ \A v \in Verifiers : Looks(v)' => verifying'[v].overlapped = TRUE
  <1> SUFFICES ASSUME NEW v \in Verifiers
               PROVE  verifying'[v] \in VerifyRecord /\ (Looks(v)' => verifying'[v].overlapped = TRUE)
    BY DEF Overlapped
  <1>1. verifying[v] \in VerifyRecord
    BY DEF AuditShape
  <1>2. verifying'[v] = [verifying[v] EXCEPT !.overlapped = (verifying[v].at # "idle")]
    BY DEF Overlapped
  <1>3. verifying'[v].at = verifying[v].at /\ verifying'[v] \in VerifyRecord
    BY <1>1, <1>2 DEF VerifyRecord
  <1>4. verifying'[v].overlapped = (verifying[v].at # "idle")
    BY <1>1, <1>2 DEF VerifyRecord
  <1>5. Looks(v)' => verifying'[v].overlapped = TRUE
    BY <1>3, <1>4 DEF Looks
  <1>6. QED
    BY <1>3, <1>5

\* The anchors that are kept are the newest.
NewestOf(all) == SubSeq(all, 1 + (IF Len(all) > AnchorsKept THEN Len(all) - AnchorsKept ELSE 0), Len(all))

LEMMA NewestAnchors ==
  ASSUME NEW hs \in Seq(Hashes), NEW h \in Hashes, NEW bs, bs = NewestOf(Append(hs, h))
  PROVE  bs \in Seq(Hashes) /\ Len(bs) <= AnchorsKept /\ Start(bs) = h
  <1>1. PICK all : all = Append(hs, h)
    OBVIOUS
  <1>2. PICK n : n = Len(all)
    OBVIOUS
  <1>3. all \in Seq(Hashes) /\ n \in Nat \ {0} /\ all[n] = h /\ n = Len(hs) + 1
    BY <1>1, <1>2
  <1>4. PICK k : k = 1 + (IF n > AnchorsKept THEN n - AnchorsKept ELSE 0)
    OBVIOUS
  <1>5. k \in 1..n /\ n - k + 1 <= AnchorsKept /\ AnchorsKept \in Nat \ {0}
    BY <1>3, <1>4, AuditAssumption
  <1>6. bs = SubSeq(all, k, n)
    BY <1>1, <1>2, <1>4 DEF NewestOf
  <1>7. k \in Int /\ n \in Int /\ \A i \in k..n : all[i] \in Hashes
    <2>1. DOMAIN all = 1..n /\ \A i \in 1..n : all[i] \in Hashes
      <3>1. DOMAIN all = 1..Len(all)
        BY <1>3
      <3>2. \A i \in DOMAIN all : all[i] \in Hashes
        BY <1>3
      <3>3. QED
        BY <1>2, <3>1, <3>2
    <2>2. \A i \in k..n : i \in 1..n
      BY <1>3, <1>5
    <2>3. QED
      BY <1>3, <1>5, <2>1, <2>2
  <1>8. /\ bs \in Seq(Hashes) /\ Len(bs) = IF k <= n THEN n - k + 1 ELSE 0
        /\ \A i \in 1..n - k + 1 : bs[i] = all[k + i - 1]
    <2>1. /\ SubSeq(all, k, n) \in Seq(Hashes)
          /\ Len(SubSeq(all, k, n)) = IF k <= n THEN n - k + 1 ELSE 0
          /\ \A i \in 1..n - k + 1 : SubSeq(all, k, n)[i] = all[k + i - 1]
      BY <1>3, <1>7, SubSeqProperties
    <2>2. QED
      BY <1>6, <2>1
  <1>9. Len(bs) = n - k + 1 /\ n - k + 1 \in 1..n - k + 1 /\ k + (n - k + 1) - 1 = n
    <2>1. n \in Nat /\ k \in Nat /\ 1 <= k /\ k <= n
      BY <1>3, <1>5
    <2>2. Len(bs) = n - k + 1
      BY <1>8, <2>1
    <2>3. PICK m : m = n - k + 1
      OBVIOUS
    <2>4. m \in Nat /\ 1 <= m /\ k + m - 1 = n
      BY <2>1, <2>3
    <2>5. m \in 1..m
      BY <2>4
    <2>6. QED
      BY <2>2, <2>3, <2>4, <2>5
  <1>10. bs[Len(bs)] = h
    BY <1>3, <1>8, <1>9
  <1>11. bs # <<>>
    <2>1. Len(bs) # 0
      BY <1>3, <1>5, <1>9
    <2>2. QED
      BY <2>1, <1>8, EmptySeq
  <1>12. QED
    BY <1>5, <1>8, <1>9, <1>10, <1>11 DEF Start

LEMMA PruneSetsAnchorsKeeps ==
  ASSUME AuditInv, NEW p \in Pruners, PruneSetsAnchors(p)
  PROVE  AuditInv'
  <1>1. /\ UNCHANGED <<log, appended, prunes, cut, lateAppend, prunesClash, alarm>>
        /\ Prunes(p) /\ ~Cuts(p) /\ verifying' = Overlapped
        /\ pruning' = [pruning EXCEPT ![p].at = "cutting"]
    BY DEF PruneSetsAnchors, auditHistory, Prunes, Cuts
  <1>2. PICK r : r = [pruning[p] EXCEPT !.at = "cutting"]
    OBVIOUS
  <1>3. /\ r \in PruneRecord /\ r.kept = pruning[p].kept /\ r.before = pruning[p].before
        /\ r.anchor = pruning[p].anchor /\ r.at # "idle" /\ r.at = "cutting"
    BY <1>2, AuditParts DEF PruneRecord
  <1>4. /\ pruning' = [pruning EXCEPT ![p] = r] /\ pruning'[p] = r
        /\ \A q \in Pruners \ {p} : pruning'[q] = pruning[q]
        /\ pruning' \in [Pruners -> PruneRecord]
    BY <1>1, <1>2, <1>3, AuditParts
  <1>5. \A q \in Pruners :
          /\ Prunes(q)' <=> Prunes(q)
          /\ Cuts(q)' <=> (q = p \/ Cuts(q))
          /\ pruning'[q].kept = pruning[q].kept /\ pruning'[q].before = pruning[q].before
          /\ pruning'[q].anchor = pruning[q].anchor
    BY <1>1, <1>3, <1>4 DEF Prunes, Cuts
  <1>6. /\ anchors' \in Seq(Hashes) /\ Len(anchors') <= AnchorsKept
        /\ Start(anchors') = pruning[p].anchor
    <2>1. pruning[p].anchors \in Seq(Hashes) /\ pruning[p].anchor \in Hashes
      BY AuditParts DEF PruneRecord
    <2>2. PICK hs, h : hs = pruning[p].anchors /\ h = pruning[p].anchor
      OBVIOUS
    <2>3. anchors' = NewestOf(Append(hs, h))
      BY <2>2 DEF PruneSetsAnchors, NewestOf
    <2>4. QED
      BY <2>1, <2>2, <2>3, NewestAnchors
  <1>7. /\ verifying' \in [Verifiers -> VerifyRecord]
        /\ \A v \in Verifiers : Looks(v)' => verifying'[v].overlapped = TRUE
    BY <1>1, AuditParts, OverlappedLooks
  <1>8. AuditShape'
    BY <1>1, <1>4, <1>6, <1>7, AuditParts DEF AuditShape
  <1>9. ChainHolds => ChainHolds'
    <2> SUFFICES ASSUME ChainHolds PROVE ChainHolds'
      OBVIOUS
    <2>1. OnePrune' /\ KeptIsLinked'
      BY <1>5 DEF ChainHolds, OnePrune, KeptIsLinked
    <2>2. \A q \in Pruners : Cuts(q)' => q = p
      BY <1>1, <1>5 DEF ChainHolds, OnePrune, Prunes, Cuts
    <2>3. AnchorIsSet'
      BY <1>5, <1>6, <2>2 DEF AnchorIsSet
    <2>4. LogIsLinked'
      BY <1>5 DEF LogIsLinked
    <2>5. LooksRight'
      BY <1>7 DEF LooksRight
    <2>6. QED
      BY <2>1, <2>3, <2>4, <2>5 DEF ChainHolds
  <1>10. KeptIsAll /\ AllThere => KeptIsAll' /\ AllThere'
    BY <1>1, <1>5 DEF KeptIsAll, AllThere
  <1>11. QED
    BY <1>1, <1>8, <1>9, <1>10 DEF AuditInv

\* A prune that ends or stops is one the others need not look at.
LEMMA PruneLeaves ==
  ASSUME AuditInv, NEW p \in Pruners, pruning' = [pruning EXCEPT ![p] = NoPrune]
  PROVE  /\ pruning' \in [Pruners -> PruneRecord]
         /\ ~Prunes(p)' /\ ~Cuts(p)'
         /\ \A q \in Pruners \ {p} :
              pruning'[q] = pruning[q] /\ (Prunes(q)' <=> Prunes(q)) /\ (Cuts(q)' <=> Cuts(q))
  <1>1. NoPrune \in PruneRecord
    <2>1. 0 \in Hashes /\ 0 \in 0..MaxEntries + 1
      BY AuditParts DEF Hashes
    <2>2. <<>> \in Seq(Entry) /\ <<>> \in Seq(Hashes)
      OBVIOUS
    <2>3. QED
      BY <2>1, <2>2 DEF NoPrune, PruneRecord, Genesis
  <1>2. pruning' \in [Pruners -> PruneRecord] /\ pruning'[p].at = "idle"
    BY <1>1, AuditParts DEF NoPrune
  <1>3. \A q \in Pruners \ {p} : pruning'[q] = pruning[q]
    BY AuditParts
  <1>4. QED
    BY <1>2, <1>3 DEF Prunes, Cuts

LEMMA PruneSetsEntriesKeeps ==
  ASSUME AuditInv, NEW p \in Pruners, PruneSetsEntries(p)
  PROVE  AuditInv'
  <1>1. /\ UNCHANGED <<anchors, appended, prunes, lateAppend, prunesClash, alarm>>
        /\ Prunes(p) /\ Cuts(p) /\ verifying' = Overlapped /\ log' = pruning[p].kept
        /\ cut' = IF pruning[p].before > cut THEN pruning[p].before ELSE cut
        /\ pruning' = [pruning EXCEPT ![p] = NoPrune]
    BY DEF PruneSetsEntries, Prunes, Cuts
  <1>2. /\ pruning' \in [Pruners -> PruneRecord]
        /\ ~Prunes(p)' /\ ~Cuts(p)'
        /\ \A q \in Pruners \ {p} :
             pruning'[q] = pruning[q] /\ (Prunes(q)' <=> Prunes(q)) /\ (Cuts(q)' <=> Cuts(q))
    BY <1>1, PruneLeaves
  <1>3. /\ pruning[p].kept \in Seq(Entry) /\ pruning[p].before \in 0..MaxEntries + 1
    BY AuditParts DEF PruneRecord
  <1>4. cut' \in 0..MaxEntries + 1 /\ \A n \in Nat : n >= cut' => n >= cut /\ n >= pruning[p].before
    BY <1>1, <1>3, AuditParts
  <1>5. /\ verifying' \in [Verifiers -> VerifyRecord]
        /\ \A v \in Verifiers : Looks(v)' => verifying'[v].overlapped = TRUE
    BY <1>1, AuditParts, OverlappedLooks
  <1>6. AuditShape'
    BY <1>1, <1>2, <1>3, <1>4, <1>5 DEF AuditInv, AuditShape
  <1>7. ChainHolds => ChainHolds'
    <2> SUFFICES ASSUME ChainHolds PROVE ChainHolds'
      OBVIOUS
    <2>1. OnePrune' /\ KeptIsLinked' /\ AnchorIsSet'
      BY <1>1, <1>2 DEF ChainHolds, OnePrune, KeptIsLinked, AnchorIsSet
    <2>2. LogIsLinked'
      BY <1>1 DEF LogIsLinked, ChainHolds, KeptIsLinked, AnchorIsSet
    <2>3. LooksRight'
      BY <1>5 DEF LooksRight
    <2>4. QED
      BY <2>1, <2>2, <2>3 DEF ChainHolds
  <1>8. KeptIsAll /\ AllThere => KeptIsAll' /\ AllThere'
    <2> SUFFICES ASSUME KeptIsAll, AllThere PROVE KeptIsAll' /\ AllThere'
      OBVIOUS
    <2>1. \A n \in 1..appended : n >= cut' => n >= cut /\ n >= pruning[p].before
      BY <1>4, AuditParts
    <2>2. AllThere'
      BY <1>1, <2>1 DEF KeptIsAll, AllThere
    <2>3. KeptIsAll'
      BY <1>1, <1>2, <2>1 DEF KeptIsAll
    <2>4. QED
      BY <2>2, <2>3
  <1>9. QED
    BY <1>1, <1>6, <1>7, <1>8 DEF AuditInv

LEMMA PruneStopsKeeps ==
  ASSUME AuditInv, NEW p \in Pruners, PruneStops(p)
  PROVE  AuditInv'
  <1>1. /\ UNCHANGED <<log, anchors, verifying, appended, prunes, cut, lateAppend, alarm>>
        /\ Prunes(p) /\ (prunesClash' <=> prunesClash \/ Cuts(p)) /\ prunesClash' \in BOOLEAN
        /\ pruning' = [pruning EXCEPT ![p] = NoPrune]
    BY DEF PruneStops, auditDocuments, Prunes, Cuts, AuditInv
  <1>2. /\ pruning' \in [Pruners -> PruneRecord]
        /\ ~Prunes(p)' /\ ~Cuts(p)'
        /\ \A q \in Pruners \ {p} :
             pruning'[q] = pruning[q] /\ (Prunes(q)' <=> Prunes(q)) /\ (Cuts(q)' <=> Cuts(q))
    BY <1>1, PruneLeaves
  <1>3. AuditShape'
    BY <1>1, <1>2 DEF AuditInv, AuditShape
  <1>4. prunesClash' = FALSE => ChainHolds' /\ alarm' = FALSE
    <2> SUFFICES ASSUME prunesClash = FALSE, ~Cuts(p) PROVE ChainHolds' /\ alarm' = FALSE
      BY <1>1 DEF AuditInv
    <2>1. ChainHolds /\ alarm' = FALSE
      BY <1>1 DEF AuditInv
    <2>2. \A q \in Pruners : Cuts(q)' <=> Cuts(q)
      BY <1>2
    <2>3. OnePrune' /\ KeptIsLinked' /\ AnchorIsSet' /\ LogIsLinked' /\ LooksRight'
      BY <1>1, <1>2, <2>1, <2>2 DEF ChainHolds, OnePrune, KeptIsLinked, AnchorIsSet, LogIsLinked, LooksRight, Looks
    <2>4. QED
      BY <2>1, <2>3 DEF ChainHolds
  <1>5. KeptIsAll /\ AllThere => KeptIsAll' /\ AllThere'
    BY <1>1, <1>2 DEF KeptIsAll, AllThere
  <1>6. QED
    BY <1>1, <1>3, <1>4, <1>5 DEF AuditInv

LEMMA VerifyReadsKeeps ==
  ASSUME AuditInv, NEW v \in Verifiers, VerifyReads(v)
  PROVE  AuditInv'
  <1>1. /\ UNCHANGED <<log, anchors, pruning, appended, prunes, cut, lateAppend, prunesClash, alarm>>
        /\ verifying' = [verifying EXCEPT ![v] =
              [at |-> "anchors", anchors |-> anchors, overlapped |-> \E p \in Pruners : pruning[p].at = "cutting"]]
    BY DEF VerifyReads, auditDocuments, auditHistory
  <1>2. PICK r : r = [at |-> "anchors", anchors |-> anchors, overlapped |-> \E p \in Pruners : pruning[p].at = "cutting"]
    OBVIOUS
  <1>3. r \in VerifyRecord /\ r.anchors = anchors /\ (r.overlapped = FALSE => \A p \in Pruners : ~Cuts(p))
    BY <1>2, AuditParts DEF VerifyRecord, Cuts
  <1>4. /\ verifying' \in [Verifiers -> VerifyRecord] /\ verifying'[v] = r
        /\ \A w \in Verifiers \ {v} : verifying'[w] = verifying[w]
    BY <1>1, <1>2, <1>3, AuditParts
  <1>5. AuditShape'
    BY <1>1, <1>4 DEF AuditInv, AuditShape
  <1>6. ChainHolds => ChainHolds'
    <2>1. LooksRight => LooksRight'
      <3> SUFFICES ASSUME LooksRight, NEW w \in Verifiers, Looks(w)', verifying'[w].overlapped = FALSE
                   PROVE  (\A p \in Pruners : ~Cuts(p)) /\ Start(verifying'[w].anchors) = Start(anchors)
        BY <1>1 DEF LooksRight, Cuts
      <3>1. CASE w = v
        BY <1>3, <1>4, <3>1
      <3>2. CASE w # v
        BY <1>4, <3>2 DEF LooksRight, Looks
      <3>3. QED
        BY <3>1, <3>2
    <2>2. QED
      BY <1>1, <2>1 DEF ChainHolds, OnePrune, KeptIsLinked, AnchorIsSet, LogIsLinked, Prunes, Cuts
  <1>7. KeptIsAll /\ AllThere => KeptIsAll' /\ AllThere'
    BY <1>1 DEF KeptIsAll, AllThere, Prunes
  <1>8. QED
    BY <1>1, <1>5, <1>6, <1>7 DEF AuditInv

LEMMA VerifyEndsKeeps ==
  ASSUME AuditInv, NEW v \in Verifiers, VerifyEnds(v)
  PROVE  AuditInv'
  <1>1. /\ UNCHANGED <<log, anchors, pruning, appended, prunes, cut, lateAppend, prunesClash>>
        /\ Looks(v) /\ verifying' = [verifying EXCEPT ![v] = NoVerify]
        /\ alarm' = (alarm \/ (~Verifies(log, verifying[v].anchors) /\ ~verifying[v].overlapped))
    BY DEF VerifyEnds, auditDocuments, Looks
  <1>2. NoVerify \in VerifyRecord /\ NoVerify.at = "idle"
    BY DEF NoVerify, VerifyRecord
  <1>3. /\ verifying' \in [Verifiers -> VerifyRecord] /\ ~Looks(v)'
        /\ \A w \in Verifiers \ {v} : verifying'[w] = verifying[w]
    BY <1>1, <1>2, AuditParts DEF Looks
  <1>4. AuditShape'
    BY <1>1, <1>3 DEF AuditInv, AuditShape
  <1>5. ChainHolds => ChainHolds'
    BY <1>1, <1>3 DEF ChainHolds, OnePrune, KeptIsLinked, AnchorIsSet, LogIsLinked, LooksRight, Prunes, Cuts, Looks
  <1>6. alarm' \in BOOLEAN /\ (ChainHolds /\ alarm = FALSE => alarm' = FALSE)
    <2>1. verifying[v].overlapped \in BOOLEAN
      BY AuditParts DEF VerifyRecord
    <2>2. ASSUME ChainHolds, verifying[v].overlapped = FALSE PROVE Verifies(log, verifying[v].anchors)
      <3>1. (\A p \in Pruners : ~Cuts(p)) /\ Start(verifying[v].anchors) = Start(anchors)
        BY <1>1, <2>2 DEF ChainHolds, LooksRight
      <3>2. Linked(log, Start(verifying[v].anchors))
        BY <2>2, <3>1 DEF ChainHolds, LogIsLinked
      <3>3. QED
        BY <3>2, LinkedIsVerified
    <2>3. alarm \in BOOLEAN
      BY DEF AuditInv
    <2>4. alarm' \in BOOLEAN
      BY <1>1
    <2>5. QED
      BY <1>1, <2>1, <2>2, <2>3, <2>4
  <1>7. KeptIsAll /\ AllThere => KeptIsAll' /\ AllThere'
    BY <1>1 DEF KeptIsAll, AllThere, Prunes
  <1>8. QED
    BY <1>1, <1>4, <1>5, <1>6, <1>7 DEF AuditInv

LEMMA AuditNextKeeps ==
  ASSUME AuditInv, [AuditNext]_auditVars
  PROVE  AuditInv'
  <1>1. CASE UNCHANGED auditVars
    BY <1>1 DEF auditVars, auditDocuments, auditHistory, AuditInv, AuditShape, ChainHolds, OnePrune, KeptIsLinked,
                AnchorIsSet, LogIsLinked, LooksRight, KeptIsAll, AllThere, Prunes, Cuts, Looks
  <1>2. CASE AppendEntry
    BY <1>2, AppendKeepsTrail
  <1>3. ASSUME NEW p \in Pruners, Prune(p)
        PROVE  AuditInv'
    BY <1>3, PruneReadsKeeps, PruneReadsAnchorsKeeps, PruneSetsAnchorsKeeps, PruneSetsEntriesKeeps,
       PruneStopsKeeps DEF Prune
  <1>4. ASSUME NEW v \in Verifiers, VerifyReads(v) \/ VerifyEnds(v)
        PROVE  AuditInv'
    BY <1>4, VerifyReadsKeeps, VerifyEndsKeeps
  <1>5. QED
    BY <1>1, <1>2, <1>3, <1>4 DEF AuditNext

LEMMA AuditStarts ==
  ASSUME AuditInit
  PROVE  AuditInv
  <1>1. NoPrune \in PruneRecord /\ NoPrune.at = "idle"
    <2>1. 0 \in Hashes /\ 0 \in 0..MaxEntries + 1
      BY AuditAssumption DEF Hashes
    <2>2. <<>> \in Seq(Entry) /\ <<>> \in Seq(Hashes)
      OBVIOUS
    <2>3. QED
      BY <2>1, <2>2 DEF NoPrune, PruneRecord, Genesis
  <1>2. NoVerify \in VerifyRecord /\ NoVerify.at = "idle"
    BY DEF NoVerify, VerifyRecord
  <1>3. log \in Seq(Entry) /\ anchors \in Seq(Hashes) /\ Len(anchors) <= AnchorsKept
    BY AuditAssumption DEF AuditInit
  <1>4. appended \in 0..MaxEntries /\ prunes \in 0..MaxPrunes /\ cut \in 0..MaxEntries + 1
    BY AuditAssumption DEF AuditInit
  <1>5. AuditShape
    BY <1>1, <1>2, <1>3, <1>4 DEF AuditInit, AuditShape
  <1>6. (\A p \in Pruners : ~Prunes(p) /\ ~Cuts(p)) /\ \A v \in Verifiers : ~Looks(v)
    BY <1>1, <1>2 DEF AuditInit, Prunes, Cuts, Looks
  <1>7. Linked(log, Start(anchors))
    BY DEF AuditInit, Linked
  <1>8. ChainHolds
    BY <1>6, <1>7 DEF ChainHolds, OnePrune, KeptIsLinked, AnchorIsSet, LogIsLinked, LooksRight
  <1>9. \A n : n \notin 1..appended
    BY DEF AuditInit
  <1>10. KeptIsAll /\ AllThere
    BY <1>6, <1>9 DEF KeptIsAll, AllThere
  <1>11. QED
    BY <1>5, <1>8, <1>10 DEF AuditInv, AuditInit

LEMMA AlwaysAuditInv == AuditSpec => []AuditInv
  <1>1. AuditInit => AuditInv
    BY AuditStarts
  <1>2. AuditInv /\ [AuditNext]_auditVars => AuditInv'
    BY AuditNextKeeps
  <1>3. QED
    BY <1>1, <1>2, PTL DEF AuditSpec

\* The audit trail's documents and what its prunes and verifications hold of them have
\* their types: entries and hashes, no more anchors than prune() keeps.
THEOREM AuditTypeCorrect == AuditSpec => []AuditTypeOK
  <1>1. ASSUME AuditInv PROVE AuditTypeOK
    <2>1. \A p \in Pruners :
            /\ pruning[p].at \in {"idle", "read", "anchoring", "cutting"}
            /\ pruning[p].kept \in Seq(Entry) /\ pruning[p].anchors \in Seq(Hashes)
      BY <1>1, AuditParts DEF PruneRecord
    <2>2. \A v \in Verifiers : verifying[v].at \in {"idle", "anchors"}
      BY <1>1, AuditParts DEF VerifyRecord
    <2>3. QED
      BY <1>1, <2>1, <2>2 DEF AuditTypeOK, AuditInv, AuditShape
  <1>2. QED
    BY <1>1, AlwaysAuditInv, PTL

\* TrailIsSound for any number of processes, entries and prunes, and any number of
\* anchors kept: where prunes neither overlap nor stop between their two writes, the
\* chain of ImmutableAuditLog stays anchored and no verify() that none overlapped raises
\* an alarm; where no append came during a prune, no entry is missing.
THEOREM TrailStaysSound == AuditSpec => []TrailIsSound
  <1>1. ASSUME AuditInv PROVE TrailIsSound
    <2>1. ASSUME ~prunesClash PROVE Anchored /\ ~alarm
      <3>1. ChainHolds /\ alarm = FALSE
        BY <1>1, <2>1 DEF AuditInv
      <3>2. Anchored
        BY <3>1, LinkedIsVerified DEF ChainHolds, LogIsLinked, Anchored, Cuts
      <3>3. QED
        BY <3>1, <3>2
    <2>2. ASSUME ~lateAppend PROVE NoneMissing
      BY <1>1, <2>2 DEF AuditInv, AllThere, Has, NoneMissing
    <2>3. QED
      BY <2>1, <2>2 DEF TrailIsSound
  <1>2. QED
    BY <1>1, AlwaysAuditInv, PTL
================================================================================
