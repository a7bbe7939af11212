------------------------------ MODULE AuditLog ------------------------------
(***************************************************************************)
(* ImmutableAuditLog (admin/production.py 241-320): a hash-chained list of *)
(* entries and a list of anchors, two documents of the admin store that    *)
(* several processes use.  append() is one mutate(); prune() reads both    *)
(* documents and sets both, four accesses between which others run, and    *)
(* verify() reads both.                                                    *)
(*                                                                         *)
(* An entry's hash covers its random id and the hash before it, so that it *)
(* is represented by the entry's number: two entries never have one hash.  *)
(* Entries are numbered in the order of their created_at.                  *)
(***************************************************************************)
EXTENDS Integers, Sequences, FiniteSets

CONSTANTS Pruners,         \* processes that call prune()
          Verifiers,       \* processes that call verify()
          AnchorsKept,     \* how many anchors prune() keeps: 100 in the code
          MaxEntries,      \* bound: entries appended
          MaxPrunes        \* bound: prunes begun

ASSUME AuditAssumption ==
    /\ IsFiniteSet(Pruners) /\ IsFiniteSet(Verifiers)
    /\ AnchorsKept \in Nat \ {0} /\ MaxEntries \in Nat /\ MaxPrunes \in Nat

VARIABLES
    log, \* the document "entries"
    anchors, \* the document "anchors": the hashes, oldest first
    pruning, \* what each prune() under way has read, and where it is
    verifying, \* what each verify() under way has read
    appended, \* how many entries have been appended
    prunes,
    cut, \* history: entries before this one have been pruned away
    lateAppend, \* history: an append came between a prune's reading and writing
    prunesClash, \* history: two prunes overlapped, or one stopped half-way
    alarm \* history: a verify() that no prune overlapped returned False

auditDocuments == <<log, anchors>>
auditHistory == <<cut, lateAppend, prunesClash, alarm>>
auditVars == <<auditDocuments, pruning, verifying, appended, prunes, auditHistory>>

Genesis == 0
Hashes == 0..MaxEntries
Entry == [hash : 1..MaxEntries, previous : Hashes]
NoPrune == [at |-> "idle", kept |-> <<>>, before |-> 0, anchor |-> Genesis, anchors |-> <<>>]
NoVerify == [at |-> "idle", anchors |-> <<>>, overlapped |-> FALSE]

AuditTypeOK ==
    /\ log \in Seq(Entry)
    /\ anchors \in Seq(Hashes) /\ Len(anchors) <= AnchorsKept
    /\ \A p \in Pruners :
          /\ pruning[p].at \in {"idle", "read", "anchoring", "cutting"}
          /\ pruning[p].kept \in Seq(Entry) /\ pruning[p].anchors \in Seq(Hashes)
    /\ \A v \in Verifiers : verifying[v].at \in {"idle", "anchors"}
    /\ appended \in 0..MaxEntries /\ prunes \in 0..MaxPrunes /\ cut \in 0..MaxEntries + 1
    /\ lateAppend \in BOOLEAN /\ prunesClash \in BOOLEAN /\ alarm \in BOOLEAN

AuditInit ==
    /\ log = <<>> /\ anchors = <<>>
    /\ pruning = [p \in Pruners |-> NoPrune]
    /\ verifying = [v \in Verifiers |-> NoVerify]
    /\ appended = 0 /\ prunes = 0 /\ cut = 0
    /\ lateAppend = FALSE /\ prunesClash = FALSE /\ alarm = FALSE

Pruning == {p \in Pruners : pruning[p].at # "idle"}

\* The hash a chain starts from.
Start(as) == IF as = <<>> THEN Genesis ELSE as[Len(as)]

\* What verify() computes from the two documents.
Verifies(es, as) ==
    \A i \in DOMAIN es : es[i].previous = IF i = 1 THEN Start(as) ELSE es[i - 1].hash

-----------------------------------------------------------------------------
\* Mutant of PreviousHash: the anchors are forgotten.
PreviousUnanchored(es, as) == IF es = <<>> THEN Genesis ELSE es[Len(es)].hash

\* What the next entry is chained to.
PreviousHash(es, as) == IF es = <<>> THEN Start(as) ELSE es[Len(es)].hash

\* How many entries prune() removes: those whose created_at is before the limit, which
\* are the first, if there are any.
Older(es, before) == {n \in 1..Len(es) : \A i \in DOMAIN es : i <= n <=> es[i].hash < before}

\* What it keeps of them.
Kept(es, removed) == SubSeq(es, removed + 1, Len(es))

\* append(): the anchors are read under the write lock of the entries.
AppendEntry ==
    /\ appended < MaxEntries
    /\ appended' = appended + 1
    /\ log' = Append(log, [hash |-> appended', previous |-> PreviousHash(log, anchors)])
    /\ lateAppend' = (lateAppend \/ Pruning # {})
    /\ UNCHANGED <<anchors, pruning, verifying, prunes, cut, prunesClash, alarm>>

\* prune() reads the entries; it goes on if some are older than `before`.
PruneReads(p, before) ==
    \E removed \in Older(log, before) :
        LET kept == Kept(log, removed)
        IN  /\ pruning[p].at = "idle" /\ prunes < MaxPrunes
            /\ prunes' = prunes + 1
            /\ pruning' = [pruning EXCEPT ![p] =
                  [at |-> "read", kept |-> kept, before |-> before, anchors |-> <<>>,
                   anchor |-> IF kept # <<>> THEN kept[1].previous ELSE log[Len(log)].hash]]
            /\ prunesClash' = (prunesClash \/ Pruning # {})
            /\ UNCHANGED <<auditDocuments, verifying, appended, cut, lateAppend, alarm>>

PruneReadsAnchors(p) ==
    /\ pruning[p].at = "read"
    /\ pruning' = [pruning EXCEPT ![p].at = "anchoring", ![p].anchors = anchors]
    /\ UNCHANGED <<auditDocuments, verifying, appended, prunes, auditHistory>>

Overlapped == [v \in Verifiers |-> [verifying[v] EXCEPT !.overlapped = (verifying[v].at # "idle")]]

PruneSetsAnchors(p) ==
    LET all == Append(pruning[p].anchors, pruning[p].anchor)
    IN  /\ pruning[p].at = "anchoring"
        /\ anchors' = SubSeq(all, 1 + (IF Len(all) > AnchorsKept THEN Len(all) - AnchorsKept ELSE 0), Len(all))
        /\ pruning' = [pruning EXCEPT ![p].at = "cutting"]
        /\ verifying' = Overlapped
        /\ UNCHANGED <<log, appended, prunes, auditHistory>>

\* The entries kept are those of the first step, whatever came since.
PruneSetsEntries(p) ==
    /\ pruning[p].at = "cutting"
    /\ log' = pruning[p].kept
    /\ cut' = IF pruning[p].before > cut THEN pruning[p].before ELSE cut
    /\ pruning' = [pruning EXCEPT ![p] = NoPrune]
    /\ verifying' = Overlapped
    /\ UNCHANGED <<anchors, appended, prunes, lateAppend, prunesClash, alarm>>

\* The process dies, or the store refuses the next access.
PruneStops(p) ==
    /\ pruning[p].at # "idle"
    /\ prunesClash' = (prunesClash \/ pruning[p].at = "cutting")
    /\ pruning' = [pruning EXCEPT ![p] = NoPrune]
    /\ UNCHANGED <<auditDocuments, verifying, appended, prunes, cut, lateAppend, alarm>>

VerifyReads(v) ==
    /\ verifying[v].at = "idle"
    /\ verifying' = [verifying EXCEPT ![v] =
          [at |-> "anchors", anchors |-> anchors,
           overlapped |-> \E p \in Pruners : pruning[p].at = "cutting"]]
    /\ UNCHANGED <<auditDocuments, pruning, appended, prunes, auditHistory>>

VerifyEnds(v) ==
    /\ verifying[v].at = "anchors"
    /\ alarm' = (alarm \/ (~Verifies(log, verifying[v].anchors) /\ ~verifying[v].overlapped))
    /\ verifying' = [verifying EXCEPT ![v] = NoVerify]
    /\ UNCHANGED <<auditDocuments, pruning, appended, prunes, cut, lateAppend, prunesClash>>

Prune(p) ==
    \/ \E before \in 1..appended + 1 : PruneReads(p, before)
    \/ PruneReadsAnchors(p) \/ PruneSetsAnchors(p) \/ PruneSetsEntries(p)
    \/ PruneStops(p)

AuditNext ==
    \/ AppendEntry
    \/ \E p \in Pruners : Prune(p)
    \/ \E v \in Verifiers : VerifyReads(v) \/ VerifyEnds(v)

AuditSpec == AuditInit /\ [][AuditNext]_auditVars

-----------------------------------------------------------------------------
\* The stored chain starts at the last anchor and is linked from entry to entry
\* whenever no prune is between its two writes.
Anchored == (\A p \in Pruners : pruning[p].at # "cutting") => Verifies(log, anchors)

\* An entry goes only by being older than what a prune was asked to keep.
NoneMissing == \A n \in 1..appended : n >= cut => \E i \in DOMAIN log : log[i].hash = n

\* As long as prunes neither overlap nor stop between their two writes, the chain
\* is anchored and no verify() that no prune overlapped has found otherwise:
\* whatever was pruned, all entries included, and however many appends came in
\* between.  And as long as no append came during a prune, none is missing.
TrailIsSound ==
    /\ ~prunesClash => Anchored /\ ~alarm
    /\ ~lateAppend => NoneMissing

\* "Append-only hash chained audit log with verification and retention": where
\* verify() answers True, every entry not older than what was pruned is there.
AppendOnly == Verifies(log, anchors) => NoneMissing
=============================================================================
