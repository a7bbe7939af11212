------------------------------- MODULE Uploads -------------------------------
(***************************************************************************)
(* ResumableUploadStore (admin/production.py 473-571): all sessions are    *)
(* one document of the admin store, which every operation reads, changes   *)
(* and sets whole.  Within a process nothing runs in between; another      *)
(* process may, and what it set is overwritten.                            *)
(*                                                                         *)
(* A client sends its file in chunks of any size, goes on from the offset  *)
(* that status() tells, and may send what it sent before.  A chunk at an   *)
(* offset holds the file's bytes from there, so its length says it all.    *)
(* The optional digest is left out: the store shall do without.            *)
(***************************************************************************)
EXTENDS Integers

CONSTANTS Files,     \* uploads, by id
          Servers,   \* processes that share the store
          TotalSize, \* the size of a file, in bytes
          MaxChunk   \* bound: the size of a chunk

ASSUME UploadAssumption == TotalSize \in Nat /\ MaxChunk \in Nat

VARIABLES
    uploads,   \* the document "sessions"
    created,   \* the ids given out
    overdue,   \* those whose expires_at is over
    writing,   \* what each process is about to set, and what it returns then
    assembled  \* the chunks joined, if the last call to end was finalize()

uploadVars == <<uploads, created, overdue, writing, assembled>>

Offsets == 0..TotalSize
\* chunks are the lengths by offset, and -1 where there is none.
Upload == [there : BOOLEAN, chunks : [Offsets -> -1..MaxChunk], nextOffset : Offsets]
NoChunks == [o \in Offsets |-> -1]
NoUpload == [there |-> FALSE, chunks |-> NoChunks, nextOffset |-> 0]
Nothing == [busy |-> FALSE, document |-> [f \in Files |-> NoUpload], finalized |-> {}]

UploadsTypeOK ==
    /\ uploads \in [Files -> Upload]
    /\ created \subseteq Files /\ overdue \subseteq created
    /\ \A s \in Servers : /\ writing[s].document \in [Files -> Upload]
                          /\ writing[s].finalized \subseteq [Offsets -> -1..MaxChunk]
    /\ assembled \in SUBSET [Offsets -> -1..MaxChunk]

UploadsInit ==
    /\ uploads = [f \in Files |-> NoUpload]
    /\ created = {} /\ overdue = {} /\ assembled = {}
    /\ writing = [s \in Servers |-> Nothing]

-----------------------------------------------------------------------------
Valid(f) == uploads[f].there /\ f \notin overdue

\* The process has read the document and will set it as it is here.
WillSet(s, document, finalized) ==
    /\ ~writing[s].busy
    /\ writing' = [writing EXCEPT ![s] = [busy |-> TRUE, document |-> document, finalized |-> finalized]]
    /\ UNCHANGED <<uploads, overdue, assembled>>

\* create()
CreateUpload(s) ==
    \E f \in Files \ created :
        /\ created' = created \union {f}
        /\ WillSet(s, [uploads EXCEPT ![f] = [NoUpload EXCEPT !.there = TRUE]], {})

\* Mutant of Fits: any offset will do.
FitsAnywhere(session, offset, size) == offset + size <= TotalSize

\* Whether put_chunk() accepts a chunk.
Fits(session, offset, size) ==
    offset + size <= TotalSize /\ offset = session.nextOffset

\* put_chunk()
PutChunk(s) ==
    \E f \in Files, offset \in Offsets, size \in 0..MaxChunk :
        /\ Valid(f) /\ Fits(uploads[f], offset, size)
        /\ WillSet(s, [uploads EXCEPT ![f].chunks[offset] = size,
                                      ![f].nextOffset = @ + size], {})
        /\ UNCHANGED created

Stored(chunks) == {o \in Offsets : chunks[o] >= 0}
\* The bytes of the chunks before each offset, when they are joined in order.
Joined(chunks) ==
    LET bytes[o \in 0..TotalSize + 1] ==
            IF o = 0 THEN 0
            ELSE bytes[o - 1] + (IF o - 1 \in Stored(chunks) THEN chunks[o - 1] ELSE 0)
    IN  bytes
Size(chunks) == Joined(chunks)[TotalSize + 1]

\* finalize()
Finalize(s) ==
    \E f \in Files :
        /\ Valid(f) /\ Size(uploads[f].chunks) = TotalSize
        /\ WillSet(s, [uploads EXCEPT ![f] = NoUpload], {uploads[f].chunks})
        /\ UNCHANGED created

\* cleanup_expired()
Cleanup(s) ==
    /\ \E f \in overdue : uploads[f].there
    /\ WillSet(s, [f \in Files |-> IF f \in overdue THEN NoUpload ELSE uploads[f]], {})
    /\ UNCHANGED created

\* The document is set, and finalize() returns the chunks it joined, which are
\* those it had read.
SetDocument(s) ==
    /\ writing[s].busy
    /\ uploads' = writing[s].document
    /\ assembled' = writing[s].finalized
    /\ writing' = [writing EXCEPT ![s] = Nothing]
    /\ UNCHANGED <<created, overdue>>

\* The process dies before it has set the document.
ServerDies(s) ==
    /\ writing[s].busy
    /\ writing' = [writing EXCEPT ![s] = Nothing]
    /\ UNCHANGED <<uploads, created, overdue, assembled>>

\* Time passes.
ComesOverdue ==
    /\ \E f \in created \ overdue : overdue' = overdue \union {f}
    /\ UNCHANGED <<uploads, created, writing, assembled>>

UploadsNext ==
    \/ \E s \in Servers : \/ CreateUpload(s) \/ PutChunk(s) \/ Finalize(s) \/ Cleanup(s)
                          \/ SetDocument(s) \/ ServerDies(s)
    \/ ComesOverdue

UploadsSpec == UploadsInit /\ [][UploadsNext]_uploadVars

-----------------------------------------------------------------------------
\* Whatever processes overwrite of each other's work, and whatever clients send
\* again, what finalize() joins is the file: each chunk begins where those before
\* it end, and the last one ends the file.
UploadIsWhole ==
    \A chunks \in assembled :
        /\ \A o \in Stored(chunks) : Joined(chunks)[o] = o
        /\ Size(chunks) = TotalSize
=============================================================================
