----------------------------- MODULE BlockService -----------------------------
(***************************************************************************)
(* What flaxon's DatabaseManager promises to the code that uses it, with   *)
(* no connection, pool, savepoint or SQL command: a write outside a block  *)
(* is durable at once; one inside a block is durable with the outermost    *)
(* block around it, and none of it before; a block that is rolled back     *)
(* takes back its own writes and those of the blocks in it, and no other.  *)
(* Only the writes of an inner block that could not be left in order are   *)
(* in doubt: they may become durable with the outermost block, or not.     *)
(***************************************************************************)
EXTENDS Integers, Sequences

CONSTANT Users

VARIABLES
    durable,  \* the writes that are durable
    blocks,   \* of each user: the writes made in each of its open blocks, the outermost first
    doubt,    \* of each user: the writes in doubt
    given,    \* how many writes each user has made
    promised, \* the writes reported as committed
    revoked   \* the writes reported as rolled back

serviceVars == <<durable, blocks, doubt, given, promised, revoked>>

Init ==
    /\ durable = {} /\ promised = {} /\ revoked = {}
    /\ blocks = [u \in Users |-> <<>>]
    /\ doubt = [u \in Users |-> {}]
    /\ given = [u \in Users |-> 0]

NewWrite(u) == <<u, given[u] + 1>>
Counts(u) == given' = [given EXCEPT ![u] = @ + 1]

Innermost(u) == blocks[u][Len(blocks[u])]
Around(u) == SubSeq(blocks[u], 1, Len(blocks[u]) - 1)

\* The innermost block of u is over; D are the writes of u in doubt then.
Closes(u, D) ==
    /\ blocks' = [blocks EXCEPT ![u] = Around(u)]
    /\ doubt' = [doubt EXCEPT ![u] = D]

\* A write outside any block.
Call(u) ==
    /\ blocks[u] = <<>>
    /\ Counts(u)
    /\ durable' = durable \union {NewWrite(u)}
    /\ promised' = promised \union {NewWrite(u)}
    /\ UNCHANGED <<blocks, doubt, revoked>>

\* It raises: the write is durable, or it is not.
CallFails(u) ==
    /\ blocks[u] = <<>>
    /\ Counts(u)
    /\ durable' \in {durable, durable \union {NewWrite(u)}}
    /\ UNCHANGED <<blocks, doubt, promised, revoked>>

Open(u) ==
    /\ blocks' = [blocks EXCEPT ![u] = Append(@, {})]
    /\ UNCHANGED <<durable, doubt, given, promised, revoked>>

\* A write inside a block.
Put(u) ==
    /\ blocks[u] # <<>>
    /\ Counts(u)
    /\ blocks' = [blocks EXCEPT ![u][Len(blocks[u])] = @ \union {NewWrite(u)}]
    /\ UNCHANGED <<durable, doubt, promised, revoked>>

\* The outermost block commits: what was written is durable, from now on.
CommitAll(u) ==
    /\ Len(blocks[u]) = 1
    /\ durable' = durable \union Innermost(u) \union doubt[u]
    /\ promised' = promised \union Innermost(u)
    /\ Closes(u, {})
    /\ UNCHANGED <<given, revoked>>

\* An inner block commits: its writes become those of the block around it.
CommitInner(u) ==
    /\ Len(blocks[u]) > 1
    /\ blocks' = [blocks EXCEPT ![u] =
                     [Around(u) EXCEPT ![Len(Around(u))] = @ \union Innermost(u)]]
    /\ UNCHANGED <<durable, doubt, given, promised, revoked>>

\* A block is rolled back, and some of the writes in doubt with it.
RollBack(u) ==
    /\ blocks[u] # <<>>
    /\ revoked' = revoked \union Innermost(u)
    /\ \E D \in SUBSET doubt[u] :
          /\ Len(blocks[u]) = 1 => D = {}
          /\ Closes(u, D)
    /\ UNCHANGED <<durable, given, promised>>

\* An inner block ends with neither: some of its writes remain in doubt.
Abandon(u) ==
    /\ Len(blocks[u]) > 1
    /\ \E D \in SUBSET (doubt[u] \union Innermost(u)) : Closes(u, D)
    /\ UNCHANGED <<durable, given, promised, revoked>>

Next ==
    \E u \in Users :
        \/ Call(u) \/ CallFails(u)
        \/ Open(u) \/ Put(u)
        \/ CommitAll(u) \/ CommitInner(u) \/ RollBack(u) \/ Abandon(u)

Spec == Init /\ [][Next]_serviceVars
=============================================================================
