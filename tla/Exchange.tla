------------------------------- MODULE Exchange -------------------------------
(***************************************************************************)
(* One HTTP request on its way through an application (application/app.py) *)
(* and its middleware, and the messages of the response on their way back. *)
(* Layers are numbered from the outermost; the dispatcher is the innermost *)
(* one and the application's __call__ is layer 0.  A response is sent by   *)
(* the layer that made it, through the layers outside it:                  *)
(*                                                                         *)
(*   recovery     answers what leaves the layers inside it                 *)
(*   timeout      cancels the layers inside it                             *)
(*   compression  withholds a response until its last part is there        *)
(*   limit        counts the bytes of the request                          *)
(*                                                                         *)
(* Other middleware only adds headers.  Sizes stand for lengths in bytes.  *)
(***************************************************************************)
EXTENDS Integers, Sequences, FiniteSets, SequencesExt

CONSTANTS Stacks,       \* sequences of layers, each layer at most once
          MinimumSize,  \* compression: minimum_size
          MaxBody,      \* limit: max_size
          MaxSize       \* bound: the size of a response, the parts of a stream

ASSUME ExchangeAssumption ==
    /\ Stacks \subseteq Seq({"recovery", "timeout", "compression", "limit"})
    /\ \A layers \in Stacks : IsInjective(layers)
    /\ MinimumSize \in Nat \ {0} /\ MaxBody \in Nat /\ MaxSize \in Nat \ {0}

VARIABLES
    request,    \* what came in, and the layers that it meets
    progress,      \* how far it is
    received,   \* bytes of its body that were read
    sender,     \* the layer whose response is being sent
    pending,    \* the messages that are yet to be sent
    flushing,   \* whether it is compression that sends them
    withheld,   \* what compression withholds: the start, if any, and the bytes
    answers,    \* history: responses made
    out,        \* the messages that the server was given
    late        \* history: an error was answered after a response had begun

exchangeVars ==
    <<request, progress, received, sender, pending, flushing, withheld, answers, out, late>>

Unknown == -1
NoStart == [type |-> "none", length |-> Unknown]
Requests == [stack : Stacks, method : {"GET", "HEAD"}, accepts : BOOLEAN, understated : BOOLEAN]

Layers == Len(request.stack)
Uses(layer) == Contains(request.stack, layer)
At(layer) == CHOOSE i \in 1..Layers : request.stack[i] = layer

ExchangeTypeOK ==
    /\ request \in Requests /\ progress \in {"arriving", "running", "saving", "responding", "done"}
    /\ received \in 0..MaxBody + 1 /\ sender \in 0..Layers + 1 /\ flushing \in BOOLEAN
    /\ \A i \in DOMAIN pending : pending[i].type \in {"start", "body"}
    /\ withheld.start.length \in {Unknown} \union 0..MaxSize
    /\ answers \in 0..Layers + 2 /\ late \in BOOLEAN

ExchangeInit ==
    /\ request \in Requests
    /\ request.accepts => Uses("compression") /\ request.method = "GET"
    /\ ~request.understated => Uses("limit")
    /\ progress = "arriving" /\ received = 0 /\ sender = Layers + 1
    /\ pending = <<>> /\ flushing = FALSE
    /\ withheld = [start |-> NoStart, of |-> {}, size |-> 0]
    /\ answers = 0 /\ out = <<>> /\ late = FALSE

-----------------------------------------------------------------------------
(* Responses *)

StartMessage(r, length, fit) == [type |-> "start", of |-> {r}, length |-> length, fit |-> fit]
Part(r, size, more) == [type |-> "body", of |-> {r}, size |-> size, more |-> more]

\* Response.__call__(); `fit` is whether its type and status may be compressed.
Whole(r, size, fit) == <<StartMessage(r, size, fit), Part(r, size, FALSE)>>

\* StreamingResponse.__call__(), of n parts of size 1.
Stream(r, n, length, fit) ==
    <<StartMessage(r, length, fit)>> \o [i \in 1..n |-> Part(r, 1, TRUE)] \o <<Part(r, 0, FALSE)>>

\* What _handle_http() makes of the endpoint's value or exception.
Made(r) ==
    IF request.method = "HEAD"
    THEN {Whole(r, 0, fit) : fit \in BOOLEAN}
         \union {Stream(r, n, 0, TRUE) : n \in 0..MaxSize}
    ELSE {Whole(r, n, fit) : n \in 0..MaxSize, fit \in BOOLEAN}
         \union {Stream(r, n, Unknown, TRUE) : n \in 0..MaxSize}
         \union {Stream(r, n, n, fit) : n \in 0..MaxSize, fit \in BOOLEAN}

-----------------------------------------------------------------------------
(* Exceptions *)

\* The layer that answers what leaves a layer: the next recovery outside it, or
\* __call__.
Handler(layer) == IF Uses("recovery") /\ At("recovery") < layer THEN At("recovery") ELSE 0

\* Whether something of a response is beyond a layer.
BegunBeyond(layer) ==
    out # <<>> \/ (withheld.start # NoStart /\ At("compression") < layer)

\* An exception leaves a layer, and is answered; compression that it passes
\* forgets what it withheld.
Raised(layer) ==
    LET handler == Handler(layer)
        outside == Uses("compression") /\ At("compression") < handler
    IN  /\ answers' = answers + 1 /\ sender' = handler /\ progress' = "responding"
        /\ \E size \in 1..MaxSize : pending' = Whole(answers', size, TRUE)
        /\ flushing' = FALSE
        /\ withheld' = IF outside THEN withheld ELSE [start |-> NoStart, of |-> {}, size |-> 0]
        /\ late' = (late \/ BegunBeyond(handler))

-----------------------------------------------------------------------------
\* The request reaches the dispatcher, or is too long by its own account; reading
\* its session may raise.
Arrives ==
    /\ progress = "arriving"
    /\ IF Uses("limit") /\ ~request.understated THEN Raised(At("limit"))
       ELSE \/ progress' = "running"
               /\ UNCHANGED <<sender, pending, flushing, withheld, answers, late>>
            \/ Raised(Layers + 1)
    /\ UNCHANGED <<request, received, out>>

\* The endpoint reads a byte of the body; one too many is an error of its own.
Receives ==
    /\ progress = "running" /\ Uses("limit") /\ received <= MaxBody
    /\ received' = received + 1
    /\ IF received' > MaxBody
       THEN /\ progress' = "saving" /\ answers' = answers + 1
            /\ pending' = Whole(answers', IF request.method = "HEAD" THEN 0 ELSE 1, TRUE)
       ELSE UNCHANGED <<progress, answers, pending>>
    /\ UNCHANGED <<request, sender, flushing, withheld, out, late>>

\* The endpoint returns or raises.
EndpointEnds ==
    /\ progress = "running" /\ progress' = "saving" /\ answers' = answers + 1
    /\ pending' \in Made(answers')
    /\ UNCHANGED <<request, received, sender, flushing, withheld, out, late>>

\* The session is saved if it has changed; saving it may raise.
SavesSession ==
    /\ progress = "saving"
    /\ \/ progress' = "responding" /\ UNCHANGED <<sender, pending, flushing, withheld, answers, late>>
       \/ Raised(Layers + 1)
    /\ UNCHANGED <<request, received, out>>

\* Mutant of Collects: each part is sent on as if it were the last.
CollectsOne(part) ==
    \E n \in 1..MaxSize :
        /\ withheld' = [withheld EXCEPT !.of = @ \union part.of, !.size = n]
        /\ pending' = <<[withheld.start EXCEPT !.length = n],
                        [type |-> "body", of |-> withheld'.of, size |-> n, more |-> FALSE]>>
                      \o Tail(pending)
        /\ flushing' = TRUE

\* Compression collects the parts of the response; with the last it compresses
\* them, if they are enough, and sends what it withheld.
Collects(part) ==
    LET size == withheld.size + part.size
        whole == [type |-> "body", of |-> withheld.of \union part.of, size |-> size, more |-> FALSE]
    IN  /\ withheld' = [withheld EXCEPT !.of = whole.of, !.size = size]
        /\ \/ part.more /\ pending' = Tail(pending) /\ flushing' = FALSE
           \/ /\ ~part.more /\ size < MinimumSize
              /\ pending' = <<withheld.start, whole>> /\ flushing' = TRUE
           \/ /\ ~part.more /\ size >= MinimumSize
              /\ \E n \in 1..MaxSize :
                    pending' = <<[withheld.start EXCEPT !.length = n], [whole EXCEPT !.size = n]>>
              /\ flushing' = TRUE

\* Whether compression is between the sender and the server.
Compresses == request.accepts /\ ~flushing /\ At("compression") < sender

\* The next message goes to compression or to the server.
Sends ==
    /\ progress = "responding" /\ pending # <<>>
    /\ LET m == Head(pending)
           WorthIt == m.type = "start" /\ m.length >= MinimumSize /\ m.fit
       IN  \/ /\ Compresses /\ WorthIt
              /\ withheld' = [withheld EXCEPT !.start = m]
              /\ pending' = Tail(pending) /\ UNCHANGED <<flushing, out>>
           \/ /\ Compresses /\ m.type = "body" /\ withheld.start # NoStart
              /\ Collects(m) /\ UNCHANGED out
           \/ /\ Compresses => ~WorthIt /\ (m.type = "start" \/ withheld.start = NoStart)
              /\ out' = Append(out, m) /\ pending' = Tail(pending)
              /\ withheld' = IF flushing /\ pending' = <<>> THEN [withheld EXCEPT !.start = NoStart]
                             ELSE withheld
              /\ UNCHANGED flushing
    /\ UNCHANGED <<request, progress, received, sender, answers, late>>

\* All is sent.
Ends ==
    /\ progress = "responding" /\ pending = <<>> /\ progress' = "done"
    /\ UNCHANGED <<request, received, sender, pending, flushing, withheld, answers, out, late>>

\* The endpoint's stream raises instead of yielding its next part.
StreamRaises ==
    /\ progress = "responding" /\ sender = Layers + 1 /\ ~flushing /\ pending # <<>>
    /\ Head(pending).type = "body" /\ (Len(pending) > 1 \/ Head(pending).size = 0)
    /\ Raised(sender)
    /\ UNCHANGED <<request, received, out>>

\* The time is up for the layers inside of the timeout, at any of their awaits.
TimesOut ==
    /\ Uses("timeout") /\ At("timeout") < sender /\ progress \in {"running", "saving", "responding"}
    /\ pending # <<>> \/ progress = "running"
    /\ Raised(At("timeout"))
    /\ UNCHANGED <<request, received, out>>

ExchangeNext == \/ Arrives \/ Receives \/ EndpointEnds \/ SavesSession
                \/ Sends \/ Ends \/ StreamRaises \/ TimesOut

ExchangeSpec == ExchangeInit /\ [][ExchangeNext]_exchangeVars

-----------------------------------------------------------------------------
\* The bytes of the body in the first messages of a sequence of them.
BytesTo(messages) ==
    LET bytes[n \in 0..Len(messages)] ==
            IF n = 0 THEN 0
            ELSE bytes[n - 1] + (IF messages[n].type = "body" THEN messages[n].size ELSE 0)
    IN  bytes

\* As long as no error is answered after a response has passed the layer that
\* answers it, the server is given one response: a start, parts of that response
\* only, of as many bytes as the start announces (HEAD has none), and a last part
\* with nothing after it; and the last part is there when all layers have returned.
\* A stream that promises no length keeps its parts.
AnsweredOnce ==
    LET n == Len(out)
        ended == n > 1 /\ ~out[n].more
    IN  ~late => /\ n > 0 => out[1].type = "start"
                 /\ \A i \in 2..n : /\ out[i].type = "body" /\ out[i].of = out[1].of
                                    /\ ~out[i].more => i = n
                 /\ ended /\ request.method = "GET" => out[1].length \in {Unknown, BytesTo(out)[n]}
                 /\ progress = "done" => ended
===============================================================================
