------------------------------ MODULE Lifespan ------------------------------
(***************************************************************************)
(* Startup and shutdown of an application (application/lifecycle.py, the   *)
(* lifespan protocol in application/app.py, plugins/manager.py): lifespan  *)
(* contexts are entered, startup handlers and plugins called; at shutdown  *)
(* plugins and handlers are called and the contexts exited.  Each of the   *)
(* steps may raise.                                                        *)
(*                                                                         *)
(* The lifespan task is one coroutine, so that its steps come in order;    *)
(* the server may cancel it while it waits for one, and, as a test client  *)
(* does, go on with a new one on the same application.                     *)
(***************************************************************************)
EXTENDS Integers, Sequences, SequencesExt

CONSTANTS Contexts, \* number of lifespan contexts
          Handlers, \* number of startup handlers, and of shutdown handlers
          Plugins,  \* number of plugins
          MaxBoots  \* bound: startups

ASSUME LifespanAssumption ==
    Contexts \in Nat /\ Handlers \in Nat /\ Plugins \in Nat /\ MaxBoots \in Nat

VARIABLES
    phase,   \* where the lifespan task is
    step,    \* the context, handler or plugin it is at
    stack,   \* _context_stack: the contexts to exit, none when it is None
    local,   \* the stack that startup() has not yet assigned
    open,    \* the contexts that were entered and not exited, oldest first
    boots,
    excused, \* history: a plugin raised, or the task was cancelled in startup()
    disorder \* history: a context was exited before one that was entered later

lifespanVars == <<phase, step, stack, local, open, boots, excused, disorder>>

NoStack == <<0>>

LifespanTypeOK ==
    /\ phase \in {"waiting", "entering", "starting", "unwinding", "plugging", "failed",
                  "serving", "unplugging", "stopping", "closing", "stopped"}
    /\ step \in 0..Contexts + Handlers + Plugins
    /\ stack = NoStack \/ stack \in Seq(1..Contexts)
    /\ local \in Seq(1..Contexts) /\ open \in Seq(1..Contexts)
    /\ boots \in 0..MaxBoots /\ excused \in BOOLEAN /\ disorder \in BOOLEAN

LifespanInit ==
    /\ phase = "waiting" /\ step = 0 /\ stack = NoStack /\ local = <<>>
    /\ open = <<>> /\ boots = 0 /\ excused = FALSE /\ disorder = FALSE

Proceeds(to, n) == phase' = to /\ step' = n

-----------------------------------------------------------------------------
(* lifespan.startup *)

\* startup() does nothing more when a stack is there.
Boot ==
    /\ phase = "waiting" /\ boots < MaxBoots /\ boots' = boots + 1
    /\ IF stack # NoStack THEN Proceeds("plugging", 0) ELSE Proceeds("entering", 0)
    /\ UNCHANGED <<stack, local, open, excused, disorder>>

EnterContext ==
    /\ phase = "entering" /\ step < Contexts
    /\ Proceeds("entering", step + 1)
    /\ local' = Append(local, step + 1) /\ open' = Append(open, step + 1)
    /\ UNCHANGED <<stack, boots, excused, disorder>>

ContextsEntered ==
    /\ phase = "entering" /\ step = Contexts
    /\ Proceeds("starting", 0)
    /\ UNCHANGED <<stack, local, open, boots, excused, disorder>>

CallStartup ==
    /\ phase = "starting" /\ step < Handlers
    /\ Proceeds("starting", step + 1)
    /\ UNCHANGED <<stack, local, open, boots, excused, disorder>>

\* The stack becomes the lifecycle's when every handler has returned.
Started ==
    /\ phase = "starting" /\ step = Handlers
    /\ Proceeds("plugging", 0)
    /\ stack' = local /\ local' = <<>>
    /\ UNCHANGED <<open, boots, excused, disorder>>

\* A context or a handler raises: the contexts entered so far are exited.
StartupRaises ==
    /\ \/ phase = "entering" /\ step < Contexts
       \/ phase = "starting" /\ step < Handlers
    /\ Proceeds("unwinding", 0)
    /\ UNCHANGED <<stack, local, open, boots, excused, disorder>>

\* aclose() exits the contexts in reverse order, whatever they raise.
Exits(context) ==
    /\ \E i \in DOMAIN open : open[i] = context /\ open' = RemoveAt(open, i)
    /\ disorder' = (disorder \/ Last(open) # context)

Unwind ==
    /\ phase = "unwinding" /\ local # <<>>
    /\ Exits(Last(local)) /\ local' = Front(local)
    /\ UNCHANGED <<phase, step, stack, boots, excused>>

\* lifespan.startup.failed; the task waits for the next message.
Unwound ==
    /\ phase = "unwinding" /\ local = <<>>
    /\ Proceeds("failed", 0)
    /\ UNCHANGED <<stack, local, open, boots, excused, disorder>>

StartPlugin ==
    /\ phase = "plugging" /\ step < Plugins
    /\ Proceeds("plugging", step + 1)
    /\ UNCHANGED <<stack, local, open, boots, excused, disorder>>

PluginRaises ==
    /\ phase \in {"plugging", "unplugging"} /\ step < Plugins
    /\ Proceeds(IF phase = "plugging" THEN "failed" ELSE "stopped", 0)
    /\ excused' = TRUE
    /\ UNCHANGED <<stack, local, open, boots, disorder>>

Serve ==
    /\ phase = "plugging" /\ step = Plugins
    /\ Proceeds("serving", 0)
    /\ UNCHANGED <<stack, local, open, boots, excused, disorder>>

-----------------------------------------------------------------------------
(* lifespan.shutdown *)

\* The server may also send it after a startup that failed.
Stop ==
    /\ phase \in {"serving", "failed"}
    /\ Proceeds("unplugging", 0)
    /\ UNCHANGED <<stack, local, open, boots, excused, disorder>>

StopPlugin ==
    /\ phase = "unplugging" /\ step < Plugins
    /\ Proceeds("unplugging", step + 1)
    /\ UNCHANGED <<stack, local, open, boots, excused, disorder>>

PluginsStopped ==
    /\ phase = "unplugging" /\ step = Plugins
    /\ Proceeds("stopping", 0)
    /\ UNCHANGED <<stack, local, open, boots, excused, disorder>>

CallShutdown ==
    /\ phase = "stopping" /\ step < Handlers
    /\ Proceeds("stopping", step + 1)
    /\ UNCHANGED <<stack, local, open, boots, excused, disorder>>

\* Mutant of ShutdownEnds: what a handler raises ends shutdown() at once.
ShutdownEndsEarly ==
    /\ phase = "stopping"
    /\ Proceeds(IF step < Handlers THEN "stopped" ELSE "closing", 0)
    /\ local' = IF stack = NoStack THEN <<>> ELSE stack
    /\ stack' = NoStack
    /\ UNCHANGED <<open, boots, excused, disorder>>

\* All shutdown handlers were called, or one has raised: the contexts are next.
ShutdownEnds ==
    /\ phase = "stopping"
    /\ Proceeds("closing", 0)
    /\ local' = IF stack = NoStack THEN <<>> ELSE stack
    /\ stack' = NoStack
    /\ UNCHANGED <<open, boots, excused, disorder>>

Close ==
    /\ phase = "closing" /\ local # <<>>
    /\ Exits(Last(local)) /\ local' = Front(local)
    /\ UNCHANGED <<phase, step, stack, boots, excused>>

Closed ==
    /\ phase = "closing" /\ local = <<>>
    /\ Proceeds("stopped", 0)
    /\ UNCHANGED <<stack, local, open, boots, excused, disorder>>

-----------------------------------------------------------------------------
\* The server cancels the task in a context's entry or in a startup handler:
\* a cancellation is no Exception, and nothing is exited.
CancelStartup ==
    /\ phase \in {"entering", "starting"}
    /\ Proceeds("stopped", 0)
    /\ local' = <<>> /\ excused' = (excused \/ open # <<>>)
    /\ UNCHANGED <<stack, open, boots, disorder>>

\* A new lifespan task on the same application.
Again ==
    /\ phase = "stopped" /\ boots < MaxBoots
    /\ Proceeds("waiting", 0)
    /\ UNCHANGED <<stack, local, open, boots, excused, disorder>>

LifespanNext ==
    \/ Boot \/ EnterContext \/ ContextsEntered \/ CallStartup \/ Started
    \/ StartupRaises \/ Unwind \/ Unwound \/ StartPlugin \/ PluginRaises \/ Serve
    \/ Stop \/ StopPlugin \/ PluginsStopped \/ CallShutdown \/ ShutdownEnds
    \/ Close \/ Closed \/ CancelStartup \/ Again

LifespanSpec == LifespanInit /\ [][LifespanNext]_lifespanVars

-----------------------------------------------------------------------------
\* When the application has answered that its startup failed or its shutdown
\* ended, every context that was entered has been exited, in reverse order and
\* whichever context or handler raised, unless a plugin raised or startup() was
\* cancelled; while it serves, every context is open.
ContextsAreClosed ==
    ~excused =>
        /\ phase \in {"failed", "stopped", "waiting"} => open = <<>>
        /\ phase = "serving" => Len(open) = Contexts
        /\ ~disorder
=============================================================================
