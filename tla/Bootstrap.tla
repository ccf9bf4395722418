------------------------------ MODULE Bootstrap ------------------------------
(***************************************************************************)
(* How siglatchd (lifecycle.c) and knocker (main.c) bring up their three   *)
(* layers, the libraries, the shared parts and the application, and take   *)
(* them down again: each layer starts its subsystems in an order of its    *)
(* own, any of them that can fail may fail, a layer that fails unwinds     *)
(* what it has started, and the layers below it are shut down.             *)
(*                                                                         *)
(* The orders are constants: DaemonBoot and ClientBoot have those of the   *)
(* two programs.  Left out: what a subsystem does while it is up.          *)
(***************************************************************************)
EXTENDS Integers, Sequences, FiniteSetsExt

CONSTANTS
  Start,         \* for each program and layer, bottom first: its subsystems as started
  Unwind,        \* ... as a failed start stops those that are up
  Stop,          \* ... as an orderly shutdown stops them
  MayFail,       \* for each program: the subsystems whose start can be refused
  LastCalls,     \* ... <<a, b>>: subsystem a calls b as it stops, if a log is open
  LeftUp,        \* ... the subsystems that have a stop function no shutdown calls
  BootCleansUp   \* ... a failed boot shuts the layers down before the caller does

Programs == DOMAIN Start
Subsystems(order) == {order[i] : i \in DOMAIN order}
Layers(p) == DOMAIN Start[p]
All(p) == UNION {Subsystems(Start[p][l]) : l \in Layers(p)}

\* A layer stops only its own, and all of them but LeftUp.
ASSUME BootstrapAssumption ==
  \A p \in Programs :
    /\ Layers(p) # {}
    /\ {Start[p], Unwind[p], Stop[p]} \subseteq Seq(Seq(STRING))
    /\ DOMAIN Unwind[p] = Layers(p) /\ DOMAIN Stop[p] = Layers(p)
    /\ \A l, m \in Layers(p) : l # m => Subsystems(Start[p][l]) \cap Subsystems(Start[p][m]) = {}
    /\ \A l \in Layers(p) :
         Subsystems(Unwind[p][l]) \cup Subsystems(Stop[p][l]) \subseteq Subsystems(Start[p][l])
    /\ \A l \in Layers(p) : Subsystems(Start[p][l]) \subseteq Subsystems(Stop[p][l]) \cup LeftUp[p]
    /\ MayFail[p] \subseteq All(p)
    /\ LastCalls[p] \subseteq All(p) \X All(p)
    /\ BootCleansUp[p] \in BOOLEAN

NamesOnce(order) == \A i, j \in DOMAIN order : order[i] = order[j] => i = j

\* No list of shutdowns names a subsystem twice, and a fail label names whatever
\* started before one of the starts that jump to it.
ASSUME OrdersAssumption ==
  \A p \in Programs : \A l \in Layers(p) :
    /\ NamesOnce(Unwind[p][l]) /\ NamesOnce(Stop[p][l])
    /\ \A j \in DOMAIN Start[p][l] :
         Start[p][l][j] \in MayFail[p] =>
           \A i \in 1 .. j - 1 : Start[p][l][i] \in Subsystems(Unwind[p][l])

VARIABLES
  program, \* the one that runs
  phase,   \* "starting", "unwinding", "running", "stopping", "returned", "ended", "aborted"
  layer,   \* the layer phase is about
  todo,    \* what is left to start or to stop of it
  up,      \* the subsystems that are up
  marked,  \* layers marked as initialised: g_lifecycle_*_initialized, *_initialized
  calls,   \* calls of siglatch_shutdown to come
  refused, \* the subsystem whose start failed, if one did
  logOpen  \* lib.log has a file of its own

bootVars == <<program, phase, layer, todo, up, marked, calls, refused, logOpen>>

BootInit ==
  /\ program \in Programs
  /\ phase = "starting" /\ layer = 1 /\ todo = Start[program][1]
  /\ up = {} /\ marked = {} /\ calls = 1 /\ refused = {} /\ logOpen = FALSE

-----------------------------------------------------------------------------

StartNext ==
  /\ phase = "starting" /\ todo # <<>>
  /\ up' = up \cup {Head(todo)}
  /\ todo' = Tail(todo)
  /\ UNCHANGED <<phase, layer, marked, calls, refused, program, logOpen>>

LayerUp ==
  /\ phase = "starting" /\ todo = <<>>
  /\ marked' = marked \cup {layer}
  /\ \/ /\ layer < Len(Start[program])
        /\ layer' = layer + 1 /\ todo' = Start[program][layer + 1]
        /\ UNCHANGED phase
     \/ /\ layer = Len(Start[program])
        /\ phase' = "running"
        /\ UNCHANGED <<layer, todo>>
  /\ UNCHANGED <<up, calls, refused, program, logOpen>>

\* The layer's fail label.
StartFails ==
  /\ phase = "starting" /\ todo # <<>> /\ Head(todo) \in MayFail[program]
  /\ phase' = "unwinding"
  /\ todo' = Unwind[program][layer]
  /\ refused' = {Head(todo)}
  /\ UNCHANGED <<layer, up, marked, calls, program, logOpen>>

\* Mutant of PassOver: the flag of a subsystem is not set when it has started.
PassOverUp ==
  /\ phase = "unwinding" /\ todo # <<>>
  /\ todo' = Tail(todo)
  /\ UNCHANGED <<phase, layer, up, marked, calls, refused, program, logOpen>>

\* The label looks at a flag for each subsystem and leaves alone what is not up.
PassOver ==
  /\ phase = "unwinding" /\ todo # <<>> /\ Head(todo) \notin up
  /\ todo' = Tail(todo)
  /\ UNCHANGED <<phase, layer, up, marked, calls, refused, program, logOpen>>

\* One is stopped: the next of the label that is up, or of a shutdown, which does
\* not ask.
Stopping == phase = "stopping" \/ (phase = "unwinding" /\ Head(todo) \in up)

\* What the subsystem that is stopped next calls.
Needs == {call[2] : call \in {c \in LastCalls[program] : logOpen /\ c[1] = Head(todo)}}

StopNext ==
  /\ todo # <<>> /\ Stopping /\ Needs \subseteq up
  /\ up' = up \ {Head(todo)}
  /\ todo' = Tail(todo)
  /\ UNCHANGED <<phase, layer, marked, calls, refused, program, logOpen>>

\* print_require_ready: a library used when it is down aborts the process.
StopAborts ==
  /\ todo # <<>> /\ Stopping /\ ~ (Needs \subseteq up)
  /\ phase' = "aborted"
  /\ UNCHANGED <<layer, todo, up, marked, calls, refused, program, logOpen>>

\* siglatch_shutdown, knocker's cleanup: the marked layers from the top.
Descend(left) ==
  IF left = {} THEN phase' = "returned" /\ UNCHANGED <<layer, todo>>
  ELSE phase' = "stopping" /\ layer' = Max(left) /\ todo' = Stop[program][Max(left)]

\* Mutant of Unwound: the boot that failed returns and leaves the layers below up.
UnwoundOnly ==
  /\ phase = "unwinding" /\ todo = <<>>
  /\ phase' = "ended"
  /\ UNCHANGED <<layer, todo, up, marked, calls, refused, program, logOpen>>

\* The fail label has run; the layers below the one that failed are stopped.
Unwound ==
  /\ phase = "unwinding" /\ todo = <<>>
  /\ Descend(marked)
  /\ calls' = IF BootCleansUp[program] THEN calls + 1 ELSE calls
  /\ UNCHANGED <<up, marked, refused, program, logOpen>>

\* The program has run and was told to log into a file, or not.
BeginStop ==
  /\ phase = "running"
  /\ logOpen' \in BOOLEAN
  /\ Descend(marked)
  /\ UNCHANGED <<up, marked, calls, refused, program>>

\* Mutant of LayerDown: the layer stays marked, and the caller shuts it down again.
LayerDownMarked ==
  /\ phase = "stopping" /\ todo = <<>>
  /\ Descend({l \in marked : l < layer})
  /\ UNCHANGED <<up, marked, calls, refused, program, logOpen>>

\* The flag of a layer is cleared when the layer is down.
LayerDown ==
  /\ phase = "stopping" /\ todo = <<>>
  /\ marked' = marked \ {layer}
  /\ Descend(marked \ {layer})
  /\ UNCHANGED <<up, calls, refused, program, logOpen>>

Returned ==
  /\ phase = "returned"
  /\ calls' = calls - 1
  /\ IF calls = 1 THEN phase' = "ended" /\ UNCHANGED <<layer, todo>> ELSE Descend(marked)
  /\ UNCHANGED <<up, marked, refused, program, logOpen>>

BootNext ==
  \/ StartNext \/ LayerUp \/ BeginStop
  \/ StartFails \/ PassOver \/ Unwound
  \/ StopNext \/ StopAborts \/ LayerDown \/ Returned


-----------------------------------------------------------------------------

BootTypeOK ==
  /\ phase \in {"starting", "unwinding", "running", "stopping", "returned", "ended", "aborted"}
  /\ program \in Programs /\ layer \in Layers(program) /\ todo \in Seq(All(program))
  /\ up \subseteq All(program) /\ marked \subseteq Layers(program)
  /\ logOpen \in BOOLEAN
  /\ calls \in 0 .. 2 /\ refused \subseteq MayFail[program]
  /\ phase \in {"returned", "ended"} => marked = {}

\* The comment above shutdown_lib, in both programs: "Dependencies are respected" and
\* logging stays alive, so that no stop calls a library that is down already.
StopsDoNotAbort == phase # "aborted"

\* While the start of a layer unwinds: its order names every subsystem that is
\* up, whichever of them it was that failed.
UnwindingReachesAll ==
  phase = "unwinding" => up \cap Subsystems(Start[program][layer]) \subseteq Subsystems(todo)

\* What a shutdown stops was up: it asks no flag, and no path, with a boot that
\* cleans up and a caller that does it again, shuts a subsystem down twice or
\* before it was started.
StopsOnlyRunning ==
  [][(phase = "stopping" /\ todo # <<>>) => Head(todo) \in up]_bootVars

\* A program that ends, however far its boot came, which start failed and how often
\* it was told to shut down, has stopped all it had started but LeftUp: "in reverse
\* order of init", as lib.c asks above shutdown_lib, but not all of it.
EndsWithNothingUp == phase = "ended" => up \subseteq LeftUp[program]
=============================================================================
