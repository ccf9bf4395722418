------------------------------ MODULE Lifecycle ------------------------------
(***************************************************************************)
(* siglatchd from its first instruction to its last: Bootstrap brings the  *)
(* subsystems up, main prepares the daemon (startup.c), listens and runs   *)
(* the loop of DaemonReplies (runner.c), whose jobs run the processes of   *)
(* Handlers, cleans up behind it, and Bootstrap takes the subsystems down. *)
(* SIGINT and SIGTERM (signal.c) come between any two of these steps.      *)
(* knocker only boots and stops.                                           *)
(*                                                                         *)
(* Every step whose code has an error path may take it.                    *)
(***************************************************************************)
EXTENDS Bootstrap, DaemonReplies, Handlers

CONSTANTS
  Preparation,  \* what main acquires before the loop, in order
  Undone,       \* thing -> what the failure to acquire it releases
  Released,     \* subsystem -> what it releases as it stops
  MaxSignals    \* bound: signals that come in a behaviour

\* What the runner and what main give back themselves.
RunnerHolds == {"crypto session", "codec session", "mux"}
MainHolds == {"socket", "listener nonces"}

CodecModules == {"codec v1", "codec v2", "codec v3", "codec v4"}

Things == Subsystems(Preparation)
ThingsBefore(i) == {Preparation[j] : j \in 1 .. i - 1}

\* A step that skips the loop finds nothing of the runner's, or takes it back itself;
\* and what neither the runner nor main gives back, a subsystem does as it stops.
ASSUME ReleaseAssumption ==
  /\ MaxSignals \in Nat
  /\ Preparation \in Seq(STRING)
  /\ \A i \in DOMAIN Preparation :
       /\ Preparation[i] \in {"handlers", "codec context"} =>
            ThingsBefore(i) \cap RunnerHolds = {}
       /\ Preparation[i] \notin {"handlers", "log file"} =>
            ThingsBefore(i) \cap RunnerHolds \subseteq Undone[Preparation[i]]
  /\ \A thing \in Things \ (RunnerHolds \cup MainHolds) :
       \E l \in Layers("siglatchd") : \E s \in Subsystems(Stop["siglatchd"][l]) :
         thing \in Released[s]

\* The codec context is there before the modules, and what frees it is not done
\* before all of them are.
ASSUME ContextAssumption ==
  /\ \A i \in DOMAIN Preparation :
       /\ Preparation[i] \in CodecModules => "codec context" \in ThingsBefore(i)
       /\ "codec context" \in Undone[Preparation[i]] => CodecModules \subseteq Undone[Preparation[i]]
  /\ \A l \in Layers("siglatchd") : \A i \in DOMAIN Stop["siglatchd"][l] :
       "codec context" \in Released[Stop["siglatchd"][l][i]] =>
         \A c \in CodecModules : \E j \in 1 .. i : c \in Released[Stop["siglatchd"][l][j]]

VARIABLES
  main,        \* "prepare", "loop", "cleanup" or "leave"
  steps,       \* what main has still to acquire
  held,        \* what main has acquired, or a subsystem on its behalf
  exit,        \* should_exit of the process
  deliveries,  \* delivery_count of the process
  signals,     \* signals so far
  killed       \* one of them ended the process

mainVars == <<main, steps, held>>
signalVars == <<exit, deliveries, signals, killed>>
loopVars == <<repliesVars, handlerVars>>
vars == <<bootVars, loopVars, mainVars, signalVars>>

Init ==
  /\ BootInit /\ RepliesInit /\ HandlersInit
  /\ main = "prepare" /\ steps = Preparation /\ held = {}
  /\ exit = FALSE /\ deliveries = 0 /\ signals = 0 /\ killed = FALSE

-----------------------------------------------------------------------------
(* Up and down *)

\* The daemon stops when main is through.
Booting ==
  /\ ~ killed
  /\ (phase = "running" /\ program = "siglatchd") => main = "leave"
  /\ BootNext
  /\ held' = IF phase \in {"stopping", "unwinding"} /\ up' # up
             THEN held \ Released[Head(todo)] ELSE held
  /\ UNCHANGED <<loopVars, main, steps, signalVars>>

-----------------------------------------------------------------------------
(* main *)

InMain == phase = "running" /\ program = "siglatchd" /\ ~ killed

Preparing == InMain /\ main = "prepare"

\* The state of the process is reset when the handlers are installed.
Acquire ==
  /\ Preparing /\ steps # <<>>
  /\ held' = held \cup {Head(steps)}
  /\ steps' = Tail(steps)
  /\ IF Head(steps) = "handlers" THEN exit' = FALSE /\ deliveries' = 0
                                 ELSE UNCHANGED <<exit, deliveries>>
  /\ UNCHANGED <<bootVars, loopVars, main, signals, killed>>

\* Without its handlers or a log file the daemon goes on.
AcquireFails ==
  /\ Preparing /\ steps # <<>> /\ Head(steps) \notin {"handlers", "log file"}
  /\ held' = held \ Undone[Head(steps)]
  /\ main' = "cleanup"
  /\ UNCHANGED <<bootVars, loopVars, steps, signalVars>>

\* Options that are wrong, or ask for help or the version; or for the configuration.
NothingToRun ==
  /\ Preparing /\ steps # <<>> /\ Head(steps) \in {"handlers", "codec context"}
  /\ main' = "cleanup"
  /\ UNCHANGED <<bootVars, loopVars, steps, held, signalVars>>

BeginLoop ==
  /\ Preparing /\ steps = <<>>
  /\ main' = "loop"
  /\ UNCHANGED <<bootVars, loopVars, steps, held, signalVars>>

\* Mutant of MainCleanup: it frees the codec context with the listener.
MainCleanupFrees ==
  /\ InMain /\ main = "cleanup"
  /\ held' = held \ (MainHolds \cup {"codec context"})
  /\ main' = "leave"
  /\ UNCHANGED <<bootVars, loopVars, steps, signalVars>>

\* Mutant of MainCleanup: the socket stays open when there was no loop.
MainCleanupLooped ==
  /\ InMain /\ main = "cleanup"
  /\ held' = held \ (IF turn = "stopped" THEN MainHolds ELSE MainHolds \ {"socket"})
  /\ main' = "leave"
  /\ UNCHANGED <<bootVars, loopVars, steps, signalVars>>

MainCleanup ==
  /\ InMain /\ main = "cleanup"
  /\ held' = held \ MainHolds
  /\ main' = "leave"
  /\ UNCHANGED <<bootVars, loopVars, steps, signalVars>>

-----------------------------------------------------------------------------
(* The loop *)

Looping == InMain /\ main = "loop" /\ turn # "stopped"

\* One step of it.  Only its top looks at the flag: a signal that comes between
\* that look and the wait of the pump is one that comes after the pump.
LoopStep(A) ==
  /\ Looping
  /\ turn = "pump" => ~ exit
  /\ A
  /\ UNCHANGED <<bootVars, mainVars, signalVars>>

\* Nothing runs for a job: one that is refused or built in is over at once.
Idle == doing = "nothing" /\ UNCHANGED handlerVars

\* The handler of the job has returned.
JobEnds ==
  /\ Finish
  /\ IF ~ Answers THEN RunSilentJob
     ELSE \E c \in Sizes : (handler = "drop" => c = 1) /\ RunJobAndReply(c)

JobBegins ==
  /\ turn = "jobs" /\ jobs # <<>>
  /\ \E h \in {"script", "drop", "object"} : StartHandler(h)
  /\ UNCHANGED repliesVars

HandlerStep(A) == LoopStep(A /\ UNCHANGED repliesVars)

\* The queues go with the loop.
LoopOver ==
  /\ turn' = "stopped" /\ jobs' = <<>> /\ egress' = <<>>
  /\ UNCHANGED <<rebound, requests, sent, answered, handlerVars>>
  /\ UNCHANGED <<bootVars, mainVars, signalVars>>

LeaveLoop == Looping /\ turn = "pump" /\ exit /\ LoopOver

\* The wait or a receive fails, or the socket for a new mux.
PumpFails == Looping /\ turn = "pump" /\ ~ exit /\ LoopOver

\* The cleanup label of the runner; main never hears why.
RunnerCleanup ==
  /\ InMain /\ main = "loop" /\ turn = "stopped"
  /\ held' = held \ RunnerHolds
  /\ main' = "cleanup"
  /\ UNCHANGED <<bootVars, loopVars, steps, signalVars>>

-----------------------------------------------------------------------------
(* Signals *)

\* (sig_atomic_t)~0 >> 1, with the sign shifted in.
CountLimit == (-1) \div 2

Counted == IF deliveries < CountLimit THEN deliveries + 1 ELSE deliveries

\* Mutant of Handled: the flag is for a signal that found the loop at work.
HandledLooping ==
  /\ deliveries' = Counted
  /\ killed' = (Counted > 1)
  /\ exit' = (exit \/ main = "loop")
  /\ UNCHANGED <<bootVars, loopVars, mainVars>>

\* lib_signal_handle, under LIB_SIGNAL_POLICY_GRACEFUL_THEN_HARD.
Handled ==
  /\ deliveries' = Counted
  /\ killed' = (Counted > 1)
  /\ exit' = TRUE
  /\ UNCHANGED <<bootVars, loopVars, mainVars>>

\* One that comes while the pump waits ends the wait, and with it the loop.
HandledInWait ==
  /\ Looping /\ turn = "pump" /\ ~ exit
  /\ deliveries' = Counted
  /\ killed' = (Counted > 1)
  /\ exit' = TRUE
  /\ turn' = "stopped" /\ jobs' = <<>> /\ egress' = <<>>
  /\ UNCHANGED <<rebound, requests, sent, answered, handlerVars, bootVars, mainVars>>

\* What a signal does where nobody handles it.
Default ==
  /\ killed' = TRUE
  /\ UNCHANGED <<exit, deliveries, bootVars, loopVars, mainVars>>

Signal ==
  /\ program = "siglatchd" /\ phase # "ended" /\ ~ killed
  /\ signals < MaxSignals
  /\ signals' = signals + 1
  /\ IF "handlers" \in held THEN Handled \/ HandledInWait ELSE Default

-----------------------------------------------------------------------------

MainStep ==
  Acquire \/ AcquireFails \/ NothingToRun \/ BeginLoop \/ RunnerCleanup \/ MainCleanup

LoopNext ==
  \/ LoopStep(Idle /\ RepliesNext)
  \/ LoopStep(JobBegins)
  \/ HandlerStep(HandlerRuns)
  \/ HandlerStep(ProcessRuns)
  \/ LoopStep(JobEnds)
  \/ LeaveLoop
  \/ PumpFails

Next == Booting \/ MainStep \/ LoopNext \/ Signal

Spec == Init /\ [][Next]_vars

\* The process runs, a wait is over when its time is, the socket does not refuse a
\* flush for ever, and what a job runs writes and ends, with what it left behind.
FairSpec ==
  /\ Spec
  /\ WF_vars(Booting)
  /\ WF_vars(MainStep)
  /\ WF_vars(LeaveLoop)
  /\ WF_vars(LoopStep(Idle /\ DrainEnd))
  /\ WF_vars(LoopStep(Idle /\ ReplaceMux))
  /\ WF_vars(LoopStep(Idle /\ RunJobs))
  /\ WF_vars(HandlerStep(HandlerRuns))
  /\ WF_vars(HandlerStep(Write))
  /\ WF_vars(HandlerStep(ChildExits))
  /\ WF_vars(HandlerStep(OffspringExits))
  /\ WF_vars(LoopStep(JobEnds))
  /\ WF_vars(LoopStep(Idle /\ \E k \in 0 .. Len(egress) : Pump(k)))
  /\ SF_vars(LoopStep(Idle /\ Pump(Len(egress))))

-----------------------------------------------------------------------------

Gone == killed \/ phase \in {"ended", "aborted"}

TypeOK ==
  /\ BootTypeOK
  /\ RepliesTypeOK
  /\ HandlersTypeOK
  /\ main \in {"prepare", "loop", "cleanup", "leave"}
  /\ \E n \in 0 .. Len(Preparation) : steps = SubSeq(Preparation, n + 1, Len(Preparation))
  /\ main = "loop" => held = ToSet(Preparation)
  /\ deliveries \in 0 .. MaxSignals

\* A process that gets a signal ends, wherever in its startup, its loop or its
\* shutdown the signal comes: no reset clears the flag, no turn of the loop misses it.
SignalEnds == signals > 0 ~> Gone

\* On every way out, with the preparation failing at any of its steps, the loop at
\* any of its turns and a signal at any time, the process gives back what it has
\* acquired: the cleanups of startup.c, runner.c and main.c and the shutdowns of
\* the subsystems leave no gap between them.  Nor does a handler, over its own error
\* paths, leave the loop a pipe or a child.
EndsHoldingNothing ==
  /\ phase = "ended" => held = {}
  /\ doing \in {"nothing", "ran"} => kept = {}

\* A codec module has a pointer to the codec context, which is the workspace's:
\* no unwinding and no shutdown frees the context before it shuts the modules down.
ModulesHaveContext ==
  held \cap CodecModules # {} => "codec context" \in held

\* docs/CHANGELOG_2026-03-07.md: "first `SIGINT` / `SIGTERM` requests graceful
\* shutdown", "second `SIGINT` / `SIGTERM` forces hard exit".
SecondSignalKills ==
  [][signals' > signals /\ exit /\ "handlers" \in held => killed']_vars
=============================================================================
