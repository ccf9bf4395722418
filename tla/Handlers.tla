------------------------------- MODULE Handlers -------------------------------
(***************************************************************************)
(* The processes the daemon runs for a job, and waits for: the script of   *)
(* an action (run_shell_wait), that of a dead drop, whose output is the    *)
(* reply (run_shell_capture), and objects, which run in a fork of the      *)
(* daemon and write one result (app_object_run_forked).                    *)
(*                                                                         *)
(* Output is counted in pieces, of which the pipe and the reply have room  *)
(* for so many.  A script may leave an offspring behind that has its       *)
(* output open.  read and waitpid go on when a signal interrupts them.     *)
(***************************************************************************)
EXTENDS Integers, FiniteSets

CONSTANTS
  PipeRoom,    \* pieces a pipe takes before a writer has to wait
  ReplyRoom,   \* pieces the response buffer takes
  OutputMax    \* bound: pieces a dead drop's script writes

ASSUME HandlersAssumption ==
  /\ PipeRoom \in Nat \ {0}
  /\ ReplyRoom \in Nat \ {0}
  /\ OutputMax \in Nat

VARIABLES
  doing,     \* of the daemon: "nothing", "forks", "reads", "reaps" or "ran"
  handler,   \* what it runs: "script", "drop" or "object"
  kept,      \* what it has of it: "reader", "writer" and "child"
  alive,     \* the child runs
  writers,   \* who has the other end of the pipe: "child", "offspring"
  unwritten, \* pieces they have yet to write
  pipe,      \* pieces in the pipe
  got        \* pieces in the response buffer

handlerVars == <<doing, handler, kept, alive, writers, unwritten, pipe, got>>
childVars == <<alive, writers, unwritten, pipe>>

HandlersInit ==
  /\ doing = "nothing" /\ handler = "script" /\ kept = {}
  /\ alive = FALSE /\ writers = {} /\ unwritten = 0 /\ pipe = 0 /\ got = 0

Piped == handler # "script"

-----------------------------------------------------------------------------
(* The daemon *)

\* The pipe is opened, for the handlers that have one.
StartHandler(h) ==
  /\ doing = "nothing"
  /\ doing' = "forks"
  /\ handler' = h
  /\ kept' = IF h = "script" THEN {} ELSE {"reader", "writer"}
  /\ UNCHANGED <<childVars, got>>

\* Objects and their results come in one piece, if they come to it.
Outputs == CASE handler = "script" -> {0}
             [] handler = "drop"   -> 0 .. OutputMax
             [] handler = "object" -> {0, 1}

Fork ==
  /\ doing = "forks"
  /\ doing' = IF Piped THEN "reads" ELSE "reaps"
  /\ kept' = (kept \ {"writer"}) \cup {"child"}
  /\ alive' = TRUE
  /\ writers' = IF Piped THEN {"child"} ELSE {}
  /\ unwritten' \in Outputs
  /\ UNCHANGED <<handler, pipe, got>>

\* No pipe, no process, or a constructor that does not split.
DoNotFork ==
  /\ doing = "forks"
  /\ doing' = "ran"
  /\ kept' = {}
  /\ UNCHANGED <<handler, childVars, got>>

\* What there is no room for is read all the same; an object has one piece.
Read ==
  /\ doing = "reads" /\ pipe > 0
  /\ pipe' = pipe - 1
  /\ got' = IF got < ReplyRoom THEN got + 1 ELSE got
  /\ IF handler = "object" THEN doing' = "reaps" /\ kept' = kept \ {"reader"}
                           ELSE UNCHANGED <<doing, kept>>
  /\ UNCHANGED <<handler, alive, writers, unwritten>>

\* The end of the output: nobody has the pipe to write.
ReadEnd ==
  /\ doing = "reads" /\ pipe = 0 /\ writers = {}
  /\ doing' = "reaps"
  /\ kept' = kept \ {"reader"}
  /\ UNCHANGED <<handler, childVars, got>>

\* Mutant of ReadFails: the error path does not wait for the child.
ReadFailsUnreaped ==
  /\ doing = "reads"
  /\ doing' = "ran"
  /\ kept' = kept \ {"reader"}
  /\ got' = 0
  /\ UNCHANGED <<handler, childVars>>

\* What was captured is no reply then.
ReadFails ==
  /\ doing = "reads"
  /\ doing' = "reaps"
  /\ kept' = kept \ {"reader"}
  /\ got' = 0
  /\ UNCHANGED <<handler, childVars>>

Reap ==
  /\ doing = "reaps" /\ ~ alive
  /\ doing' = "ran"
  /\ kept' = kept \ {"child"}
  /\ UNCHANGED <<handler, childVars, got>>

\* The job goes on to its reply; what is left behind is on its own.
Finish ==
  /\ doing = "ran"
  /\ doing' = "nothing" /\ handler' = "script"
  /\ alive' = FALSE /\ writers' = {} /\ unwritten' = 0 /\ pipe' = 0 /\ got' = 0
  /\ UNCHANGED kept

\* Only a dead drop has nothing to say when its script has not, or was not read.
Answers == doing = "ran" /\ (handler = "drop" => got > 0)

-----------------------------------------------------------------------------
(* The processes *)

Reading == "reader" \in kept

Spawn ==
  /\ alive /\ "child" \in writers
  /\ writers' = writers \cup {"offspring"}
  /\ UNCHANGED <<doing, handler, kept, alive, unwritten, pipe, got>>

Write ==
  /\ Reading /\ writers # {} /\ unwritten > 0 /\ pipe < PipeRoom
  /\ unwritten' = unwritten - 1
  /\ pipe' = pipe + 1
  /\ UNCHANGED <<doing, handler, kept, alive, writers, got>>

\* A process ends when it has written, or has left that to the other, or finds
\* nobody reading.
Written(w) == unwritten = 0 \/ ~ Reading \/ writers # {w}

ChildExits ==
  /\ alive /\ Written("child")
  /\ alive' = FALSE
  /\ writers' = writers \ {"child"}
  /\ UNCHANGED <<doing, handler, kept, unwritten, pipe, got>>

OffspringExits ==
  /\ "offspring" \in writers /\ Written("offspring")
  /\ writers' = writers \ {"offspring"}
  /\ UNCHANGED <<doing, handler, kept, alive, unwritten, pipe, got>>

-----------------------------------------------------------------------------

HandlerRuns == Fork \/ DoNotFork \/ Read \/ ReadEnd \/ ReadFails \/ Reap

ProcessRuns == Spawn \/ Write \/ ChildExits \/ OffspringExits

HandlersTypeOK ==
  /\ doing \in {"nothing", "forks", "reads", "reaps", "ran"}
  /\ handler \in {"script", "drop", "object"}
  /\ kept \subseteq {"reader", "writer", "child"}
  /\ alive \in BOOLEAN /\ writers \subseteq {"child", "offspring"}
  /\ unwritten \in (0 .. OutputMax) \cup {1} /\ pipe \in 0 .. PipeRoom /\ got \in 0 .. ReplyRoom
=============================================================================
