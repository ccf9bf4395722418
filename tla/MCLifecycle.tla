----------------------------- MODULE MCLifecycle -----------------------------
(***************************************************************************)
(* Lifecycle with the orders of both programs.                             *)
(***************************************************************************)
EXTENDS Lifecycle

D == INSTANCE DaemonBoot
C == INSTANCE ClientBoot

Starts == [siglatchd |-> D!DaemonStart, knocker |-> C!ClientStart]
Unwinds == [siglatchd |-> D!DaemonUnwind, knocker |-> C!ClientUnwind]
Stops == [siglatchd |-> D!DaemonStop, knocker |-> C!ClientStop]
Failing == [siglatchd |-> D!DaemonMayFail, knocker |-> C!ClientMayFail]
Calls == [siglatchd |-> D!DaemonLastCalls, knocker |-> C!ClientLastCalls]
Forgotten == [siglatchd |-> D!DaemonLeftUp, knocker |-> {}]
CleanBoots == [siglatchd |-> TRUE, knocker |-> FALSE]

Prepared == D!DaemonPreparation
GivenBack == D!DaemonUndone

EverySubsystem ==
  UNION {Subsystems(Starts[p][l]) : p \in DOMAIN Starts, l \in 1 .. 3}
Releases == [s \in EverySubsystem |-> D!DaemonReleases(s)]
=============================================================================
