------------------------------- MODULE Supervisor -------------------------------
(***************************************************************************)
(* A supervising process: its threads handle the heartbeats of peers with  *)
(* a HeartbeatMonitor, and report to a SystemMonitor.  The first goes by   *)
(* steady_clock, the second by system_clock.                               *)
(***************************************************************************)
EXTENDS HeartbeatMonitor, SystemMonitor

supervisorVars == <<clocks, calls, heartbeats, monitor>>

SupervisorTypeOK == ClocksTypeOK /\ HeartbeatTypeOK /\ MonitorTypeOK

SupervisorInit == ClocksInit /\ HeartbeatInit /\ MonitorInit

TimePasses ==
    /\ Tick
    /\ UNCHANGED <<calls, heartbeats, monitor>>

ClockIsSet ==
    /\ Adjust
    /\ shift' = [n \in Nodes |-> shift[n] + (wall' - wall)]
    /\ UNCHANGED <<calls, heartbeats, settings, tables, callback, heard, recorded>>

Beat(t) ==
    /\ BeatStores(t) \/ \E p \in Peers : BeatCalled(t, p)
    /\ UNCHANGED <<clocks, monitor>>

\* A thread that is in a callback of the monitor does nothing else.
Report(t) ==
    /\ GoOn(t) \/ (alerts[t] = << >> /\ beatOf[t] = NoPeer /\ Operation(t))
    /\ UNCHANGED <<clocks, heartbeats>>

\* The owner of the monitor starts and stops it, and sets its callback.
Manage ==
    /\ (\E b \in BOOLEAN : SetRunning(b)) \/ SetAlertCallback
    /\ UNCHANGED <<clocks, calls, heartbeats>>

SupervisorNext == Manage \/ TimePasses \/ ClockIsSet \/ \E t \in Threads : Beat(t) \/ Report(t)

SupervisorSpec == SupervisorInit /\ [][SupervisorNext]_supervisorVars

\* A callback that has begun returns, throws or calls back.
SupervisorFairSpec == SupervisorSpec /\ \A t \in Threads : WF_supervisorVars(GoOn(t) /\ UNCHANGED <<clocks, heartbeats>>)

-----------------------------------------------------------------------------
(* Properties *)

\* The monitor answers again after every alert, whether its callback returns or
\* throws, unless the callback has called the monitor.
MonitorAnswers == mutex_ # NoThread ~> mutex_ = NoThread \/ reentered # {}
=============================================================================
