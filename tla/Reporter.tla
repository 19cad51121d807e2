------------------------------ MODULE Reporter -------------------------------
(***************************************************************************)
(* internal/server/server.go: the gRPC service around the Engine, and how  *)
(* the process ends.  Each RPC of Collector is accepted only while the     *)
(* server serves; Kill lets the server stop a moment after it was          *)
(* answered; a signal cancels the context of Serve.  GracefulStop is       *)
(* grpc-go's: it accepts nothing more and waits for the RPCs in flight.    *)
(***************************************************************************)
EXTENDS Collector

CONSTANT Signals   \* the process may receive SIGINT or SIGTERM

ASSUME SignalAssumption == Signals \in BOOLEAN

VARIABLES
    server,    \* the listener: serving, draining (GracefulStop) or stopped
    stopping   \* the goroutine of Handler.stop was started

reporterVars == <<vars, server, stopping>>

ReporterInit ==
    /\ Init
    /\ server = "serving"
    /\ stopping = FALSE

\* Mutated: only a Kill that failed stops the server.
StopRequestedOnError(r) == r \in KillCalls /\ reply[r] = "none" /\ reply'[r] = "error"

\* Handler.Kill returns the error of FinalizeInterrupted without stopping.
StopRequested(r) == r \in KillCalls /\ reply[r] = "none" /\ reply'[r] = "ok"

Handle(r) ==
    /\ pc[r] = "idle" => server = "serving"
    /\ Rpc(r)
    /\ stopping' = (stopping \/ StopRequested(r))
    /\ UNCHANGED server

\* The goroutine of stop.Do, after its sleep of ten milliseconds.
StopServer ==
    /\ stopping
    /\ server = "serving"
    /\ server' = "draining"
    /\ UNCHANGED <<vars, stopping>>

\* ctx.Done() in Serve: nothing finalizes the run.
Interrupt ==
    /\ Signals
    /\ server = "serving"
    /\ server' = "draining"
    /\ UNCHANGED <<vars, stopping>>

\* Mutated: Stop in place of GracefulStop, which does not wait.
DrainedAtOnce ==
    /\ server = "draining"
    /\ server' = "stopped"
    /\ pc' = [r \in Rpcs |-> "done"]
    /\ UNCHANGED <<engineVars, diskVars, localVars, reply, failed, stopping>>

Drained ==
    /\ server = "draining"
    /\ Quiescent
    /\ server' = "stopped"
    /\ UNCHANGED <<vars, stopping>>

\* Gauge sends nothing and no shutdown is under way.
Waiting ==
    /\ Quiescent
    /\ server = "stopped" \/ (server = "serving" /\ ~stopping)
    /\ UNCHANGED reporterVars

ReporterNext ==
    \/ \E r \in Rpcs : Handle(r)
    \/ StopServer
    \/ Interrupt
    \/ Drained
    \/ Waiting

ReporterSpec == ReporterInit /\ [][ReporterNext]_reporterVars

\* As in Collector; besides, the goroutine of stop.Do wakes up and GracefulStop
\* returns when nothing is in flight.
ReporterFairness ==
    /\ \A r \in Rpcs : WF_reporterVars(InFlight(r) /\ Handle(r))
    /\ WF_reporterVars(StopServer)
    /\ WF_reporterVars(Drained)
ReporterFairSpec == ReporterSpec /\ ReporterFairness

-----------------------------------------------------------------------------
Stopped == server = "stopped"

\* The process does not end in the middle of a report: when it has stopped, a
\* suite result that it accepted and that met no failure is complete on disk and
\* summarised, however Kill, the signal and the RPC overlapped.
ReportBeforeExit ==
    Stopped =>
        /\ \A f \in Finalizers : HasPlan(f) /\ f \notin failed => reply[f] = "ok"
        /\ CompleteReport
        /\ (\E f \in Finalizers : HasPlan(f) /\ f \notin failed) => summary # None

\* Kill that was answered stops the process, in spite of RPCs still in flight.
KillStops == \A k \in KillCalls : Done(k) /\ reply[k] = "ok" ~> Stopped
=============================================================================
