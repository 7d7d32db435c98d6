------------------------------ MODULE MCRunner ------------------------------
(***************************************************************************)
(* Small instances of the parts that have to go on: the turns of a Codex   *)
(* session, the commands of the session manager, the tunnel, and the service *)
(* that a person installs and controls.  The parts do not touch each other: *)
(* one is chosen, and the others stand still.                              *)
(***************************************************************************)
EXTENDS Naturals

CONSTANTS
    Builds, MaxTurns, MaxPieces, MaxCancels, Sessions, MaxCommands, MaxOptions,
    MaxConnections, MaxIds, HostLimit, RunnerLimit, MaxSetups, MaxTroubles

\* The bounds are numbers, Codex is one of the builds, and there is a session.
ASSUME MCRunnerAssumption ==
    /\ Builds \subseteq {"direct", "wrapped", "wrappedTwice", "wrappedFirst", "directFirst"}
    /\ MaxTurns \in Nat /\ MaxPieces \in Nat /\ MaxCancels \in Nat
    /\ Sessions # {} /\ MaxCommands \in Nat /\ MaxOptions \in Nat
    /\ MaxConnections \in Nat /\ MaxIds \in Nat
    /\ MaxSetups \in Nat /\ MaxTroubles \in Nat

VARIABLES
    part,       \* the part of the system that is checked
    build, turns, busy, written, running, pipe, mode, held, active, lastStarted,
    lastCompleted, buffer, requests, timers, log, cancelled, unnamed, cut, cancels,
    sessions, managerCommands, objects, uploads, status, options, contested,
    link, ws, hubWs, toHost, toRunner, hub, on, far, unsent,
    token, serviceCommands, config, current, unit, enabled, service, manager,
    overlapped, troubles

Turns == INSTANCE CodexTurns
Manager == INSTANCE RunnerSessions WITH
    commands <- managerCommands
Tunnels == INSTANCE Tunnel
Service == INSTANCE Installation WITH
    commands <- serviceCommands, MaxCommands <- MaxSetups

turnsVars == <<build, turns, busy, written, running, pipe, mode, held, active,
    lastStarted, lastCompleted, buffer, requests, timers, log, cancelled, unnamed, cut,
    cancels>>
managerVars == <<sessions, managerCommands, objects, uploads, status, options,
    contested>>
tunnelVars == <<link, ws, hubWs, toHost, toRunner, hub, on, far, unsent>>
serviceVars == <<token, serviceCommands, config, current, unit, enabled, service,
    manager, overlapped, troubles>>
vars == <<part, turnsVars, managerVars, tunnelVars, serviceVars>>

Init ==
    /\ part \in {"turns", "manager", "tunnel", "service"}
    /\ Turns!Init /\ (part # "turns" => build = "direct")
    /\ Manager!Init
    /\ Tunnels!Init
    /\ Service!Init /\ (part # "service" => manager = "systemd")

Next ==
    \/ /\ part = "turns" /\ Turns!Next
       /\ UNCHANGED <<part, managerVars, tunnelVars, serviceVars>>
    \/ /\ part = "manager" /\ Manager!Next
       /\ UNCHANGED <<part, turnsVars, tunnelVars, serviceVars>>
    \/ /\ part = "tunnel" /\ Tunnels!Next
       /\ UNCHANGED <<part, turnsVars, managerVars, serviceVars>>
    \/ /\ part = "service" /\ Service!Next
       /\ UNCHANGED <<part, turnsVars, managerVars, tunnelVars>>

Spec == Init /\ [][Next]_vars /\ Turns!Fairness /\ Manager!Fairness /\ Tunnels!Fairness /\ Service!Fairness

-----------------------------------------------------------------------------
(* The properties of the parts, named for the runs.                        *)

TypeOK == Turns!TypeOK /\ Manager!TypeOK /\ Tunnels!TypeOK /\ Service!TypeOK

\* The active turn of the session is one that Codex works on, or one whose end
\* is still underway; a turn is reported to end because Codex ended it, or because
\* of a cancel, and its start and its end are reported once
\* (CodexAppServerSession, #onNotification, cancel).
TurnIsWhole == Turns!TurnAgrees /\ Turns!EndsForCause /\ Turns!BoundaryOnce

\* Output is reported once, in order, within its turn, whatever form Codex
\* writes it in (CodexAppServerSession, #flushOutputBuffer, #onNotification).
OutputKept == Turns!OutputInTurn /\ Turns!OutputComplete

\* The Codex processes that run are those of the sessions in the map, and a
\* session that is shown running has one (RunnerSessionManager).
SessionsAgree == Manager!ProcessInMap /\ Manager!RunningRuns

\* No stream is open at one end of a tunnel only, once its frames are read
\* (tunnelHub, startTunnelClient).
EndsAgree == Tunnels!EndsAgree

\* What Codex has ended does not stay active for good
\* (CodexAppServerSession, #onNotification, cancel).
TurnEnds == Turns!TurnEnds

\* A command is answered or fails, even when Codex ends before its answer
\* (JsonRpcStdioClient, its exit); the host forgets a stream whose target has
\* ended (tunnelHub); a service that was enabled comes up, unless something
\* went wrong (runSetupWizard, systemdUserAutostart).
GoesOn == Manager!CommandGoesOn /\ Tunnels!HubForgets /\ Service!ServiceComesUp
=============================================================================
