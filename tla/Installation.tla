---------------------------- MODULE Installation ----------------------------
(***************************************************************************)
(* Rootgrid on one machine: the configuration, the release that "current"   *)
(* names, the unit of the user service, and the commands that change them. *)
(*                                                                         *)
(* A runner is installed with a script from the host, which takes a token   *)
(* of 15 minutes twice.  The script and "rootgrid setup" refuse to          *)
(* overwrite a configuration, but look for one long before they write it;   *)
(* install-service, update-local and remove-service read it first and write *)
(* it last.  The file is not written at once, and a service that cannot     *)
(* read it ends and is started again a second later.                       *)
(***************************************************************************)
EXTENDS Naturals, FiniteSets

CONSTANTS
    MaxCommands,    \* bound: commands that are given
    MaxTroubles     \* bound: steps that fail, commands that are killed

Command == 1..MaxCommands
Scripts == {"script", "forced"}     \* forced: ROOTGRID_FORCE=1
Kind == Scripts \cup {"setup", "install-service", "update-local", "remove-service"}

\* machine: the command that made up machineId.
NoConfig == [at |-> "none", machine |-> 0, autostart |-> FALSE]
Config == [at : {"none", "torn", "whole"}, machine : 0..MaxCommands, autostart : BOOLEAN]

VARIABLES
    token,          \* of the command that the page shows: "lost" by the host
    commands,       \* kind, step and configuration of each command
    config,         \* config.json
    current,        \* the command that installed the release "current" names, or 0
    unit, enabled,  \* the file of the unit; the service manager keeps it running
    service,        \* the process of the service, and the release it runs
    manager,        \* of services: systemd or launchd
    overlapped,     \* history: two commands ran at the same time
    troubles

vars == <<token, commands, config, current, unit, enabled, service, manager, overlapped, troubles>>

Down == [at |-> "down", release |-> 0]
NoCommand == [kind |-> "none", at |-> "none", config |-> NoConfig]

TypeOK ==
    /\ token \in {"none", "valid", "lost", "expired"}
    /\ commands \in [Command -> [kind : Kind \cup {"none"}, config : Config,
                                 at : {"none", "fetch", "check", "ask", "download", "tools", "config", "written",
                                       "load", "release", "unit", "enable", "bootstrap", "restart", "remove", "save", "saved",
                                       "done", "failed"}]]
    /\ config \in Config /\ current \in 0..MaxCommands /\ unit \in BOOLEAN /\ enabled \in BOOLEAN
    /\ service \in [at : {"down", "starting", "up"}, release : 0..MaxCommands]
    /\ manager \in {"systemd", "launchd"} /\ overlapped \in BOOLEAN /\ troubles \in 0..MaxTroubles

Init ==
    /\ token = "none" /\ commands = [c \in Command |-> NoCommand] /\ config = NoConfig
    /\ current = 0 /\ unit = FALSE /\ enabled = FALSE /\ service = Down
    /\ manager \in {"systemd", "launchd"} /\ overlapped = FALSE /\ troubles = 0

Underway == {c \in Command : commands[c].at \notin {"none", "done", "failed"}}

-----------------------------------------------------------------------------
(* The command that the page shows.                                        *)

\* createBootstrap: when the page shows none, or one that has expired, or is refreshed.
Bootstrap ==
    /\ token' = "valid"
    /\ UNCHANGED <<commands, config, current, unit, enabled, service, manager, overlapped, troubles>>

\* purgeExpired; the page knows the time as well.
Expire ==
    /\ token \in {"valid", "lost"} /\ token' = "expired"
    /\ UNCHANGED <<commands, config, current, unit, enabled, service, manager, overlapped, troubles>>

\* The tokens are in the memory of the host.
RestartHost ==
    /\ token = "valid" /\ token' = "lost"
    /\ UNCHANGED <<commands, config, current, unit, enabled, service, manager, overlapped, troubles>>

-----------------------------------------------------------------------------
(* The commands.  A command that fails stops where it is.                   *)

Give(c, kind) ==
    /\ commands[c].at = "none" /\ \A d \in 1..(c - 1) : commands[d].at # "none"
    /\ kind \in Scripts => token \in {"valid", "lost"}
    /\ commands' = [commands EXCEPT ![c] = [kind |-> kind, config |-> NoConfig,
                        at |-> CASE kind \in Scripts -> "fetch" [] kind = "setup" -> "check" [] OTHER -> "load"]]
    /\ overlapped' = (overlapped \/ Underway # {})
    /\ UNCHANGED <<token, config, current, unit, enabled, service, manager, troubles>>

Goes(c, at) == commands' = [commands EXCEPT ![c].at = at]
Is(c, at) == c \in Command /\ commands[c].at = at
Kept == UNCHANGED <<token, config, current, unit, enabled, service, manager, overlapped, troubles>>

\* A step that fails, an answer that ends the command, or a signal.
Trouble(c) ==
    /\ c \in Underway /\ troubles < MaxTroubles /\ troubles' = troubles + 1
    /\ Goes(c, "failed")
    /\ UNCHANGED <<token, config, current, unit, enabled, service, manager, overlapped>>

\* renderInstallScript.
Fetch(c) == Is(c, "fetch") /\ Goes(c, IF token = "valid" THEN "check" ELSE "failed") /\ Kept

\* A configuration is not overwritten: the script, and setup.
CheckScript(c) ==
    /\ Is(c, "check") /\ commands[c].kind \in Scripts
    /\ Goes(c, IF config.at # "none" /\ commands[c].kind # "forced" THEN "failed" ELSE "download") /\ Kept

\* Wrong: setup does not look for a configuration.
CheckNothing(c) == Is(c, "check") /\ commands[c].kind = "setup" /\ Goes(c, "ask") /\ Kept

CheckSetup(c) ==
    /\ Is(c, "check") /\ commands[c].kind = "setup"
    /\ Goes(c, IF config.at # "none" THEN "failed" ELSE "ask") /\ Kept

\* getBundleForToken: the token is looked at again.
Download(c) == Is(c, "download") /\ Goes(c, IF token = "valid" THEN "tools" ELSE "failed") /\ Kept

\* The script looks for Codex and code-server, and offers to install them.
Tools(c) == Is(c, "tools") /\ Goes(c, "config") /\ Kept

\* setup asks for all that is in the configuration, the service as well.
Ask(c) ==
    /\ Is(c, "ask")
    /\ \E autostart \in BOOLEAN :
         commands' = [commands EXCEPT ![c].at = "config", ![c].config = [at |-> "whole", machine |-> c, autostart |-> autostart]]
    /\ Kept

\* The file is truncated, then written.
WriteConfig(c) ==
    /\ Is(c, "config") /\ Goes(c, "written") /\ config' = [config EXCEPT !.at = "torn"]
    /\ UNCHANGED <<token, current, unit, enabled, service, manager, overlapped, troubles>>

\* The script goes on with install-service.
ScriptWrote(c) ==
    /\ Is(c, "written") /\ commands[c].kind \in Scripts /\ Goes(c, "load")
    /\ config' = [at |-> "whole", machine |-> c, autostart |-> FALSE]
    /\ UNCHANGED <<token, current, unit, enabled, service, manager, overlapped, troubles>>

SetupWrote(c) ==
    /\ Is(c, "written") /\ commands[c].kind = "setup" /\ Goes(c, "release")
    /\ config' = commands[c].config
    /\ UNCHANGED <<token, current, unit, enabled, service, manager, overlapped, troubles>>

\* loadConfig, and loadConfigIfPresent: update-local and remove-service go on without.
Load(c) ==
    /\ Is(c, "load")
    /\ IF config.at = "torn" \/ (config.at = "none" /\ commands[c].kind \notin {"update-local", "remove-service"})
       THEN Goes(c, "failed")
       ELSE commands' = [commands EXCEPT ![c].config = config,
                            ![c].at = IF commands[c].kind = "remove-service" THEN "remove" ELSE "release"]
    /\ Kept

\* installManagedRelease.
Release(c) ==
    /\ Is(c, "release") /\ current' = c
    /\ Goes(c, IF commands[c].kind \in {"setup", "update-local"} /\ ~commands[c].config.autostart THEN "done"
               ELSE "unit")
    /\ UNCHANGED <<token, config, unit, enabled, service, manager, overlapped, troubles>>

\* installUserServiceForConfig: installSystemdUserService, installLaunchdUserService.
WriteUnit(c) ==
    /\ Is(c, "unit") /\ Goes(c, "enable") /\ unit' = TRUE
    /\ UNCHANGED <<token, config, current, enabled, service, manager, overlapped, troubles>>

\* daemon-reload and enable --now.
Enable(c) ==
    /\ Is(c, "enable") /\ manager = "systemd" /\ Goes(c, "restart") /\ enabled' = TRUE
    /\ service' = IF service.at = "down" THEN [Down EXCEPT !.at = "starting"] ELSE service
    /\ UNCHANGED <<token, config, current, unit, manager, overlapped, troubles>>

\* bootout ends the service, bootstrap starts it.
Bootout(c) ==
    /\ Is(c, "enable") /\ manager = "launchd" /\ Goes(c, "bootstrap") /\ enabled' = FALSE /\ service' = Down
    /\ UNCHANGED <<token, config, current, unit, manager, overlapped, troubles>>
BootstrapService(c) ==
    /\ Is(c, "bootstrap") /\ Goes(c, "restart") /\ enabled' = TRUE
    /\ service' = [Down EXCEPT !.at = "starting"]
    /\ UNCHANGED <<token, config, current, unit, manager, overlapped, troubles>>

\* Wrong: a service that runs is left alone.
RestartNever(c) ==
    /\ Is(c, "restart") /\ Goes(c, IF commands[c].kind = "setup" THEN "done" ELSE "save")
    /\ UNCHANGED <<token, config, current, unit, enabled, service, manager, overlapped, troubles>>

Restart(c) ==
    /\ Is(c, "restart") /\ Goes(c, IF commands[c].kind = "setup" THEN "done" ELSE "save")
    /\ service' = [Down EXCEPT !.at = "starting"]
    /\ UNCHANGED <<token, config, current, unit, enabled, manager, overlapped, troubles>>

\* removeSystemdUserService, removeLaunchdUserService.
Remove(c) ==
    /\ Is(c, "remove") /\ enabled' = FALSE /\ unit' = FALSE /\ service' = Down
    /\ Goes(c, IF commands[c].config.at = "none" THEN "done" ELSE "save")
    /\ UNCHANGED <<token, config, current, manager, overlapped, troubles>>

\* saveConfig: what was read at the start, with another autostart.
Save(c) ==
    /\ Is(c, "save") /\ Goes(c, IF commands[c].config.at = "none" THEN "done" ELSE "saved")
    /\ config' = IF commands[c].config.at = "none" THEN config ELSE [config EXCEPT !.at = "torn"]
    /\ UNCHANGED <<token, current, unit, enabled, service, manager, overlapped, troubles>>

\* Wrong: the configuration keeps the autostart it was read with.
SavedAsRead(c) ==
    /\ Is(c, "saved") /\ Goes(c, "done") /\ config' = commands[c].config
    /\ UNCHANGED <<token, current, unit, enabled, service, manager, overlapped, troubles>>

Saved(c) ==
    /\ Is(c, "saved") /\ Goes(c, "done")
    /\ config' = [commands[c].config EXCEPT !.autostart = commands[c].kind # "remove-service"]
    /\ UNCHANGED <<token, current, unit, enabled, service, manager, overlapped, troubles>>

-----------------------------------------------------------------------------
(* The service.                                                            *)

\* Wrong: the service manager does not start it again.
StartOnce ==
    /\ service.at = "starting"
    /\ service' = IF config.at = "whole" /\ current # 0 THEN [at |-> "up", release |-> current] ELSE Down
    /\ UNCHANGED <<token, commands, config, current, unit, enabled, manager, overlapped, troubles>>

\* Without a configuration or a release it ends; Restart=always, KeepAlive.
Start ==
    /\ service.at = "starting"
    /\ service' = IF config.at = "whole" /\ current # 0 THEN [at |-> "up", release |-> current] ELSE service
    /\ UNCHANGED <<token, commands, config, current, unit, enabled, manager, overlapped, troubles>>

Works(c) ==
    \/ Fetch(c) \/ CheckScript(c) \/ CheckSetup(c) \/ Download(c) \/ Tools(c) \/ Ask(c) \/ WriteConfig(c)
    \/ ScriptWrote(c) \/ SetupWrote(c) \/ Load(c) \/ Release(c) \/ WriteUnit(c) \/ Enable(c) \/ Bootout(c)
    \/ BootstrapService(c) \/ Restart(c) \/ Remove(c) \/ Save(c) \/ Saved(c)

Next ==
    \/ Bootstrap \/ Expire \/ RestartHost \/ Start
    \/ \E c \in Command :
         \/ \E kind \in Kind : Give(c, kind)
         \/ Trouble(c) \/ Works(c)

\* The service manager starts the service again and again, and a command goes on.
Fairness == WF_vars(Start) /\ \A c \in Command : WF_vars(Works(c))

Spec == Init /\ [][Next]_vars /\ Fairness

-----------------------------------------------------------------------------
(* Properties.                                                             *)

Clean == troubles = 0 /\ ~overlapped

\* What the configuration says of the service is so, when no command is underway
\* and all went as they should, one after the other.
AutostartAgrees == Clean /\ Underway = {} /\ config.at = "whole" => config.autostart = enabled

\* The service does not run an older release than the one that is installed.
RunsCurrent == Clean /\ Underway = {} /\ service.at = "up" => service.release = current

\* A machine keeps its machineId, unless the script is forced or two commands met.
ConfigKept ==
    ~overlapped /\ config.at = "whole" =>
        \/ \A c \in Command : commands[c].at = "done" => commands[c].config.machine \in {0, config.machine}
        \/ \E d \in Command : commands[d].kind = "forced"

\* When the commands have ended without trouble, an enabled service comes up.
ServiceComesUp == []<>(troubles = 0 /\ Underway = {} /\ enabled => service.at = "up")
=============================================================================
