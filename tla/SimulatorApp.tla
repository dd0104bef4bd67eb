---------------------------- MODULE SimulatorApp ----------------------------
(***************************************************************************)
(* The orchestrator (app.py): the main task, which reconciles the running  *)
(* panels with the config directory whenever the reload event is set, and  *)
(* the dashboard handlers and signal handler that change the directory and *)
(* the app's sets between any two of its awaits.                           *)
(*                                                                         *)
(* A config's content is what its file hashes to; only the serial it names *)
(* and whether a panel can be started from it matter.  An HTTP port stands *)
(* for the pair of ports a bootstrap server binds.                         *)
(***************************************************************************)
EXTENDS Integers, FiniteSets

CONSTANTS
    Configs,      \* config files
    Contents,     \* what a config file may hold
    Broken,       \* contents no panel can be started from
    Serials,      \* panel serials
    SerialOf,     \* the serial each content names
    BasePort, LastPort, \* bound: the ports, BasePort being base_http_port
    BusyChoices,  \* sets of ports that other processes may hold
    MaxAttempts,  \* max_port_retries
    InitialDisks, \* bound: the directories a behaviour may start from
    MaxEdits,     \* bound: how many writes and deletes the directory sees
    NoFile, NoHash, Invalid,  \* no file; no stored hash; the stored hash ""
    AllConfigs, NoConfig,     \* config filters None and ""
    Nobody                    \* neither a config, a serial's owner nor a port

Ports == BasePort..LastPort

ASSUME AppAssumption ==
    /\ Broken \subseteq Contents
    /\ SerialOf \in [Contents -> Serials]
    /\ BasePort \in Int /\ LastPort \in Int
    /\ BusyChoices \subseteq SUBSET Ports
    /\ InitialDisks \subseteq [Configs -> Contents \union {NoFile}]
    /\ MaxAttempts \in Nat \ {0}
    /\ MaxEdits \in Nat
    /\ {NoFile, NoHash, Invalid} \cap Contents = {} /\ Invalid # NoHash
    /\ {AllConfigs, NoConfig, Nobody} \cap Configs = {}
    /\ Nobody \notin Ports

\* _allocate_port searches without end: the bound leaves a port for each serial.
ASSUME PortAssumption ==
    /\ IsFiniteSet(Serials)
    /\ Cardinality(Serials) <= LastPort - BasePort + 1

VARIABLES
    disk,         \* the config directory
    edits,        \* writes and deletes begun so far
    deleting,     \* files a delete handler has found not running
    filter,       \* _config_filter
    stopped,      \* _stopped_configs
    hashes,       \* _config_hashes
    errors,       \* the keys of _panel_start_errors
    panels,       \* _panels: the content each registered panel was started from
    owners,       \* _serial_to_panel: the config of each serial's panel
    ports,        \* _panel_ports, and _panel_servers with it
    used,         \* _used_ports
    live,         \* panels that are on the wire
    busy,         \* ports other processes hold
    running,      \* _running
    event,        \* _reload_event
    at,           \* where the main task is
    job,          \* the config it works on, and its content once read
    doing,        \* why: "stop", "reload", "start" or "shutdown"
    attempt,      \* the port being tried, and how many were refused
    current, toStop, toReload, toStart,  \* reload()'s own, from its scan
    todo          \* the configs of those sets still to be worked on

dirVars == <<disk, edits, deleting>>
requestVars == <<filter, stopped>>
registryVars == <<panels, owners, ports, used, live>>
scanVars == <<current, toStop, toReload, toStart>>
workVars == <<job, doing, attempt>>
vars == <<dirVars, requestVars, hashes, errors, registryVars, busy, running, event, at,
          workVars, scanVars, todo>>

NoJob == [config |-> Nobody, content |-> NoFile]
NoAttempt == [port |-> Nobody, refused |-> 0]

\* The filter is what __main__ resolves: a file of the directory, or "".
Init ==
    /\ disk \in InitialDisks
    /\ edits = 0
    /\ deleting = {}
    /\ filter \in {NoConfig} \union {p \in Configs : disk[p] # NoFile}
    /\ stopped = {}
    /\ hashes = [p \in Configs |-> NoHash]
    /\ errors = {}
    /\ panels = [p \in Configs |-> NoFile]
    /\ owners = [s \in Serials |-> Nobody]
    /\ ports = [s \in Serials |-> Nobody]
    /\ used = {}
    /\ live = {}
    /\ busy \in BusyChoices
    /\ running = FALSE
    /\ event = FALSE
    /\ at = "setup"
    /\ job = NoJob
    /\ doing = "start"
    /\ attempt = NoAttempt
    /\ current = [p \in Configs |-> NoFile]
    /\ toStop = {} /\ toReload = {} /\ toStart = {}
    /\ todo = {}

OnDisk == {p \in Configs : disk[p] # NoFile}
Registered == {p \in Configs : panels[p] # NoFile}

-----------------------------------------------------------------------------
(***************************************************************************)
(* reload(): the scan.                                                     *)
(***************************************************************************)
\* _discover_configs, less the configs the user stopped.
Discovered ==
    {p \in OnDisk \ stopped : filter \in {AllConfigs, p}}

\* `disk' stands for the contents, as the hashes reload() compares do.
BeginReload ==
    /\ current' = [p \in Configs |-> IF p \in Discovered THEN disk[p] ELSE NoFile]
    /\ LET prev == {p \in Configs : hashes[p] # NoHash}
       IN  /\ toStart' = Discovered \ prev
           /\ toStop' = prev \ Discovered
           /\ toReload' = {p \in Discovered \cap prev : hashes[p] # disk[p]}
    /\ todo' = toStop' \union toReload' \union toStart'
    /\ at' = "reconciling"

\* run() has set everything up and makes its initial reload.
Run ==
    /\ at = "setup"
    /\ running' = TRUE
    /\ BeginReload
    /\ UNCHANGED <<dirVars, requestVars, hashes, errors, registryVars, busy, event, workVars>>

\* _reload_watcher wakes up: a reload, or the way out.
Wake ==
    /\ at = "waiting"
    /\ event
    /\ event' = FALSE
    /\ IF running
       THEN BeginReload
       ELSE at' = "shutdown" /\ UNCHANGED <<scanVars, todo>>
    /\ UNCHANGED <<dirVars, requestVars, hashes, errors, registryVars, busy, running, workVars>>

\* _stop_panel and _start_panel return or raise; their locals are gone.
GoOn(next) ==
    /\ at' = next
    /\ job' = NoJob
    /\ doing' = "start"
    /\ attempt' = NoAttempt

-----------------------------------------------------------------------------
(***************************************************************************)
(* _stop_panel.  It pops the panel before its first await, and the rest of *)
(* the registry after; here, a config that is not registered has nothing   *)
(* to stop.                                                                *)
(***************************************************************************)
PopPanel(p, why) ==
    /\ job' = [config |-> p, content |-> panels[p]]
    /\ panels' = [panels EXCEPT ![p] = NoFile]
    /\ doing' = why
    /\ at' = "stopping"
    /\ UNCHANGED <<dirVars, requestVars, hashes, errors, owners, ports, used, live, busy,
                   running, event, attempt, scanVars>>

Serial == SerialOf[job.content]

\* Mutant of PanelStopped: the serial stays taken.
PanelStoppedKeepingSerial ==
    /\ at = "stopping"
    /\ live' = live \ {job}
    /\ at' = "releasing"
    /\ UNCHANGED <<dirVars, requestVars, hashes, errors, panels, owners, ports, used, busy,
                   running, event, workVars, scanVars, todo>>

\* panel.stop() returned: it swallows what stop_clone raises.
PanelStopped ==
    /\ at = "stopping"
    /\ live' = live \ {job}
    /\ owners' = [owners EXCEPT ![Serial] = Nobody]
    /\ at' = "releasing"
    /\ UNCHANGED <<dirVars, requestVars, hashes, errors, panels, ports, used, busy, running,
                   event, workVars, scanVars, todo>>

\* The server stopped: its port is free again, and the caller goes on.
PanelReleased ==
    /\ at = "releasing"
    /\ ports' = [ports EXCEPT ![Serial] = Nobody]
    /\ used' = used \ {ports[Serial]}
    /\ CASE doing = "stop" -> GoOn("reconciling") /\ errors' = errors \ {job.config}
         [] doing = "shutdown" -> GoOn("shutdown") /\ UNCHANGED errors
         [] doing = "reload" -> at' = "loading" /\ UNCHANGED <<errors, workVars>>
    /\ UNCHANGED <<dirVars, requestVars, hashes, panels, owners, live, busy, running, event,
                   scanVars, todo>>

-----------------------------------------------------------------------------
(***************************************************************************)
(* reload(): stops first, then reloads, then starts.                       *)
(***************************************************************************)
Take(p) ==
    /\ at = "reconciling"
    /\ p \in todo
    /\ todo' = todo \ {p}

StopRemoved(p) ==
    /\ Take(p)
    /\ p \in toStop
    /\ \/ p \in Registered /\ PopPanel(p, "stop")
       \/ /\ p \notin Registered
          /\ errors' = errors \ {p}
          /\ UNCHANGED <<dirVars, requestVars, hashes, registryVars, busy, running, event, at,
                         workVars, scanVars>>

Load(p, why) ==
    /\ at' = "loading"
    /\ doing' = why
    /\ job' = [config |-> p, content |-> NoFile]
    /\ UNCHANGED <<dirVars, requestVars, hashes, errors, registryVars, busy, running, event,
                   attempt, scanVars>>

ReloadChanged(p) ==
    /\ Take(p)
    /\ p \in toReload
    /\ todo \cap toStop = {}
    /\ \/ p \in Registered /\ PopPanel(p, "reload")
       \/ p \notin Registered /\ Load(p, "start")

StartNew(p) ==
    /\ Take(p)
    /\ p \in toStart
    /\ todo \subseteq toStart
    /\ Load(p, "start")

-----------------------------------------------------------------------------
(***************************************************************************)
(* _start_panel.                                                           *)
(***************************************************************************)
StartFails ==
    /\ errors' = errors \union {job.config}
    /\ GoOn("reconciling")

\* Mutant of Loads: a serial already running is not refused.
LoadsAnySerial ==
    /\ at = "loading"
    /\ LET content == disk[job.config]
       IN  IF content \in Broken \union {NoFile}
           THEN StartFails
           ELSE /\ job' = [job EXCEPT !.content = content]
                /\ at' = "connecting"
                /\ UNCHANGED <<errors, doing, attempt>>
    /\ UNCHANGED <<dirVars, requestVars, hashes, registryVars, busy, running, event, scanVars,
                   todo>>

\* The recorder data is loaded; the engine reads the file as it is now.  A file
\* it cannot read and a serial already running are refused before the panel
\* connects.
Loads ==
    /\ at = "loading"
    /\ LET content == disk[job.config]
       IN  IF content \in Broken \union {NoFile} \/ owners[SerialOf[content]] # Nobody
           THEN StartFails
           ELSE /\ job' = [job EXCEPT !.content = content]
                /\ at' = "connecting"
                /\ UNCHANGED <<errors, doing, attempt>>
    /\ UNCHANGED <<dirVars, requestVars, hashes, registryVars, busy, running, event, scanVars,
                   todo>>

ConnectFails ==
    /\ at = "connecting"
    /\ StartFails
    /\ UNCHANGED <<dirVars, requestVars, hashes, registryVars, busy, running, event, scanVars,
                   todo>>

\* _allocate_port(): the lowest port from the base that is not in `taken'.
LowestFree(taken) ==
    CHOOSE n \in Ports \ taken : \A m \in Ports \ taken : n <= m

\* The panel ticks; it is registered and a port allocated for its server.
Connects ==
    /\ at = "connecting"
    /\ live' = live \union {job}
    /\ panels' = [panels EXCEPT ![job.config] = job.content]
    /\ owners' = [owners EXCEPT ![Serial] = job.config]
    /\ attempt' = [port |-> LowestFree(used), refused |-> 0]
    /\ used' = used \union {attempt'.port}
    /\ at' = "binding"
    /\ UNCHANGED <<dirVars, requestVars, hashes, errors, ports, busy, running, event, job, doing,
                   scanVars, todo>>

Binds ==
    /\ at = "binding"
    /\ attempt.refused < MaxAttempts
    /\ attempt.port \notin busy
    /\ ports' = [ports EXCEPT ![Serial] = attempt.port]
    /\ errors' = errors \ {job.config}
    /\ GoOn("reconciling")
    /\ UNCHANGED <<dirVars, requestVars, hashes, panels, owners, used, live, busy, running, event,
                   scanVars, todo>>

\* EADDRINUSE: the port goes back to the pool and another is allocated.
PortInUse ==
    /\ at = "binding"
    /\ attempt.refused < MaxAttempts
    /\ attempt.port \in busy
    /\ LET left == used \ {attempt.port}
       IN  /\ attempt' = [port |-> LowestFree(left), refused |-> attempt.refused + 1]
           /\ used' = left \union {attempt'.port}
    /\ UNCHANGED <<dirVars, requestVars, hashes, errors, panels, owners, ports, live, busy,
                   running, event, at, job, doing, scanVars, todo>>

\* The attempts are used up: the start raises, and the panel stays registered.
NoPortFound ==
    /\ at = "binding"
    /\ attempt.refused = MaxAttempts
    /\ StartFails
    /\ UNCHANGED <<dirVars, requestVars, hashes, registryVars, busy, running, event, scanVars,
                   todo>>

-----------------------------------------------------------------------------
(***************************************************************************)
(* reload(): the hashes of what succeeded, over those of now.              *)
(***************************************************************************)
Failed == (toStart \union toReload) \cap errors

\* Mutant of NewHash: a stopped config keeps its hash.
NewHashKeepingStopped(p) ==
    IF current[p] # NoFile /\ p \notin Failed THEN current[p] ELSE hashes[p]

NewHash(p) ==
    IF p \in toStop THEN NoHash
    ELSE IF current[p] # NoFile /\ p \notin Failed THEN current[p]
    ELSE hashes[p]

\* Mutant of EndReload: the event is cleared after the reload, not before.
EndReloadClearing ==
    /\ at = "reconciling"
    /\ todo = {}
    /\ hashes' = [p \in Configs |-> NewHash(p)]
    /\ event' = FALSE
    /\ GoOn(IF running THEN "waiting" ELSE "shutdown")
    /\ toStop' = {} /\ toReload' = {} /\ toStart' = {}
    /\ UNCHANGED <<dirVars, requestVars, errors, registryVars, busy, running, current, todo>>

EndReload ==
    /\ at = "reconciling"
    /\ todo = {}
    /\ hashes' = [p \in Configs |-> NewHash(p)]
    /\ GoOn(IF running THEN "waiting" ELSE "shutdown")
    /\ toStop' = {} /\ toReload' = {} /\ toStart' = {}
    /\ UNCHANGED <<dirVars, requestVars, errors, registryVars, busy, running, event, current,
                   todo>>

\* run()'s finally: every panel, one after the other.
ShutdownStops(p) ==
    /\ at = "shutdown"
    /\ p \in Registered
    /\ PopPanel(p, "shutdown")
    /\ UNCHANGED todo

ShutDown ==
    /\ at = "shutdown"
    /\ Registered = {}
    /\ at' = "done"
    /\ UNCHANGED <<dirVars, requestVars, hashes, errors, registryVars, busy, running, event,
                   workVars, scanVars, todo>>

MainTask ==
    \/ Run \/ Wake \/ PanelStopped \/ PanelReleased
    \/ \E p \in Configs : StopRemoved(p) \/ ReloadChanged(p) \/ StartNew(p)
    \/ Loads \/ ConnectFails \/ Connects \/ Binds \/ PortInUse \/ NoPortFound
    \/ EndReload
    \/ \E p \in Configs : ShutdownStops(p)
    \/ ShutDown

-----------------------------------------------------------------------------
(***************************************************************************)
(* Requests.  The dashboard is up from before the initial reload.  What is *)
(* requested between two stops of the shutdown is read by nobody, and is   *)
(* left out; during a stop it is not.                                      *)
(***************************************************************************)
mainVars == <<errors, registryVars, busy, at, workVars, scanVars, todo>>

\* _transition_to_explicit_control(), then the request's own change to
\* _stopped_configs.
Control(add, remove) ==
    LET before == IF filter = AllConfigs THEN stopped ELSE OnDisk \ Registered
    IN  /\ stopped' = (before \union add) \ remove
        /\ filter' = AllConfigs

RequestStart(p) ==
    /\ Control({}, {p})
    /\ event' = TRUE

RequestStop(p) ==
    /\ Control({p}, {})
    /\ event' = TRUE
    /\ UNCHANGED hashes

RequestRestart(p) ==
    /\ Control({}, {p})
    /\ hashes' = [hashes EXCEPT ![p] = IF @ = NoHash THEN NoHash ELSE Invalid]
    /\ event' = TRUE

RequestReload ==
    /\ event' = TRUE
    /\ UNCHANGED <<requestVars, hashes>>

\* What the handlers guard on: the editor opens what a panel can start from.
Loadable(p) == disk[p] \notin Broken \union {NoFile}

PanelRequest ==
    /\ \/ RequestReload
       \/ \E p \in Configs :
            \/ Loadable(p) /\ RequestStart(p) /\ UNCHANGED hashes
            \/ Loadable(p) /\ RequestRestart(p)
            \/ p \in OnDisk /\ RequestStop(p)
    /\ UNCHANGED <<dirVars, running>>

Write(p, c) ==
    /\ edits < MaxEdits
    /\ edits' = edits + 1
    /\ disk' = [disk EXCEPT ![p] = c]
    /\ UNCHANGED deleting

\* _persist_config: the edited file is saved and its panel started.
Save(p, c) ==
    /\ c \notin Broken
    /\ Write(p, c)
    /\ RequestStart(p)
    /\ UNCHANGED <<hashes, running>>

\* _persist_config_live_bess: a running panel is given its new battery with no
\* restart, and keeps the serial it was started with whatever the file names;
\* any other panel is started.
SaveBess(p, c) ==
    /\ Loadable(p)
    /\ c \notin Broken
    /\ SerialOf[c] = SerialOf[disk[p]]
    /\ Write(p, c)
    /\ IF p \in Registered
       THEN hashes' = [hashes EXCEPT ![p] = c] /\ UNCHANGED <<requestVars, event>>
       ELSE RequestStart(p) /\ UNCHANGED hashes
    /\ UNCHANGED running

\* A file edited by hand tells nobody.
HandEdit(p, c) ==
    /\ p \in OnDisk
    /\ Write(p, c)
    /\ UNCHANGED <<requestVars, event, hashes, running>>

\* handle_delete_config: the check, an await for the recorder's purge, the
\* unlink.
DeleteChecks(p) ==
    /\ p \in OnDisk \ Registered
    /\ edits < MaxEdits
    /\ edits' = edits + 1
    /\ deleting' = deleting \union {p}
    /\ UNCHANGED <<disk, requestVars, event, hashes, running>>

DeleteUnlinks(p) ==
    /\ p \in deleting
    /\ deleting' = deleting \ {p}
    /\ disk' = [disk EXCEPT ![p] = NoFile]
    /\ UNCHANGED <<edits, requestVars, event, hashes, running>>

\* Mutant of Stop: the flag is cleared and nobody is woken.
StopUnheard ==
    /\ running' = FALSE
    /\ UNCHANGED <<event, dirVars, requestVars, hashes>>

\* stop(), from the handler of SIGTERM or SIGINT.
Stop ==
    /\ running' = FALSE
    /\ event' = TRUE
    /\ UNCHANGED <<dirVars, requestVars, hashes>>

DirectoryChange ==
    \E p \in Configs :
        \/ \E c \in Contents : Save(p, c) \/ SaveBess(p, c) \/ HandEdit(p, c)
        \/ DeleteChecks(p) \/ DeleteUnlinks(p)

Request ==
    /\ at \notin {"shutdown", "done"}
    /\ PanelRequest \/ DirectoryChange \/ Stop
    /\ UNCHANGED mainVars

Next == MainTask \/ Request

Spec == Init /\ [][Next]_vars

\* The main task is never starved: each of its awaits ends, a connect's in
\* success or failure.  Nothing makes a request happen.
FairSpec == Spec /\ WF_vars(MainTask)

-----------------------------------------------------------------------------
(***************************************************************************)
(* Safety.  `Settled' is when no reload is under way.                      *)
(***************************************************************************)
Settled == at \in {"waiting", "done"}
Running(p) == [config |-> p, content |-> panels[p]]

\* Two panels with one serial would take each other's broker client id and
\* publish over each other: whatever the files name, and whatever is left of a
\* start that failed, no serial is ever on the wire twice.
OnePanelPerSerial ==
    \A x, y \in live : SerialOf[x.content] = SerialOf[y.content] => x = y

\* Between reloads the registries tell one story: what is on the wire is what
\* is registered, each panel's serial leads to it and to its server's port, no
\* two share a port, and none is held for nobody.  After the shutdown nothing is left at all.
\* (A start that found no port leaves its panel behind, hence the premise.)
RegistriesAgree ==
    Settled /\ busy = {} =>
        /\ live = {Running(p) : p \in Registered}
        /\ \A s \in Serials : owners[s] # Nobody =>
              owners[s] \in Registered /\ SerialOf[panels[owners[s]]] = s
        /\ \A p \in Registered : owners[SerialOf[panels[p]]] = p
        /\ \A s \in Serials : (ports[s] # Nobody) = (owners[s] # Nobody)
        /\ \A s, t \in Serials : ports[s] = ports[t] => s = t \/ ports[s] = Nobody
        /\ used = {ports[s] : s \in Serials} \ {Nobody}

\* A reload leaves running what its scan asked for, less what failed to start
\* and is shown as an error, whatever was requested while it went on.
Reconciled ==
    at = "waiting" => \A p \in Configs : p \notin errors \/ busy = {} =>
        (p \in Registered <=> current[p] # NoFile /\ p \notin errors)

(***************************************************************************)
(* Liveness.                                                               *)
(***************************************************************************)
\* A panel the user stopped stops for good, also when the request came in the
\* middle of the reload that was starting it.
StopTakesEffect ==
    \A p \in Configs : <>[](p \in stopped /\ busy = {}) => <>[](p \notin Registered)

\* A config that may run, and whose starts do not fail, runs.
StartTakesEffect ==
    \A p \in Configs :
        <>[](at # "setup" /\ running /\ p \in Discovered \ errors) => []<>(p \in Registered)

\* A signal that finds the app running shuts it down.
ShutdownCompletes == at # "setup" /\ ~running ~> at = "done"

-----------------------------------------------------------------------------
(***************************************************************************)
(* What the source says of itself and the code does not do.                *)
(***************************************************************************)
\* app.py on a port in use: "both move together, so the next allocation is a
\* clean pair", and "trying next port".
PortRetriesMoveOn ==
    [][attempt.refused < attempt'.refused => attempt'.port # attempt.port]_vars
=============================================================================
