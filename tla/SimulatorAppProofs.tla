------------------------- MODULE SimulatorAppProofs -------------------------
(***************************************************************************)
(* The orchestrator, for every set of config files, contents, serials and  *)
(* ports and every bound on edits and retries: no serial is on the wire    *)
(* twice, the registries agree whenever no reload is under way, and a      *)
(* reload leaves running what its scan asked for.                          *)
(***************************************************************************)
EXTENDS SimulatorApp, FiniteSetTheorems, TLAPS

Panels == [config : Configs, content : Contents]

-----------------------------------------------------------------------------
(***************************************************************************)
(* The parts of the inductive invariant.                                   *)
(***************************************************************************)
\* The registries, and what the main task works on at each of its stops.  The
\* ports are typed with the books below: that there is always one to allocate
\* depends on who holds the others.
TypeInv ==
    /\ disk \in [Configs -> Contents \union {NoFile}]
    /\ hashes \in [Configs -> Contents \union {NoHash, Invalid}]
    /\ errors \subseteq Configs
    /\ panels \in [Configs -> Contents \union {NoFile}]
    /\ owners \in [Serials -> Configs \union {Nobody}]
    /\ live \subseteq Panels
    /\ at \in {"setup", "waiting", "reconciling", "stopping", "releasing", "loading",
               "connecting", "binding", "shutdown", "done"}
    /\ doing \in {"stop", "reload", "start", "shutdown"}
    /\ job \in [config : Configs \union {Nobody}, content : Contents \union {NoFile}]
    /\ at \in {"stopping", "releasing", "connecting", "binding"} => job \in Panels
    /\ at \in {"stopping", "releasing"} => doing # "start"
    /\ at \in {"loading", "connecting", "binding"} =>
           job.config \in Configs /\ doing \in {"reload", "start"}
    /\ at \notin {"stopping", "releasing", "loading", "connecting", "binding"} => doing = "start"
    /\ current \in [Configs -> Contents \union {NoFile}]
    /\ toStop \subseteq Configs /\ toReload \subseteq Configs /\ toStart \subseteq Configs

\* What is on the wire holds its serial: a start that found no port leaves a
\* panel that a later start may take from the registry, and still nobody else
\* gets its serial.
WireInv ==
    /\ OnePanelPerSerial
    /\ \A x \in live : owners[SerialOf[x.content]] # Nobody
    /\ \A p \in Registered : Running(p) \in live
    /\ at = "stopping" => job \in live /\ job.config \notin Registered
    /\ at = "connecting" => owners[Serial] = Nobody

Worked == toStop \union toReload \union toStart
Hashed == {p \in Configs : hashes[p] # NoHash}
Wanted == {p \in Configs : current[p] # NoFile}

\* A reload in progress: its three sets are apart, what it has stopped is not
\* running, what it has started is or is shown as an error, and what it leaves
\* alone runs if and only if it is hashed, and if and only if it was scanned.
ScanInv ==
    at \notin {"shutdown", "done"} /\ doing # "shutdown" =>
        /\ toStop \cap (toReload \union toStart) = {}
        /\ todo \subseteq Worked
        /\ toStop \cap Wanted = {}
        /\ toReload \union toStart \subseteq Wanted
        /\ at \in {"setup", "waiting"} => Worked = {}
        /\ toStop \cap Registered \subseteq todo
        /\ \A p \in (toReload \union toStart) \ (todo \union errors) :
              \/ p \in Registered
              \/ at \in {"stopping", "releasing", "loading", "connecting"} /\ p = job.config
        /\ at \in {"loading", "connecting", "binding"} => job.config \in Worked \ (todo \union toStop)
        /\ at = "binding" => job.config \in Registered
        /\ at \in {"stopping", "releasing"} =>
              job.config \in (IF doing = "stop" THEN toStop ELSE toReload) \ todo
        /\ \A p \in Configs \ (Worked \union errors) :
              (p \in Registered <=> p \in Wanted) /\ (p \in Hashed <=> p \in Wanted)

\* Where no other process holds a port, no start runs out of ports, and the
\* registries are apart only for the panel being worked on: a panel that failed
\* to start is not registered, and one to be started not yet.
NobodyLeft ==
    /\ errors \cap Registered \subseteq (IF at = "binding" THEN {job.config} ELSE {})
    /\ todo \cap toStart \cap Registered = {}
    /\ at \in {"stopping", "releasing", "loading", "connecting"} => job.config \notin Registered
    /\ at = "binding" => attempt.refused = 0 /\ panels[job.config] = job.content

OwnersBook ==
    /\ live = {Running(p) : p \in Registered}
              \union (IF at = "stopping" THEN {job} ELSE {})
    /\ \A s \in Serials : owners[s] # Nobody =>
          \/ owners[s] \in Registered /\ SerialOf[panels[owners[s]]] = s
          \/ at = "stopping" /\ owners[s] = job.config /\ s = Serial
    /\ \A p \in Registered : owners[SerialOf[panels[p]]] = p
    /\ at = "stopping" => owners[Serial] = job.config
    /\ at = "releasing" => owners[Serial] = Nobody

PortsBook ==
    /\ ports \in [Serials -> Ports \union {Nobody}]
    /\ \A s \in Serials :
          ports[s] # Nobody <=>
              IF at = "releasing" /\ s = Serial THEN TRUE
              ELSE owners[s] # Nobody /\ ~(at = "binding" /\ s = Serial)
    /\ \A s, t \in Serials : ports[s] = ports[t] => s = t \/ ports[s] = Nobody
    /\ used = ({ports[s] : s \in Serials} \ {Nobody})
              \union (IF at = "binding" THEN {attempt.port} ELSE {})
    /\ at = "binding" => attempt.port \in Ports \ {ports[s] : s \in Serials}

BooksInv == busy = {} => NobodyLeft /\ OwnersBook /\ PortsBook

-----------------------------------------------------------------------------
(***************************************************************************)
(* Types.                                                                  *)
(***************************************************************************)
(* A request writes the directory, the user's wishes and the stored hashes *)
(* alone: the main task's registries and locals are not touched by it, and *)
(* the only config it gives a hash is a registered one.                    *)
LEMMA RequestFrame ==
  ASSUME TypeInv, Request
  PROVE  /\ UNCHANGED mainVars
         /\ disk' \in [Configs -> Contents \union {NoFile}]
         /\ hashes' \in [Configs -> Contents \union {NoHash, Invalid}]
         /\ \A p \in Configs : hashes[p] # NoHash => hashes'[p] # NoHash
         /\ \A p \in Configs : hashes'[p] # NoHash => hashes[p] # NoHash \/ p \in Registered
         /\ at \notin {"shutdown", "done"}
<1> USE AppAssumption DEF TypeInv
<1>1. CASE PanelRequest
  BY <1>1 DEF Request, PanelRequest, RequestReload, RequestStart, RequestRestart, RequestStop,
              Control, dirVars, requestVars, mainVars
<1>2. CASE DirectoryChange
  <2>1. PICK p \in Configs :
           \/ \E c \in Contents : Save(p, c) \/ SaveBess(p, c) \/ HandEdit(p, c)
           \/ DeleteChecks(p) \/ DeleteUnlinks(p)
    BY <1>2 DEF DirectoryChange
  <2>2. CASE \E c \in Contents : Save(p, c) \/ HandEdit(p, c)
    BY <2>2 DEF Request, Save, HandEdit, Write, RequestStart, mainVars
  <2>3. CASE \E c \in Contents : SaveBess(p, c)
    BY <2>3 DEF Request, SaveBess, Write, RequestStart, mainVars
  <2>4. CASE DeleteChecks(p) \/ DeleteUnlinks(p)
    BY <2>4 DEF Request, DeleteChecks, DeleteUnlinks, mainVars
  <2> QED BY <2>1, <2>2, <2>3, <2>4
<1>3. CASE Stop
  BY <1>3 DEF Request, Stop, dirVars, mainVars
<1> QED BY <1>1, <1>2, <1>3 DEF Request

(* What PanelReleased does, and where the main task goes on.               *)
LEMMA ReleasedGoesOn ==
  ASSUME TypeInv, PanelReleased
  PROVE  /\ at = "releasing"
         /\ ports' = [ports EXCEPT ![Serial] = Nobody]
         /\ used' = used \ {ports[Serial]}
         /\ \/ doing = "stop" /\ GoOn("reconciling") /\ errors' = errors \ {job.config}
            \/ doing = "shutdown" /\ GoOn("shutdown") /\ errors' = errors
            \/ doing = "reload" /\ at' = "loading" /\ UNCHANGED <<errors, workVars>>
         /\ UNCHANGED <<dirVars, requestVars, hashes, panels, owners, live, busy, running, event,
                        scanVars, todo>>
<1>1. doing \in {"stop", "shutdown", "reload"}
  BY DEF TypeInv, PanelReleased
<1>2. CASE doing = "stop"
  BY <1>2 DEF PanelReleased
<1>3. CASE doing = "shutdown"
  BY <1>3 DEF PanelReleased
<1>4. CASE doing = "reload"
  BY <1>4 DEF PanelReleased
<1> QED BY <1>1, <1>2, <1>3, <1>4

(* Types hold in every behaviour.                                          *)
LEMMA TypesHold == Spec => []TypeInv
<1> USE AppAssumption DEF TypeInv
<1>1. Init => TypeInv
  BY DEF Init, NoJob
<1>2. TypeInv /\ [Next]_vars => TypeInv'
  <2> SUFFICES ASSUME TypeInv, [Next]_vars
               PROVE  TypeInv'
    OBVIOUS
  <2>1. CASE Run \/ Wake
    BY <2>1 DEF Run, Wake, BeginReload, Discovered, OnDisk, dirVars, requestVars, registryVars,
                workVars, scanVars
  <2>2. CASE PanelStopped
    BY <2>2 DEF PanelStopped, Panels, Serial, dirVars, requestVars, workVars, scanVars
  <2>3. CASE PanelReleased
    BY <2>3, ReleasedGoesOn DEF GoOn, NoJob, Panels, dirVars, requestVars, workVars, scanVars
  <2>4. ASSUME NEW p \in Configs, StopRemoved(p) \/ ReloadChanged(p) \/ StartNew(p)
        PROVE  TypeInv'
    BY <2>4 DEF StopRemoved, ReloadChanged, StartNew, Take, PopPanel, Load, Panels, Registered,
                dirVars, requestVars, registryVars, workVars, scanVars
  <2>5. CASE Loads \/ ConnectFails
    BY <2>5 DEF Loads, ConnectFails, StartFails, GoOn, NoJob, Panels, dirVars, requestVars, registryVars,
                scanVars
  <2>6. CASE Connects
    BY <2>6 DEF Connects, Serial, Panels, dirVars, requestVars, scanVars
  <2>7. CASE Binds \/ PortInUse \/ NoPortFound
    BY <2>7 DEF Binds, PortInUse, NoPortFound, StartFails, GoOn, NoJob, dirVars, requestVars,
                registryVars, scanVars
  <2>8. CASE EndReload
    BY <2>8 DEF EndReload, NewHash, GoOn, NoJob, dirVars, requestVars, registryVars
  <2>9. ASSUME NEW p \in Configs, ShutdownStops(p)
        PROVE  TypeInv'
    BY <2>9 DEF ShutdownStops, PopPanel, Panels, Registered, dirVars, requestVars, scanVars
  <2>10. CASE ShutDown
    BY <2>10 DEF ShutDown, dirVars, requestVars, registryVars, workVars, scanVars
  <2>11. CASE Request
    BY <2>11, RequestFrame DEF mainVars, registryVars, workVars, scanVars
  <2>12. CASE UNCHANGED vars
    BY <2>12 DEF vars, dirVars, requestVars, registryVars, workVars, scanVars
  <2> QED BY <2>1, <2>2, <2>3, <2>4, <2>5, <2>6, <2>7, <2>8, <2>9, <2>10, <2>11, <2>12
          DEF Next, MainTask
<1> QED BY <1>1, <1>2, PTL DEF Spec

-----------------------------------------------------------------------------
(***************************************************************************)
(* One panel per serial.                                                   *)
(***************************************************************************)
(* A step that touches neither the wire nor who owns the serials, and      *)
(* begins no stop and no connect, keeps them together.                     *)
LEMMA QuietOnTheWire ==
  ASSUME WireInv,
         UNCHANGED <<live, owners, panels>>,
         at' \notin {"stopping", "connecting"} \/ UNCHANGED <<at, job>>
  PROVE  WireInv'
BY DEF WireInv, OnePanelPerSerial, Registered, Running, Serial

(* A panel is popped before it is stopped: it stays on the wire, and keeps *)
(* its serial, while its config has none registered.                       *)
LEMMA PoppedOnTheWire ==
  ASSUME TypeInv, WireInv, NEW p \in Registered, NEW why, PopPanel(p, why)
  PROVE  WireInv'
<1>1. /\ job' = Running(p)
      /\ p \in Configs
      /\ UNCHANGED <<live, owners>>
      /\ at' = "stopping"
  BY DEF PopPanel, Running, registryVars, Registered
<1>2. /\ Registered' = Registered \ {p}
      /\ \A q \in Registered' : panels'[q] = panels[q]
  BY DEF PopPanel, Registered, TypeInv
<1>3. OnePanelPerSerial' /\ \A x \in live' : owners'[SerialOf[x.content]] # Nobody
  BY <1>1 DEF WireInv, OnePanelPerSerial
<1>4. \A q \in Registered' : Running(q)' \in live'
  BY <1>1, <1>2 DEF WireInv, Running
<1>5. job' \in live' /\ job'.config \notin Registered'
  BY <1>1, <1>2 DEF WireInv, Running
<1> QED BY <1>1, <1>3, <1>4, <1>5 DEF WireInv

(* What is on the wire holds its serial, in every behaviour.               *)
LEMMA WireHolds == Spec => []WireInv
<1>1. Init => WireInv
  BY DEF Init, WireInv, OnePanelPerSerial, Registered
<1>2. TypeInv /\ WireInv /\ [Next]_vars => WireInv'
  <2> SUFFICES ASSUME TypeInv, WireInv, [Next]_vars
               PROVE  WireInv'
    OBVIOUS
  <2>1. CASE Run \/ Wake
    BY <2>1, QuietOnTheWire DEF Run, Wake, BeginReload, registryVars
  <2>2. CASE PanelStopped
    <3>1. /\ live' = live \ {job} /\ owners' = [owners EXCEPT ![Serial] = Nobody]
          /\ job \in live /\ job.config \notin Registered
          /\ at' = "releasing" /\ UNCHANGED panels
      BY <2>2 DEF PanelStopped, WireInv
    <3>2. OnePanelPerSerial'
      BY <3>1 DEF WireInv, OnePanelPerSerial
    <3>3. ASSUME NEW x \in live' PROVE owners'[SerialOf[x.content]] # Nobody
      <4>1. SerialOf[x.content] # Serial
        BY <3>1, <3>3 DEF WireInv, OnePanelPerSerial, Serial
      <4>2. SerialOf[x.content] \in Serials
        BY <3>1, <3>3, AppAssumption DEF TypeInv, Panels
      <4> QED BY <3>1, <4>1, <4>2 DEF WireInv, TypeInv
    <3>4. \A q \in Registered' : Running(q)' \in live'
      BY <3>1 DEF WireInv, Registered, Running
    <3> QED BY <3>1, <3>2, <3>3, <3>4 DEF WireInv
  <2>3. CASE PanelReleased
    <3>1. UNCHANGED <<live, owners, panels>> /\ at' \notin {"stopping", "connecting"}
      BY <2>3, ReleasedGoesOn DEF GoOn
    <3> QED BY <3>1, QuietOnTheWire
  <2>4. ASSUME NEW p \in Configs, StopRemoved(p) \/ ReloadChanged(p) \/ StartNew(p)
        PROVE  WireInv'
    <3>1. CASE \E why : p \in Registered /\ PopPanel(p, why)
      BY <3>1, PoppedOnTheWire
    <3>2. CASE \E why : Load(p, why)
      BY <3>2, QuietOnTheWire DEF Load, registryVars
    <3>3. CASE at = "reconciling" /\ UNCHANGED <<registryVars, at, job>>
      BY <3>3, QuietOnTheWire DEF registryVars
    <3> QED BY <2>4, <3>1, <3>2, <3>3
            DEF StopRemoved, ReloadChanged, StartNew, Take, workVars
  <2>5. CASE Loads
    <3>1. CASE StartFails
      BY <2>5, <3>1, QuietOnTheWire DEF Loads, StartFails, GoOn, registryVars
    <3>2. CASE ~StartFails
      <4>1. /\ owners[SerialOf[disk[job.config]]] = Nobody
            /\ job' = [job EXCEPT !.content = disk[job.config]]
            /\ at' = "connecting"
            /\ UNCHANGED <<live, owners, panels>>
        BY <2>5, <3>2 DEF Loads, registryVars
      <4>2. Serial' = SerialOf[disk[job.config]]
        BY <4>1 DEF Serial, TypeInv
      <4> QED BY <4>1, <4>2 DEF WireInv, OnePanelPerSerial, Registered, Running
    <3> QED BY <3>1, <3>2
  <2>6. CASE ConnectFails
    BY <2>6, QuietOnTheWire DEF ConnectFails, StartFails, GoOn, registryVars
  <2>7. CASE Connects
    <3>1. /\ live' = live \union {job}
          /\ panels' = [panels EXCEPT ![job.config] = job.content]
          /\ owners' = [owners EXCEPT ![Serial] = job.config]
          /\ at' = "binding"
          /\ owners[Serial] = Nobody
      BY <2>7 DEF Connects, WireInv
    <3>2. job \in Panels /\ Serial \in Serials
      BY <2>7, AppAssumption DEF Connects, TypeInv, Panels, Serial
    <3>3. \A x \in live : SerialOf[x.content] # Serial
      BY <3>1 DEF WireInv
    <3>4. OnePanelPerSerial'
      BY <3>1, <3>3 DEF WireInv, OnePanelPerSerial, Serial
    <3>5. ASSUME NEW x \in live' PROVE owners'[SerialOf[x.content]] # Nobody
      <4>1. job.config # Nobody
        BY <3>2, AppAssumption DEF Panels
      <4>2. CASE x = job
        BY <3>1, <3>2, <4>1, <4>2 DEF Serial, TypeInv
      <4>3. CASE x \in live
        BY <3>1, <3>3, <4>3, AppAssumption DEF WireInv, TypeInv, Panels
      <4> QED BY <3>1, <3>5, <4>2, <4>3
    <3>6. ASSUME NEW q \in Registered' PROVE Running(q)' \in live'
      <4>1. CASE q = job.config
        <5>1. Running(q)' = job
          BY <3>1, <3>2, <4>1 DEF Running, Panels, TypeInv
        <5> QED BY <5>1, <3>1
      <4>2. CASE q # job.config
        BY <3>1, <3>6, <4>2 DEF WireInv, Registered, Running, TypeInv
      <4> QED BY <4>1, <4>2
    <3> QED BY <3>1, <3>4, <3>5, <3>6 DEF WireInv
  <2>8. CASE Binds \/ PortInUse \/ NoPortFound
    BY <2>8, QuietOnTheWire DEF Binds, PortInUse, NoPortFound, StartFails, GoOn, registryVars
  <2>9. CASE EndReload \/ ShutDown
    BY <2>9, QuietOnTheWire DEF EndReload, ShutDown, GoOn, registryVars
  <2>10. ASSUME NEW p \in Configs, ShutdownStops(p)
         PROVE  WireInv'
    BY <2>10, PoppedOnTheWire DEF ShutdownStops
  <2>11. CASE Request
    BY <2>11, RequestFrame, QuietOnTheWire DEF mainVars, registryVars, workVars
  <2>12. CASE UNCHANGED vars
    BY <2>12, QuietOnTheWire DEF vars, registryVars, workVars
  <2> QED BY <2>1, <2>2, <2>3, <2>4, <2>5, <2>6, <2>7, <2>8, <2>9, <2>10, <2>11, <2>12
          DEF Next, MainTask
<1> QED BY <1>1, <1>2, TypesHold, PTL DEF Spec

(* No serial is ever on the wire twice, whatever the files name, whatever  *)
(* other processes hold, and whatever a failed start leaves behind.        *)
THEOREM OnePanel == Spec => []OnePanelPerSerial
<1>1. WireInv => OnePanelPerSerial
  BY DEF WireInv
<1> QED BY <1>1, WireHolds, PTL

-----------------------------------------------------------------------------
(***************************************************************************)
(* What a reload leaves running.                                           *)
(***************************************************************************)
(* A scan parts the configs: what it finds and what is hashed, each        *)
(* without the other, and what is in both with another hash.               *)
LEMMA ScanParts ==
  ASSUME TypeInv, ScanInv, BeginReload, at \in {"setup", "waiting"},
         UNCHANGED <<hashes, errors, panels>>, doing' = "start"
  PROVE  ScanInv'
<1>1. Worked = {} /\ doing = "start"
  BY DEF ScanInv, TypeInv
<1>2. \A p \in Configs \ errors :
         (p \in Registered <=> p \in Wanted) /\ (p \in Hashed <=> p \in Wanted)
  BY <1>1 DEF ScanInv
<1>3. /\ at' = "reconciling"
      /\ Wanted' = Discovered
      /\ toStart' = Discovered \ Hashed
      /\ toStop' = Hashed \ Discovered
      /\ toReload' = {p \in Discovered \cap Hashed : hashes[p] # disk[p]}
      /\ todo' = Worked'
  BY DEF BeginReload, Wanted, Discovered, OnDisk, Hashed, Worked
<1>4. Registered' = Registered /\ Hashed' = Hashed /\ errors' = errors
  BY DEF Registered, Hashed
<1>5. \A p \in Configs \ (Worked' \union errors) : p \in Discovered <=> p \in Hashed
  BY <1>3 DEF Worked
<1>6. Worked' = toStop' \union toReload' \union toStart'
  BY DEF Worked
<1> HIDE DEF Worked
<1> QED BY <1>2, <1>3, <1>4, <1>5, <1>6 DEF ScanInv, Hashed, Discovered, OnDisk

(* A reload's sets do not change while it works through them: a step that  *)
(* keeps them, what it has left to do, what is registered and what failed, *)
(* and stays where the main task is or fails nothing, keeps the parts.     *)
LEMMA QuietScan ==
  ASSUME ScanInv,
         UNCHANGED <<hashes, errors, panels, scanVars, todo, job, doing, at>>
  PROVE  ScanInv'
BY DEF ScanInv, Worked, Wanted, Hashed, Registered, scanVars

(* What reload() takes next, its panel popped or not.                      *)
LEMMA TakenInScan ==
  ASSUME TypeInv, ScanInv, NEW p \in Configs,
         StopRemoved(p) \/ ReloadChanged(p) \/ StartNew(p)
  PROVE  ScanInv'
<1>1. /\ at = "reconciling" /\ doing = "start" /\ p \in todo
      /\ todo' = todo \ {p}
      /\ UNCHANGED <<hashes, scanVars>>
      /\ at' \in {"reconciling", "stopping", "loading"}
  BY DEF StopRemoved, ReloadChanged, StartNew, Take, PopPanel, Load, TypeInv
<1>2. Worked' = Worked /\ Wanted' = Wanted /\ Hashed' = Hashed
  BY <1>1 DEF Worked, Wanted, Hashed, scanVars
<1>3. /\ UNCHANGED <<toStop, toReload, toStart>>
      /\ Worked = toStop \union toReload \union toStart
  BY <1>1 DEF scanVars, Worked
<1>4. CASE StopRemoved(p)
  <2>1. /\ Registered' = Registered \ {p}
        /\ errors' \in {errors, errors \ {p}}
        /\ p \in toStop
        /\ \/ at' = "reconciling" /\ doing' = "start"
           \/ at' = "stopping" /\ doing' = "stop" /\ job'.config = p
    BY <1>1, <1>4 DEF StopRemoved, Take, PopPanel, Registered, TypeInv, registryVars, workVars
  <2> QED BY <1>1, <1>2, <1>3, <2>1 DEF ScanInv
<1>5. CASE ReloadChanged(p) \/ StartNew(p)
  <2>1. /\ errors' = errors
        /\ p \in toReload \union toStart
        /\ job'.config = p
        /\ \/ at' = "loading" /\ doing' = "start" /\ Registered' = Registered
           \/ /\ at' = "stopping" /\ doing' = "reload"
              /\ p \in toReload /\ Registered' = Registered \ {p}
    BY <1>1, <1>5 DEF ReloadChanged, StartNew, Take, PopPanel, Load, Registered, TypeInv,
                      registryVars
  <2> QED BY <1>1, <1>2, <1>3, <2>1 DEF ScanInv
<1> QED BY <1>4, <1>5

(* A start that fails is an error, and nothing else of it is left to do.   *)
LEMMA FailedInScan ==
  ASSUME TypeInv, ScanInv, StartFails, UNCHANGED <<hashes, panels, scanVars, todo>>,
         at \in {"loading", "connecting", "binding"}
  PROVE  ScanInv'
<1>1. /\ Worked' = Worked /\ Wanted' = Wanted /\ Hashed' = Hashed /\ Registered' = Registered
      /\ UNCHANGED <<toStop, toReload, toStart, todo>>
  BY DEF Worked, Wanted, Hashed, Registered, scanVars
<1>2. /\ at' = "reconciling" /\ errors' = errors \union {job.config}
      /\ doing # "shutdown"
  BY DEF StartFails, GoOn, TypeInv
<1> QED BY <1>1, <1>2 DEF ScanInv

(* A reload keeps its parts, in every behaviour.                           *)
LEMMA ScanHolds == Spec => []ScanInv
<1>1. Init => ScanInv
  BY DEF Init, ScanInv, Worked, Wanted, Hashed, Registered
<1>2. TypeInv /\ ScanInv /\ [Next]_vars => ScanInv'
  <2> SUFFICES ASSUME TypeInv, ScanInv, [Next]_vars
               PROVE  ScanInv'
    OBVIOUS
  <2>1. CASE Run
    BY <2>1, ScanParts DEF Run, registryVars, workVars, TypeInv
  <2>2. CASE Wake
    <3>1. CASE running
      BY <2>2, <3>1, ScanParts DEF Wake, registryVars, workVars, TypeInv
    <3>2. CASE ~running
      BY <2>2, <3>2 DEF Wake, ScanInv
    <3> QED BY <3>1, <3>2
  <2>3. CASE PanelStopped
    <3>1. /\ UNCHANGED <<hashes, errors, panels, scanVars, todo, job, doing>>
          /\ at = "stopping" /\ at' = "releasing"
      BY <2>3 DEF PanelStopped, workVars
    <3> QED BY <3>1 DEF ScanInv, Worked, Wanted, Hashed, Registered, scanVars
  <2>4. CASE PanelReleased
    <3>1. /\ Worked' = Worked /\ Wanted' = Wanted /\ Hashed' = Hashed /\ Registered' = Registered
          /\ UNCHANGED <<toStop, toReload, toStart, todo>>
          /\ at = "releasing"
      BY <2>4, ReleasedGoesOn DEF Worked, Wanted, Hashed, Registered, scanVars
    <3>2. \/ doing = "stop" /\ at' = "reconciling" /\ errors' = errors \ {job.config}
          \/ at' = "shutdown"
          \/ doing = "reload" /\ at' = "loading" /\ UNCHANGED <<errors, job, doing>>
      BY <2>4, ReleasedGoesOn DEF GoOn, workVars
    <3>3. Worked = toStop \union toReload \union toStart
      BY DEF Worked
    <3> QED BY <3>1, <3>2, <3>3 DEF ScanInv
  <2>5. ASSUME NEW p \in Configs, StopRemoved(p) \/ ReloadChanged(p) \/ StartNew(p)
        PROVE  ScanInv'
    BY <2>5, TakenInScan
  <2>6. CASE Loads
    <3>1. CASE StartFails
      BY <2>6, <3>1, FailedInScan DEF Loads, registryVars
    <3>2. CASE ~StartFails
      <4>1. /\ at = "loading" /\ at' = "connecting" /\ job'.config = job.config
            /\ UNCHANGED <<hashes, errors, panels, scanVars, todo, doing>>
        BY <2>6, <3>2 DEF Loads, registryVars, TypeInv
      <4> QED BY <4>1 DEF ScanInv, Worked, Wanted, Hashed, Registered, scanVars
    <3> QED BY <3>1, <3>2
  <2>7. CASE ConnectFails \/ NoPortFound
    BY <2>7, FailedInScan DEF ConnectFails, NoPortFound, registryVars
  <2>8. CASE Connects
    <3>1. /\ Worked' = Worked /\ Wanted' = Wanted /\ Hashed' = Hashed
          /\ UNCHANGED <<toStop, toReload, toStart, todo, errors, job, doing>>
          /\ at = "connecting" /\ at' = "binding"
      BY <2>8 DEF Connects, Worked, Wanted, Hashed, scanVars
    <3>2. Registered' = Registered \union {job.config}
      BY <2>8, AppAssumption DEF Connects, Registered, TypeInv, Panels
    <3> QED BY <3>1, <3>2 DEF ScanInv
  <2>9. CASE Binds
    <3>1. /\ Worked' = Worked /\ Wanted' = Wanted /\ Hashed' = Hashed /\ Registered' = Registered
          /\ UNCHANGED <<toStop, toReload, toStart, todo>>
          /\ at = "binding" /\ at' = "reconciling" /\ errors' = errors \ {job.config}
          /\ doing # "shutdown"
      BY <2>9 DEF Binds, GoOn, Worked, Wanted, Hashed, Registered, scanVars, TypeInv
    <3> QED BY <3>1 DEF ScanInv
  <2>10. CASE PortInUse
    BY <2>10, QuietScan DEF PortInUse
  <2>11. CASE EndReload
    <3>1. CASE at' = "shutdown"
      BY <3>1 DEF ScanInv
    <3>2. CASE at' = "waiting"
      <4>1. /\ at = "reconciling" /\ todo = {} /\ todo' = {} /\ doing = "start"
            /\ Worked' = {} /\ Wanted' = Wanted /\ Registered' = Registered /\ errors' = errors
            /\ toStop' = {} /\ toReload' = {} /\ toStart' = {}
        BY <2>11 DEF EndReload, Worked, Wanted, Registered, registryVars, TypeInv
      <4>2. \A p \in Configs \ errors : p \in Registered <=> p \in Wanted
        BY <4>1 DEF ScanInv, Worked
      <4>3. \A p \in Configs \ errors : p \in Hashed' <=> p \in Wanted
        <5> SUFFICES ASSUME NEW p \in Configs \ errors
                     PROVE  NewHash(p) # NoHash <=> p \in Wanted
          BY <2>11 DEF EndReload, Hashed
        <5>1. CASE p \in toStop
          BY <4>1, <5>1 DEF ScanInv, NewHash
        <5>2. CASE p \notin toStop /\ p \in Wanted
          BY <5>2, AppAssumption DEF NewHash, Wanted, Failed, TypeInv
        <5>3. CASE p \notin toStop /\ p \notin Wanted
          BY <4>1, <5>3 DEF ScanInv, NewHash, Worked, Wanted, Hashed
        <5> QED BY <5>1, <5>2, <5>3
      <4> QED BY <3>2, <4>1, <4>2, <4>3 DEF ScanInv
    <3> QED BY <2>11, <3>1, <3>2 DEF EndReload, GoOn
  <2>12. ASSUME NEW p \in Configs, ShutdownStops(p)
         PROVE  ScanInv'
    BY <2>12 DEF ShutdownStops, PopPanel, ScanInv
  <2>13. CASE ShutDown
    BY <2>13 DEF ShutDown, ScanInv
  <2>14. CASE Request
    <3>1. /\ Worked' = Worked /\ Wanted' = Wanted /\ Registered' = Registered
          /\ UNCHANGED <<toStop, toReload, toStart, todo, errors, at, job, doing>>
      BY <2>14, RequestFrame DEF mainVars, registryVars, workVars, scanVars, Worked, Wanted,
                                 Registered
    <3>2. Hashed \subseteq Hashed' /\ Hashed' \subseteq Hashed \union Registered
      BY <2>14, RequestFrame DEF Hashed
    <3> QED BY <3>1, <3>2 DEF ScanInv
  <2>15. CASE UNCHANGED vars
    BY <2>15, QuietScan DEF vars, registryVars, workVars
  <2> QED BY <2>1, <2>2, <2>3, <2>4, <2>5, <2>6, <2>7, <2>8, <2>9, <2>10, <2>11, <2>12, <2>13,
             <2>14, <2>15 DEF Next, MainTask
<1> QED BY <1>1, <1>2, TypesHold, PTL DEF Spec

-----------------------------------------------------------------------------
(***************************************************************************)
(* The registries.                                                         *)
(***************************************************************************)
(* A set of ports that is not empty has a lowest one.                      *)
LEMMA LowestExists ==
  ASSUME NEW S \in SUBSET Ports, S # {}
  PROVE  \E n \in S : \A m \in S : n <= m
<1> DEFINE Less == OpToRel(<, Nat)
           Above == {k \in Nat : BasePort + k \in S}
<1>1. \A n \in S : n - BasePort \in Above /\ n \in Int
  BY AppAssumption DEF Ports
<1>2. Above # {} /\ Above \subseteq Nat
  BY <1>1
<1>3. PICK k \in Above : \A j \in Above : ~(<<j, k>> \in Less)
  <2>1. IsWellFoundedOn(Less, Nat)
    BY NatLessThanWellFounded
  <2> HIDE DEF Less, Above
  <2> QED BY <1>2, <2>1, WFMin, Zenon
<1>4. \A j \in Above : ~(j < k)
  <2> SUFFICES ASSUME NEW j \in Above, j < k PROVE FALSE
    OBVIOUS
  <2>1. <<j, k>> \in Less
    BY <1>2 DEF OpToRel
  <2> QED BY <2>1, <1>3
<1>5. BasePort + k \in S /\ k \in Nat
  BY <1>3
<1>6. \A m \in S : BasePort + k <= m
  BY <1>1, <1>4, <1>5, AppAssumption
<1> QED BY <1>5, <1>6

(* _allocate_port finds a port for a serial that holds none, and it is     *)
(* nobody's: every port taken is another serial's.                         *)
LEMMA PortIsLeft ==
  ASSUME NEW f \in [Serials -> Ports \union {Nobody}], NEW s \in Serials, f[s] = Nobody
  PROVE  LowestFree({f[t] : t \in Serials} \ {Nobody}) \in Ports \ {f[t] : t \in Serials}
<1> DEFINE taken == {f[t] : t \in Serials} \ {Nobody}
           others == Serials \ {s}
           held == {f[t] : t \in others}
           byOthers == [t \in others |-> f[t]]
<1>1. IsFiniteSet(others) /\ Cardinality(others) = Cardinality(Serials) - 1
  BY FS_RemoveElement, PortAssumption
<1>2. byOthers \in Surjection(others, held)
  BY DEF Surjection
<1>3. IsFiniteSet(held) /\ Cardinality(held) <= Cardinality(others)
  <2> HIDE DEF byOthers, others, held
  <2> QED BY <1>1, <1>2, FS_Surjection
<1>4. taken \subseteq held
  OBVIOUS
<1>5. IsFiniteSet(taken) /\ Cardinality(taken) <= Cardinality(held)
  BY <1>3, <1>4, FS_Subset
<1>6. /\ Cardinality(taken) \in Nat /\ Cardinality(held) \in Nat
      /\ Cardinality(others) \in Nat /\ Cardinality(Serials) \in Nat
  BY <1>1, <1>3, <1>5, FS_CardinalityType, PortAssumption
<1>7. Cardinality(taken) < LastPort - BasePort + 1
  BY <1>1, <1>3, <1>5, <1>6, PortAssumption, AppAssumption
<1>8. Cardinality(Ports) = LastPort - BasePort + 1
  BY <1>6, <1>7, FS_Interval, AppAssumption DEF Ports
<1>9. Ports \ taken # {}
  <2> SUFFICES ASSUME Ports \subseteq taken PROVE FALSE
    OBVIOUS
  <2>1. Cardinality(Ports) <= Cardinality(taken)
    BY <1>5, FS_Subset
  <2> QED BY <2>1, <1>6, <1>7, <1>8, AppAssumption
<1>10. LowestFree(taken) \in Ports \ taken
  <2>1. \E n \in Ports \ taken : \A m \in Ports \ taken : n <= m
    BY <1>9, LowestExists
  <2> HIDE DEF taken
  <2> QED BY <2>1 DEF LowestFree
<1> QED BY <1>10, AppAssumption

(* Nobody takes a port or gives one up while the app runs: the model's     *)
(* other processes hold what they hold.                                    *)
LEMMA BusyStays ==
  ASSUME TypeInv, [Next]_vars
  PROVE  busy' = busy
<1>1. CASE PanelReleased
  BY <1>1, ReleasedGoesOn
<1>2. CASE Request
  BY <1>2, RequestFrame DEF mainVars
<1>3. CASE MainTask /\ ~PanelReleased
  BY <1>3 DEF MainTask, Run, Wake, PanelStopped, StopRemoved, ReloadChanged, StartNew, PopPanel,
              Load, Loads, ConnectFails, Connects, Binds, PortInUse, NoPortFound, EndReload,
              ShutdownStops, ShutDown
<1> QED BY <1>1, <1>2, <1>3 DEF Next, vars

(* With every port free, no attempt is refused.                            *)
LEMMA NoneRefused ==
  ASSUME busy = {}, NobodyLeft, PortInUse \/ NoPortFound
  PROVE  FALSE
BY AppAssumption DEF NobodyLeft, PortInUse, NoPortFound

(* A panel that failed to start is not registered, and one to be started   *)
(* not yet.                                                                *)
LEMMA NobodyLeftStep ==
  ASSUME TypeInv, ScanInv, NobodyLeft, busy = {}, [Next]_vars
  PROVE  NobodyLeft'
<1>1. CASE Run \/ (Wake /\ running)
  <2>1. /\ at \in {"setup", "waiting"} /\ doing = "start" /\ at' = "reconciling"
        /\ Registered' = Registered /\ errors' = errors
        /\ toStart' \cap Hashed = {} /\ toStart' \subseteq Configs \ Worked
    BY <1>1 DEF Run, Wake, BeginReload, registryVars, Registered, Hashed, TypeInv, ScanInv,
                Discovered, OnDisk
  <2>2. \A p \in toStart' : p \in errors \/ p \notin Registered
    BY <2>1 DEF ScanInv
  <2> QED BY <2>1, <2>2 DEF NobodyLeft
<1>2. CASE Wake /\ ~running
  BY <1>2 DEF Wake, NobodyLeft, registryVars, scanVars, Registered
<1>3. CASE PanelStopped
  BY <1>3 DEF PanelStopped, NobodyLeft, workVars, scanVars, Registered
<1>4. CASE PanelReleased
  <2>1. /\ Registered' = Registered /\ errors' \subseteq errors
        /\ UNCHANGED <<todo, toStart>> /\ at = "releasing"
        /\ \/ at' \in {"reconciling", "shutdown"}
           \/ at' = "loading" /\ job' = job
    BY <1>4, ReleasedGoesOn DEF GoOn, workVars, scanVars, Registered
  <2> QED BY <2>1 DEF NobodyLeft
<1>5. ASSUME NEW p \in Configs, StopRemoved(p) \/ ReloadChanged(p) \/ StartNew(p)
      PROVE  NobodyLeft'
  <2>1. /\ at = "reconciling" /\ errors' \subseteq errors /\ Registered' \subseteq Registered
        /\ todo' \subseteq todo /\ toStart' = toStart
        /\ \/ at' = "reconciling"
           \/ at' \in {"stopping", "loading"} /\ job'.config = p
    BY <1>5 DEF StopRemoved, ReloadChanged, StartNew, Take, PopPanel, Load, Registered, TypeInv,
                registryVars, scanVars, workVars
  <2>2. at' \in {"stopping", "loading"} => p \notin Registered'
    BY <1>5 DEF StopRemoved, ReloadChanged, StartNew, Take, PopPanel, Load, Registered, TypeInv,
                registryVars, NobodyLeft
  <2> QED BY <2>1, <2>2 DEF NobodyLeft
<1>6. CASE Loads
  <2>1. /\ at = "loading" /\ Registered' = Registered
        /\ UNCHANGED <<todo, toStart>>
        /\ \/ at' = "reconciling" /\ errors' = errors \union {job.config}
           \/ at' = "connecting" /\ errors' = errors /\ job'.config = job.config
    BY <1>6 DEF Loads, StartFails, GoOn, registryVars, scanVars, Registered, TypeInv
  <2> QED BY <2>1 DEF NobodyLeft
<1>7. CASE ConnectFails
  <2>1. /\ at = "connecting" /\ Registered' = Registered
        /\ UNCHANGED <<todo, toStart>>
        /\ at' = "reconciling" /\ errors' = errors \union {job.config}
    BY <1>7 DEF ConnectFails, StartFails, GoOn, registryVars, scanVars, Registered
  <2> QED BY <2>1 DEF NobodyLeft
<1>8. CASE Connects
  <2>1. /\ at = "connecting" /\ at' = "binding" /\ job' = job
        /\ UNCHANGED <<todo, toStart, errors>> /\ doing \in {"reload", "start"}
        /\ attempt'.refused = 0
        /\ panels' = [panels EXCEPT ![job.config] = job.content]
        /\ job.config \in Configs
    BY <1>8 DEF Connects, scanVars, TypeInv
  <2>2. Registered' \subseteq Registered \union {job.config} /\ panels'[job.config] = job.content
    BY <2>1 DEF Registered, TypeInv
  <2>3. job.config \notin todo
    BY <2>1 DEF ScanInv
  <2> QED BY <2>1, <2>2, <2>3 DEF NobodyLeft
<1>9. CASE Binds
  <2>1. /\ at = "binding" /\ at' = "reconciling" /\ Registered' = Registered
        /\ errors' = errors \ {job.config}
        /\ UNCHANGED <<todo, toStart>>
    BY <1>9 DEF Binds, GoOn, scanVars, Registered
  <2> QED BY <2>1 DEF NobodyLeft
<1>10. CASE PortInUse \/ NoPortFound
  BY <1>10, NoneRefused
<1>11. CASE EndReload
  <2>1. /\ at = "reconciling" /\ at' \in {"waiting", "shutdown"} /\ Registered' = Registered
        /\ errors' = errors /\ toStart' = {}
    BY <1>11 DEF EndReload, GoOn, registryVars, Registered
  <2> QED BY <2>1 DEF NobodyLeft
<1>12. ASSUME NEW p \in Configs, ShutdownStops(p)
       PROVE  NobodyLeft'
  <2>1. /\ at = "shutdown" /\ at' = "stopping" /\ Registered' = Registered \ {p}
        /\ job'.config = p /\ UNCHANGED <<errors, todo, toStart>>
    BY <1>12 DEF ShutdownStops, PopPanel, Registered, TypeInv, scanVars
  <2> QED BY <2>1 DEF NobodyLeft
<1>13. CASE ShutDown
  BY <1>13 DEF ShutDown, NobodyLeft, registryVars, workVars, scanVars, Registered
<1>14. CASE Request \/ UNCHANGED vars
  <2>1. UNCHANGED mainVars
    BY <1>14, RequestFrame DEF vars, mainVars
  <2> QED BY <2>1 DEF mainVars, NobodyLeft, registryVars, workVars, scanVars, Registered
<1> QED BY <1>1, <1>2, <1>3, <1>4, <1>5, <1>6, <1>7, <1>8, <1>9, <1>10, <1>11, <1>12, <1>13, <1>14
        DEF Next, MainTask

(* A step that touches no registry, and no stop, leaves the owners' book.  *)
LEMMA QuietOwners ==
  ASSUME OwnersBook, UNCHANGED <<live, owners, panels>>,
         \/ at \notin {"stopping", "releasing"} /\ at' \notin {"stopping", "releasing"}
         \/ UNCHANGED <<at, job>>
         \/ at = "releasing" /\ at' \notin {"stopping", "releasing"}
  PROVE  OwnersBook'
BY DEF OwnersBook, Registered, Running, Serial

(* A popped panel still owns its serial until it has stopped.              *)
LEMMA PoppedOwners ==
  ASSUME TypeInv, OwnersBook, at \notin {"stopping", "releasing"},
         NEW p \in Registered, NEW why, PopPanel(p, why)
  PROVE  OwnersBook'
<1>1. /\ job' = Running(p) /\ p \in Configs /\ panels[p] \in Contents
      /\ UNCHANGED <<live, owners>>
      /\ at' = "stopping"
  BY DEF PopPanel, Running, registryVars, Registered, TypeInv
<1>2. /\ Registered' = Registered \ {p}
      /\ \A q \in Registered' : panels'[q] = panels[q]
  BY DEF PopPanel, Registered, TypeInv
<1>3. live' = {Running(q) : q \in Registered}' \union {job'}
  <2>1. {Running(q) : q \in Registered}' = {Running(q) : q \in Registered \ {p}}
    BY <1>2 DEF Running
  <2> QED BY <1>1, <2>1 DEF OwnersBook
<1>4. Serial' = SerialOf[panels[p]] /\ job'.config = p
  BY <1>1 DEF Serial, Running
<1>5. owners[SerialOf[panels[p]]] = p
  BY DEF OwnersBook
<1>6. ASSUME NEW s \in Serials, owners[s] # Nobody
      PROVE  \/ owners[s] \in Registered' /\ SerialOf[panels'[owners[s]]] = s
             \/ owners[s] = p /\ s = Serial'
  BY <1>1, <1>2, <1>4, <1>6 DEF OwnersBook
<1>7. \A q \in Registered' : owners[SerialOf[panels'[q]]] = q
  BY <1>2 DEF OwnersBook
<1> QED BY <1>1, <1>3, <1>4, <1>5, <1>6, <1>7 DEF OwnersBook

(* Who owns a serial, and what is on the wire.                             *)
LEMMA OwnersStep ==
  ASSUME TypeInv, WireInv, NobodyLeft, OwnersBook, busy = {}, [Next]_vars
  PROVE  OwnersBook'
<1>1. CASE Run \/ Wake
  BY <1>1, QuietOwners DEF Run, Wake, BeginReload, registryVars
<1>2. CASE PanelStopped
  <2>1. /\ live' = live \ {job} /\ owners' = [owners EXCEPT ![Serial] = Nobody]
        /\ job.config \notin Registered /\ owners[Serial] = job.config
        /\ at = "stopping" /\ at' = "releasing" /\ UNCHANGED <<panels, job>>
        /\ Serial' = Serial /\ Serial \in Serials
    BY <1>2, AppAssumption DEF PanelStopped, WireInv, OwnersBook, workVars, Serial, TypeInv, Panels
  <2>2. Registered' = Registered /\ \A q \in Registered : Running(q)' = Running(q)
    BY <2>1 DEF Registered, Running
  <2>3. live' = {Running(q) : q \in Registered}'
    <3>1. job \notin {Running(q) : q \in Registered}
      BY <2>1 DEF Running
    <3>2. {Running(q) : q \in Registered}' = {Running(q) : q \in Registered}
      BY <2>2, <2>1 DEF Running
    <3> QED BY <2>1, <3>1, <3>2 DEF OwnersBook
  <2>4. ASSUME NEW s \in Serials, owners'[s] # Nobody
        PROVE  owners'[s] \in Registered' /\ SerialOf[panels'[owners'[s]]] = s
    BY <2>1, <2>2, <2>4 DEF OwnersBook, TypeInv
  <2>5. ASSUME NEW q \in Registered'
        PROVE  owners'[SerialOf[panels'[q]]] = q
    <3>1. owners[SerialOf[panels[q]]] = q /\ q \in Registered
      BY <2>2 DEF OwnersBook
    <3>2. SerialOf[panels[q]] # Serial
      BY <2>1, <3>1
    <3>3. SerialOf[panels[q]] \in Serials
      BY <3>1, AppAssumption DEF Registered, TypeInv
    <3> QED BY <2>1, <3>1, <3>2, <3>3 DEF TypeInv
  <2>6. owners'[Serial'] = Nobody
    BY <2>1 DEF TypeInv
  <2> QED BY <2>1, <2>3, <2>4, <2>5, <2>6 DEF OwnersBook
<1>3. CASE PanelReleased
  <2>1. /\ UNCHANGED <<live, owners, panels>>
        /\ at = "releasing" /\ at' \notin {"stopping", "releasing"}
    BY <1>3, ReleasedGoesOn DEF GoOn
  <2> QED BY <2>1, QuietOwners
<1>4. ASSUME NEW p \in Configs, StopRemoved(p) \/ ReloadChanged(p) \/ StartNew(p)
      PROVE  OwnersBook'
  <2>1. at = "reconciling"
    BY <1>4 DEF StopRemoved, ReloadChanged, StartNew, Take
  <2>2. CASE \E why : p \in Registered /\ PopPanel(p, why)
    BY <2>1, <2>2, PoppedOwners
  <2>3. CASE \E why : Load(p, why)
    BY <2>1, <2>3, QuietOwners DEF Load, registryVars
  <2>4. CASE UNCHANGED <<registryVars, at, job>>
    BY <2>4, QuietOwners DEF registryVars
  <2> QED BY <1>4, <2>2, <2>3, <2>4
          DEF StopRemoved, ReloadChanged, StartNew, Take, workVars
<1>5. CASE Loads \/ ConnectFails
  <2>1. /\ UNCHANGED <<live, owners, panels>>
        /\ at \notin {"stopping", "releasing"} /\ at' \notin {"stopping", "releasing"}
    BY <1>5 DEF Loads, ConnectFails, StartFails, GoOn, registryVars
  <2> QED BY <2>1, QuietOwners
<1>6. CASE Connects
  <2>1. /\ live' = live \union {job}
        /\ panels' = [panels EXCEPT ![job.config] = job.content]
        /\ owners' = [owners EXCEPT ![Serial] = job.config]
        /\ at = "connecting" /\ at' = "binding"
        /\ owners[Serial] = Nobody
        /\ job.config \notin Registered
    BY <1>6 DEF Connects, WireInv, NobodyLeft
  <2>2. job \in Panels /\ Serial \in Serials /\ job.config \in Configs /\ job.content \in Contents
    BY <1>6, AppAssumption DEF Connects, TypeInv, Panels, Serial
  <2>3. /\ Registered' = Registered \union {job.config}
        /\ \A q \in Registered : panels'[q] = panels[q]
        /\ panels'[job.config] = job.content
    BY <2>1, <2>2, AppAssumption DEF Registered, TypeInv
  <2>4. live' = {Running(q) : q \in Registered}'
    <3>1. [config |-> job.config, content |-> panels'[job.config]] = job
      BY <2>2, <2>3 DEF Panels
    <3>2. \A q \in Registered : [config |-> q, content |-> panels'[q]] = Running(q)
      BY <2>3 DEF Running
    <3>3. live = {Running(q) : q \in Registered}
      BY <2>1 DEF OwnersBook
    <3>4. {Running(q) : q \in Registered}' = {Running(q) : q \in Registered} \union {job}
      <4>1. {Running(q) : q \in Registered}'
              = {[config |-> q, content |-> panels'[q]] : q \in Registered \union {job.config}}
        BY <2>3 DEF Running
      <4> QED BY <3>1, <3>2, <4>1
    <3> QED BY <2>1, <3>3, <3>4
  <2>5. ASSUME NEW s \in Serials, owners'[s] # Nobody
        PROVE  owners'[s] \in Registered' /\ SerialOf[panels'[owners'[s]]] = s
    <3>1. CASE s = Serial
      BY <2>1, <2>2, <2>3, <3>1 DEF Serial, TypeInv
    <3>2. CASE s # Serial
      <4>1. owners'[s] = owners[s]
        BY <2>1, <3>2 DEF TypeInv
      <4>2. owners[s] \in Registered /\ SerialOf[panels[owners[s]]] = s
        BY <2>1, <2>5, <4>1 DEF OwnersBook
      <4> QED BY <2>3, <4>1, <4>2
    <3> QED BY <3>1, <3>2
  <2>6. ASSUME NEW q \in Registered'
        PROVE  owners'[SerialOf[panels'[q]]] = q
    <3>1. CASE q = job.config
      BY <2>1, <2>2, <2>3, <3>1 DEF Serial, TypeInv
    <3>2. CASE q \in Registered
      <4>1. owners[SerialOf[panels[q]]] = q /\ q \in Configs /\ SerialOf[panels[q]] \in Serials
        BY <3>2, AppAssumption DEF OwnersBook, Registered, TypeInv
      <4>2. SerialOf[panels[q]] # Serial
        BY <2>1, <4>1, AppAssumption
      <4> QED BY <2>1, <2>3, <3>2, <4>1, <4>2 DEF TypeInv
    <3> QED BY <2>3, <3>1, <3>2
  <2> QED BY <2>1, <2>4, <2>5, <2>6 DEF OwnersBook
<1>7. CASE Binds
  <2>1. /\ UNCHANGED <<live, owners, panels>>
        /\ at \notin {"stopping", "releasing"} /\ at' \notin {"stopping", "releasing"}
    BY <1>7 DEF Binds, GoOn
  <2> QED BY <2>1, QuietOwners
<1>8. CASE PortInUse \/ NoPortFound
  BY <1>8, NoneRefused
<1>9. CASE EndReload \/ ShutDown
  <2>1. /\ UNCHANGED <<live, owners, panels>>
        /\ at \notin {"stopping", "releasing"} /\ at' \notin {"stopping", "releasing"}
    BY <1>9 DEF EndReload, ShutDown, GoOn, registryVars
  <2> QED BY <2>1, QuietOwners
<1>10. ASSUME NEW p \in Configs, ShutdownStops(p)
       PROVE  OwnersBook'
  BY <1>10, PoppedOwners DEF ShutdownStops
<1>11. CASE Request \/ UNCHANGED vars
  <2>1. UNCHANGED mainVars
    BY <1>11, RequestFrame DEF vars, mainVars
  <2> QED BY <2>1, QuietOwners DEF mainVars, registryVars, workVars
<1> QED BY <1>1, <1>2, <1>3, <1>4, <1>5, <1>6, <1>7, <1>8, <1>9, <1>10, <1>11 DEF Next, MainTask

(* A step that touches neither owner nor port, no start at its port and no *)
(* stop at its release, leaves the ports' book.                            *)
LEMMA QuietPorts ==
  ASSUME PortsBook, UNCHANGED <<owners, ports, used>>,
         \/ at \notin {"releasing", "binding"} /\ at' \notin {"releasing", "binding"}
         \/ UNCHANGED <<at, job, attempt>>
  PROVE  PortsBook'
BY DEF PortsBook, Serial

(* Which ports are taken, and by whom.                                     *)
LEMMA PortsStep ==
  ASSUME TypeInv, WireInv, NobodyLeft, OwnersBook, PortsBook, busy = {}, [Next]_vars
  PROVE  PortsBook'
<1>1. CASE Run \/ Wake
  BY <1>1, QuietPorts DEF Run, Wake, BeginReload, registryVars
<1>2. CASE PanelStopped
  <2>1. /\ owners' = [owners EXCEPT ![Serial] = Nobody]
        /\ UNCHANGED <<ports, used, job>> /\ Serial' = Serial
        /\ at = "stopping" /\ at' = "releasing"
    BY <1>2 DEF PanelStopped, workVars, Serial
  <2>2. Serial \in Serials /\ ports[Serial] # Nobody
    <3>1. Serial \in Serials /\ job.config \in Configs
      BY <2>1, AppAssumption DEF Serial, TypeInv, Panels
    <3>2. owners[Serial] # Nobody
      BY <2>1, <3>1, AppAssumption DEF OwnersBook
    <3> QED BY <2>1, <3>1, <3>2 DEF PortsBook
  <2> QED BY <2>1, <2>2 DEF PortsBook, TypeInv
<1>3. CASE PanelReleased
  <2>1. /\ ports' = [ports EXCEPT ![Serial] = Nobody] /\ used' = used \ {ports[Serial]}
        /\ owners' = owners
        /\ at = "releasing" /\ at' \notin {"releasing", "binding"}
    BY <1>3, ReleasedGoesOn DEF GoOn
  <2>2. Serial \in Serials /\ owners[Serial] = Nobody
    BY <2>1, AppAssumption DEF Serial, TypeInv, Panels, OwnersBook
  <2>3. /\ ports \in [Serials -> Ports \union {Nobody}]
        /\ \A s \in Serials \ {Serial} : ports[s] # Nobody <=> owners[s] # Nobody
        /\ \A s, t \in Serials : ports[s] = ports[t] => s = t \/ ports[s] = Nobody
        /\ used = {ports[s] : s \in Serials} \ {Nobody}
    BY <2>1 DEF PortsBook
  <2>4. /\ ports'[Serial] = Nobody
        /\ \A s \in Serials \ {Serial} : ports'[s] = ports[s]
        /\ ports' \in [Serials -> Ports \union {Nobody}]
    BY <2>1, <2>2, <2>3
  <2>5. used' = {ports'[s] : s \in Serials} \ {Nobody}
    <3>1. ASSUME NEW n, n \in used' PROVE n \in {ports'[s] : s \in Serials} \ {Nobody}
      <4>1. PICK s \in Serials : n = ports[s] /\ n # Nobody /\ n # ports[Serial]
        BY <2>1, <2>3, <3>1
      <4> QED BY <4>1, <2>4
    <3>2. ASSUME NEW s \in Serials, ports'[s] # Nobody PROVE ports'[s] \in used'
      <4>1. s # Serial
        BY <2>4, <3>2
      <4> QED BY <2>1, <2>2, <2>3, <2>4, <3>2, <4>1
    <3> QED BY <3>1, <3>2
  <2>6. ASSUME NEW s \in Serials PROVE ports'[s] # Nobody <=> owners'[s] # Nobody
    BY <2>1, <2>2, <2>3, <2>4
  <2>7. \A s, t \in Serials : ports'[s] = ports'[t] => s = t \/ ports'[s] = Nobody
    BY <2>3, <2>4
  <2> QED BY <2>1, <2>4, <2>5, <2>6, <2>7 DEF PortsBook
<1>4. ASSUME NEW p \in Configs, StopRemoved(p) \/ ReloadChanged(p) \/ StartNew(p)
      PROVE  PortsBook'
  <2>1. /\ UNCHANGED <<owners, ports, used>>
        /\ at \notin {"releasing", "binding"} /\ at' \notin {"releasing", "binding"}
    BY <1>4 DEF StopRemoved, ReloadChanged, StartNew, Take, PopPanel, Load, registryVars
  <2> QED BY <2>1, QuietPorts
<1>5. CASE Loads \/ ConnectFails
  <2>1. /\ UNCHANGED <<owners, ports, used>>
        /\ at \notin {"releasing", "binding"} /\ at' \notin {"releasing", "binding"}
    BY <1>5 DEF Loads, ConnectFails, StartFails, GoOn, registryVars
  <2> QED BY <2>1, QuietPorts
<1>6. CASE Connects
  <2>1. /\ owners' = [owners EXCEPT ![Serial] = job.config]
        /\ attempt' = [port |-> LowestFree(used), refused |-> 0]
        /\ used' = used \union {attempt'.port}
        /\ UNCHANGED <<ports, job>> /\ Serial' = Serial
        /\ at = "connecting" /\ at' = "binding"
        /\ owners[Serial] = Nobody
    BY <1>6 DEF Connects, WireInv, Serial
  <2>2. Serial \in Serials /\ job.config # Nobody
    BY <2>1, AppAssumption DEF Serial, TypeInv, Panels
  <2>3. /\ ports \in [Serials -> Ports \union {Nobody}]
        /\ \A s \in Serials : ports[s] # Nobody <=> owners[s] # Nobody
        /\ \A s, t \in Serials : ports[s] = ports[t] => s = t \/ ports[s] = Nobody
        /\ used = {ports[s] : s \in Serials} \ {Nobody}
    BY <2>1 DEF PortsBook
  <2>4. ports[Serial] = Nobody
    BY <2>1, <2>2, <2>3
  <2>5. attempt'.port \in Ports \ {ports[s] : s \in Serials}
    BY <2>1, <2>2, <2>3, <2>4, PortIsLeft
  <2>6. ASSUME NEW s \in Serials
        PROVE  ports'[s] # Nobody <=> owners'[s] # Nobody /\ ~(s = Serial)
    BY <2>1, <2>2, <2>3, <2>4 DEF TypeInv
  <2> HIDE DEF Serial
  <2> QED BY <2>1, <2>3, <2>5, <2>6 DEF PortsBook
<1>7. CASE Binds
  <2>1. /\ ports' = [ports EXCEPT ![Serial] = attempt.port]
        /\ UNCHANGED <<owners, used>>
        /\ at = "binding" /\ at' = "reconciling"
    BY <1>7 DEF Binds, GoOn
  <2>2. Serial \in Serials /\ owners[Serial] # Nobody
    <3>1. Serial \in Serials /\ job.config \in Configs /\ job.content \in Contents
      BY <2>1, AppAssumption DEF Serial, TypeInv, Panels
    <3>2. panels[job.config] = job.content
      BY <2>1 DEF NobodyLeft
    <3>3. job.config \in Registered
      BY <3>1, <3>2, AppAssumption DEF Registered
    <3> QED BY <3>1, <3>2, <3>3, AppAssumption DEF OwnersBook, Serial
  <2>3. /\ ports \in [Serials -> Ports \union {Nobody}]
        /\ \A s \in Serials : ports[s] # Nobody <=> owners[s] # Nobody /\ s # Serial
        /\ \A s, t \in Serials : ports[s] = ports[t] => s = t \/ ports[s] = Nobody
        /\ used = ({ports[s] : s \in Serials} \ {Nobody}) \union {attempt.port}
        /\ attempt.port \in Ports \ {ports[s] : s \in Serials}
    BY <2>1 DEF PortsBook
  <2>4. /\ ports'[Serial] = attempt.port
        /\ \A s \in Serials \ {Serial} : ports'[s] = ports[s]
        /\ ports' \in [Serials -> Ports \union {Nobody}]
    BY <2>1, <2>2, <2>3
  <2>5. attempt.port # Nobody /\ ports[Serial] = Nobody
    BY <2>2, <2>3, AppAssumption
  <2>6. used' = {ports'[s] : s \in Serials} \ {Nobody}
    <3>1. ASSUME NEW n, n \in used' PROVE n \in {ports'[s] : s \in Serials} \ {Nobody}
      <4>1. CASE n = attempt.port
        BY <2>2, <2>4, <2>5, <4>1
      <4>2. CASE n # attempt.port
        <5>1. PICK s \in Serials : n = ports[s] /\ n # Nobody
          BY <2>1, <2>3, <3>1, <4>2
        <5> QED BY <2>4, <2>5, <5>1
      <4> QED BY <4>1, <4>2
    <3>2. ASSUME NEW s \in Serials, ports'[s] # Nobody PROVE ports'[s] \in used'
      <4>1. CASE s = Serial
        BY <2>1, <2>3, <2>4, <4>1
      <4>2. CASE s # Serial
        BY <2>1, <2>3, <2>4, <3>2, <4>2
      <4> QED BY <4>1, <4>2
    <3> QED BY <3>1, <3>2
  <2>7. ASSUME NEW s \in Serials PROVE ports'[s] # Nobody <=> owners'[s] # Nobody
    BY <2>1, <2>2, <2>3, <2>4, <2>5
  <2>8. \A s, t \in Serials : ports'[s] = ports'[t] => s = t \/ ports'[s] = Nobody
    BY <2>3, <2>4
  <2> HIDE DEF Serial
  <2> QED BY <2>1, <2>4, <2>6, <2>7, <2>8 DEF PortsBook
<1>8. CASE PortInUse \/ NoPortFound
  BY <1>8, NoneRefused
<1>9. CASE EndReload \/ ShutDown
  <2>1. /\ UNCHANGED <<owners, ports, used>>
        /\ at \notin {"releasing", "binding"} /\ at' \notin {"releasing", "binding"}
    BY <1>9 DEF EndReload, ShutDown, GoOn, registryVars
  <2> QED BY <2>1, QuietPorts
<1>10. ASSUME NEW p \in Configs, ShutdownStops(p)
       PROVE  PortsBook'
  <2>1. /\ UNCHANGED <<owners, ports, used>>
        /\ at \notin {"releasing", "binding"} /\ at' \notin {"releasing", "binding"}
    BY <1>10 DEF ShutdownStops, PopPanel
  <2> QED BY <2>1, QuietPorts
<1>11. CASE Request \/ UNCHANGED vars
  <2>1. UNCHANGED mainVars
    BY <1>11, RequestFrame DEF vars, mainVars
  <2> QED BY <2>1, QuietPorts DEF mainVars, registryVars, workVars
<1> QED BY <1>1, <1>2, <1>3, <1>4, <1>5, <1>6, <1>7, <1>8, <1>9, <1>10, <1>11 DEF Next, MainTask

(* The books are kept in every behaviour in which no other process holds a *)
(* port of the app's.                                                      *)
LEMMA BooksHold == Spec => []BooksInv
<1>1. Init => BooksInv
  <2> SUFFICES ASSUME Init PROVE NobodyLeft /\ OwnersBook /\ PortsBook
    BY DEF BooksInv
  <2>1. Registered = {} /\ at = "setup" /\ live = {} /\ used = {} /\ errors = {} /\ todo = {}
    BY DEF Init, Registered
  <2>2. /\ owners = [s \in Serials |-> Nobody]
        /\ ports = [s \in Serials |-> Nobody]
    BY DEF Init
  <2> QED BY <2>1, <2>2 DEF NobodyLeft, OwnersBook, PortsBook
<1>2. TypeInv /\ WireInv /\ ScanInv /\ BooksInv /\ [Next]_vars => BooksInv'
  BY BusyStays, NobodyLeftStep, OwnersStep, PortsStep DEF BooksInv
<1> QED BY <1>1, <1>2, TypesHold, WireHolds, ScanHolds, PTL DEF Spec

(* Between reloads the registries tell one story: what is on the wire is   *)
(* what is registered, each serial leads to its panel and its port, and    *)
(* nothing is held for nobody.                                             *)
THEOREM RegistriesTellOneStory == Spec => []RegistriesAgree
<1>1. BooksInv => RegistriesAgree
  <2> SUFFICES ASSUME Settled, busy = {}, OwnersBook, PortsBook
               PROVE  RegistriesAgree
    BY DEF BooksInv, RegistriesAgree
  <2>1. at \notin {"stopping", "releasing", "binding"}
    BY DEF Settled
  <2> QED BY <2>1 DEF OwnersBook, PortsBook, RegistriesAgree
<1> QED BY <1>1, BooksHold, PTL

(* A reload leaves running what its scan asked for, less what failed to    *)
(* start and is shown as an error, whatever was requested while it went on.*)
THEOREM ReloadReconciles == Spec => []Reconciled
<1>1. TypeInv /\ ScanInv /\ BooksInv => Reconciled
  <2> SUFFICES ASSUME TypeInv, ScanInv, BooksInv, at = "waiting",
                      NEW p \in Configs, p \notin errors \/ busy = {}
               PROVE  p \in Registered <=> current[p] # NoFile /\ p \notin errors
    BY DEF Reconciled
  <2>1. doing = "start" /\ Worked = {}
    BY DEF TypeInv, ScanInv
  <2>2. CASE p \notin errors
    BY <2>1, <2>2 DEF ScanInv, Wanted
  <2>3. CASE p \in errors
    BY <2>3 DEF BooksInv, NobodyLeft
  <2> QED BY <2>2, <2>3
<1> QED BY <1>1, TypesHold, ScanHolds, BooksHold, PTL
=============================================================================
