# TLA+ models and proofs of PanelBench

PanelBench simulates electrical panels: each config file becomes a panel that
announces itself over HTTP, publishes a retained tree of topics to an MQTT
broker, ticks, and is edited from a web dashboard, which can also clone a real
panel and import what Home Assistant recorded of it. This directory holds TLA+
specifications of the parts of it whose correctness depends on the order of
events or on two pieces of code agreeing with each other. TLC checks them on
small instances; the theorems are proved with TLAPS for every value of the
constants.

Paths below are relative to `src/src/panelbench/` unless they start with `tests/`.

## The system

The program is one asyncio event loop. What runs concurrently is a handful of
tasks and request handlers that interleave at their awaits, the broker, the real
panels and the network at the other end of each connection, and the threads
aiomqtt connects in.

| Component | State it keeps | Operations | Modelled in |
|---|---|---|---|
| Broker link (`emitter_adapter/broker_link.py`) | supervisor task, current session, its `Timeout`, `failed`, operations in flight, `_routes`, `_orphans` | `connect`, `disconnect`, `publish`, `subscribe`, `unsubscribe`; the supervisor's connect, restore, read, leave, back off | `BrokerLink`, promised by `Link` |
| MQTT broker and TCP (outside the repository) | connections held, unread bytes, wills, retained topics | accept, read, take over, restart | `MqttBroker` (external) |
| Publish queue (`emitter_adapter/transport.py`) | a bounded queue, its drainer, `is_running` | `_submit`, drain, `aclose` | `PanelRuntime` |
| Panel on the wire (`emitter_adapter/runtime.py`, the tick of `panel.py`) | runtime handle, tick task | `start_clone`, tick, reconnect hook, `stop_clone` | `PanelRuntime` |
| Emitter and eBus SDK (outside the repository) | device tree, property values | announce, set a value, farewell | `PanelRuntime` (external) |
| Orchestrator (`app.py`) | registries of panels, serials, ports and servers; config hashes, start errors, stopped configs, filter; reload event, running flag | `run`, `reload`, `_start_panel`, `_stop_panel`, requests, `stop` | `SimulatorApp` |
| Lifecycle requests (`dashboard/routes.py`) | none of their own | start, stop, restart, save, battery edit, delete | `SimulatorApp` |
| Signals (`__main__.py`) | stop tasks | SIGTERM, SIGINT | `SimulatorApp` |
| Config, its loader and its ratings (`config_defaults.py`, `pv_rating.py`, `pv_section.py`, `validation.py`) | none | normalise, validate | `PanelConfig` |
| What a config publishes and what a clone reads (`emitter_adapter/spec_generator.py`, `clone.py`, `definition_import.py`) | none | publish, translate, import | `ClonedPanel` |
| Editor (`dashboard/config_store.py`) | the config being edited, its dirty flag, its file | load, import, the mutators, save | `ConfigStore`, promised by `EditStore` |
| Dashboard requests (`dashboard/routes.py`) | the file the one editor is of, clones waiting for a confirmation; locals held across awaits | open, edit, save, clone, confirm, import, re-scrape, restore, delete | `Dashboard` |
| Scraper and secrets (`scraper.py`, `panel_secrets.py`) | a file of passphrases and broker credentials | connect, register, keep, read the tree, migrate | `SourcePanel` |
| Engine, circuits (`engine.py`, `circuit.py`, `energy/`) | circuit states, overrides | override, tick, the what-if passes | `LivePanel` |
| Usage profiles (`ha_api/profile_builder.py`, `profile_applicator.py`, the synthetic power of `engine.py`) | none | build, apply, play | `UsageProfile` |
| Simulation clock (`clock.py`) | anchor, offset, acceleration, whether time is simulated | `initialize`, `set_time`, the acceleration setter, `current_time` | `SimulationTime` |
| Recorder replay (`recorder.py`, with `engine.py`) | series per entity | `load`, `get_power`, `ensure_lookback` | `SimulationTime` |
| Rates, discovery, Home Assistant client, certificates, conformance tool | none that outlives a call, or a cache file | | not modelled, see below |

### How they interact

* The **orchestrator**'s main task alone starts and stops panels. The dashboard
  and the signal handler never do: they change files, `_stopped_configs`,
  `_config_filter` and `_config_hashes`, then set `_reload_event`; they run
  between any two awaits of the main task, which works from sets computed by
  a scan at the start of each reload.
* Starting a **panel** runs `start_clone`: it connects a **link**, builds the
  queueing transport on it, and lets the **emitter** queue the panel's whole
  tree. The **drainer** takes one item at a time through the link, dropping it
  when there is no session. When the link reconnects it restores its filters
  and calls the hook, which queues the whole tree again.
* Stopping a panel queues the final state, stops the emitter submitting, joins
  the queue, then disconnects. A clean disconnect discards the will, so the final
  state has to have arrived; a failed session must keep its will, so it must
  *not* say goodbye.
* There is **one editor** for all files and all browser tabs. Handlers that await
  (a scrape, a Home Assistant query, a weather query, a purge) resume over
  whatever the editor and the directory hold by then. Every edit, load and save
  runs the **loader's** normaliser and validator, the same that a panel's engine
  runs when it starts.
* A **scrape** reads the panel's tree through a link of its own, with credentials
  from the request, from the **secrets file**, or newly registered. `clone.py`
  turns the tree into a config, whose panel publishes a tree again.
* The **engine** of a running panel is built from its file; relay and priority
  commands reach it as overrides on the *first* running panel, and the modelling
  page computes two more passes over its circuits.

### What is hard, and what makes each component correct

* **Link.** A connect runs in a thread that cannot be cancelled; a broker may be
  frozen and accept much later; one operation's failure must end the session,
  cut short every other operation on it and the supervisor's own wait, once,
  whichever of them the loop runs first; filters are restored while callers
  change them. Correct: no connection without an owner, none left without
  telling the broker, nothing waiting on a dead session, every route restored,
  each outage logged once, a failed session keeps its will; and the link comes
  back, and a disconnect leaves nothing behind.
* **Panel on the wire.** What the broker retains has to be true of the panel,
  through outages that empty the queue at any point, failed starts, takeovers,
  restarts of the broker and the stop.
* **Orchestrator.** Configs may come to share a serial, files change under a
  reload, ports are in use elsewhere, requests race the reload that deals with
  the panel they name. Correct: one panel per serial, registries that agree,
  requests and the shutdown that take effect in the end.
* **Editor and config.** An edit is many writes to one nested mapping, and a
  circuit's rating may stand in four places left by several releases. Correct:
  an edit is all or nothing, what is edited can be saved, and ratings end with
  one source. Two of a circuit's three locks have no published value: a clone
  infers them, and has to publish what it read.
* **Dashboard.** Answers arrive in any order over one shared editor. Correct: the
  editor is of a file that is there, and a shipped default is changed by no request
  but a clone to that very name.
* **Scraper and secrets.** A registration cannot be undone; a tree is discovered
  one device at a time; a passphrase moves between two files in two writes.
  Correct: what is kept worked, nothing known is forgotten, a scrape is the whole
  tree, and it ends.
* **Live panel.** Commands are laid over circuits that edits and reloads rebuild;
  the modelling page's two passes share the circuits but must not share what was
  edited; a profile built from recorded watts is normalised twice. Correct:
  commands hold, Before is what was recorded, After is what runs, and an imported
  profile plays what was seen.
* **Clock and recorder.** The clock is set, sped up and slowed at any moment, and
  the modelling view replaces the series the ticks replay. Correct: a change of
  speed applies only from now on, and what is replayed was recorded at, or a
  whole number of windows from, the time the panel shows.

`PROJECT.json` lists the hazards one by one, each at its line, with the
properties that cover it.

## Modules

```
Link <- - - - - - .
MqttBroker <- BrokerLink <- PanelRuntime <- MCPanelRuntime      (2 cfgs)
                  ^  ^            ^-------- PanelRuntimeProofs  (TLAPS)
                  |  '----- MCBrokerLink          |
                  '-------- BrokerLinkProofs <----'             (TLAPS)
SimulatorApp <- MCSimulatorApp                                  (2 cfgs)
          ^---- SimulatorAppProofs                              (TLAPS)
PanelConfig <- ClonedPanel <- ConfigStore <- MCConfigStore
               EditStore <- - - -'     ^---- ConfigStoreProofs  (TLAPS)
Dashboard <- MCDashboard                                        (2 cfgs)
       ^---- DashboardProofs                                    (TLAPS)
SourcePanel <- MCSourcePanel
        ^----- SourcePanelProofs                                (TLAPS)
UsageProfile <- LivePanel <- MCLivePanel                        (2 cfgs)
                    ^------- LivePanelProofs                    (TLAPS)
SimulationTime <- MCSimulationTime
            ^---- SimulationTimeProofs                          (TLAPS)
```

Solid arrows are `EXTENDS`; the dashed ones are `INSTANCE`: `Link` is the abstract
link that `BrokerLink` implements, `EditStore` the abstract editor that
`ConfigStore` implements. `PanelRuntime` is the link with
the queue and the panel on top of it and shares its variables. The other
families stand alone, each abstracting its neighbours: in `SimulatorApp` a
panel's `start_clone` and `stop_clone` are single awaits, which is what
`StopEnds` and the connect deadline entitle it to; in `Dashboard` a config is the
panel it is of and what was done to it, and an edit is one step, which is what
`KeepsPromise` entitles it to; in `LivePanel` a request is one step, since the
ones it has do not await, and in `SourcePanel` a scrape's broker is asked once,
since `BrokerLink` answers for the session.

### MqttBroker (external)

What the link relies on of a broker: a connection's bytes are read in order
(CONNECT, publishes, goodbye); the client id is the panel's, so accepting a
connection takes over the one held and publishes its will; a DISCONNECT
discards the will, a socket that merely closes publishes it. Faults: a connect
refused, a connection cut with or without the client noticing, the client's
socket dying first, a restart that loses everything (the broker of
`tests/integration/conftest.py` has no persistence). A frozen broker is one that takes no step.
Quality-of-service details, keepalive (a cut the client notices) and dispatch of
messages are not modelled.

### BrokerLink

One action is what a task does between two awaits. Client `k` is the `k`-th
`aiomqtt.Client` and also its `_Session`; client 0 is `None`.

| Model | Code |
|---|---|
| `owner`, `connected` | where the caller of `connect()`/`disconnect()` is; the future `connect()` awaits |
| `sup`, `cur`, `reconnecting`, `cancelled` | where `_supervise` is, the client of its current attempt, its flag, `cancel()` |
| `session`, `deadline`, `failed` | `self._session`, `session._serving` (its `asyncio.Timeout`), `session.failed` |
| `on`, `cut` | `session._operations`: who is in flight on what, and whose deadline was brought forward |
| `routes`, `todo`, `sent` | `_routes`, what `_restore` has left of its snapshot, the SUBSCRIBEs written to each client |
| `orphans` | `_orphans`, held by `_close_when_connected` |
| `SupConnected`, `SupConnectFails`, `SupConnectCancelled`, `OrphanCloses` | `_connected_session` and the shielded connect |
| `RestoreSends`, `RestoreAcknowledged`, `RestoreFails`, `RunHook` | `_restore` |
| `ReaderSeesDrop`, `DeadlineFires`, `ServingRaises`, `ServingCancelled`, `LeaveEnds` | the ways out of the serving block, with `_leave` and `_exit` |
| `Fail`, `Abandon`, `ReportOutage`, `Withdraw`, `LeaveSession` | the methods of the same names, with an underscore where the code has one |

An outage's operation that is still counted on an old session may fail after the
next one is up: `deadline` belongs to the serving block of `cur`, and `Fail(k, ..)`
touches it only when `k = cur`, as `session._serving` does.

`reported` is `session.outage_reported`. `warned` and `traced` are history: the
warnings of an outage, and whether a traceback, logged since the link was last
up. `OutageReportedOnce` counts warnings per outage and not per session, so that an
old session's late failure, or a reconnect that is refused, which belongs to
another client, cannot warn of the same outage again; and it asks for one, whichever of
an operation, the restore and the reader saw the end first. It speaks of a link
that is to come back: what `disconnect()` cuts short may log an outage that is
none.

Left out: the numbers of the back-off. All that is used of them is that a
delay outlasts a turn of the loop (`SleepEnds` has `cut = {}` and
`owner # "connecting"`). `subscribe` and `unsubscribe` are modelled for callers;
the handlers a route leads to, and errors of a connect that are not
`MqttError`, are not.

### PanelRuntime

Adds `phase` and `announced` (where `start_clone`/`stop_clone` are), `isRunning`
and `queue` (`LoopBoundTransport`), and `reading` (a value the tick publishes).
`Submit` is `_submit` of several items: a full queue refuses an item by raising,
so what came before it stays queued and what comes after is never submitted.
`RepublishTree` is the link's `RunHook` with the hook's effect. The SDK submits
nothing while `is_running` is false, as `transport.py` says. An outage drops
items one by one in `DrainPublish`; a dropped `subscribe` is still recorded in
`_routes` and so is restored.

The queue may be full at any of them: nothing keeps a tick, a republished tree or a
farewell from meeting the bound, and `QueueAssumption` asks only that there is one.
`refused` is history: the topics whose last value found the queue full. The
properties say what holds of what the queue took, and a run of its own shows what
becomes of a farewell it refused. The one thing said of the tick's period is that,
with the link down, what the last tick queued is gone by the next: the
drainer fails such items at once, and a tick is a second.

Left out: the building of the definition, live battery updates, the transport a
caller supplies for wire capture, the link's catch-all (`ServingRaises`:
nothing a panel subscribes to raises there).

### SimulatorApp

| Model | Code |
|---|---|
| `disk` | the config directory; a content is what its file hashes to |
| `filter`, `stopped` | `_config_filter`, `_stopped_configs` |
| `hashes`, `errors` | `_config_hashes` (`Invalid` is the `""` a restart stores), `_panel_start_errors` |
| `panels`, `owners`, `ports`, `used` | `_panels`, `_serial_to_panel`, `_panel_ports` with `_panel_servers`, `_used_ports` |
| `live` | the panels that tick and hold a connection |
| `running`, `event` | `_running`, `_reload_event` |
| `at`, `job`, `doing`, `attempt` | the await the main task is at, and the locals of `_start_panel`/`_stop_panel` |
| `current`, `toStop`, `toReload`, `toStart`, `todo` | `reload()`'s locals |

`BeginReload`, `StopRemoved`, `ReloadChanged`, `StartNew`, `EndReload` are
`reload()`; `PanelStopped`, `PanelReleased` follow `_stop_panel`'s pop;
`Loads`, `ConnectFails`, `Connects`, `Binds`, `PortInUse`, `NoPortFound` are
`_start_panel`. The requests (`RequestStart`, `RequestStop`, `RequestRestart`,
`RequestReload`, `Save`, `SaveBess`, `DeleteChecks`/`DeleteUnlinks`) run between
any two of those, guarded as the routes guard them; `HandEdit` is another
program writing to the directory.

Abstractions: an HTTP port stands for the pair a server binds; `Broken`
contents stand for every config a panel cannot start from (unreadable, invalid,
bad tabs); a file that is being deleted is one that was found not running and is
unlinked an await later. Left out: a bind error that is not `EADDRINUSE`, mDNS
and the Supervisor failing, a server whose stop raises, `set_config_filter`
(nothing calls it), `.last_config`, the rewriting of old configs at
migration, and requests made between two stops of the shutdown, which nobody
reads.

### PanelConfig

Pure operators over one config: which PV circuit the `pv` section describes
(`PvCircuits`, `Bound`, `SectionCircuit`), the one rule for where a rating comes
from (`Claims`, `RatingPlan`, `RatingConflicts`, `FoldLegacyRatings`), the
normaliser (`Normalise`) and the validator (`Valid`). `IsConfig` says what the schema makes
of a file before any of them runs: its keys, and that of all ratings only a
template's whole profile may be missing. A template's *shape* is
everything these functions do not read. Left out: the type and range of each
field, which the schema states, and warnings.

### ClonedPanel

`Published` is the device tree a config's panel publishes: for each circuit its
spaces, priority and whether that is settable, whether its relay is
controllable, what it feeds and that device's power; and the panel's size and the
capacity of its battery, which is published when it is enabled, at 13.5 kWh if it
states none. The circuits of the drives are those of drives' templates, or the one
`evse.feed` names instead. `Translated` is `clone.py`'s config of such a tree,
`FromDefinition` the editor's import of one (`Importable`: refused when the battery
does not survive). `CloneRepublishes` compares with `Sized` of the tree, not with the
tree: a clone takes a size of nothing for one that is not stated (see "Disagreements
found"). Left out: a circuit that both an inverter and a drive name as their feed, which
is for the emitter to arrange, and a rating that is no number, which the manifest refuses
(`Publishable`); names and identities (and with them a commissioned backup circuit that is known
by its name alone), energy registers, breakers, lugs, the MID, an inverter that no
circuit feeds, and the panel's own values.

### ConfigStore and EditStore

`config`, `dirty` and `disk` are `ConfigStore._state`, `_dirty` and the file.
`Edit` is the store's transaction: apply to a copy, normalise, validate, and keep
all of it or nothing; every mutator is an action that gives `Edit` its change.
`LoadFromFile`, `Import`, `ImportDefinition` and `SaveToFile` are the four ways a
whole config comes and goes. `EditStore` is what the docstrings promise of that: a
load shows what the loader makes of the file, an edit changes all or nothing and
never the file, a save writes what is edited. `KeepsPromise` is
`EditStore`'s specification under `content <- config`, with the loader's
operators as its parameters. `StoredConfigs` takes the files and the forms to be
what the schema and the edit page let through. Left out: display names, simulation parameters, the
projection to `EntityView`s, and the passphrase a load moves (`SourcePanel` has
it).

### Dashboard

`store`, `dirty` and `editing` are the one editor, `files` the directory,
`engine` what each running panel was started with, `hash` what the app believes
it runs. A request that awaits occupies a slot of `rq`, with the await it is at
and what its handler read before it (`file`, `panel`, `read`): what a handler
writes after an await it writes from those locals and into whatever the editor
and the directory hold by then. A config is the panel it was cloned from and
the *marks* of what was done to it. `AppReload` is the orchestrator's reload
seen from here: whole, between two steps. Rendering, form parsing, the setup and
rates pages, the simulation-time and grid controls and the recorder pages are
left out.

### SourcePanel

`store` is the secrets file, `damaged` that it cannot be read, `cfg` the
passphrase each config still holds, `issued` and `accepted` the credentials each
panel gave out and those its broker takes. A scrape goes through the phases of
`scrape_panel`: find the serial (`Start`), connect with supplied, kept or no
credentials (`UseSupplied`, `UseKept`), be refused and register
(`Connected`, `Refused`, `Register`, `KeepRegistered`), read the tree as it is
discovered (`Validated`, `TreeTaken`), `Finish`, or give up at any of its waits
(`GivesUp`). `Migrate` and `LoadConfig` move passphrases out of configs.
`DropFile`, `Revoke`, `Damage`, `Repair`, `Crash` and `MigrateCut` are what a
user, an owner or a power cut may do; a cut leaves each file either as it was or
as it was to be, which is what `panel_secrets.py` writes its own file for and
what `_migrate`'s plain write of a config does not guarantee (see below).

### UsageProfile and LivePanel

`UsageProfile` computes over exact fractions what the code does in floats: the
profile of recorded watts (`HourFactors` with interpolated gaps, `ActiveDays`,
`Profiled`) and the template's own model (`Shaped`, `Cycled`, `Spared`,
`Clamped`). `Power` chooses the recording or the model.

| Model of `LivePanel` | Code |
|---|---|
| `saved`, `open`, `edit` | the files, the one the editor holds, `ConfigStore`'s circuits |
| `order`, `engine` | `_panels` in its order, the engine of each with its circuits and overrides |
| `SetRelay`, `PutEntity`, `Pushed` | `handle_set_relay`, `handle_put_entity`, `_set_circuit_relay`/`_priority`: the override goes to the first running panel |
| `PutProfile`, `Save`, `LeaveReplay`, `ImportProfiles` | the handlers of the same names |
| `Tick` | `circuit.tick`: overrides first, then the power, which an open relay stops |
| `Model` | `compute_modeling_data`: `before`, `after`, and the grid's power `Site` |
| `told` | (history) the last relay command each panel took |

Left out: months, seasons, weather and HVAC, which scale a day's hours alike;
noise; a modelled battery; islanding and rate dispatch; energy counters, which
nothing in the repository reads (the emitter keeps its own).

### SimulationTime

| Model | Code |
|---|---|
| `wall` | `time.time()` |
| `useSim`, `realStart`, `offset`, `accel` | `_use_simulation_time`, `_real_start_time`, `_time_offset`, `_time_acceleration` |
| `CurrentTime`, `Anchor`, `SetTime`, `SetTimeRefused`, `SetAcceleration` | `current_time`, `set_time`, its two outcomes, the `time_acceleration` setter |
| `series` | `_series`: the periods held of each entity; their means are `Recorded` |
| `Load`, `Expand`, `ExpansionLoaded`, `ExpansionFails` | `load`, `ensure_lookback` and the two ways its await ends |
| `Clamp`, `Wrap`, `GetPower` | the three stages of `get_power` |
| `panel`, `BeginStart`, `StartLoaded`, `Initialize`, `Stop` | `_load_recorder_data`, then the engine's construction and `initialize_async`, then the panel's stop |

Times are integers. The history provider answers with the periods that are over
when it answers and that begin no earlier than the lookback before the query did
(`Statistics`); hourly and 5-minute records, which `load` queries one after
the other and merges, are one set. Interpolation rounds down. Left out: the noise
the engine adds to what it replays, entities a user has edited
(which the engine does not replay), time zones, the override kept for before
`initialize` (nothing sets it), and the energy counters of `circuit.py`, which
nothing in the repository reads: the emitter keeps its own.

## Runs

| Run | Instance | States | Shows |
|---|---|---|---|
| `link_safety` | 3 clients, 2 filters, one caller and the restore | 1.2 M | types, the safety properties and the action property of the link, and that it implements `Link` |
| `runtime` | 3 clients, queue of 4, 1 filter, 1 new reading, fair | 603 k | what the broker retains is true of the panel, up, down and after the stop, but for what a full queue refused; the link comes back (`LinkKeptUp`) and a panel that runs is ready again; a stop ends, and nothing is left at the broker (`NothingOutlivesTheLink`) |
| `runtime_full_queue` | 2 clients, queue of 4 | | **violation**: a panel stopped with a full queue is left ready |
| `app` | 2 configs, 2 serials, 3 ports, 1 edit, fair | 379 k | serials, registries, reconciliation; stop, start and shutdown take effect |
| `app_port` | as `app` | | **violation**: a port retry tries the same port |
| `simulation_time` | 2 entities, speeds 1 and 3, two lookbacks | 58 k | time moves at the rate in force unless it is set; what is replayed was recorded around the time it stands for |
| `config_store` | 108 files, 1 load, 2 edits | 147 k | edits are all or nothing and never touch the file (`KeepsPromise`); ratings end with one source; what is edited can be saved; a clone publishes what its panel does, but for sizes of nothing |
| `editor` | 2 requests at once, 4 calls, 3 names, 1 source panel | 2.6 M | the editor is of a file that is there; a default is changed only by a clone to its name, at that request's own steps |
| `editor_live_bess` | as `editor` | | **violation**: a live battery edit marks the whole file as what runs |
| `source` | 2 panels, 2 scrapes at once, a device behind a device, 2 configs, 1 fault, fair | 127 k | what is kept worked, nothing known is forgotten, a scrape is the whole tree, and it ends |
| `live_panel` | 2 files of 2 circuits, 2 calls, 2 days of 3 hours | 66 k | commands hold; Before is the recording; After is what runs; an imported profile plays what was seen, unless the power range cuts it |
| `live_lock` | as `live_panel` | | **violation**: the lock of one panel guards the relay of another |

### Bounds and why they are enough

* `MaxClients` (3): one connection to lose, one that is late or orphaned from the
  first outage, one to recover on. The last is spared faults (`Faulty`) and is
  dialled only once the broker has settled the others, so that a behaviour
  never ends for want of a client and liveness speaks about the link and not
  about the bound. Retained state, wills and takeovers never involve more than
  two connections at a time and a late third.
* Two filters let the restore be overtaken by a `subscribe` and an
  `unsubscribe` between its operations; they are interchangeable (the run's symmetry). One caller besides the restorer: in the program the link
  has one, the drainer; the proofs cover any number.
* In the link's own run the caller publishes only the payload that clears a
  topic (`Values` is empty): what is published decides nothing in the link. It
  matters to `PanelRuntime`, whose run publishes states, descriptions and readings.
* A queue of 4 takes an announcement and no more, so ticks fill it, a republished
  tree is refused at every point of it, and a farewell is taken whole, in part or not
  at all. The reading changes once (`MaxReadings`), which tells a stale value from the
  current one.
* Two configs, a serial with two contents and one with one, and a broken
  content give every relation of two files: distinct, the same serial, swapped
  by an edit, broken and repaired. Three ports, the lowest possibly in use, and
  two attempts: enough for a retry, and for a port to be freed and taken.
* In `SimulationTime` a unit is half an hour: a period and the clamp last two.
  The wall clock moves from `FirstWall` to `LastWall` (8 to 11), and at speed 3,
  or set to 3 or 30, the panel's time gets before, inside, just past and several
  windows past what is held. One entity was recorded throughout; the other's
  sensor was away, so its window is shorter, has a gap, and is one period until
  a view asks for more. Two views at once (`MaxViews`), with a shorter and a
  longer lookback, end in either order.
* `config_store` starts from 108 files: the combinations of the four places a
  rating may stand (template profile, template top, circuit override, `pv`
  section), the section's feed, one or two PV circuits on one template, an old
  or a new release, commissioned and never-backup locks; and, without
  the places that only rate, a circuit wired to a drive and a battery that is switched off. The forms hold a rating of 0 and a battery of no
  capacity. One load and two edits
  (`MaxLoads`, `MaxEdits`): a second edit meets what the first one left, and every
  edit ends in the same normalise-and-validate, so a third adds no new state of
  the ratings. Forms, spaces and sizes are one for each thing an edit can disturb.
* `editor` has two request slots and four calls (`MaxCalls`): one request held at
  an await, one more to move the editor or the file under it, one to start or
  stop a panel and one to see the result. A default, the name of a panel's clone
  and a second file of the user's are the three kinds of name a handler tells apart.
* `source` has a scraped panel and another whose credentials may be typed for it,
  a device behind a device (discovered only through its parent), two scrapes,
  two credentials a panel may issue besides what is typed wrong, two configs and
  one fault: with two writes to a migration, one crash shows each cut.
* `live_panel` has two files of two circuits (recorded whole, recorded with an
  hour never seen; a locked one; a producer in one file where the other has a
  consumer), a day of three hours and a week of two days, which is the least in
  which an interpolation, a peak and an inactive day differ. Two calls of the
  dashboard between starts, reloads, ticks and reports, which are not bounded.

### Fairness and why the code justifies it

The event loop runs every task that is ready, so each task (the panel's start and
stop, the supervisor, the tick, the drainer, the orphans' closing) is weakly fair.
Nothing makes a fault, a request, a signal or a stop happen. The broker reads what
it is sent, eventually, from one connection or another. A stop does not wait for that:
each operation has its own deadline (`OperationFails`), but on the last client, which
is spared faults. A publish keeps being tried (the tick), which is how a half-open
connection is noticed; so the link's own liveness is checked in the panel's run. The
back-off's timer elapses whatever the tick queues meanwhile, which is the one strong
fairness (`Reconnect`). In `SimulatorApp` only the main task is fair: each
await of it ends, a connect in success or in failure. In `SourcePanel` each
scrape is fair, because every wait of it has a timeout of its own; nothing is
assumed of the panel, so a scrape may end in failure. `ConfigStore`, `Dashboard`,
`LivePanel` and `SimulationTime` state no liveness and no fairness.

## Disagreements found

With a run that shows them:

1. **A port in use is retried, not skipped** (`app.py:378`, run `app_port`). The
   port is released and then the lowest free one is allocated: the same one. All
   attempts fail, and the panel stays registered and ticking with no server.
2. **A live battery edit hides other edits from the reload** (`app.py:235`, run
   `editor_live_bess`). The handler saves the whole editor, the running panel
   takes its battery alone, and the hash of the whole file is stored as what it
   runs: with another edit pending, no reload sees the difference.
3. **A lock is read from one panel and the relay of another is driven**
   (`app.py:270`, run `live_lock`). The lock is the editor's config's, the circuit
   the first running panel's.
4. **A panel stopped with a full queue is left ready** (`emitter_adapter/runtime.py:279`,
   run `runtime_full_queue`). The queue refuses the final state by raising; what was
   queued before it is drained, the disconnect is clean, the will is discarded, and the
   retained tree says ready for ever. `stop_clone` drains first so that this does not
   happen.

Met while modelling, each in the model as the code has it; where a property would
say otherwise, none is stated:

* Orchestrator. A restart requested during a reload is lost, and a config put
  back as it was after a failed reload is not retried: the end of a reload
  records, for every path, the hash its scan read (`app.py:658`).
* Panel on the wire. A full queue may refuse the `ready` of a republished tree: a panel
  that runs is then not ready on the broker until the next reconnect. A reading
  it refuses is not sent again until it changes or a reconnect republishes the tree. Disconnecting with an operation in
  flight logs an outage although there is none.
* Recorder. A panel at the speed of the wall clock starts at the end of its
  window, passes the clamp an hour later and jumps to the start of it; the
  comments at `recorder.py:210` and `engine.py:674` say it stays within the data.
* Ratings and forms. Two legacy ratings that disagree, beside a stated profile,
  are dropped rather than refused. `update_entity_profile` writes
  `hourly_multipliers` and leaves an imported `hour_factors` in place, which the
  engine prefers (`engine.py:294`): a drawn profile has no effect. Adding a second
  entity of a type overwrites the first one's template. A total of tabs edited
  away from the `model` keeps publishing the model's size.
* Clone and definitions. An inverter rated at 0 W, which the editor writes and the
  validator accepts, is cloned at the default rating (`clone.py:1058`). A battery of
  capacity 0 is published, but a clone leaves it out (`clone.py:1003`), and its
  definition cannot be imported. A circuit named by `evse.feed` alone becomes a circuit
  of the drives' in a clone. A tree of a release before 202639 with two PV circuits
  translates to a config that is refused. A commissioned backup circuit that was
  renamed loses its lock. An upstream inverter, virtual PV and an EVSE behind no
  circuit are dropped. Two circuits on one first space merge. A definition import
  turns a custom battery mode into self-consumption.
* Dashboard. A re-scrape writes into whatever config is open when it answers; a
  profile import loads the file it began with over whatever is open and loses
  edits made meanwhile; a clone under force, or confirmed under a default's name,
  overwrites the default; a panel started during the purge loses its file
  (`handle_delete_config` says it refuses a file that is running or being edited;
  it does not look at the latter); the history generator rewrites a file from what
  it read before it awaited the weather, over anything saved meanwhile.
* Live panel. Priority edits are pushed to the first running panel, whatever
  file is open. `user_open_ids` forgets an opened circuit once its priority is edited (the engine's
  own list of overrides is replaced per circuit, the circuit's is merged). The Before pass
  drops a circuit deleted from the config and falls back to the edited template
  where the recording has a gap. `restore_recorder` leaves a circuit's own
  overrides, and an import does not override a circuit's own typical power, so
  neither plays what was recorded. A profile's inactive days lower the week's
  mean below the recorded one. `_compute_power_at` and
  `_estimate_consumer_annual_wh` apply the duty cycle on top of hour factors,
  which the tick does not. Clearing overrides would leave a relay and a priority
  as they were last driven (nothing calls it); a clock set back lowers the energy
  counters.
* Secrets. `take_from_config` drops a passphrase that has no origin serial. When
  the certificate cannot be fetched after a registration the credentials are
  lost, and two first scrapes of one panel both register. A mistyped passphrase
  replaces a kept one when the panel's broker accepts supplied credentials.
  `_migrate` rewrites a config in place, not atomically.
* Unused: `resolve_tou_dispatch`, `set_config_filter` and `clear_overrides` have
  no caller, and `set_grid_islandable` changes an energy system nothing reads.

## Proofs

`BrokerLinkProofs` proves, for any number of clients, callers, topics and
filters, every safety property `link_safety` checks:

| Theorem | Property |
|---|---|
| `TypeCorrect` | `TypeOK` |
| `BooksAlwaysBalance` | `BooksBalance`, the bookkeeping behind the others |
| `FailuresEndSessions` | `FailedSessionEnds` |
| `NoOperationIsStranded` | `NothingWaitsOnADeadSession` |
| `NoClientIsStrayed` | `NoStrayClient`, and that a client left says goodbye |
| `EveryRouteIsRestored` | `RoutesRestored` |
| `OutagesAreReportedOnce` | `OutageReportedOnce` |
| `FailedSessionsKeepTheirWills` | `FailedSessionKeepsItsWill` |
| `LinkKeepsPromise` | `LinkPromised`: `BrokerLink` implements `Link` |

They assume `BrokerAssumption` and `LinkAssumption`: there is a client, the
will's topic is a topic, its payload and the absent one are not payloads of a
caller, and the restore is not one of the callers. TLC evaluates both in every run.

None of the properties is inductive. That an operation on a session that is gone
has been cut short depends on who is counted on which client; that depends on
the supervisor never dialling a client an operation is already on, on the session
being the one served, and on a session's deadline being due as soon as the
session is no longer handed out; that a failed session is never handed out again
depends on failures only ever concerning clients already dialled. `BooksBalance`
says these things, one conjunct per book (owner, session, operations, clients,
routes). The inductive invariant is

    LinkInv == Typed /\ OwnerBooks /\ SessionInv /\ NothingWaitsOnADeadSession
                     /\ ClientInv /\ RouteInv

and it is proved in layers, each lemma assuming the layers before it: types
(`TypedKept`), the owner (`OwnerBooksKept`), sessions with operations
(`SessionInvKept`), waits (`WaitsKept`), clients and goodbyes
(`ClientsKept`, with `NetworkOnlyKills` for what broker and faults may do to a
socket), routes (`RoutesKept`). The action property follows from it action by action.

That an outage is reported once needs one layer more (`AlarmInv`): while the client of
the last session is served, or an operation on it has still to fail, what was logged
since the link was last up is what that client reported; and no operation in flight
is on another client, so nothing older is left to warn once the back-off has begun.

The refinement needs `LinkInv` and one fact more, that no filter was sent for on a
client before it is the session's (`FreshClients`). The five ways a serving block
ends are one `Down` of the abstract link, or nothing to see when the session was
taken down before (`EndIsDown`: then all that waits has been recalled already). An
operation's end is `Done` or `Fails`, and a `Fails` on the live session takes it
down in the same step. A redial is a `Redial`, which asks that nobody still waits
on the session before. The restore on a failed session is invisible. Since
every step of a panel is a step of its link or leaves it alone, the link inside a
panel keeps the promise too (`PanelLinkKeepsPromise`).

`SimulationTimeProofs` proves, for any history, entities, speeds, times and
configs, under `TimeAssumption` (times are integers, speeds and durations are
naturals, a config's start time is one of the times or none):

| Theorem | Property |
|---|---|
| `SimTypeCorrect` | `SimTypeOK`: types, and that the anchor is never in the future and nothing is held that was not over |
| `ClockRateCorrect` | `ClockKeepsItsRate` |
| `ReplaysAreRecorded` | `ReplayIsRecorded` |

`SimTypeOK` is inductive. That the clock's anchor stays an integer when a panel
starts at the end of its window needs the window to have an end: the recorded
periods are bounded by the wall clock, and a bounded non-empty set of integers
holds its greatest element (`LatestIsOne`, by the well-foundedness of the
naturals). The rate follows action by action: `Pass` adds the multiplier once
(`StepsAtARate`), `SetAcceleration` anchors at the time shown, everything else
leaves clock and wall alone (`ClockAloneKeepsTime`). `ReplayIsRecorded` takes the
lookup of `recorder.py` apart: what a series holds is recorded and has ends
(`SeriesIsRecorded`, `FiniteHasEnds`); wrapping into the window moves a time by a whole
number of windows and lands inside it (`WrappedByWindows`); two neighbours around
a time inside the window exist (`PairEnds`); and a value part of the way between
two lies between them (`PartOfTheWay`, `Interpolated`), which is where `%` and `\div`
are.

`PanelRuntimeProofs` proves, for any number of clients, readings and filters and
a queue of any size, full or not, every safety property `runtime` checks:

| Theorem | Property |
|---|---|
| `QueuedFarewellsAreHeard` | `QueuedFarewellIsHeard` |
| `ReadyPanelsAreDescribed` | `ReadyIsDescribed` |
| `LiveTreesAreCurrent` | `LiveTreeIsCurrent` |
| `FinalStateIsFinal` | `NoReadyAfterFinal` |
| `PanelIsAccountedFor` | `RuntimeInv`, the invariant they follow from |

Each step of the panel is a step of the link or leaves it alone (`RuntimeSteps`), so
`LinkInv` carries over (`LinkInvKept`). The rest of the invariant is about what is on
its way: item `i` of the queue, packet `i` on connection `k`.

* `PhaseBooks`, `PipeBooks`, `ByeBooks`, `LeaveBooks`: the phase agrees with where
  the link's owner is; the broker holds one connection at a time, and what is unread
  there belongs to a drainer that still waits or to a session that is going to
  fail; who has said goodbye, and how.
* `LastWordBooks`: behind a final state, or a description's removal, queued, sent or
  retained, there is no ready.
* `WillBooks`: before `disconnect()`, if the panel is ready on the broker or will be
  by what was already sent, the broker still holds a served connection, whose
  will it owes; and no ready waits in the queue of a link that is still connecting.
* `FarewellBooks`: once the panel has stopped running, the final state is queued
  behind every ready, or every ready there is will be undone by a connection that
  ends with its will or with the final state. This is said of a final state the queue
  took, and is what
  `QueuedFarewellIsHeard` becomes when the connections are gone and the queue is
  empty.
* `DescriptionBooks`: each ready on its way has its description ahead of it, and each
  removal a final state ahead of it, in one FIFO made of two (`ReadyIsDescribed`
  alone is not inductive).
* `TreeBooks`: while the link serves, the last word on each topic, in the queue,
  then in the pipe, then retained, is the current tree's, for every topic whose last
  value the queue took (`StaysRefused` says which those are after a submission).

The steps fall into kinds (`RuntimeKinds`, `NetworkKinds`): those that move no
item, those that queue some (`StartQueues`, `TickQueues`, `RepublishQueues`,
`StopQueues`), those that take the head (`DrainMoves`, `SubscribeMoves`), those
by which the broker reads one or a connection ends with its will. Each book has one
lemma that goes through the kinds (`WillsKept`, `FarewellsKept`, `TreesKept`, ...).

`SimulatorAppProofs` proves, for any configs, contents, serials, ports and bounds,
every safety property `app` checks:

| Theorem | Property |
|---|---|
| `OnePanel` | `OnePanelPerSerial` |
| `RegistriesTellOneStory` | `RegistriesAgree` |
| `ReloadReconciles` | `Reconciled` |

They assume `AppAssumption` and `PortAssumption`, that there is a port for each
serial: the code's search for one has no end. The invariant ties the main task's
locals to the registries at each of its awaits: who is on the wire holds
its serial (`WireInv`); a reload's three sets are apart, what it has dealt with is as
it should be, and what it leaves alone runs if it was scanned (`ScanInv`); and, where
no other process holds a port, the registries disagree only about the panel
being worked on (`NobodyLeft`, `OwnersBook`, `PortsBook`). That a port is left for a
panel that has none is a count of ports against serials (`PortIsLeft`).

`DashboardProofs` proves, for any files, panels and number of waiting requests:

| Theorem | Property |
|---|---|
| `EditorHasItsFile` | `EditorFileExists` |
| `DefaultsAreKept` | `DefaultsOnlyCloned` |

`DefaultsOnlyCloned` does not say that a default is never overwritten: a clone under force,
or confirmed, may be of its name. It says that no other request does it, at any
step, and that the step is the clone's own. The invariant `EditorInv` says what a request that waits carries with it (`Carries`)
and that the defaults, which the editor falls back on, are all there.

`ConfigStoreProofs` proves, for any files, forms, names and bounds:

| Theorem | States |
|---|---|
| `StoreKeepsPromise` | `KeepsPromise`: `ConfigStore` implements `EditStore` |
| `SavesAreAccepted` | `SaveIsNeverRefused` |
| `EditsLeaveOneRating` | `EditsSettleRatings` |
| `ClonesRepublish` | `CloneRepublishes` |
| `LocksSurviveClone` | for a circuit of any config that loads and can be published, what `clone.py` infers of its three locks is what they are |

The refinement needs no invariant and no fact about the loader: the initial state
maps to a clean editor, and each action is a `Change`, `Open`, `Touch` or `Save` of
the abstract editor, by where it calls the normaliser and the validator and not
by what they compute (`EditIsChange`, `NoEditIsTouch`, `StepIsPromised`). The next
two are about what they compute, under `StoredConfigs`. `StoreInv` says that what is
edited is a config whose every template has a profile, that the validator accepts
it, and that the file holds a config. The work is in the fold of legacy ratings: a
plan that is accepted leaves no claim of its template (`AcceptedSettles`), one that is
refused leaves its claims as they were (`RefusedStays`), which section a fold
removes changes no other circuit's binding (`FoldBound`), and so what the validator
accepted it accepts after another normalisation (`NormalisedAgain`). Every mutator
keeps a config one (`FormChange`, `AddChange`, `DefinitionChange`, ...).

`ClonesRepublish` says that a clone publishes the same tree, but for sizes of nothing
(`Sized`). It follows a config through `Published`, `Translated`, the normaliser
and `Published` again: the tree is well formed (`PublishedIsTree`); the config made of
it differs from the tree's in nothing the tree shows (`TranslatedIsClone`); it claims no
rating twice, so normalising changes none (`CloneClaimsNothing`, `NormalisedClone`);
its inverters feed the same spaces (`CloneFeeds`); so it publishes that tree
(`ClonePublishes`) and loads (`CloneLoads`). It has two hypotheses:

* `TellsApart(Nat)`: templates named after different spaces have different names.
  The names are made with `ToString`, of which the provers know nothing; TLC
  evaluates the same formula for the spaces of standard panels (`SpacesAreNamed`).
* `Commissionable = {"pv"}`: only a PV circuit has a commissioned template. It is what
  a commissioned `pv` system is (DEVELOPER.md:386), but the loader asks nothing of the device
  type beside the flag, so the model keeps the set as a constant, and what becomes
  of a commissioned circuit of another type is not proved.

`SourcePanelProofs` proves, for any panels, hosts, scrapes at once, tree, files and
bounds, under `SourceAssumption` and `TreeAssumption` (a panel's devices are finitely
many and none is its own ancestor):

| Theorem | Property |
|---|---|
| `StoreHoldsIssued` | `KeptBrokerWorked` |
| `NothingForgotten` | `SecretsStayKnown` |
| `ScrapesAreWhole` | `ScrapeIsWhole` |
| `WholeIsAll` | a set of descriptions that lacks no announced child is the whole tree |

What is kept is written by a scrape that a broker accepted or a panel answered,
possibly much later; so the invariant says that a broker accepts only what its
panel issued, and that a scrape past its connect holds such a credential
(`HonestScrapes`), beside types and counts:
`IInv == StoreInv /\ PanelInv /\ HonestScrapes /\ Counted`. That a passphrase
stays known through a cut migration needs the first of the files that hold one
to exist (`FirstExists`, by well-foundedness), since the first one's wins.
`WholeIsAll` is the induction `scrape_panel` relies on when it stops at the first
set without a missing child. It is stated of sets (`AllNumbers`): the walk from the
root is a function on the numbers, some step of it adds nothing, and a device it did
not reach would leave a set of devices none of whose parents is outside it.

`LivePanelProofs` proves, for any files, circuits, recordings, templates and calls:

| Theorem | Property |
|---|---|
| `CommandsHold` | `RelayHolds` |
| `TicksAreAsModelled` | `AfterIsWhatRuns` |
| `BeforeIsRecorded` | `BeforeIsTheRecording` |
| `ReplaysWhatWasSeen` | `ReplaysAsSeen` |

Its invariant `IInv == OrderInv /\ EngineInv /\ ToldInv` says that the app holds
each running panel once, that engines are well formed, and that each command is
still laid over the circuit of the panel that took it. The lemmas go action by
action; the one with work in it is a panel leaving the order without moving the
others (`OthersStay`), since the first of the order is who commands reach. What a
tick drove and what the model showed stay on record while the panel is edited,
commanded and reloaded; so `ShownInv` adds that the panel is still the one they were
computed of: its templates are as they were, a relay without a command
is closed, and a report is what the model would answer now.

`ReplaysWhatWasSeen` is the arithmetic of a profile, for any recording of any day and
week. `TemplatesInv` says of the files, the editor and the engines that a template with
the recorder's factors has the rest of its profile (the mean as its typical power, the
duty cycle, days of the week), whatever was edited since. It needs `ShippedAssumption`
of the files one starts from: one that already has these factors was imported from this
recording (a profile of an older recording with days of the same shape at another power
would have its own mean). What is then proved, from the definitions alone:

* `Gcd` is the recursion it is written as (`GcdStep`: the greatest common divisor is a
  function that satisfies it), divides both numbers and scales with them; so a fraction
  is the same in any terms (`Expanded`, `Across`), and `Plus`, `Times` and `Over` obey the
  laws used below.
* A sum over a finite set takes its elements in any order (`SumPicks`), though the fold
  of the community modules takes the one it chooses; so it splits, scales, and is the sum
  of the sums by hour (`SumSplits`, `SumScales`, `SumByHours`). The fold's function is
  built and shown unique by induction on the subsets of the set (`SummingExists`,
  `SummingAgrees`).
* A peak and the nearest hour either way round the day exist (`PeakIs`, `NearestIs`), so
  the factors are fractions, not all nothing, even with hours that were never seen
  (`FactorsType`). Scaled to their mean they average to the recorded power
  (`ProfileAverages`); if every hour was seen, each plays its own mean (`ProfilePlays`).

The property has a proviso that the proof showed to be needed: `Clamped` cuts what the
template's power range does not reach, and an import does not widen the range.

The inductions over data these proofs need (a first file, a walk of a tree, a common
divisor, a sum) are made from the least counterexample of a set, since an induction
theorem with an operator for a parameter cannot be instantiated.

Only model-checked: every liveness property, since TLAPS as used here has no rule for
fairness and `ENABLED`; and the four runs that show a violation. Every safety property
of a passing run is a theorem.

To run them, for instance: `tlapm BrokerLinkProofs.tla` (about a minute) and
`tlc -workers 2 -config MCBrokerLink.cfg MCBrokerLink.tla`.

## Plan

Done: every module above, and the safety properties of its runs proved. What would
come next:

1. The SDK's `is_running` rule as an abstract queue (what is submitted arrives in
   order or not at all while running, nothing after) that `PanelRuntime` implements.
2. Discovery's register and unregister as steps of `SimulatorApp`, so that a stop
   step may raise; the rate resolver as operators.

## Not modelled

* **Rates** (`rates/`): the resolver and the cost engine are arithmetic on one
  tariff, with worked examples in the tests; the rest is HTTP and a cache file.
* **mDNS and Supervisor discovery**: registrations with services outside the
  process, best effort; that one of their calls may raise in the middle of a stop
  is a hazard without a property.
* **Home Assistant client** (`ha_api/client.py` and its discovery): calls with no
  state between them. What is done with their answers is in `UsageProfile`,
  `Dashboard` and `SimulationTime`.
* **Certificates**: key generation.
* **Conformance tool**: a batch comparison of two trees, whose rules restate a
  document.
* **Of modelled components**: what each module's section above says is left out.
