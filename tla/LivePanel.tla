---- MODULE LivePanel ----
\* Panels while they run: the engine's circuits and the overrides laid over them, the
\* dashboard's controls that reach them, what a tick drives, and the what-if model
\* computed from the same circuits.  Which files there are, and the requests that
\* wait, are module Dashboard's; here a file is what its circuits are.
EXTENDS UsageProfile, Sequences

CONSTANTS Files,       \* configs, each one panel's
          Circuits,    \* circuit ids, which every config has: circuit_1, circuit_2, ...
          Shipped,     \* [Files -> [Circuits -> template]] what the files start with
          Recorded,    \* [Circuits -> [Slots -> Nat \cup {None}]] the recorder's watts
          Drawn,       \* day shapes a user may draw
          Typicals,    \* typical powers a user may type
          TickSlots,   \* BOUND: the hours a tick falls into
          MaxCalls     \* BOUND: dashboard requests

Relays == {"OPEN", "CLOSED"}
Priorities == {"NEVER", "OFF_GRID"}

ASSUME LiveAssumption ==
    /\ Recorded \in [Circuits -> [Slots -> Nat \cup {None}]]
    /\ TickSlots \subseteq Slots /\ MaxCalls \in Nat /\ None \notin Relays \cup Priorities \cup Files

\* A template and the day in it are whole records.
FullTemplate(t) ==
    t = [mode |-> t.mode, typical |-> t.typical, own |-> t.own, most |-> t.most, day |-> t.day,
         cycle |-> t.cycle, smart |-> t.smart, modified |-> t.modified, entity |-> t.entity,
         priority |-> t.priority, locked |-> t.locked]
FullDay(day) ==
    day = [factors |-> day.factors, drawn |-> day.drawn, peak |-> day.peak, active |-> day.active]

\* The recorder's factors came with the rest of its profile.
AsImported(t, c) ==
    t.day # None /\ t.day.factors # None /\ t.day.factors = HourFactors(Recorded[c]) =>
        /\ HasProfile(Recorded[c]) /\ t.cycle = "duty" /\ t.day.active \subseteq Days
        /\ t.mode = "consumer" => t.typical = At(Recorded[c], Seen(Recorded[c]))

Sound(t, c) == FullTemplate(t) /\ (t.day # None => FullDay(t.day)) /\ AsImported(t, c)

\* The templates of a panel, circuit by circuit.
Book(b) == b = [c \in Circuits |-> b[c]] /\ \A c \in Circuits : Sound(b[c], c)

\* A file that starts with the factors of what the recorder holds was imported from it.
ASSUME ShippedAssumption ==
    Shipped = [f \in Files |-> Shipped[f]] /\ \A f \in Files : Book(Shipped[f])

VARIABLES saved,      \* [Files -> [Circuits -> template]] the files
          open,       \* the file the editor holds
          edit,       \* its circuits as edited
          order,      \* files of the running panels, in the order the app holds them
          engine,     \* [Files -> the engine of its panel, or None]
          told,       \* [Files -> [Circuits -> relay]] the last relay command a panel took
          tick,       \* the last tick: its panel and what it drove
          report,     \* the last what-if answer: its panel and its series
          calls

vars == <<saved, open, edit, order, engine, told, tick, report, calls>>

NoOverride == [relay |-> None, priority |-> None]

\* A circuit is built from its template, with what the circuit itself overrides.
Built(templates) ==
    [template |-> templates,
     relay |-> [c \in Circuits |-> "CLOSED"],
     priority |-> [c \in Circuits |-> templates[c].priority],
     override |-> [c \in Circuits |-> NoOverride]]

NoTick == [file |-> None, slot |-> None, power |-> None]
NoReport == [file |-> None, before |-> None, after |-> None, site |-> None]

Init ==
    /\ saved = Shipped
    /\ open \in Files /\ edit = Shipped[open]
    /\ order = <<>> /\ engine = [f \in Files |-> None]
    /\ told = [f \in Files |-> [c \in Circuits |-> None]]
    /\ tick = NoTick /\ report = NoReport
    /\ calls = 0

------------------------------------------------------------------------
\* The panels

Running == {order[i] : i \in DOMAIN order}

\* The order without a panel that stopped.
Place(f) == CHOOSE i \in DOMAIN order : order[i] = f
Without(f) == [i \in 1 .. Len(order) - 1 |-> order[IF i < Place(f) THEN i ELSE i + 1]]

\* A panel starts, or starts again, from its file: what was laid over its circuits
\* and what was read from them is gone.
Anew(f, new, places) ==
    /\ engine' = [engine EXCEPT ![f] = new] /\ order' = places
    /\ told' = [told EXCEPT ![f] = [c \in Circuits |-> None]]
    /\ tick' = IF tick.file = f THEN NoTick ELSE tick
    /\ report' = IF report.file = f THEN NoReport ELSE report
    /\ UNCHANGED <<saved, open, edit, calls>>

StartPanel(f) ==
    /\ f \notin Running
    /\ Anew(f, Built(saved[f]), Append(order, f))

\* The app's scan finds the file changed: the panel moves behind the others.
ReloadPanel(f) ==
    /\ f \in Running /\ engine[f].template # saved[f]
    /\ Anew(f, Built(saved[f]), Append(Without(f), f))

StopPanel(f) ==
    /\ f \in Running
    /\ Anew(f, None, Without(f))

\* _get_first_engine: the controls of the page work on one panel, the first.
First == IF order = <<>> THEN None ELSE Head(order)

\* Mutant: what is laid over a circuit replaces what was, as it does in the list
\* the engine keeps for its summary.
AppliedWhole(e, c, key, value) ==
    [e EXCEPT !.override[c] = [NoOverride EXCEPT ![key] = value]]

\* set_dynamic_overrides: the circuit adds the override to those it has.
Applied(e, c, key, value) == [e EXCEPT !.override[c][key] = value]

\* The override reaches the first engine, if there is one.
Pushed(c, key, value) ==
    engine' = IF First = None THEN engine
              ELSE [engine EXCEPT ![First] = Applied(@, c, key, value)]

------------------------------------------------------------------------
\* The dashboard

Asked == calls < MaxCalls /\ calls' = calls + 1

\* handle_load_config: the editor takes up another file.
OpenFile(f) ==
    /\ Asked /\ f # open
    /\ open' = f /\ edit' = saved[f]
    /\ UNCHANGED <<saved, order, engine, told, tick, report>>

Persist(circuits) ==
    /\ edit' = circuits
    /\ saved' = [saved EXCEPT ![open] = circuits]
    /\ UNCHANGED <<open, order, tick, report>>

\* handle_set_relay: refused on a circuit the editor's config locks.
SetRelay(c, relay) ==
    /\ Asked /\ ~edit[c].locked
    /\ Pushed(c, "relay", relay)
    /\ told' = IF First = None THEN told ELSE [told EXCEPT ![First][c] = relay]
    /\ UNCHANGED <<saved, open, edit, order, tick, report>>

\* handle_put_entity: the form's fields, saved; its priority is also pushed.  A
\* typical power other than the template's becomes the circuit's own.  The form
\* says whether the user touched it.
PutEntity(c, typical, priority, locked) ==
    LET edited == [edit[c] EXCEPT !.own = IF typical = edit[c].typical THEN None ELSE typical,
                                  !.priority = priority, !.locked = locked]
    IN  /\ Asked
        /\ Persist([edit EXCEPT ![c] =
              [edited EXCEPT !.modified = @ \/ (edit[c].entity /\ edited # edit[c])]])
        /\ Pushed(c, "priority", priority)
        /\ UNCHANGED told

\* handle_put_profile, handle_apply_preset: the editor's config takes the shape.
PutProfile(c, shape) ==
    /\ Asked
    /\ edit' = [edit EXCEPT ![c].modified = edit[c].entity \/ @,
                            ![c].day = IF @ = None
                                       THEN [factors |-> None, drawn |-> shape, peak |-> {},
                                             active |-> {}]
                                       ELSE [@ EXCEPT !.drawn = shape]]
    /\ UNCHANGED <<saved, open, order, engine, told, tick, report>>

\* handle_save_reload.
Save ==
    /\ Asked /\ edit # saved[open]
    /\ Persist(edit) /\ UNCHANGED <<engine, told>>

\* handle_toggle_replay of a circuit that has a recording and is replaying it; the
\* way back restores the template it was imported with.
LeaveReplay(c) ==
    /\ Asked /\ edit[c].entity /\ ~edit[c].modified
    /\ Persist([edit EXCEPT ![c].modified = TRUE]) /\ UNCHANGED <<engine, told>>

\* handle_import_ha_profiles: the file, not the editor, takes what the recorder
\* says of each circuit; the editor then takes the file.
ImportProfiles ==
    /\ Asked
    /\ LET known == {c \in Circuits : saved[open][c].entity /\ HasProfile(Recorded[c])}
       IN  /\ known # {}
           /\ Persist([c \in Circuits |-> IF c \in known THEN Profiled(saved[open][c], Recorded[c])
                                          ELSE saved[open][c]])
    /\ UNCHANGED <<engine, told>>

------------------------------------------------------------------------
\* A tick

\* circuit.tick: overrides of the relay and the priority first, then the power,
\* which an open relay stops.
Overridden(e) ==
    [e EXCEPT
        !.relay = [c \in Circuits |-> IF e.override[c].relay = None THEN @[c] ELSE e.override[c].relay],
        !.priority = [c \in Circuits |-> IF e.override[c].priority = None THEN @[c]
                                         ELSE e.override[c].priority]]

Drawing(e, c, s) ==
    IF e.relay[c] = "OPEN" THEN Zero ELSE Power(e.template[c], Recorded[c], s, FALSE)

\* get_tick_inputs: a producer's power counts against the others'.
Tick(f, s) ==
    /\ f \in Running
    /\ engine' = [engine EXCEPT ![f] = Overridden(@)]
    /\ tick' = [file |-> f, slot |-> s,
                power |-> [c \in Circuits |-> Drawing(engine'[f], c, s)]]
    /\ UNCHANGED <<saved, open, edit, order, told, report, calls>>

------------------------------------------------------------------------
\* The what-if model

\* EnergySystem.tick of the bus: load, then source, then the grid takes up what is
\* missing or left.
GridPower(load, pv) ==
    IF Below(pv, load) THEN [drawn |-> Minus(load, pv), fed |-> Zero]
    ELSE [drawn |-> Zero, fed |-> Minus(pv, load)]

\* The circuits of the Before pass.
Baseline(e) == {c \in Circuits : e.template[c].entity}

\* Mutant: both passes ignore what was edited.
SeriesBaseline(e, members, baseline) ==
    [c \in members |-> [s \in Slots |-> Power(e.template[c], Recorded[c], s, TRUE)]]

\* _collect_circuit_powers_at_ts: no relay, no override.
Series(e, members, baseline) ==
    [c \in members |-> [s \in Slots |-> Power(e.template[c], Recorded[c], s, baseline)]]

Site(e, series) ==
    LET total(mode, s) == Sum({c \in DOMAIN series : e.template[c].mode = mode},
                              LAMBDA c : series[c][s])
    IN  [s \in Slots |-> GridPower(total("consumer", s), total("producer", s))]

\* compute_modeling_data of the panel whose file is asked for.
Model(f) ==
    /\ f \in Running /\ \E c \in Circuits : Seen(Recorded[c]) # {}
    /\ LET before == Series(engine[f], Baseline(engine[f]), TRUE)
       IN  report' = [file |-> f, before |-> before, after |-> Series(engine[f], Circuits, FALSE),
                      site |-> Site(engine[f], before)]
    /\ UNCHANGED <<saved, open, edit, order, engine, told, tick, calls>>

------------------------------------------------------------------------
Next ==
    \/ \E f \in Files : StartPanel(f) \/ ReloadPanel(f) \/ StopPanel(f) \/ OpenFile(f) \/ Model(f)
    \/ \E f \in Files, s \in TickSlots : Tick(f, s)
    \/ \E c \in Circuits, r \in Relays : SetRelay(c, r)
    \/ \E c \in Circuits, w \in Typicals, p \in Priorities, l \in BOOLEAN : PutEntity(c, Whole(w), p, l)
    \/ \E c \in Circuits, shape \in Drawn : PutProfile(c, shape)
    \/ Save
    \/ \E c \in Circuits : LeaveReplay(c)
    \/ ImportProfiles

Spec == Init /\ [][Next]_vars

------------------------------------------------------------------------
\* Properties

\* A relay command a panel took holds from its next tick on, whatever else is laid
\* over the circuit since: an open circuit drives nothing, a closed one drives what
\* it draws, until another command or a restart (circuit.py, apply_override and
\* _apply_state_overrides).
RelayHolds ==
    [][tick' # tick /\ tick'.file # None =>
         \A c \in Circuits : told[tick'.file][c] # None =>
            tick'.power[c] = IF told[tick'.file][c] = "OPEN" THEN Zero
                             ELSE Power(engine[tick'.file].template[c], Recorded[c],
                                        tick'.slot, FALSE)]_vars

\* The Before series of the what-if model are the recording wherever there is one,
\* whatever was edited since, and its site power counts nothing else.
BeforeIsTheRecording ==
    report.file # None =>
        LET e == engine[report.file]
            backed == {c \in Circuits : e.template[c].entity}
            watts(mode, s) == Sum({c \in backed : e.template[c].mode = mode},
                                  LAMBDA c : Whole(Recorded[c][s]))
        IN  \A s \in Slots :
                /\ \A c \in backed : Recorded[c][s] # None => report.before[c][s] = Whole(Recorded[c][s])
                /\ (\A c \in backed : Recorded[c][s] # None) =>
                      report.site[s] = GridPower(watts("consumer", s), watts("producer", s))

\* The After series say what the panel itself drives: a tick of the same panel at an
\* hour of the report drives that power, but for a relay that was commanded.
AfterIsWhatRuns ==
    tick.file # None /\ tick.file = report.file =>
        \A c \in Circuits :
            tick.power[c] # report.after[c][tick.slot] => told[tick.file][c] # None

\* A circuit that leaves replay after an import goes on as it was recorded: on every
\* day it is active its hours average to the recorded mean, and where the recorder
\* saw every hour each hour is the mean of that hour, unless the template's power
\* range cuts the shape (profile_builder.py, profile_applicator.py and engine.py
\* between them).
ReplaysAsSeen ==
    report.file # None =>
        \A c \in Circuits :
            LET t == engine[report.file].template[c]
                seen == Seen(Recorded[c])
                plays(d, h) == report.after[c][<<d, h>>]
            IN  (/\ t.modified /\ t.mode = "consumer" /\ ~t.smart /\ t.own = None
                 /\ t.day # None /\ t.day.drawn = None
                 /\ t.day.factors # None /\ t.day.factors = HourFactors(Recorded[c])
                 /\ \A s \in Slots : ~Below(t.most, Shaped(t.typical, t.day, s)))
                => \A d \in IF t.day.active = {} THEN Days ELSE t.day.active :
                      /\ Mean(Hours, LAMBDA h : plays(d, h)) = At(Recorded[c], seen)
                      /\ seen = Slots => \A h \in Hours : plays(d, h) = At(Recorded[c], SeenAt(Recorded[c], h))

\* A relay command is only given to a circuit whose panel publishes it can be
\* commanded (config_store.py, EntityView.relay_locked).
LockHonoured ==
    [][\A f \in Files, c \in Circuits :
         told'[f][c] \notin {told[f][c], None} => ~engine[f].template[c].locked]_vars
====
