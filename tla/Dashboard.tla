------------------------------ MODULE Dashboard ------------------------------
(***************************************************************************)
(* The dashboard's one editor, the files beside it and the panels the app  *)
(* runs from them (dashboard/routes.py and what its handlers call).        *)
(*                                                                         *)
(* Handlers share the editor.  One that awaits (a scrape, Home Assistant,  *)
(* the weather) is a request in `rq': what it read before the await it     *)
(* carries, what it writes after it writes into whatever is there by then. *)
(* Every other handler is one step.                                        *)
(*                                                                         *)
(* A config is the panel it was cloned from and the marks of what was done *)
(* to it since: "import", it was uploaded; "edit", any change of the page; *)
(* "bess", a charge mode; "seeds", a sync; "snapshot", templates to        *)
(* restore from; "map", Home Assistant's recorder entities; "profile", its *)
(* usage profiles; "derived", recorder entities the history generator made *)
(* up.                                                                     *)
(***************************************************************************)
EXTENDS Integers, FiniteSets

CONSTANTS
  Defaults,       \* shipped default_* files
  FirstDefault,   \* the first of them by name
  Owned,          \* names of the user's own files
  Panels,         \* source panels
  CloneFile,      \* panel -> the name of its first clone
  Shipped,        \* file -> its content when the program starts
  Slots,          \* bound: how many requests may be waiting at once
  MaxCalls,       \* bound: how many requests are made
  Stale,          \* the hash a restart leaves
  None

Names == Defaults \cup Owned
Marks == {"import", "edit", "bess", "seeds", "snapshot", "map", "profile", "derived"}
Contents == [panel : Panels \cup {None}, marks : SUBSET Marks]

ASSUME DashboardValues ==
  /\ FirstDefault \in Defaults
  /\ Defaults \cap Owned = {}
  /\ CloneFile \in [Panels -> Owned]
  /\ Shipped \in [Names -> Contents \cup {None}]
  /\ \A d \in Defaults : Shipped[d] # None
  /\ MaxCalls \in Nat
  /\ {None, Stale} \cap (Names \cup Panels \cup Contents) = {}

VARIABLES
  files,      \* the config directory
  store,      \* the editor's config
  dirty,      \* it has unsaved changes
  editing,    \* ctx.config_filter, the file it is of
  pending,    \* panels whose clone waits for the user to confirm
  engine,     \* file -> the content its running panel was started with
  hash,       \* file -> the content the app believes it runs
  stopped,    \* files the user stopped
  explicit,   \* the app has left its config filter for per-panel control
  reload,     \* the reload event
  rq,         \* slot -> the request awaiting in it
  calls       \* requests made (the bound)

editor == <<store, dirty, editing>>
app == <<engine, hash, stopped, explicit, reload>>
dashVars == <<files, editor, pending, app, rq, calls>>

Idle == [kind |-> "idle", at |-> "", file |-> None, panel |-> None, read |-> None,
         imported |-> FALSE]

Exists(f) == files[f] # None
Running == {f \in Names : engine[f] # None}
With(content, mark) == [content EXCEPT !.marks = @ \cup {mark}]

\* Started idle: no panel runs and the editor views the first default.
Init ==
  /\ files = Shipped
  /\ store = Shipped[FirstDefault]
  /\ dirty = FALSE
  /\ editing = FirstDefault
  /\ pending = {}
  /\ engine = [f \in Names |-> None]
  /\ hash = [f \in Names |-> None]
  /\ stopped = {}
  /\ explicit = FALSE
  /\ reload = FALSE
  /\ rq = [s \in Slots |-> Idle]
  /\ calls = 0

----------------------------------------------------------------------------
(* What handlers call.                                                     *)

\* _open_in_editor, of a file that is there.
OpenFrom(content, f) ==
  /\ store' = content
  /\ dirty' = FALSE
  /\ editing' = f

Open(f) == OpenFrom(files[f], f)

\* request_start_panel, request_stop_panel, request_restart_panel: the first of
\* them leaves the config filter, everything not running becoming stopped.
Control(f, stop, forget) ==
  /\ LET before == IF explicit THEN stopped ELSE {g \in Names : Exists(g)} \ Running
     IN stopped' = IF stop THEN before \cup {f} ELSE before \ {f}
  /\ explicit' = TRUE
  /\ hash' = IF forget /\ hash[f] # None THEN [hash EXCEPT ![f] = Stale] ELSE hash
  /\ reload' = TRUE
  /\ UNCHANGED engine

StartPanel(f) == Control(f, FALSE, FALSE)

\* Mutant: a default template is saved too.
PersistDefaults(content) ==
  /\ store' = content
  /\ editing # None
  /\ files' = [files EXCEPT ![editing] = content]
  /\ dirty' = FALSE
  /\ StartPanel(editing)

\* _persist_config, of what the handler left in the store.
Persist(content) ==
  /\ store' = content
  /\ IF editing \in Owned
     THEN /\ files' = [files EXCEPT ![editing] = content]
          /\ dirty' = FALSE
          /\ StartPanel(editing)
     ELSE /\ dirty' = TRUE
          /\ UNCHANGED <<files, app>>

----------------------------------------------------------------------------
(* The app reconciles (SimulatorApp.reload, in one step; a start may fail).*)

AppReload ==
  /\ reload
  /\ reload' = FALSE
  /\ LET found == {f \in Names : explicit /\ Exists(f)} \ stopped
         due == {f \in found : hash[f] # files[f]}
     IN \E failed \in SUBSET due :
          /\ engine' = [f \in Names |->
                          IF f \notin found \/ f \in failed THEN None
                          ELSE IF f \in due THEN files[f] ELSE engine[f]]
          /\ hash' = [f \in Names |->
                        IF f \notin found THEN None
                        ELSE IF f \in failed THEN hash[f] ELSE files[f]]
  /\ UNCHANGED <<files, editor, pending, stopped, explicit, rq>>

----------------------------------------------------------------------------
(* Handlers of one step.                                                   *)

\* Every form and button of the page that leaves the saving to the user.
Edit ==
  /\ store' = With(store, "edit")
  /\ dirty' = TRUE
  /\ UNCHANGED <<files, editing, pending, app, rq>>

\* handle_put_entity, the battery's forms, handle_put_current_rate.
EditAndSave ==
  /\ Persist(With(store, "edit"))
  /\ UNCHANGED <<editing, pending, rq>>

SaveReload ==
  /\ editing \in Owned
  /\ Persist(store)
  /\ UNCHANGED <<editing, pending, rq>>

\* handle_put_bess_charge_mode: a running panel gets the battery's section live,
\* and its hash is that of the file as saved.
PutChargeMode ==
  LET content == With(store, "bess")
  IN /\ store' = content
     /\ IF editing \in Owned
        THEN /\ files' = [files EXCEPT ![editing] = content]
             /\ dirty' = FALSE
             /\ IF editing \in Running
                THEN /\ engine' = [engine EXCEPT ![editing] = With(@, "bess")]
                     /\ hash' = [hash EXCEPT ![editing] = content]
                     /\ UNCHANGED <<stopped, explicit, reload>>
                ELSE StartPanel(editing)
        ELSE dirty' = TRUE /\ UNCHANGED <<files, app>>
     /\ UNCHANGED <<editing, pending, rq>>

\* handle_import: an uploaded config, into the editor of the file open now.
Import(p) ==
  /\ store' = [panel |-> p, marks |-> {"import"}]
  /\ dirty' = TRUE
  /\ UNCHANGED <<files, editing, pending, app, rq>>

LoadConfig(f) ==
  /\ Exists(f)
  /\ Open(f)
  /\ UNCHANGED <<files, pending, app, rq>>

\* handle_start_panel, handle_stop_panel, handle_restart_panel also open the file.
ControlPanel(f) ==
  /\ Exists(f)
  /\ Open(f)
  /\ \E how \in {"start", "stop", "restart"} : Control(f, how = "stop", how = "restart")
  /\ UNCHANGED <<files, pending, rq>>

----------------------------------------------------------------------------
(* Requests that await.                                                    *)

Begin(s, request) ==
  /\ rq[s] = Idle
  /\ rq' = [rq EXCEPT ![s] = request]

Resume(s, kinds, at) == rq[s].kind \in kinds /\ rq[s].at = at
Goto(s, at) == rq' = [rq EXCEPT ![s].at = at]
End(s) == rq' = [rq EXCEPT ![s] = Idle]

\* SyntheticHistoryGenerator.generate reads the file, then may await the weather.
Generate(s) ==
  rq' = [rq EXCEPT ![s].at = "weather", ![s].read = files'[rq[s].file]]

\* handle_clone: the file asked for, or the editor's config.  A name that is taken
\* is only answered with a question, and asked for again with force.
Clone(s, f, source) ==
  /\ source # editing => Exists(source)
  /\ LET copy == IF source = editing THEN store ELSE files[source]
     IN /\ files' = [files EXCEPT ![f] = copy]
        /\ Begin(s, [Idle EXCEPT !.kind = "clone", !.at = "weather", !.file = f,
                                 !.read = copy])
  /\ UNCHANGED <<editor, pending, app>>

\* What the generator made up it writes over the file, from what it had read; a
\* template Home Assistant has mapped, or it mapped before, is left as it is.
Derived(s, f) ==
  \E derives \in BOOLEAN :
    /\ rq[s].read.marks \cap {"map", "derived"} = {} => derives
    /\ files' = IF derives THEN [files EXCEPT ![f] = With(rq[s].read, "derived")]
                ELSE files

CloneGenerated(s) ==
  /\ Resume(s, {"clone"}, "weather")
  /\ Derived(s, rq[s].file)
  /\ IF files'[rq[s].file] = None
     THEN UNCHANGED editor
     ELSE OpenFrom(files'[rq[s].file], rq[s].file)
  /\ End(s)
  /\ UNCHANGED <<pending, app>>

\* handle_clone_from_panel: the scrape and the home's location.
CloneFromPanel(s, p) ==
  /\ Begin(s, [Idle EXCEPT !.kind = "panel", !.at = "scrape", !.panel = p])
  /\ UNCHANGED <<files, editor, pending, app>>

\* _finalize_clone up to its first await: the file is written and opened.
Finalize(s, p, f) ==
  LET fresh == [panel |-> p, marks |-> {}]
  IN /\ files' = [files EXCEPT ![f] = fresh]
     /\ OpenFrom(fresh, f)
     /\ rq' = [rq EXCEPT ![s] = [Idle EXCEPT !.kind = "finalize", !.at = "manifests",
                                             !.file = f, !.panel = p]]

ScrapedPanel(s) ==
  /\ Resume(s, {"panel"}, "scrape")
  /\ LET p == rq[s].panel
     IN IF Exists(CloneFile[p])
        THEN /\ pending' = pending \cup {p}
             /\ End(s)
             /\ UNCHANGED <<files, editor>>
        ELSE Finalize(s, p, CloneFile[p]) /\ UNCHANGED pending
  /\ UNCHANGED <<app>>

\* handle_clone_confirm: over the file, or under any name the user types.
CloneConfirm(s, p, f) ==
  /\ p \in pending
  /\ rq[s] = Idle
  /\ pending' = pending \ {p}
  /\ Finalize(s, p, f)
  /\ UNCHANGED app

\* handle_import_ha_profiles, of a clone.
ImportProfiles(s) ==
  /\ editing # None
  /\ store.panel # None
  /\ Begin(s, [Idle EXCEPT !.kind = "profiles", !.at = "manifests", !.file = editing,
                           !.panel = store.panel])
  /\ UNCHANGED <<files, editor, pending, app>>

\* _import_profiles_for_serial: store_recorder_entities and apply_usage_profiles
\* each rewrite the file as it is after their await; a config of no panel has no
\* template of theirs.
Marked(f, mark) ==
  IF files[f].panel = None THEN files ELSE [files EXCEPT ![f] = With(@, mark)]

ManifestsArrive(s) ==
  /\ Resume(s, {"profiles", "finalize"}, "manifests")
  /\ Exists(rq[s].file)
  /\ files' = Marked(rq[s].file, "map")
  /\ \/ Goto(s, "statistics")
     \/ IF rq[s].kind = "finalize" THEN Generate(s) ELSE End(s)
  /\ UNCHANGED <<editor, pending, app>>

ProfilesArrive(s) ==
  /\ Resume(s, {"profiles", "finalize"}, "statistics")
  /\ Exists(rq[s].file)
  /\ files' = Marked(rq[s].file, "profile")
  /\ IF rq[s].kind = "finalize"
     THEN /\ rq' = [rq EXCEPT ![s].at = "weather", ![s].read = files'[rq[s].file],
                              ![s].imported = TRUE]
          /\ UNCHANGED <<editor, app>>
     ELSE /\ store' = files'[rq[s].file]
          /\ dirty' = FALSE
          /\ reload' = TRUE
          /\ End(s)
          /\ UNCHANGED <<editing, engine, hash, stopped, explicit>>
  /\ UNCHANGED pending

\* No manifest of this panel, no profile of it, or an error: an import ends there,
\* a clone goes on without; neither survives its file's removal.
NoProfiles(s) ==
  /\ rq[s].kind \in {"profiles", "finalize"}
  /\ rq[s].at \in {"manifests", "statistics"}
  /\ UNCHANGED files
  /\ IF rq[s].kind = "finalize" /\ Exists(rq[s].file) THEN Generate(s) ELSE End(s)
  /\ UNCHANGED <<editor, pending, app>>

FinalizeGenerated(s) ==
  /\ Resume(s, {"finalize"}, "weather")
  /\ Derived(s, rq[s].file)
  /\ StartPanel(rq[s].file)
  /\ IF rq[s].imported /\ files'[rq[s].file] # None
     THEN OpenFrom(files'[rq[s].file], rq[s].file)
     ELSE UNCHANGED editor
  /\ End(s)
  /\ UNCHANGED pending

\* _restore_recorder of a circuit with something to restore from.
RestoreRecorder ==
  /\ store.marks \cap {"snapshot", "map"} # {}
  /\ Persist(With(store, "edit"))
  /\ UNCHANGED <<editing, pending, rq>>

\* _restore_recorder, handle_sync_panel_source: the source panel is scraped.
ScrapeSource(s) ==
  /\ store.panel # None
  /\ \E kind \in {"restore", "sync"} :
       Begin(s, [Idle EXCEPT !.kind = kind, !.at = "scrape", !.panel = store.panel])
  /\ UNCHANGED <<files, editor, pending, app>>

\* The answer goes into the editor, whatever it holds by now; a restore saves it.
SourceScraped(s) ==
  /\ Resume(s, {"restore", "sync"}, "scrape")
  /\ IF rq[s].kind = "restore"
     THEN Persist(With(store, "snapshot")) /\ UNCHANGED editing
     ELSE /\ store' = With(store, "seeds")
          /\ dirty' = TRUE
          /\ UNCHANGED <<files, editing, app>>
  /\ End(s)
  /\ UNCHANGED pending

ScrapeFails(s) ==
  /\ Resume(s, {"panel", "restore", "sync"}, "scrape")
  /\ End(s)
  /\ UNCHANGED <<files, editor, pending, app>>

\* handle_delete_config: Home Assistant's recordings are purged first.
Delete(s, f) ==
  /\ Exists(f)
  /\ f \notin Running
  /\ Begin(s, [Idle EXCEPT !.kind = "delete", !.at = "purge", !.file = f])
  /\ UNCHANGED <<files, editor, pending, app>>

\* Mutant: a file with unsaved changes keeps its editor.
PurgedKeepingEditor(s) ==
  /\ Resume(s, {"delete"}, "purge")
  /\ Exists(rq[s].file)
  /\ files' = [files EXCEPT ![rq[s].file] = None]
  /\ IF rq[s].file = editing /\ ~dirty THEN Open(FirstDefault) ELSE UNCHANGED editor
  /\ End(s)
  /\ UNCHANGED <<pending, app>>

Purged(s) ==
  /\ Resume(s, {"delete"}, "purge")
  /\ IF Exists(rq[s].file)
     THEN /\ files' = [files EXCEPT ![rq[s].file] = None]
          /\ IF rq[s].file = editing THEN Open(FirstDefault) ELSE UNCHANGED editor
     ELSE UNCHANGED <<files, editor>>
  /\ End(s)
  /\ UNCHANGED <<pending, app>>

----------------------------------------------------------------------------
Handle ==
  \/ Edit \/ EditAndSave \/ SaveReload \/ PutChargeMode \/ RestoreRecorder
  \/ \E p \in Panels : Import(p)
  \/ \E f \in Names : LoadConfig(f) \/ ControlPanel(f)
  \/ \E s \in Slots :
       \/ \E f \in Names, source \in Names : Clone(s, f, source)
       \/ \E p \in Panels : CloneFromPanel(s, p)
       \/ \E p \in Panels, f \in Names : CloneConfirm(s, p, f)
       \/ ImportProfiles(s)
       \/ ScrapeSource(s)
       \/ \E f \in Owned : Delete(s, f)

Answer(s) ==
  \/ CloneGenerated(s) \/ FinalizeGenerated(s)
  \/ ScrapedPanel(s) \/ SourceScraped(s) \/ ScrapeFails(s)
  \/ ManifestsArrive(s) \/ ProfilesArrive(s) \/ NoProfiles(s)
  \/ Purged(s)

Next ==
  \/ calls < MaxCalls /\ Handle /\ calls' = calls + 1
  \/ AppReload /\ UNCHANGED calls
  \/ \E s \in Slots : Answer(s) /\ UNCHANGED calls

Spec == Init /\ [][Next]_dashVars
----------------------------------------------------------------------------
(* Properties.                                                             *)

\* Whatever runs during whatever awaits, the editor is of a file that is there: a
\* delete looks at the editor after its await, not before (handle_delete_config).
EditorFileExists == editing # None => Exists(editing)

\* This step is one of the request s, a clone that the user gave this name.
ClonesTo(s, f) ==
  /\ rq'[s] # rq[s]
  /\ \E request \in {rq[s], rq'[s]} :
       request.kind \in {"clone", "finalize"} /\ request.file = f

\* A shipped default, of no panel, is changed by no request but a clone to that very
\* name, which the user forces or confirms: saving, restoring, syncing and importing
\* profiles leave it as it is, whichever request finds it open when its answer
\* arrives (_persist_config), and so does a clone to another name.
DefaultsOnlyCloned ==
  [][\A d \in Defaults :
       files[d].panel = None /\ files'[d] # files[d] => \E s \in Slots : ClonesTo(s, d)]_dashVars

\* app.py's apply_bess_config_live: it refreshes the hash "so the reload watcher
\* sees the file as already-current", so a panel whose hash is its file's runs it.
HashMeansCurrent ==
  \A f \in Running : Exists(f) /\ hash[f] = files[f] => engine[f] = files[f]
=============================================================================
