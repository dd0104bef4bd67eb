--------------------------- MODULE DashboardProofs ---------------------------
(***************************************************************************)
(* The dashboard, for every set of files, panels and waiting requests and  *)
(* however many are made: the editor is always of a file that is there,    *)
(* and a shipped default changes only under a clone.                       *)
(***************************************************************************)
EXTENDS Dashboard, TLAPS

Requests ==
  [kind : {"idle", "clone", "panel", "finalize", "profiles", "restore", "sync", "delete"},
   at : {"", "weather", "scrape", "manifests", "statistics", "purge"},
   file : Names \cup {None}, panel : Panels \cup {None},
   read : Contents \cup {None}, imported : BOOLEAN]

\* A request carries what it works on: a clone and an import a file, and a
\* generator what it read.  Only one of the user's own files is ever deleted.
Carries(r) ==
  /\ r.kind \in {"clone", "finalize", "profiles"} => r.file \in Names
  /\ r.kind = "delete" => r.file \in Owned
  /\ r.kind = "panel" => r.panel \in Panels
  /\ r.at = "weather" => r.read \in Contents

\* Types, and what the editor rests on: the defaults are never deleted, so there
\* is always one to fall back to.
EditorInv ==
  /\ files \in [Names -> Contents \cup {None}]
  /\ store \in Contents
  /\ editing \in Names
  /\ pending \subseteq Panels
  /\ rq \in [Slots -> Requests]
  /\ \A s \in Slots : Carries(rq[s])
  /\ \A d \in Defaults : Exists(d)
  /\ Exists(editing)

-----------------------------------------------------------------------------
(* A mark keeps a content one.                                             *)
LEMMA WithType ==
  ASSUME NEW c \in Contents, NEW mark \in Marks
  PROVE  With(c, mark) \in Contents
BY DEF With, Contents

(* No content is the absence of one.                                       *)
LEMMA ContentIsSome ==
  ASSUME NEW c \in Contents
  PROVE  c # None
BY DashboardValues

(* An idle slot carries nothing.                                           *)
LEMMA IdleCarries == Idle \in Requests /\ Carries(Idle)
BY DEF Idle, Requests, Carries

(* A step that writes contents alone and leaves the editor on a file that  *)
(* is there, or opens one, keeps the editor's invariant.                   *)
LEMMA EditorKept ==
  ASSUME EditorInv, NEW f \in Names, NEW c \in Contents,
         files' \in {files, [files EXCEPT ![f] = c]},
         store' \in Contents, editing' \in Names, files'[editing'] # None,
         pending' \subseteq Panels, rq' \in [Slots -> Requests],
         \A s \in Slots : Carries(rq'[s])
  PROVE  EditorInv'
<1>1. files' \in [Names -> Contents \cup {None}]
  BY DEF EditorInv
<1>2. \A g \in Names : files[g] # None => files'[g] # None
  BY ContentIsSome DEF EditorInv
<1>3. \A d \in Defaults : files'[d] # None
  BY <1>2 DEF EditorInv, Exists, Names
<1> QED BY <1>1, <1>3 DEF EditorInv, Exists

(* The same for a step that leaves the editor's file open, and the         *)
(* requests as they are but one that ends or begins.                       *)
LEMMA EditingStays ==
  ASSUME EditorInv, NEW f \in Names, NEW c \in Contents,
         files' \in {files, [files EXCEPT ![f] = c]},
         UNCHANGED editing
  PROVE  files'[editing'] # None
BY ContentIsSome DEF EditorInv, Exists

(* What saves the editor's config writes no default.                       *)
LEMMA PersistWrites ==
  ASSUME EditorInv, NEW c \in Contents, Persist(c)
  PROVE  /\ store' = c
         /\ \/ files' = files
            \/ editing \in Owned /\ files' = [files EXCEPT ![editing] = c]
BY DEF Persist

(* What the generator writes goes over the file it read.                   *)
LEMMA DerivedWrites ==
  ASSUME EditorInv, NEW s \in Slots, NEW f \in Names, rq[s].at = "weather", Derived(s, f)
  PROVE  \E c \in Contents : files' \in {files, [files EXCEPT ![f] = c]}
<1>1. rq[s].read \in Contents
  BY DEF EditorInv, Carries
<1>2. With(rq[s].read, "derived") \in Contents
  BY <1>1, WithType DEF Marks
<1> QED BY <1>1, <1>2 DEF Derived

(* What Home Assistant's answers mark is a file that is there, and one of  *)
(* a panel.                                                                *)
LEMMA MarkedWrites ==
  ASSUME EditorInv, NEW f \in Names, Exists(f), NEW mark \in Marks
  PROVE  \/ Marked(f, mark) = files
         \/ files[f].panel # None /\ \E c \in Contents : Marked(f, mark) = [files EXCEPT ![f] = c]
<1>1. files[f] \in Contents
  BY DEF EditorInv, Exists
<1>2. With(files[f], mark) \in Contents
  BY <1>1, WithType
<1> QED BY <1>2 DEF Marked, EditorInv

-----------------------------------------------------------------------------
(***************************************************************************)
(* The steps.                                                              *)
(***************************************************************************)
(* A handler of one step.                                                  *)
LEMMA SyncKeepsEditor ==
  ASSUME EditorInv,
         \/ Edit \/ EditAndSave \/ SaveReload \/ PutChargeMode \/ RestoreRecorder
         \/ \E p \in Panels : Import(p)
         \/ \E f \in Names : LoadConfig(f) \/ ControlPanel(f)
  PROVE  EditorInv'
<1>1. UNCHANGED <<pending, rq>>
  BY DEF Edit, EditAndSave, SaveReload, PutChargeMode, RestoreRecorder, Import, LoadConfig,
         ControlPanel
<1>2. CASE \E f \in Names : LoadConfig(f) \/ ControlPanel(f)
  <2>1. PICK f \in Names : LoadConfig(f) \/ ControlPanel(f)
    BY <1>2
  <2>2. /\ files' = files /\ files[f] # None
        /\ store' = files[f] /\ editing' = f
    BY <2>1 DEF LoadConfig, ControlPanel, Open, OpenFrom, Exists
  <2> QED BY <1>1, <2>2 DEF EditorInv, Exists
<1>3. CASE ~\E f \in Names : LoadConfig(f) \/ ControlPanel(f)
  <2>1. /\ editing' = editing /\ store' \in Contents
        /\ files' \in {files, [files EXCEPT ![editing] = store']}
    <3>1. CASE Edit \/ EditAndSave \/ SaveReload \/ RestoreRecorder
      <4>1. /\ editing' = editing
            /\ \/ files' = files /\ store' = With(store, "edit")
               \/ Persist(store) \/ Persist(With(store, "edit"))
        BY <3>1 DEF Edit, EditAndSave, SaveReload, RestoreRecorder
      <4>2. store \in Contents /\ With(store, "edit") \in Contents
        BY WithType DEF EditorInv, Marks
      <4> QED BY <4>1, <4>2, PersistWrites
    <3>2. CASE PutChargeMode
      <4>1. store' = With(store, "bess") /\ store' \in Contents
        BY <3>2, WithType DEF PutChargeMode, EditorInv, Marks
      <4> QED BY <3>2, <4>1 DEF PutChargeMode
    <3>3. CASE \E p \in Panels : Import(p)
      BY <3>3 DEF Import, Contents, Marks
    <3> QED BY <1>3, <3>1, <3>2, <3>3
  <2>2. files'[editing'] # None
    BY <2>1, EditingStays DEF EditorInv
  <2> QED BY <1>1, <2>1, <2>2, EditorKept DEF EditorInv
<1> QED BY <1>2, <1>3

(* A request is made: it reads, and a clone writes its file.               *)
LEMMA BeginKeepsEditor ==
  ASSUME EditorInv, NEW s \in Slots,
         \/ \E f \in Names, source \in Names : Clone(s, f, source)
         \/ \E p \in Panels : CloneFromPanel(s, p)
         \/ ImportProfiles(s) \/ ScrapeSource(s)
         \/ \E f \in Owned : Delete(s, f)
  PROVE  EditorInv'
<1>1. UNCHANGED <<pending, store, editing>>
  BY DEF Clone, CloneFromPanel, ImportProfiles, ScrapeSource, Delete, editor
<1>2. /\ \E f \in Names : \E c \in Contents : files' \in {files, [files EXCEPT ![f] = c]}
      /\ \E r \in Requests : rq' = [rq EXCEPT ![s] = r] /\ Carries(r)
  <2>1. CASE \E f \in Names, source \in Names : Clone(s, f, source)
    <3>1. PICK f \in Names, source \in Names : Clone(s, f, source)
      BY <2>1
    <3> DEFINE copy == IF source = editing THEN store ELSE files[source]
               request == [Idle EXCEPT !.kind = "clone", !.at = "weather", !.file = f,
                                       !.read = copy]
    <3>2. copy \in Contents
      BY <3>1 DEF Clone, EditorInv, Exists
    <3>3. files' = [files EXCEPT ![f] = copy] /\ rq' = [rq EXCEPT ![s] = request]
      BY <3>1 DEF Clone, Begin
    <3>4. request \in Requests /\ Carries(request)
      BY <3>2 DEF Idle, Requests, Carries
    <3> QED BY <3>2, <3>3, <3>4
  <2>2. ASSUME files' = files
        PROVE  \E f \in Names : \E c \in Contents : files' \in {files, [files EXCEPT ![f] = c]}
    BY <2>2 DEF EditorInv
  <2>3. CASE \E p \in Panels : CloneFromPanel(s, p)
    <3>1. PICK p \in Panels : CloneFromPanel(s, p)
      BY <2>3
    <3> DEFINE request == [Idle EXCEPT !.kind = "panel", !.at = "scrape", !.panel = p]
    <3>2. request \in Requests /\ Carries(request)
      BY DEF Idle, Requests, Carries
    <3> QED BY <2>2, <3>1, <3>2 DEF CloneFromPanel, Begin
  <2>4. CASE ImportProfiles(s)
    <3> DEFINE request == [Idle EXCEPT !.kind = "profiles", !.at = "manifests",
                                       !.file = editing, !.panel = store.panel]
    <3>1. store.panel \in Panels \cup {None} /\ editing \in Names
      BY DEF EditorInv, Contents
    <3>2. request \in Requests /\ Carries(request)
      BY <3>1 DEF Idle, Requests, Carries
    <3> QED BY <2>2, <2>4, <3>2 DEF ImportProfiles, Begin
  <2>5. CASE ScrapeSource(s)
    <3>1. PICK kind \in {"restore", "sync"} :
             Begin(s, [Idle EXCEPT !.kind = kind, !.at = "scrape", !.panel = store.panel])
      BY <2>5 DEF ScrapeSource
    <3> DEFINE request == [Idle EXCEPT !.kind = kind, !.at = "scrape", !.panel = store.panel]
    <3>2. store.panel \in Panels \cup {None}
      BY DEF EditorInv, Contents
    <3>3. request \in Requests /\ Carries(request)
      BY <3>2 DEF Idle, Requests, Carries
    <3> QED BY <2>2, <2>5, <3>1, <3>3 DEF ScrapeSource, Begin
  <2>6. CASE \E f \in Owned : Delete(s, f)
    <3>1. PICK f \in Owned : Delete(s, f)
      BY <2>6
    <3> DEFINE request == [Idle EXCEPT !.kind = "delete", !.at = "purge", !.file = f]
    <3>2. request \in Requests /\ Carries(request)
      BY DEF Idle, Requests, Carries, Names
    <3> QED BY <2>2, <3>1, <3>2 DEF Delete, Begin
  <2> QED BY <2>1, <2>3, <2>4, <2>5, <2>6
<1>3. rq' \in [Slots -> Requests] /\ \A t \in Slots : Carries(rq'[t])
  BY <1>2 DEF EditorInv
<1>4. files'[editing'] # None
  BY <1>1, <1>2, EditingStays
<1> QED BY <1>1, <1>2, <1>3, <1>4, EditorKept DEF EditorInv

(* A clone of a panel is written and opened.                               *)
LEMMA FinalizeKeepsEditor ==
  ASSUME EditorInv, NEW s \in Slots, NEW p \in Panels, NEW f \in Names, Finalize(s, p, f),
         pending' \subseteq Panels
  PROVE  EditorInv'
<1> DEFINE fresh == [panel |-> p, marks |-> {}]
           request == [Idle EXCEPT !.kind = "finalize", !.at = "manifests",
                                   !.file = f, !.panel = p]
<1>1. fresh \in Contents
  BY DEF Contents
<1>2. /\ files' = [files EXCEPT ![f] = fresh] /\ store' = fresh /\ editing' = f
      /\ rq' = [rq EXCEPT ![s] = request]
  BY DEF Finalize, OpenFrom
<1>3. request \in Requests /\ Carries(request)
  BY DEF Idle, Requests, Carries
<1>4. files'[f] # None
  BY <1>1, <1>2, ContentIsSome DEF EditorInv
<1>5. rq' \in [Slots -> Requests] /\ \A t \in Slots : Carries(rq'[t])
  BY <1>2, <1>3 DEF EditorInv
<1> HIDE DEF fresh, request
<1> QED BY <1>1, <1>2, <1>4, <1>5, EditorKept

(* A request goes on, or ends: what its slot holds then it carries.        *)
LEMMA SlotKept ==
  ASSUME EditorInv, NEW s \in Slots, NEW r \in Requests, Carries(r),
         rq' = [rq EXCEPT ![s] = r]
  PROVE  rq' \in [Slots -> Requests] /\ \A t \in Slots : Carries(rq'[t])
BY DEF EditorInv

(* A file read for the generator after it was marked.                      *)
LEMMA GoesOn ==
  ASSUME EditorInv, NEW s \in Slots, rq[s].kind \in {"profiles", "finalize"},
         NEW read \in Contents, NEW imported \in BOOLEAN
  PROVE  LET at == [rq[s] EXCEPT !.at = "statistics"]
             weather == [rq[s] EXCEPT !.at = "weather", !.read = read]
             after == [rq[s] EXCEPT !.at = "weather", !.read = read, !.imported = imported]
         IN /\ at \in Requests /\ Carries(at)
            /\ weather \in Requests /\ Carries(weather)
            /\ after \in Requests /\ Carries(after)
<1>1. rq[s] \in Requests /\ Carries(rq[s])
  BY DEF EditorInv
<1> QED BY <1>1 DEF Requests, Carries

(* The answers that write what was read, and may open it.                  *)
LEMMA GeneratedKeepsEditor ==
  ASSUME EditorInv, NEW s \in Slots, CloneGenerated(s) \/ FinalizeGenerated(s)
  PROVE  EditorInv'
<1> DEFINE f == rq[s].file
<1>1. /\ rq[s].at = "weather" /\ f \in Names
      /\ Derived(s, f) /\ rq' = [rq EXCEPT ![s] = Idle] /\ pending' = pending
      /\ \/ UNCHANGED editor
         \/ files'[f] # None /\ OpenFrom(files'[f], f)
  BY DEF CloneGenerated, FinalizeGenerated, Resume, End, EditorInv, Carries
<1>2. PICK c \in Contents : files' \in {files, [files EXCEPT ![f] = c]}
  BY <1>1, DerivedWrites
<1>3. rq' \in [Slots -> Requests] /\ \A t \in Slots : Carries(rq'[t])
  BY <1>1, IdleCarries, SlotKept
<1>4. store' \in Contents /\ editing' \in Names /\ files'[editing'] # None
  <2>1. CASE UNCHANGED editor
    BY <1>1, <1>2, <2>1, EditingStays DEF editor, EditorInv
  <2>2. CASE files'[f] # None /\ OpenFrom(files'[f], f)
    BY <1>1, <1>2, <2>2 DEF OpenFrom, EditorInv
  <2> QED BY <1>1, <2>1, <2>2
<1> HIDE DEF f
<1> QED BY <1>1, <1>2, <1>3, <1>4, EditorKept DEF EditorInv

(* Home Assistant's answers mark the file; the editor may take them.       *)
LEMMA HomeAssistantKeepsEditor ==
  ASSUME EditorInv, NEW s \in Slots, ManifestsArrive(s) \/ ProfilesArrive(s) \/ NoProfiles(s)
  PROVE  EditorInv'
<1> DEFINE f == rq[s].file
<1>1. rq[s].kind \in {"profiles", "finalize"} /\ f \in Names /\ pending' = pending
  BY DEF ManifestsArrive, ProfilesArrive, NoProfiles, Resume, EditorInv, Carries
<1>2. PICK c \in Contents : files' \in {files, [files EXCEPT ![f] = c]}
  <2>1. CASE NoProfiles(s)
    BY <2>1 DEF NoProfiles, EditorInv
  <2>2. CASE ManifestsArrive(s) \/ ProfilesArrive(s)
    <3>1. Exists(f) /\ \E mark \in Marks : files' = Marked(f, mark)
      BY <2>2 DEF ManifestsArrive, ProfilesArrive, Marks
    <3> HIDE DEF f
    <3> QED BY <1>1, <3>1, MarkedWrites DEF EditorInv
  <2> QED BY <2>1, <2>2
<1>3. files' \in [Names -> Contents \cup {None}]
  BY <1>2 DEF EditorInv
<1>4. files[f] # None => files'[f] \in Contents
  BY <1>1, <1>2, ContentIsSome DEF EditorInv
<1>5. \E r \in Requests : rq' = [rq EXCEPT ![s] = r] /\ Carries(r)
  <2>1. CASE ManifestsArrive(s)
    <3>1. files'[f] \in Contents
      BY <2>1, <1>4 DEF ManifestsArrive, Exists
    <3>2. CASE Goto(s, "statistics")
      BY <1>1, <3>1, <3>2, GoesOn DEF Goto, EditorInv
    <3>3. CASE Generate(s)
      BY <1>1, <3>1, <3>3, GoesOn, ZenonT(40) DEF Generate, EditorInv
    <3>4. CASE End(s)
      BY <3>4, IdleCarries DEF End
    <3> QED BY <2>1, <3>2, <3>3, <3>4 DEF ManifestsArrive
  <2>2. CASE ProfilesArrive(s)
    <3>1. files'[f] \in Contents
      BY <2>2, <1>4 DEF ProfilesArrive, Exists
    <3>2. CASE rq[s].kind = "finalize"
      <4> DEFINE after == [rq[s] EXCEPT !.at = "weather", !.read = files'[f], !.imported = TRUE]
      <4>1. rq' = [rq EXCEPT ![s] = after]
        BY <2>2, <3>2 DEF ProfilesArrive, EditorInv
      <4>2. after \in Requests /\ Carries(after)
        BY <1>1, <3>1, GoesOn
      <4> QED BY <4>1, <4>2
    <3>3. CASE rq[s].kind # "finalize"
      BY <2>2, <3>3, IdleCarries DEF ProfilesArrive, End
    <3> QED BY <3>2, <3>3
  <2>3. CASE NoProfiles(s)
    <3>1. CASE rq[s].kind = "finalize" /\ Exists(f)
      <4>1. files'[f] \in Contents
        BY <3>1, <1>4 DEF Exists
      <4> DEFINE weather == [rq[s] EXCEPT !.at = "weather", !.read = files'[f]]
      <4>2. rq' = [rq EXCEPT ![s] = weather]
        BY <2>3, <3>1 DEF NoProfiles, Generate, EditorInv
      <4>3. weather \in Requests /\ Carries(weather)
        BY <1>1, <4>1, GoesOn
      <4> QED BY <4>2, <4>3
    <3>2. CASE ~(rq[s].kind = "finalize" /\ Exists(f))
      BY <2>3, <3>2, IdleCarries DEF NoProfiles, End
    <3> QED BY <3>1, <3>2
  <2> QED BY <2>1, <2>2, <2>3
<1>6. rq' \in [Slots -> Requests] /\ \A t \in Slots : Carries(rq'[t])
  BY <1>5, SlotKept
<1>7. editing' = editing /\ store' \in Contents
  <2>1. CASE UNCHANGED editor
    BY <2>1 DEF editor, EditorInv
  <2>2. CASE ProfilesArrive(s)
    BY <2>2, <1>4 DEF ProfilesArrive, editor, EditorInv, Exists
  <2> QED BY <2>1, <2>2 DEF ManifestsArrive, NoProfiles
<1>8. files'[editing'] # None
  BY <1>1, <1>2, <1>7, EditingStays
<1> HIDE DEF f
<1> QED BY <1>1, <1>2, <1>6, <1>7, <1>8, EditorKept DEF EditorInv

(* A scrape's answer goes into the editor, or opens a new clone.           *)
LEMMA ScrapedKeepsEditor ==
  ASSUME EditorInv, NEW s \in Slots, ScrapedPanel(s) \/ SourceScraped(s) \/ ScrapeFails(s)
  PROVE  EditorInv'
<1>1. CASE ScrapedPanel(s)
  <2> DEFINE p == rq[s].panel
  <2>1. p \in Panels /\ CloneFile[p] \in Names
    BY <1>1, DashboardValues DEF ScrapedPanel, Resume, EditorInv, Carries, Names
  <2>2. CASE Exists(CloneFile[p])
    <3>1. /\ pending' \subseteq Panels /\ UNCHANGED <<files, editor>>
          /\ rq' = [rq EXCEPT ![s] = Idle]
      BY <1>1, <2>1, <2>2 DEF ScrapedPanel, End, EditorInv
    <3> QED BY <3>1, IdleCarries, SlotKept DEF editor, EditorInv, Exists
  <2>3. CASE ~Exists(CloneFile[p])
    <3>1. Finalize(s, p, CloneFile[p]) /\ pending' \subseteq Panels
      BY <1>1, <2>3 DEF ScrapedPanel, EditorInv
    <3> HIDE DEF p
    <3> QED BY <2>1, <3>1, FinalizeKeepsEditor
  <2> QED BY <2>2, <2>3
<1>2. CASE SourceScraped(s)
  <2>1. /\ rq' = [rq EXCEPT ![s] = Idle] /\ UNCHANGED <<pending, editing>>
        /\ \/ Persist(With(store, "snapshot"))
           \/ files' = files /\ store' = With(store, "seeds")
    BY <1>2 DEF SourceScraped, End
  <2>2. With(store, "snapshot") \in Contents /\ With(store, "seeds") \in Contents
    BY WithType DEF EditorInv, Marks
  <2>3. store' \in Contents /\ files' \in {files, [files EXCEPT ![editing] = store']}
    BY <2>1, <2>2, PersistWrites
  <2>4. rq' \in [Slots -> Requests] /\ \A t \in Slots : Carries(rq'[t])
    BY <2>1, IdleCarries, SlotKept
  <2>5. files'[editing'] # None
    BY <2>1, <2>3, EditingStays DEF EditorInv
  <2> QED BY <2>1, <2>3, <2>4, <2>5, EditorKept DEF EditorInv
<1>3. CASE ScrapeFails(s)
  <2>1. /\ UNCHANGED <<files, editor, pending>>
        /\ rq' = [rq EXCEPT ![s] = Idle]
    BY <1>3 DEF ScrapeFails, End
  <2> QED BY <2>1, IdleCarries, SlotKept DEF editor, EditorInv, Exists
<1> QED BY <1>1, <1>2, <1>3

(* The unlink: the editor of a file that goes falls back to a default,     *)
(* which none of the deletes removes.                                      *)
LEMMA PurgedKeepsEditor ==
  ASSUME EditorInv, NEW s \in Slots, Purged(s)
  PROVE  EditorInv'
<1> DEFINE f == rq[s].file
<1>1. f \in Owned /\ rq' = [rq EXCEPT ![s] = Idle] /\ pending' = pending
  BY DEF Purged, Resume, End, EditorInv, Carries
<1>2. rq' \in [Slots -> Requests] /\ \A t \in Slots : Carries(rq'[t])
  BY <1>1, IdleCarries, SlotKept
<1>3. CASE UNCHANGED <<files, editor>>
  BY <1>1, <1>2, <1>3 DEF editor, EditorInv, Exists
<1>4. CASE files' = [files EXCEPT ![f] = None]
  <2>1. files' \in [Names -> Contents \cup {None}]
    BY <1>4 DEF EditorInv
  <2>2. /\ \A g \in Names : g # f => files'[g] = files[g]
        /\ \A d \in Defaults : d # f /\ d \in Names
    BY <1>1, <1>4, DashboardValues DEF EditorInv, Names
  <2>3. \A d \in Defaults : files'[d] # None
    BY <2>2 DEF EditorInv, Exists
  <2>4. CASE f = editing
    <3>1. editing' = FirstDefault /\ store' = files[FirstDefault] /\ FirstDefault \in Defaults
      BY <1>1, <2>4, DashboardValues DEF Purged, EditorInv, Open, OpenFrom
    <3>2. files[FirstDefault] \in Contents
      BY <3>1, <2>2 DEF EditorInv, Exists
    <3> QED BY <1>1, <1>2, <2>1, <2>2, <2>3, <3>1, <3>2 DEF EditorInv, Exists
  <2>5. CASE f # editing
    <3>1. UNCHANGED editor
      BY <2>5 DEF Purged
    <3> QED BY <1>1, <1>2, <2>1, <2>2, <2>3, <2>5, <3>1 DEF EditorInv, Exists, editor
  <2> QED BY <2>4, <2>5
<1> QED BY <1>3, <1>4 DEF Purged

(* The editor's invariant holds in every behaviour.                        *)
LEMMA EditorHolds == Spec => []EditorInv
<1>1. Init => EditorInv
  <2> SUFFICES ASSUME Init PROVE EditorInv
    OBVIOUS
  <2>1. /\ files \in [Names -> Contents \cup {None}] /\ FirstDefault \in Names
        /\ files[FirstDefault] # None
        /\ \A d \in Defaults : files[d] # None
    BY DashboardValues DEF Init, Names
  <2>2. store \in Contents /\ editing = FirstDefault
    BY <2>1 DEF Init
  <2> QED BY <2>1, <2>2, IdleCarries DEF Init, EditorInv, Exists
<1>2. EditorInv /\ [Next]_dashVars => EditorInv'
  <2> SUFFICES ASSUME EditorInv, [Next]_dashVars
               PROVE  EditorInv'
    OBVIOUS
  <2>1. CASE Handle
    <3>1. CASE \/ Edit \/ EditAndSave \/ SaveReload \/ PutChargeMode \/ RestoreRecorder
               \/ \E p \in Panels : Import(p)
               \/ \E f \in Names : LoadConfig(f) \/ ControlPanel(f)
      BY <3>1, SyncKeepsEditor
    <3>2. CASE \E s \in Slots :
                 \/ \E f \in Names, source \in Names : Clone(s, f, source)
                 \/ \E p \in Panels : CloneFromPanel(s, p)
                 \/ ImportProfiles(s) \/ ScrapeSource(s)
                 \/ \E f \in Owned : Delete(s, f)
      BY <3>2, BeginKeepsEditor
    <3>3. CASE \E s \in Slots : \E p \in Panels, f \in Names : CloneConfirm(s, p, f)
      <4>1. PICK s \in Slots, p \in Panels, f \in Names : CloneConfirm(s, p, f)
        BY <3>3
      <4>2. Finalize(s, p, f) /\ pending' \subseteq Panels
        BY <4>1 DEF CloneConfirm, EditorInv
      <4> QED BY <4>2, FinalizeKeepsEditor
    <3> QED BY <2>1, <3>1, <3>2, <3>3 DEF Handle
  <2>2. CASE AppReload \/ UNCHANGED dashVars
    BY <2>2 DEF AppReload, dashVars, editor, EditorInv, Exists
  <2>3. CASE \E s \in Slots : Answer(s)
    <3>1. PICK s \in Slots : Answer(s)
      BY <2>3
    <3> QED BY <3>1, GeneratedKeepsEditor, HomeAssistantKeepsEditor, ScrapedKeepsEditor,
               PurgedKeepsEditor DEF Answer
  <2> QED BY <2>1, <2>2, <2>3 DEF Next
<1> QED BY <1>1, <1>2, PTL DEF Spec

(* Whatever runs during whatever awaits, the editor is of a file that is   *)
(* there: a delete looks at the editor after its await.                    *)
THEOREM EditorHasItsFile == Spec => []EditorFileExists
<1>1. EditorInv => EditorFileExists
  BY DEF EditorInv, EditorFileExists
<1> QED BY <1>1, EditorHolds, PTL

(* Saving, restoring, a charge mode and a delete write the user's own      *)
(* files alone.                                                            *)
LEMMA OwnFilesOnly ==
  ASSUME EditorInv, NEW d \in Defaults, NEW f \in Owned, NEW c,
         files' = files \/ files' = [files EXCEPT ![f] = c]
  PROVE  files'[d] = files[d]
BY DashboardValues DEF EditorInv, Names

LEMMA IdleKind == Idle.kind = "idle"
BY DEF Idle

(* A request that begins or ends a step of a clone to that name makes it.  *)
LEMMA MakesTheClone ==
  ASSUME NEW s \in Slots, NEW d, rq[s].kind # rq'[s].kind,
         \/ rq[s].kind \in {"clone", "finalize"} /\ rq[s].file = d
         \/ rq'[s].kind \in {"clone", "finalize"} /\ rq'[s].file = d
  PROVE  \E t \in Slots : ClonesTo(t, d)
<1>1. rq'[s] # rq[s]
  OBVIOUS
<1>2. \E request \in {rq[s], rq'[s]} :
        request.kind \in {"clone", "finalize"} /\ request.file = d
  OBVIOUS
<1>3. ClonesTo(s, d)
  BY <1>1, <1>2 DEF ClonesTo
<1> QED BY <1>3

(* What a step that changes a shipped default is: a clone's, to its name.  *)
LEMMA DefaultChange ==
  ASSUME EditorInv, Next, NEW d \in Defaults,
         files[d].panel = None, files'[d] # files[d]
  PROVE  \E s \in Slots : ClonesTo(s, d)
<1>1. d \in Names /\ d \notin Owned
  BY DashboardValues DEF Names
<1>2. \A c : ~Persist(c)
  <2> SUFFICES ASSUME NEW c, Persist(c) PROVE FALSE
    OBVIOUS
  <2>1. files' = files \/ (editing \in Owned /\ files' = [files EXCEPT ![editing] = c])
    BY DEF Persist
  <2> QED BY <2>1, OwnFilesOnly
<1>3. ~(files' = files)
  OBVIOUS
<1>4. \A s \in Slots, p \in Panels, f \in Names :
         Finalize(s, p, f) => f = d /\ rq'[s].file = d /\ rq'[s].kind = "finalize"
  <2> SUFFICES ASSUME NEW s \in Slots, NEW p \in Panels, NEW f \in Names, Finalize(s, p, f)
               PROVE  f = d /\ rq'[s].file = d /\ rq'[s].kind = "finalize"
    OBVIOUS
  <2>1. f = d
    BY DEF Finalize, EditorInv
  <2> QED BY <2>1 DEF Finalize, Idle, EditorInv
<1>5. CASE Handle
  <2>1. \/ PutChargeMode
        \/ \E s \in Slots : \E f \in Names, source \in Names : Clone(s, f, source)
        \/ \E s \in Slots : \E p \in Panels, f \in Names : CloneConfirm(s, p, f)
    BY <1>2, <1>3, <1>5 DEF Handle, Edit, EditAndSave, SaveReload, RestoreRecorder, Import, LoadConfig,
       ControlPanel, CloneFromPanel, ImportProfiles, ScrapeSource, Delete
  <2>2. ~PutChargeMode
    <3> SUFFICES ASSUME PutChargeMode PROVE FALSE
      OBVIOUS
    <3>1. \/ files' = files
          \/ editing \in Owned /\ files' = [files EXCEPT ![editing] = With(store, "bess")]
      BY DEF PutChargeMode
    <3> QED BY <3>1, OwnFilesOnly
  <2>3. CASE \E s \in Slots : \E f \in Names, source \in Names : Clone(s, f, source)
    <3>1. PICK s \in Slots, f \in Names, source \in Names : Clone(s, f, source)
      BY <2>3
    <3>2. f = d
      BY <3>1 DEF Clone, EditorInv
    <3>3. rq'[s].file = f /\ rq'[s].kind = "clone"
      BY <3>1 DEF Clone, Begin, Idle, EditorInv
    <3>4. rq[s] = Idle
      BY <3>1 DEF Clone, Begin
    <3>5. rq[s].kind # rq'[s].kind /\ rq'[s].kind \in {"clone", "finalize"} /\ rq'[s].file = d
      BY <3>2, <3>3, <3>4, IdleKind
    <3> QED BY <3>5, MakesTheClone
  <2>4. CASE \E s \in Slots : \E p \in Panels, f \in Names : CloneConfirm(s, p, f)
    <3>1. PICK s \in Slots, p \in Panels, f \in Names : CloneConfirm(s, p, f)
      BY <2>4
    <3>2. rq'[s].file = d /\ rq'[s].kind = "finalize"
      BY <3>1, <1>4 DEF CloneConfirm
    <3>3. rq[s] = Idle
      BY <3>1 DEF CloneConfirm
    <3>4. rq[s].kind # rq'[s].kind /\ rq'[s].kind \in {"clone", "finalize"} /\ rq'[s].file = d
      BY <3>2, <3>3, IdleKind
    <3> QED BY <3>4, MakesTheClone
  <2> QED BY <2>1, <2>2, <2>3, <2>4
<1>6. CASE \E s \in Slots : Answer(s)
  <2>1. PICK s \in Slots : Answer(s)
    BY <1>6
  <2> DEFINE f == rq[s].file
  <2>2. CASE CloneGenerated(s) \/ FinalizeGenerated(s)
    <3>1. /\ rq[s].kind \in {"clone", "finalize"} /\ rq[s].at = "weather" /\ f \in Names
          /\ Derived(s, f)
      BY <2>2 DEF CloneGenerated, FinalizeGenerated, Resume, EditorInv, Carries
    <3>2. f = d
      BY <3>1 DEF Derived, EditorInv
    <3>3. rq'[s] = Idle
      BY <2>2 DEF CloneGenerated, FinalizeGenerated, End, EditorInv
    <3>4. rq'[s].kind = "idle"
      BY <3>3, IdleKind
    <3>5. rq[s].kind # rq'[s].kind /\ rq[s].kind \in {"clone", "finalize"} /\ rq[s].file = d
      BY <3>1, <3>2, <3>4
    <3> QED BY <3>5, MakesTheClone
  <2>3. CASE ManifestsArrive(s) \/ ProfilesArrive(s)
    <3>1. /\ f \in Names /\ Exists(f)
          /\ \E mark \in Marks : files' = Marked(f, mark)
      BY <2>3 DEF ManifestsArrive, ProfilesArrive, Resume, EditorInv, Carries, Marks
    <3>2. files[f].panel # None /\ \E c : files' = [files EXCEPT ![f] = c]
      <4> HIDE DEF f
      <4> QED BY <1>3, <3>1, MarkedWrites
    <3> QED BY <3>2, <1>1 DEF EditorInv
  <2>4. CASE ScrapedPanel(s)
    <3>1. rq[s].panel \in Panels /\ CloneFile[rq[s].panel] \in Names
      BY <2>4, DashboardValues DEF ScrapedPanel, Resume, EditorInv, Carries, Names
    <3>2. rq'[s].file = d /\ rq'[s].kind = "finalize" /\ rq[s].kind = "panel"
      BY <1>3, <1>4, <2>4, <3>1 DEF ScrapedPanel, Resume
    <3> QED BY <3>2 DEF ClonesTo
  <2>5. CASE SourceScraped(s)
    BY <1>2, <1>3, <2>5 DEF SourceScraped
  <2>6. CASE Purged(s)
    <3>1. f \in Owned
      BY <2>6 DEF Purged, Resume, EditorInv, Carries
    <3>2. files' = files \/ files' = [files EXCEPT ![f] = None]
      BY <2>6 DEF Purged
    <3> HIDE DEF f
    <3> QED BY <3>1, <3>2, OwnFilesOnly
  <2> QED BY <1>3, <2>1, <2>2, <2>3, <2>4, <2>5, <2>6 DEF Answer, ScrapeFails, NoProfiles
<1> QED BY <1>3, <1>5, <1>6 DEF Next, AppReload

(* A shipped default, of no panel, is changed by no request but a clone to *)
(* its very name, whichever request finds it open when its answer arrives. *)
THEOREM DefaultsAreKept == Spec => DefaultsOnlyCloned
<1>1. EditorInv /\ [Next]_dashVars =>
        [\A d \in Defaults :
           files[d].panel = None /\ files'[d] # files[d] =>
             \E s \in Slots : ClonesTo(s, d)]_dashVars
  BY DefaultChange
<1> QED BY <1>1, EditorHolds, PTL DEF Spec, DefaultsOnlyCloned
=============================================================================
