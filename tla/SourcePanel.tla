---- MODULE SourcePanel ----
\* The real panels a clone is taken from: scraper.py reads a panel's device tree
\* through its broker, and panel_secrets.py keeps what it takes to reach the
\* panel.  Scrapes (a clone, a sync, a restore) run concurrently as coroutines;
\* they share the secrets file, and the panel's owner acts on his own.  What
\* goes on inside the broker link of a scrape is module BrokerLink.
EXTENDS Integers, FiniteSets, Sequences

CONSTANTS Panels,       \* real panels, named by their serials
          Hosts,        \* BOUND: those of them that are scraped
          Slots,        \* scrapes that may be under way at once
          MaxIssued,    \* BOUND: credentials a panel ever gives out
          MaxScrapes,   \* BOUND: scrapes started
          MaxFaults,    \* BOUND: crashes, damages, failed writes, dropped files, revocations
          Tree,         \* the devices of a panel's tree, below its root
          Parent,       \* [Tree -> Tree \cup {Root}]
          Root,
          Files,        \* the number of config files, in the order a scan reads them
          Origin,       \* [1 .. Files -> Panels]: the panel each was cloned from
          None

ASSUME SourceAssumption ==
    /\ MaxIssued \in Nat \ {0} /\ MaxScrapes \in Nat /\ MaxFaults \in Nat /\ Files \in Nat
    /\ Root \notin Tree /\ Parent \in [Tree -> Tree \cup {Root}]
    /\ Origin \in [1 .. Files -> Panels]
    /\ None \notin Panels /\ Hosts \subseteq Panels

\* Every device of a panel is below its root: none is its own ancestor.
ASSUME TreeAssumption ==
    /\ IsFiniteSet(Tree)
    /\ \A ds \in SUBSET Tree : ds # {} => \E d \in ds : Parent[d] \notin ds

\* One passphrase opens a panel; what else a user types does not.
Passphrases == {"right", "wrong"}
\* What a broker may be asked to accept: what a panel issued, or a typing error.
Typo == <<None, 0>>
Issued(p, n) == {p} \X (1 .. n)
Credentials == (Panels \X (1 .. MaxIssued)) \cup {Typo}
Secrets == [passphrase : Passphrases \cup {None}, broker : Credentials \cup {None}]
Devices == Tree \cup {Root}

VARIABLES store,     \* the secrets file: what is kept for each panel
          damaged,   \* the file cannot be read as a store
          cfg,       \* the passphrase each config's panel_source still holds
          issued,    \* how many credentials each panel gave out
          accepted,  \* those its broker accepts now
          scrape,    \* the scrapes
          started, faults

vars == <<store, damaged, cfg, issued, accepted, scrape, started, faults>>
panelVars == <<issued, accepted>>
diskVars == <<store, damaged, cfg>>

Idle == [phase |-> "idle", host |-> None, passphrase |-> None, supplied |-> None,
         using |-> None, kept |-> None, got |-> {}]

Scrape == [phase : {"idle", "serial", "connect", "register", "keep", "tree", "done"},
           host : Hosts \cup {None}, passphrase : Passphrases \cup {None},
           supplied : Credentials \cup {None}, using : Credentials \cup {None},
           kept : Credentials \cup {None}, got : SUBSET Devices]
SourceTypeOK ==
    /\ store \in [Panels -> Secrets] /\ damaged \in BOOLEAN
    /\ cfg \in [1 .. Files -> Passphrases \cup {None}]
    /\ issued \in [Panels -> 1 .. MaxIssued]
    /\ accepted \in [Panels -> SUBSET Credentials]
    /\ scrape \in [Slots -> Scrape]
    /\ started \in 0 .. MaxScrapes /\ faults \in 0 .. MaxFaults

\* A fresh store, beside configs that an older release wrote with a passphrase.
\* Every panel has one client already: the owner's own.
Init ==
    /\ store = [p \in Panels |-> [passphrase |-> None, broker |-> None]]
    /\ damaged = FALSE
    /\ cfg \in [1 .. Files -> {"right", None}]
    /\ issued = [p \in Panels |-> 1]
    /\ accepted = [p \in Panels |-> Issued(p, 1)]
    /\ scrape = [s \in Slots |-> Idle]
    /\ started = 0 /\ faults = 0

------------------------------------------------------------------------
\* The store

\* get: nothing is read from a damaged file, nor is it taken for an empty one.
Readable == ~damaged

\* remember: what is given replaces what is kept, what is not is left.
Remembered(st, p, passphrase, broker) ==
    [st EXCEPT ![p] =
        [passphrase |-> IF passphrase = None THEN @.passphrase ELSE passphrase,
         broker |-> IF broker = None THEN @.broker ELSE broker]]

\* The store after remember: whole before or after, since the file is replaced by
\* a rename.  An unreadable store refuses; so may a disk that cannot be written.
Remember(p, passphrase, broker) ==
    /\ Readable
    /\ store' = Remembered(store, p, passphrase, broker)

\* take_from_config: the store keeps a passphrase it already holds.
TakenFrom(f) ==
    IF cfg[f] # None /\ store[Origin[f]].passphrase = None
    THEN Remembered(store, Origin[f], cfg[f], None)
    ELSE store

------------------------------------------------------------------------
\* A scrape

Step(s, phase) == scrape' = [scrape EXCEPT ![s].phase = phase]

\* Every way out that is not a result: the ScrapeError reaches the handler.
Fails(s) == scrape' = [scrape EXCEPT ![s] = Idle]

\* scrape_panel is called, by a clone with what the form gave, by a sync or a
\* restore with nothing.  A supplied credential may be the panel's, another
\* panel's, or mistyped.
Start(s, p, passphrase, supplied) ==
    /\ scrape[s].phase = "idle" /\ started < MaxScrapes
    /\ started' = started + 1
    /\ scrape' = [scrape EXCEPT ![s] = [Idle EXCEPT !.phase = "serial", !.host = p,
                                           !.passphrase = passphrase, !.supplied = supplied]]
    /\ UNCHANGED <<diskVars, panelVars, faults>>

\* Mutant: supplied credentials are kept at once, before they are known to work.
UseSuppliedKept(s) ==
    /\ scrape[s].phase = "serial" /\ scrape[s].supplied # None
    /\ scrape' = [scrape EXCEPT ![s].phase = "connect", ![s].using = scrape[s].supplied]
    /\ Remember(scrape[s].host, scrape[s].passphrase, scrape[s].supplied)
    /\ UNCHANGED <<damaged, cfg, panelVars, started, faults>>

\* The panel told its serial and credentials were supplied: those of a panel that
\* is not this one are refused (they are stated with that panel's serial).
UseSupplied(s) ==
    /\ scrape[s].phase = "serial" /\ scrape[s].supplied # None
    /\ IF scrape[s].supplied[1] \in {None, scrape[s].host}
       THEN scrape' = [scrape EXCEPT ![s].phase = "connect", ![s].using = scrape[s].supplied]
       ELSE Fails(s)
    /\ UNCHANGED <<diskVars, panelVars, started, faults>>

\* Otherwise what is kept for the panel is used; without credentials, register.
UseKept(s) ==
    LET k == store[scrape[s].host]
        ph == IF scrape[s].passphrase # None THEN scrape[s].passphrase ELSE k.passphrase IN
    /\ scrape[s].phase = "serial" /\ scrape[s].supplied = None /\ Readable
    /\ scrape' = [scrape EXCEPT ![s].passphrase = ph,
                                ![s].using = k.broker, ![s].kept = k.broker,
                                ![s].phase = IF k.broker = None THEN "register" ELSE "connect"]
    /\ UNCHANGED <<diskVars, panelVars, started, faults>>

\* The broker accepts what it knows.
Connected(s) ==
    /\ scrape[s].phase = "connect"
    /\ scrape[s].using \in accepted[scrape[s].host]
    /\ Step(s, "tree")
    /\ UNCHANGED <<diskVars, panelVars, started, faults>>

\* A CONNACK that refuses the credentials is the one failure a new registration
\* can fix, and only kept credentials with a passphrase are given that chance.
Refused(s) ==
    /\ scrape[s].phase = "connect"
    /\ scrape[s].using \notin accepted[scrape[s].host]
    /\ IF scrape[s].kept # None /\ scrape[s].passphrase # None
       THEN Step(s, "register") ELSE Fails(s)
    /\ UNCHANGED <<diskVars, panelVars, started, faults>>

\* What a panel's register endpoint does with a request: the passphrase opens it,
\* or, with none, the door that was pressed.  A new password for the name may end
\* the one before it.
Register(s) ==
    LET p == scrape[s].host IN
    /\ scrape[s].phase = "register"
    /\ scrape[s].passphrase # "wrong" /\ issued[p] < MaxIssued
    /\ issued' = [issued EXCEPT ![p] = @ + 1]
    /\ \E ended \in {{}, accepted[p] \ Issued(p, 1)} :
          accepted' = [accepted EXCEPT ![p] = (@ \ ended) \cup {<<p, issued[p] + 1>>}]
    /\ scrape' = [scrape EXCEPT ![s].phase = "keep", ![s].using = <<p, issued[p] + 1>>,
                                ![s].kept = None]
    /\ UNCHANGED <<diskVars, started, faults>>

\* The CA was fetched too: what registering returned is kept before it is used.
KeepRegistered(s) ==
    /\ scrape[s].phase = "keep"
    /\ Remember(scrape[s].host, scrape[s].passphrase, scrape[s].using)
    /\ Step(s, "connect")
    /\ UNCHANGED <<damaged, cfg, panelVars, started, faults>>

ChildrenOf(ds) == {d \in Tree : Parent[d] \in ds}
\* Mutant: only the root's own children are looked for.
DeclaredByRoot(got) == ChildrenOf({Root})

\* _declared_descendants: what the root declares, and what those declare that
\* have described themselves.
DeclaredIn(got) ==
    LET reach[n \in 0 .. Cardinality(Devices)] ==
          IF n = 0 THEN {Root}
          ELSE LET r == reach[n - 1] IN r \cup ChildrenOf(r \cap got)
    IN reach[Cardinality(Devices)] \ {Root}

Whole(got) == Root \in got /\ DeclaredIn(got) \subseteq got

\* What _validate_discovered_tree lets through: the root and all it declares
\* described themselves, and a device besides the root is there.
Valid(got) == Whole(got) /\ got # {Root}
Validated(s, got) ==
    scrape' = [scrape EXCEPT ![s] = IF Valid(got) THEN [@ EXCEPT !.phase = "done", !.got = got]
                                                  ELSE Idle]

\* _await_whole_tree: what arrived by the time the tree is whole and quiet, or by
\* its deadline as it stands.  The retained descriptions arrive in any order, and
\* may not all arrive.
TreeTaken(s) ==
    /\ scrape[s].phase = "tree"
    /\ \E got \in SUBSET Devices : Validated(s, got)
    /\ UNCHANGED <<diskVars, panelVars, started, faults>>

\* The tree is the caller's.  Supplied credentials are kept now that they worked.
Finish(s) ==
    /\ scrape[s].phase = "done"
    /\ IF scrape[s].supplied = None THEN UNCHANGED store
       ELSE Remember(scrape[s].host, scrape[s].passphrase, scrape[s].using)
    /\ Fails(s)
    /\ UNCHANGED <<damaged, cfg, panelVars, started, faults>>

\* Mutant: the registration has no timeout, and its refusals raise nothing.
GivesUpLess(s) ==
    /\ scrape[s].phase \in {"serial", "connect", "keep", "done"}
    /\ Fails(s)
    /\ UNCHANGED <<diskVars, panelVars, started, faults>>

\* A panel that does not answer, or does not within the timeout of the await; a
\* passphrase it does not take; an unreadable or unwritable store.
GivesUp(s) ==
    /\ \/ scrape[s].phase \in {"serial", "connect", "register", "keep"}
       \/ scrape[s].phase = "done" /\ scrape[s].supplied # None
    /\ Fails(s)
    /\ UNCHANGED <<diskVars, panelVars, started, faults>>

------------------------------------------------------------------------
\* The configs of an older release

\* The store once files 1 .. n gave up their passphrases: the first file's wins,
\* and the store's own over every file's.
MovedFrom(n) ==
    [p \in Panels |->
        LET holders == {f \in 1 .. n : Origin[f] = p /\ cfg[f] # None} IN
        IF store[p].passphrase # None \/ holders = {} THEN store[p]
        ELSE [store[p] EXCEPT !.passphrase =
                 cfg[CHOOSE f \in holders : \A g \in holders : f <= g]]]
Rewritten(n) == [f \in 1 .. Files |-> IF f <= n THEN None ELSE cfg[f]]

\* migrate_config_files, on every reload.  A store that refuses leaves each file
\* as it was.
Migrate ==
    /\ \E f \in 1 .. Files : cfg[f] # None
    /\ Readable
    /\ store' = MovedFrom(Files) /\ cfg' = Rewritten(Files)
    /\ UNCHANGED <<damaged, panelVars, scrape, started, faults>>

\* Mutant: the file is rewritten before the store is.
CutFileFirst(n) == store' = MovedFrom(n) /\ cfg' = Rewritten(n + 1)

\* The process ends in the middle of a migration: after n files, and after the
\* store's write for the next one, which comes before the file's.
Cut(n) == store' = MovedFrom(n + 1) /\ cfg' = Rewritten(n)
MigrateCut ==
    /\ Readable /\ faults < MaxFaults
    /\ \E n \in 0 .. Files - 1 :
          cfg[n + 1] # None /\ Cut(n)
    /\ scrape' = [s \in Slots |-> Idle]
    /\ faults' = faults + 1
    /\ UNCHANGED <<damaged, panelVars, started>>

\* A config loaded into the editor gives its passphrase up in memory; the file
\* keeps its own until it is saved or migrated.
LoadConfig(f) ==
    /\ cfg[f] # None /\ Readable
    /\ store' = TakenFrom(f)
    /\ store' # store
    /\ UNCHANGED <<damaged, cfg, panelVars, scrape, started, faults>>

------------------------------------------------------------------------
\* What happens around it

\* An old config comes into the directory.
DropFile(f) ==
    /\ faults < MaxFaults /\ cfg[f] = None
    /\ \E ph \in Passphrases : cfg' = [cfg EXCEPT ![f] = ph]
    /\ faults' = faults + 1
    /\ UNCHANGED <<store, damaged, panelVars, scrape, started>>

\* The panel's owner removes a client, whose credentials are refused from then on.
Revoke(p) ==
    /\ faults < MaxFaults
    /\ \E c \in accepted[p] : accepted' = [accepted EXCEPT ![p] = @ \ {c}]
    /\ faults' = faults + 1
    /\ UNCHANGED <<diskVars, issued, scrape, started>>

\* The file is damaged from outside, and repaired by its owner.
Damage ==
    /\ ~damaged /\ faults < MaxFaults
    /\ damaged' = TRUE /\ faults' = faults + 1
    /\ UNCHANGED <<store, cfg, panelVars, scrape, started>>
Repair ==
    /\ damaged /\ damaged' = FALSE
    /\ UNCHANGED <<store, cfg, panelVars, scrape, started, faults>>

\* The process ends, with whatever scrapes were under way, and starts again.
Crash ==
    /\ faults < MaxFaults /\ \E s \in Slots : scrape[s].phase # "idle"
    /\ scrape' = [s \in Slots |-> Idle]
    /\ faults' = faults + 1
    /\ UNCHANGED <<diskVars, panelVars, started>>

\* What a user may supply for a panel: nothing, the owner's own client there or at
\* another panel, or a typing error.
Supplied(p) == {None, Typo} \cup {<<q, 1>> : q \in Panels}

Advance(s) ==
    \/ UseSupplied(s) \/ UseKept(s) \/ Connected(s) \/ Refused(s) \/ Register(s)
    \/ KeepRegistered(s) \/ TreeTaken(s) \/ Finish(s)
    \/ GivesUp(s)

Next ==
    \/ \E s \in Slots, p \in Hosts, ph \in Passphrases \cup {None} :
          \E c \in Supplied(p) : Start(s, p, ph, c)
    \/ \E s \in Slots : Advance(s)
    \/ Migrate \/ MigrateCut \/ \E f \in 1 .. Files : LoadConfig(f) \/ DropFile(f)
    \/ \E p \in Hosts : Revoke(p)
    \/ Damage \/ Repair \/ Crash

\* Each await of a scrape has a timeout, so each of its steps ends one way or
\* another.  Nothing is assumed of the panel, its owner or the tree's arrival.
Fairness == \A s \in Slots : WF_vars(Advance(s))
Spec == Init /\ [][Next]_vars /\ Fairness

------------------------------------------------------------------------
\* What is promised

\* What is kept for a panel is a credential that panel once gave out: never a
\* mistyped one, nor another panel's, however scrapes that were given those run
\* beside others.
KeptBrokerWorked ==
    \A p \in Panels : store[p].broker # None => store[p].broker \in Issued(p, issued[p])

\* A passphrase or a broker credential known for a panel stays known: through
\* moves out of configs cut by a crash, a damaged store, failed and overlapping
\* scrapes.
PassphraseKnown(p) ==
    \/ store[p].passphrase # None
    \/ \E f \in 1 .. Files : Origin[f] = p /\ cfg[f] # None
SecretsStayKnown ==
    [][\A p \in Panels : /\ PassphraseKnown(p) => PassphraseKnown(p)'
                         /\ store[p].broker # None => store'[p].broker # None]_vars

\* What a scrape returns is the panel's whole tree, though it only ever learns of
\* a device from that device's parent.
ScrapeIsWhole ==
    \A s \in Slots : scrape[s].phase = "done" => scrape[s].got = Devices

\* Every scrape ends, whatever the panel and its broker leave unanswered.
ScrapesEnd == \A s \in Slots : scrape[s].phase # "idle" ~> scrape[s].phase = "idle"
====
