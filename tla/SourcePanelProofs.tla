---- MODULE SourcePanelProofs ----
\* What SourcePanel keeps, for any number of panels, scrapes, files and faults.
EXTENDS SourcePanel, FiniteSetTheorems, TLAPS

\* The strengthening: a broker only ever accepts what its panel issued, so a
\* scrape that got through, or that registered, holds such a credential.
BrokerAcceptsOwn == \A p \in Panels : accepted[p] \subseteq Issued(p, issued[p])
HonestScrape(r) ==
    /\ r \in Scrape
    /\ r.phase # "idle" => r.host \in Hosts
    /\ r.phase \in {"keep", "tree", "done"} => r.using \in Issued(r.host, issued[r.host])
HonestScrapes == scrape \in [Slots -> Scrape] /\ \A s \in Slots : HonestScrape(scrape[s])
StoreInv ==
    /\ store \in [Panels -> Secrets] /\ damaged \in BOOLEAN
    /\ cfg \in [1 .. Files -> Passphrases \cup {None}]
    /\ KeptBrokerWorked
PanelInv ==
    /\ issued \in [Panels -> 1 .. MaxIssued]
    /\ accepted \in [Panels -> SUBSET Credentials]
    /\ BrokerAcceptsOwn
Counted == started \in 0 .. MaxScrapes /\ faults \in 0 .. MaxFaults
IInv == StoreInv /\ PanelInv /\ HonestScrapes /\ Counted

LEMMA IInvTyped == IInv => SourceTypeOK /\ KeptBrokerWorked
  BY DEF IInv, StoreInv, PanelInv, HonestScrapes, Counted, SourceTypeOK

\* A file that is the first of those asked for exists.
LEMMA FirstExists ==
    ASSUME NEW S \in SUBSET Nat, S # {}
    PROVE  \E m \in S : \A k \in S : m <= k
<1> DEFINE Less == OpToRel(<, Nat)
<1>1. PICK m \in S : \A k \in S : ~ (<<k, m>> \in Less)
  <2>1. IsWellFoundedOn(Less, Nat)
    BY NatLessThanWellFounded
  <2> HIDE DEF Less
  <2> QED
    BY <2>1, WFMin, Zenon
<1>2. ASSUME NEW k \in S
      PROVE  m <= k
  <2>1. k \in Nat /\ m \in Nat
    OBVIOUS
  <2>2. k < m => <<k, m>> \in Less
    BY <2>1 DEF OpToRel
  <2>3. ~ (k < m)
    <3> HIDE DEF Less
    <3> QED
      BY <1>1, <2>2
  <2> HIDE DEF Less
  <2> QED
    BY <2>1, <2>3
<1> QED
  BY <1>2

\* What remember leaves is a store again, changed for one panel alone.
LEMMA RememberedTyped ==
    ASSUME NEW st \in [Panels -> Secrets], NEW p \in Panels,
           NEW ph \in Passphrases \cup {None}, NEW c \in Credentials \cup {None}
    PROVE  /\ Remembered(st, p, ph, c) \in [Panels -> Secrets]
           /\ \A q \in Panels : q # p => Remembered(st, p, ph, c)[q] = st[q]
           /\ Remembered(st, p, ph, c)[p].broker \in {st[p].broker, c}
           /\ c = None => Remembered(st, p, ph, c)[p].broker = st[p].broker
           /\ c # None => Remembered(st, p, ph, c)[p].broker # None
           /\ ph = None => Remembered(st, p, ph, c)[p].passphrase = st[p].passphrase
           /\ ph # None => Remembered(st, p, ph, c)[p].passphrase # None
  BY DEF Remembered, Secrets

\* What a migration leaves is a store again, with the same brokers in it, and with
\* a passphrase for every panel that had one there or in a file it went through.
LEMMA MovedTyped ==
    ASSUME SourceTypeOK, NEW n \in 0 .. Files
    PROVE  /\ MovedFrom(n) \in [Panels -> Secrets]
           /\ \A p \in Panels : MovedFrom(n)[p].broker = store[p].broker
           /\ \A p \in Panels : store[p].passphrase # None => MovedFrom(n)[p].passphrase # None
           /\ \A f \in 1 .. n : cfg[f] # None => MovedFrom(n)[Origin[f]].passphrase # None
<1> USE SourceAssumption
<1> DEFINE Holders(p) == {f \in 1 .. n : Origin[f] = p /\ cfg[f] # None}
           First(p) == CHOOSE f \in Holders(p) : \A g \in Holders(p) : f <= g
<1>1. ASSUME NEW p \in Panels, Holders(p) # {}
      PROVE  First(p) \in Holders(p)
  <2>1. Holders(p) \in SUBSET Nat
    OBVIOUS
  <2>2. \E f \in Holders(p) : \A g \in Holders(p) : f <= g
    <3> HIDE DEF Holders
    <3> QED
      BY <1>1, <2>1, FirstExists
  <2> HIDE DEF Holders
  <2> QED
    BY <2>2
<1>2. ASSUME NEW p \in Panels
      PROVE  MovedFrom(n)[p] = IF store[p].passphrase # None \/ Holders(p) = {} THEN store[p]
                               ELSE [store[p] EXCEPT !.passphrase = cfg[First(p)]]
  BY DEF MovedFrom
<1>3. ASSUME NEW p \in Panels
      PROVE  /\ MovedFrom(n)[p] \in Secrets
             /\ MovedFrom(n)[p].broker = store[p].broker
             /\ store[p].passphrase # None \/ Holders(p) # {} => MovedFrom(n)[p].passphrase # None
  <2>1. store[p] \in Secrets
    BY DEF SourceTypeOK
  <2>2. CASE store[p].passphrase # None \/ Holders(p) = {}
    <3> HIDE DEF Holders, First
    <3> QED
      BY <1>2, <2>1, <2>2
  <2>3. CASE store[p].passphrase = None /\ Holders(p) # {}
    <3>1. First(p) \in Holders(p)
      BY <1>1, <2>3
    <3>2. First(p) \in 1 .. Files /\ cfg[First(p)] # None
      <4> HIDE DEF First
      <4> QED
        BY <3>1
    <3>3. cfg[First(p)] \in Passphrases
      <4> HIDE DEF First
      <4> QED
        BY <3>2 DEF SourceTypeOK
    <3>4. MovedFrom(n)[p] = [store[p] EXCEPT !.passphrase = cfg[First(p)]]
      <4> HIDE DEF First, Holders
      <4> QED
        BY <1>2, <2>3
    <3> HIDE DEF First, Holders
    <3> QED
      BY <2>1, <3>2, <3>3, <3>4 DEF Secrets
  <2> QED
    BY <2>2, <2>3
<1>4. MovedFrom(n) \in [Panels -> Secrets]
  <2>1. MovedFrom(n) = [p \in Panels |-> MovedFrom(n)[p]]
    BY DEF MovedFrom
  <2> QED
    BY <1>3, <2>1
<1>5. ASSUME NEW f \in 1 .. n, cfg[f] # None
      PROVE  MovedFrom(n)[Origin[f]].passphrase # None
  <2>1. Origin[f] \in Panels /\ f \in Holders(Origin[f])
    BY <1>5
  <2> HIDE DEF Holders
  <2> QED
    BY <1>3, <2>1
<1> QED
  BY <1>3, <1>4, <1>5

LEMMA IdleIsHonest == HonestScrape(Idle)
  BY DEF HonestScrape, Idle, Scrape

LEMMA IInvInit == Init => IInv
<1> SUFFICES ASSUME Init PROVE IInv
  OBVIOUS
<1> USE SourceAssumption
<1>1. \A p \in Panels : Issued(p, 1) \in SUBSET Credentials
  BY DEF Issued, Credentials
<1>2. StoreInv
  BY DEF Init, StoreInv, Secrets, Passphrases, KeptBrokerWorked
<1>3. PanelInv
  BY <1>1 DEF Init, PanelInv, BrokerAcceptsOwn
<1>4. HonestScrapes
  BY IdleIsHonest DEF Init, HonestScrapes, HonestScrape
<1>5. Counted
  BY DEF Init, Counted
<1> QED
  BY <1>2, <1>3, <1>4, <1>5 DEF IInv

\* The panels and the store as they were keep what they promise, for whichever
\* credentials have been issued since.
LEMMA PanelUnchanged == PanelInv /\ UNCHANGED panelVars => PanelInv'
  BY DEF PanelInv, panelVars, BrokerAcceptsOwn

LEMMA StoreUnchanged == StoreInv /\ UNCHANGED <<diskVars, issued>> => StoreInv'
  BY DEF StoreInv, diskVars, KeptBrokerWorked

\* A step that moves one scrape to an honest state leaves all of them honest.
LEMMA OneScrapeMoves ==
    ASSUME HonestScrapes, NEW s \in Slots, NEW r, scrape' = [scrape EXCEPT ![s] = r],
           HonestScrape(r), UNCHANGED issued
    PROVE  HonestScrapes'
  BY DEF HonestScrapes, HonestScrape

\* As does one that ends them all.
LEMMA AllScrapesEnd ==
    ASSUME HonestScrapes, scrape' = [s \in Slots |-> Idle]
    PROVE  HonestScrapes'
  BY DEF HonestScrapes, HonestScrape, Idle, Scrape

\* A scrape that ends, and one that only moves on, stays honest.
LEMMA ScrapeFails ==
    ASSUME HonestScrapes, NEW s \in Slots, Fails(s), UNCHANGED issued
    PROVE  HonestScrapes'
  BY IdleIsHonest, OneScrapeMoves DEF Fails

LEMMA ScrapeSteps ==
    ASSUME HonestScrapes, NEW s \in Slots, NEW phase \in {"connect", "register", "tree"},
           Step(s, phase), UNCHANGED issued, scrape[s].phase # "idle",
           phase = "tree" => scrape[s].using \in Issued(scrape[s].host, issued[scrape[s].host])
    PROVE  HonestScrapes'
<1> DEFINE r == [scrape[s] EXCEPT !.phase = phase]
<1>1. HonestScrape(r)
  BY DEF HonestScrapes, HonestScrape, Scrape
<1>2. scrape' = [scrape EXCEPT ![s] = r]
  BY DEF Step, HonestScrapes
<1> HIDE DEF r
<1> QED
  BY <1>1, <1>2, OneScrapeMoves

\* Keeping a credential its panel issued, with or without a passphrase.
LEMMA KeepsIssued ==
    ASSUME StoreInv, UNCHANGED <<damaged, cfg, issued>>, NEW p \in Panels,
           NEW ph \in Passphrases \cup {None}, NEW c \in Credentials \cup {None},
           c \in Issued(p, issued[p]), store' = Remembered(store, p, ph, c)
    PROVE  StoreInv'
<1>0. store \in [Panels -> Secrets]
  BY DEF StoreInv
<1>1. /\ store' \in [Panels -> Secrets]
      /\ \A q \in Panels : q # p => store'[q] = store[q]
      /\ store'[p].broker \in {store[p].broker, c}
  <2>1. /\ Remembered(store, p, ph, c) \in [Panels -> Secrets]
        /\ \A q \in Panels : q # p => Remembered(store, p, ph, c)[q] = store[q]
        /\ Remembered(store, p, ph, c)[p].broker \in {store[p].broker, c}
    BY <1>0, RememberedTyped
  <2> QED
    BY <2>1
<1>2. KeptBrokerWorked'
  BY <1>1 DEF StoreInv, KeptBrokerWorked
<1> QED
  BY <1>1, <1>2 DEF StoreInv

\* Each step of a scrape.
LEMMA AdvanceKeeps ==
    ASSUME IInv, NEW s \in Slots, Advance(s)
    PROVE  IInv'
<1> USE SourceAssumption DEF IInv
<1> DEFINE r == scrape[s]
<1>0. HonestScrape(r) /\ r \in Scrape
  BY DEF HonestScrapes, HonestScrape
<1>1. CASE UseSupplied(s)
  <2>1. CASE Fails(s)
    BY <1>1, <2>1, ScrapeFails, PanelUnchanged, StoreUnchanged
    DEF UseSupplied, diskVars, panelVars, Counted
  <2>2. CASE scrape' = [scrape EXCEPT ![s].phase = "connect", ![s].using = scrape[s].supplied]
    <3> DEFINE t == [r EXCEPT !.phase = "connect", !.using = r.supplied]
    <3>1. HonestScrape(t)
      BY <1>0, <1>1 DEF HonestScrape, Scrape, UseSupplied
    <3>2. scrape' = [scrape EXCEPT ![s] = t]
      BY <2>2 DEF HonestScrapes
    <3>3. HonestScrapes'
      <4> HIDE DEF t
      <4> QED
        BY <1>1, <3>1, <3>2, OneScrapeMoves DEF UseSupplied, panelVars
    <3> QED
      BY <1>1, <3>3, PanelUnchanged, StoreUnchanged DEF UseSupplied, diskVars, panelVars, Counted
  <2> QED
    BY <1>1, <2>1, <2>2 DEF UseSupplied
<1>2. CASE UseKept(s)
  <2> DEFINE k == store[r.host]
             ph == IF r.passphrase # None THEN r.passphrase ELSE k.passphrase
             next == IF k.broker = None THEN "register" ELSE "connect"
             t == [r EXCEPT !.passphrase = ph, !.using = k.broker, !.kept = k.broker, !.phase = next]
  <2>1. k \in Secrets /\ r.host \in Hosts
    BY <1>0, <1>2 DEF UseKept, HonestScrape, StoreInv
  <2>2. HonestScrape(t)
    BY <1>0, <2>1, ZenonT(40) DEF HonestScrape, Scrape, Secrets
  <2>3. scrape' = [scrape EXCEPT ![s] = t]
    BY <1>2 DEF HonestScrapes, UseKept
  <2>4. HonestScrapes'
    <3> HIDE DEF t
    <3> QED
      BY <1>2, <2>2, <2>3, OneScrapeMoves DEF UseKept, panelVars
  <2> QED
    BY <1>2, <2>4, PanelUnchanged, StoreUnchanged DEF UseKept, diskVars, panelVars, Counted
<1>3. CASE Connected(s)
  <2>1. r.using \in Issued(r.host, issued[r.host])
    BY <1>0, <1>3 DEF Connected, HonestScrape, PanelInv, BrokerAcceptsOwn
  <2>2. HonestScrapes'
    BY <1>3, <2>1, ScrapeSteps DEF Connected, panelVars
  <2> QED
    BY <1>3, <2>2, PanelUnchanged, StoreUnchanged DEF Connected, diskVars, panelVars, Counted
<1>4. CASE Refused(s)
  <2>1. HonestScrapes'
    <3>1. CASE Step(s, "register")
      BY <1>4, <3>1, ScrapeSteps DEF Refused, panelVars
    <3>2. CASE Fails(s)
      BY <1>4, <3>2, ScrapeFails DEF Refused, panelVars
    <3> QED
      BY <1>4, <3>1, <3>2 DEF Refused
  <2> QED
    BY <1>4, <2>1, PanelUnchanged, StoreUnchanged DEF Refused, diskVars, panelVars, Counted
<1>5. CASE Register(s)
  <2> DEFINE p == r.host
             c == <<p, issued[p] + 1>>
             t == [r EXCEPT !.phase = "keep", !.using = c, !.kept = None]
  <2>0. p \in Panels /\ issued[p] \in 1 .. MaxIssued /\ issued[p] + 1 \in 1 .. MaxIssued
    BY <1>0, <1>5 DEF Register, HonestScrape, PanelInv
  <2>1. c \in Credentials /\ issued' = [issued EXCEPT ![p] = @ + 1]
    BY <1>5, <2>0 DEF Register, Credentials
  <2>2. PICK ended : accepted' = [accepted EXCEPT ![p] = (@ \ ended) \cup {c}]
    BY <1>5 DEF Register
  <2>3. \A q \in Panels : Issued(q, issued[q]) \subseteq Issued(q, issued'[q])
    BY <2>0, <2>1 DEF Issued, PanelInv
  <2>4. c \in Issued(p, issued'[p])
    BY <2>0, <2>1 DEF Issued, PanelInv
  <2>5. PanelInv'
    <3>1. accepted' \in [Panels -> SUBSET Credentials]
      BY <2>1, <2>2 DEF PanelInv
    <3>2. issued' \in [Panels -> 1 .. MaxIssued]
      BY <2>0, <2>1 DEF PanelInv
    <3>3. BrokerAcceptsOwn'
      <4> HIDE DEF c, p
      <4> QED
        BY <2>0, <2>2, <2>3, <2>4 DEF BrokerAcceptsOwn, PanelInv
    <3> QED
      BY <3>1, <3>2, <3>3 DEF PanelInv
  <2>6. StoreInv'
    BY <1>5, <2>3 DEF StoreInv, KeptBrokerWorked, Register, diskVars
  <2>7. scrape' = [scrape EXCEPT ![s] = t]
    BY <1>5 DEF HonestScrapes, Register
  <2>8. t \in Scrape /\ t.host = p /\ p \in Hosts /\ t.using = c
    BY <1>0, <1>5, <2>1 DEF Scrape, HonestScrape, Register
  <2>9. HonestScrapes'
    <3> SUFFICES ASSUME NEW u \in Slots
                 PROVE  HonestScrape(scrape[u])'
      BY <2>7, <2>8 DEF HonestScrapes
    <3> HIDE DEF t, c
    <3>1. CASE u = s
      BY <2>4, <2>7, <2>8, <3>1 DEF HonestScrape, HonestScrapes
    <3>2. CASE u # s
      BY <2>3, <2>7, <3>2 DEF HonestScrape, HonestScrapes
    <3> QED
      BY <3>1, <3>2
  <2> QED
    BY <1>5, <2>5, <2>6, <2>9 DEF Register, Counted
<1>6. CASE KeepRegistered(s)
  <2>0. r.host \in Panels /\ r.using \in Issued(r.host, issued[r.host])
    BY <1>0, <1>6 DEF KeepRegistered, HonestScrape
  <2>1. StoreInv'
    BY <1>0, <1>6, <2>0, KeepsIssued DEF KeepRegistered, Remember, Scrape, panelVars
  <2>2. HonestScrapes'
    BY <1>6, ScrapeSteps DEF KeepRegistered, panelVars
  <2> QED
    BY <1>6, <2>1, <2>2, PanelUnchanged DEF KeepRegistered, panelVars, Counted
<1>7. CASE TreeTaken(s)
  <2>1. PICK got \in SUBSET Devices : Validated(s, got)
    BY <1>7 DEF TreeTaken
  <2> DEFINE t == [r EXCEPT !.phase = "done", !.got = got]
  <2>2. HonestScrape(t)
    BY <1>0, <1>7 DEF TreeTaken, HonestScrape, Scrape
  <2>3. scrape' = [scrape EXCEPT ![s] = t] \/ scrape' = [scrape EXCEPT ![s] = Idle]
    BY <2>1 DEF Validated, HonestScrapes
  <2>4. HonestScrapes'
    <3> HIDE DEF t
    <3> QED
      BY <1>7, <2>2, <2>3, IdleIsHonest, OneScrapeMoves DEF TreeTaken, panelVars
  <2> QED
    BY <1>7, <2>4, PanelUnchanged, StoreUnchanged DEF TreeTaken, diskVars, panelVars, Counted
<1>8. CASE Finish(s)
  <2>0. r.host \in Panels /\ r.using \in Issued(r.host, issued[r.host])
    BY <1>0, <1>8 DEF Finish, HonestScrape
  <2>1. StoreInv'
    <3>1. CASE r.supplied = None
      BY <1>8, <3>1, StoreUnchanged DEF Finish, diskVars, panelVars
    <3>2. CASE r.supplied # None
      BY <1>0, <1>8, <2>0, <3>2, KeepsIssued DEF Finish, Remember, Scrape, panelVars
    <3> QED
      BY <3>1, <3>2
  <2>2. HonestScrapes'
    BY <1>8, ScrapeFails DEF Finish, panelVars
  <2> QED
    BY <1>8, <2>1, <2>2, PanelUnchanged DEF Finish, panelVars, Counted
<1>9. CASE GivesUp(s)
  BY <1>9, ScrapeFails, PanelUnchanged, StoreUnchanged DEF GivesUp, diskVars, panelVars, Counted
<1> QED
  BY <1>1, <1>2, <1>3, <1>4, <1>5, <1>6, <1>7, <1>8, <1>9 DEF Advance

\* Each step of the world around the scrapes.
LEMMA OthersKeep ==
    ASSUME IInv, Next, ~ \E s \in Slots : Advance(s)
    PROVE  IInv'
<1> USE SourceAssumption DEF IInv
<1>0. SourceTypeOK
  BY IInvTyped
<1>1. ASSUME NEW n \in 0 .. Files
      PROVE  /\ MovedFrom(n) \in [Panels -> Secrets]
             /\ \A p \in Panels : MovedFrom(n)[p].broker = store[p].broker
             /\ Rewritten(n) \in [1 .. Files -> Passphrases \cup {None}]
  BY <1>0, MovedTyped DEF Rewritten, SourceTypeOK
<1>2. ASSUME NEW s \in Slots, NEW p \in Hosts, NEW ph \in Passphrases \cup {None},
             NEW c \in Supplied(p), Start(s, p, ph, c)
      PROVE  IInv'
  <2> DEFINE t == [Idle EXCEPT !.phase = "serial", !.host = p, !.passphrase = ph, !.supplied = c]
  <2>1. c \in Credentials \cup {None}
    BY DEF Supplied, Credentials
  <2>2. HonestScrape(t)
    BY <2>1 DEF HonestScrape, Scrape, Idle
  <2>3. HonestScrapes'
    <3> scrape' = [scrape EXCEPT ![s] = t]
      BY <1>2 DEF Start
    <3> HIDE DEF t
    <3> QED
      BY <1>2, <2>2, OneScrapeMoves DEF Start, panelVars
  <2>4. Counted'
    BY <1>2 DEF Start, Counted
  <2> QED
    BY <1>2, <2>3, <2>4, PanelUnchanged, StoreUnchanged DEF Start, diskVars, panelVars
<1>3. CASE Migrate
  <2>0. Files \in 0 .. Files
    OBVIOUS
  <2>1. StoreInv'
    BY <1>1, <1>3, <2>0 DEF Migrate, StoreInv, KeptBrokerWorked, panelVars
  <2> QED
    BY <1>3, <2>1, PanelUnchanged DEF Migrate, panelVars, Counted, HonestScrapes, HonestScrape
<1>4. CASE MigrateCut
  <2>1. PICK n \in 0 .. Files - 1 : Cut(n)
    BY <1>4 DEF MigrateCut
  <2>2. n \in 0 .. Files /\ n + 1 \in 0 .. Files
    OBVIOUS
  <2>3. StoreInv'
    BY <1>1, <1>4, <2>1, <2>2 DEF MigrateCut, Cut, StoreInv, KeptBrokerWorked, panelVars
  <2>4. Counted'
    BY <1>4 DEF MigrateCut, Counted
  <2> QED
    BY <1>4, <2>3, <2>4, AllScrapesEnd, PanelUnchanged DEF MigrateCut, panelVars
<1>5. ASSUME NEW f \in 1 .. Files, LoadConfig(f)
      PROVE  IInv'
  <2>1. /\ store' \in [Panels -> Secrets]
        /\ \A p \in Panels : store'[p].broker = store[p].broker
    <3>1. Origin[f] \in Panels /\ cfg[f] \in Passphrases \cup {None} /\ store \in [Panels -> Secrets]
      BY DEF StoreInv
    <3>2. Remembered(store, Origin[f], cfg[f], None) \in [Panels -> Secrets]
      BY <3>1, RememberedTyped
    <3>3. ASSUME NEW p \in Panels
          PROVE  Remembered(store, Origin[f], cfg[f], None)[p].broker = store[p].broker
      <4>1. CASE p = Origin[f]
        BY <3>1, <4>1, RememberedTyped
      <4>2. CASE p # Origin[f]
        BY <3>1, <4>2, RememberedTyped
      <4> QED
        BY <4>1, <4>2
    <3> QED
      BY <1>5, <3>1, <3>2, <3>3 DEF LoadConfig, TakenFrom
  <2>2. StoreInv'
    BY <1>5, <2>1 DEF LoadConfig, StoreInv, KeptBrokerWorked, panelVars
  <2> QED
    BY <1>5, <2>2, PanelUnchanged DEF LoadConfig, panelVars, Counted, HonestScrapes, HonestScrape
<1>6. ASSUME NEW f \in 1 .. Files, DropFile(f)
      PROVE  IInv'
  <2>1. StoreInv'
    BY <1>6 DEF DropFile, StoreInv, KeptBrokerWorked, panelVars
  <2>2. Counted'
    BY <1>6 DEF DropFile, Counted
  <2> QED
    BY <1>6, <2>1, <2>2, PanelUnchanged DEF DropFile, panelVars, HonestScrapes, HonestScrape
<1>7. ASSUME NEW p \in Hosts, Revoke(p)
      PROVE  IInv'
  <2>1. PICK c \in accepted[p] : accepted' = [accepted EXCEPT ![p] = @ \ {c}]
    BY <1>7 DEF Revoke
  <2>2. PanelInv'
    BY <1>7, <2>1 DEF Revoke, PanelInv, BrokerAcceptsOwn
  <2>3. Counted'
    BY <1>7 DEF Revoke, Counted
  <2> QED
    BY <1>7, <2>2, <2>3, StoreUnchanged DEF Revoke, diskVars, HonestScrapes, HonestScrape
<1>8. CASE Damage
  <2>1. StoreInv'
    BY <1>8 DEF Damage, StoreInv, KeptBrokerWorked, panelVars
  <2>2. Counted'
    BY <1>8 DEF Damage, Counted
  <2> QED
    BY <1>8, <2>1, <2>2, PanelUnchanged DEF Damage, panelVars, HonestScrapes, HonestScrape
<1>9. CASE Repair
  <2>1. StoreInv'
    BY <1>9 DEF Repair, StoreInv, KeptBrokerWorked, panelVars
  <2> QED
    BY <1>9, <2>1, PanelUnchanged DEF Repair, panelVars, Counted, HonestScrapes, HonestScrape
<1>10. CASE Crash
  <2>1. Counted'
    BY <1>10 DEF Crash, Counted
  <2> QED
    BY <1>10, <2>1, AllScrapesEnd, StoreUnchanged, PanelUnchanged DEF Crash, diskVars, panelVars
<1> QED
  BY <1>2, <1>3, <1>4, <1>5, <1>6, <1>7, <1>8, <1>9, <1>10 DEF Next

LEMMA IInvStep == IInv /\ [Next]_vars => IInv'
<1> SUFFICES ASSUME IInv, [Next]_vars PROVE IInv'
  OBVIOUS
<1>1. CASE \E s \in Slots : Advance(s)
  BY <1>1, AdvanceKeeps
<1>2. CASE Next /\ ~ \E s \in Slots : Advance(s)
  BY <1>2, OthersKeep
<1>3. CASE UNCHANGED vars
  BY <1>3 DEF vars, diskVars, panelVars, IInv, StoreInv, KeptBrokerWorked, PanelInv,
      BrokerAcceptsOwn, HonestScrapes, HonestScrape, Counted
<1> QED
  BY <1>1, <1>2, <1>3

LEMMA IInvAlways == Spec => []IInv
  BY IInvInit, IInvStep, PTL DEF Spec

\* Whatever is kept for a panel was once given out by that panel: no mistyped
\* credential, and none of another panel's, ever replaces it.
THEOREM StoreHoldsIssued == Spec => []KeptBrokerWorked
  BY IInvAlways, IInvTyped, PTL

\* A step of the system forgets no panel's passphrase, in the store or in a config
\* not yet gone through, and no panel's credentials.
LEMMA StepForgetsNothing ==
    ASSUME IInv, [Next]_vars, NEW p \in Panels
    PROVE  /\ PassphraseKnown(p) => PassphraseKnown(p)'
           /\ store[p].broker # None => store'[p].broker # None
<1> USE SourceAssumption
<1>0. SourceTypeOK
  BY IInvTyped
<1> DEFINE Kept == /\ store[p].passphrase # None => store'[p].passphrase # None
                   /\ store[p].broker # None => store'[p].broker # None
<1>1. CASE UNCHANGED store /\ \A f \in 1 .. Files : cfg[f] # None => cfg'[f] # None
  BY <1>1 DEF PassphraseKnown
<1>2. CASE UNCHANGED cfg /\ Kept
  BY <1>2 DEF PassphraseKnown
<1>3. ASSUME NEW q \in Panels, NEW ph \in Passphrases \cup {None}, NEW c \in Credentials \cup {None},
             store' = Remembered(store, q, ph, c)
      PROVE  Kept
  <2>1. store \in [Panels -> Secrets]
    BY <1>0 DEF SourceTypeOK
  <2>2. CASE p # q
    <3>1. Remembered(store, q, ph, c)[p] = store[p]
      BY <2>1, <2>2, RememberedTyped, SMTT(30)
    <3> QED
      BY <1>3, <3>1
  <2>3. CASE p = q
    <3>1. store[p] \in Secrets /\ p \in DOMAIN store
      BY <2>1
    <3>2. store'[p] = [passphrase |-> IF ph = None THEN store[p].passphrase ELSE ph,
                       broker |-> IF c = None THEN store[p].broker ELSE c]
      BY <1>3, <2>3, <3>1 DEF Remembered
    <3>3. /\ store'[p].passphrase = IF ph = None THEN store[p].passphrase ELSE ph
          /\ store'[p].broker = IF c = None THEN store[p].broker ELSE c
      BY <3>2
    <3> HIDE <1>3
    <3> QED
      BY <3>3
  <2> QED
    BY <2>2, <2>3
<1>4. CASE \E s \in Slots : Advance(s)
  <2>1. PICK s \in Slots : Advance(s)
    BY <1>4
  <2>2. /\ scrape[s].phase \in {"keep", "done"} => scrape[s].host \in Panels
        /\ scrape[s].passphrase \in Passphrases \cup {None}
        /\ scrape[s].using \in Credentials \cup {None}
    BY DEF IInv, HonestScrapes, HonestScrape, Scrape
  <2>3. CASE KeepRegistered(s)
    BY <1>2, <1>3, <2>2, <2>3 DEF KeepRegistered, Remember
  <2>4. CASE Finish(s)
    BY <1>2, <1>3, <2>2, <2>4 DEF Finish, Remember
  <2>5. CASE UNCHANGED diskVars
    BY <1>1, <2>5 DEF diskVars
  <2> QED
    BY <2>1, <2>3, <2>4, <2>5
    DEF Advance, UseSupplied, UseKept, Connected, Refused, Register, TreeTaken, GivesUp
<1>5. CASE Migrate
  <2>1. CASE store[p].passphrase # None
    BY <1>0, <1>5, <2>1, MovedTyped DEF Migrate, PassphraseKnown
  <2>2. CASE store[p].passphrase = None
    BY <1>0, <1>5, <2>2, MovedTyped DEF Migrate, PassphraseKnown
  <2> QED
    BY <2>1, <2>2
<1>6. CASE MigrateCut
  <2>1. PICK n \in 0 .. Files - 1 : Cut(n)
    BY <1>6 DEF MigrateCut
  <2>2. n + 1 \in 0 .. Files /\ \A f \in 1 .. Files : f <= n => f \in 1 .. n + 1
    OBVIOUS
  <2>3. /\ \A q \in Panels : store'[q].broker = store[q].broker
        /\ store[p].passphrase # None => store'[p].passphrase # None
        /\ \A f \in 1 .. n + 1 : cfg[f] # None => store'[Origin[f]].passphrase # None
    BY <1>0, <2>1, <2>2, MovedTyped DEF Cut
  <2>4. \A f \in 1 .. Files : f <= n \/ cfg'[f] = cfg[f]
    BY <2>1 DEF Cut, Rewritten
  <2> QED
    BY <2>2, <2>3, <2>4 DEF PassphraseKnown
<1>7. ASSUME NEW f \in 1 .. Files, LoadConfig(f)
      PROVE  UNCHANGED cfg /\ Kept
  <2>1. Origin[f] \in Panels /\ cfg[f] \in Passphrases \cup {None}
    BY <1>0 DEF SourceTypeOK
  <2> QED
    BY <1>3, <1>7, <2>1 DEF LoadConfig, TakenFrom
<1>8. ASSUME NEW f \in 1 .. Files, DropFile(f)
      PROVE  UNCHANGED store /\ \A g \in 1 .. Files : cfg[g] # None => cfg'[g] # None
  BY <1>8 DEF DropFile
<1>9. CASE Damage \/ Repair \/ Crash \/ (\E q \in Hosts : Revoke(q)) \/ UNCHANGED vars
           \/ \E s \in Slots, q \in Hosts, ph \in Passphrases \cup {None} :
                \E c \in Supplied(q) : Start(s, q, ph, c)
  BY <1>1, <1>9 DEF Damage, Repair, Crash, Revoke, Start, diskVars, vars
<1> QED
  BY <1>1, <1>2, <1>4, <1>5, <1>6, <1>7, <1>8, <1>9 DEF Next

\* No secret known for a panel is ever forgotten: through migrations cut by a
\* crash, damage to the store, and failed and overlapping scrapes.
THEOREM NothingForgotten == Spec => SecretsStayKnown
<1>1. IInv /\ [Next]_vars
      => [\A p \in Panels : /\ PassphraseKnown(p) => PassphraseKnown(p)'
                            /\ store[p].broker # None => store'[p].broker # None]_vars
  BY StepForgetsNothing
<1> QED
  BY <1>1, IInvAlways, PTL DEF Spec, SecretsStayKnown

------------------------------------------------------------------------
\* The whole tree

\* Induction, stated of a set: the least number left out is neither 0 nor the
\* successor of one that is in.
LEMMA AllNumbers ==
    ASSUME NEW S \in SUBSET Nat, 0 \in S, \A n \in S : n + 1 \in S
    PROVE  S = Nat
<1> SUFFICES ASSUME Nat \ S # {}
             PROVE  FALSE
  OBVIOUS
<1>1. PICK m \in Nat \ S : \A k \in Nat \ S : m <= k
  BY FirstExists
<1>2. m # 0 /\ m - 1 \in Nat
  BY <1>1
<1>3. m - 1 \in S
  BY <1>1, <1>2
<1> QED
  BY <1>1, <1>3

\* What is known once those already known that arrived are looked into.
Further(got, known) == known \cup ChildrenOf(known \cap got)

\* The walk of the descriptions is well defined: as many of its steps as are asked
\* for are a function.
LEMMA WalkExists ==
    ASSUME NEW got, NEW k \in Nat
    PROVE  \E g : g = [n \in 0 .. k |-> IF n = 0 THEN {Root} ELSE Further(got, g[n - 1])]
<1> DEFINE Walk(g, m) == g = [n \in 0 .. m |-> IF n = 0 THEN {Root} ELSE Further(got, g[n - 1])]
           S == {m \in Nat : \E g : Walk(g, m)}
<1>1. 0 \in S
  <2>1. Walk([n \in 0 .. 0 |-> {Root}], 0)
    OBVIOUS
  <2> HIDE DEF Walk
  <2> QED
    BY <2>1
<1>2. ASSUME NEW m \in S
      PROVE  m + 1 \in S
  <2>1. PICK g : Walk(g, m)
    OBVIOUS
  <2> DEFINE longer == [n \in 0 .. m + 1 |-> IF n = m + 1 THEN Further(got, g[m]) ELSE g[n]]
  <2>2. m \in Nat
    OBVIOUS
  <2>3. \A n \in 0 .. m : longer[n] = g[n]
    BY <2>2
  <2>4. ASSUME NEW n \in 0 .. m + 1
        PROVE  longer[n] = IF n = 0 THEN {Root} ELSE Further(got, longer[n - 1])
    <3> HIDE DEF longer
    <3>1. CASE n = m + 1
      <4>1. longer[n] = Further(got, g[m]) /\ n # 0 /\ n - 1 = m
        BY <2>2, <3>1 DEF longer
      <4>2. longer[m] = g[m]
        BY <2>2, <2>3
      <4> QED
        BY <4>1, <4>2
    <3>2. CASE n # m + 1
      <4>1. n \in 0 .. m
        BY <2>2, <3>2
      <4>2. g[n] = IF n = 0 THEN {Root} ELSE Further(got, g[n - 1])
        BY <2>1, <4>1
      <4>3. n # 0 => n - 1 \in 0 .. m
        BY <2>2, <4>1
      <4> QED
        BY <2>3, <4>1, <4>2, <4>3
    <3> QED
      BY <3>1, <3>2
  <2>5. Walk(longer, m + 1)
    BY <2>4
  <2> HIDE DEF Walk, longer
  <2> QED
    BY <2>2, <2>5
<1>3. S = Nat
  <2> HIDE DEF S
  <2>1. S \in SUBSET Nat
    BY DEF S
  <2> QED
    BY <1>1, <1>2, <2>1, AllNumbers
<1> QED
  BY <1>3

\* The walk ends with a set nothing more is declared from: a set of devices cannot
\* grow once for each of them.
LEMMA WalkCloses ==
    ASSUME NEW got, NEW g,
           g = [n \in 0 .. Cardinality(Devices) |->
                  IF n = 0 THEN {Root} ELSE Further(got, g[n - 1])]
    PROVE  LET known == g[Cardinality(Devices)]
           IN Root \in known /\ known \subseteq Devices /\ Further(got, known) = known
<1> DEFINE N == Cardinality(Devices)
           Grown(n) == /\ Root \in g[n] /\ g[n] \subseteq Devices
                       /\ Further(got, g[n]) = g[n] \/ Cardinality(g[n]) > n
           S == {n \in Nat : n <= N => Grown(n)}
<1>1. IsFiniteSet(Devices) /\ N \in Nat
  BY TreeAssumption, FS_AddElement, FS_CardinalityType DEF Devices
<1>2. \A n \in 0 .. N : g[n] = IF n = 0 THEN {Root} ELSE Further(got, g[n - 1])
  OBVIOUS
<1>3. 0 \in S
  <2>1. g[0] = {Root}
    BY <1>1, <1>2
  <2>2. Cardinality({Root}) = 1
    BY FS_Singleton
  <2> QED
    BY <2>1, <2>2 DEF Devices
<1>4. ASSUME NEW n \in S
      PROVE  n + 1 \in S
  <2> SUFFICES ASSUME n + 1 <= N
               PROVE  Grown(n + 1)
    OBVIOUS
  <2>1. n \in Nat /\ n \in 0 .. N /\ n + 1 \in 0 .. N /\ n + 1 # 0 /\ (n + 1) - 1 = n
    BY <1>1
  <2>2. Grown(n)
    BY <1>1, <2>1
  <2>3. g[n + 1] = Further(got, g[n])
    BY <1>2, <2>1
  <2> HIDE DEF N
  <2>4. g[n] \subseteq g[n + 1] /\ g[n + 1] \subseteq Devices
    BY <2>2, <2>3 DEF Further, ChildrenOf, Devices
  <2>5. CASE Further(got, g[n]) = g[n]
    BY <2>2, <2>3, <2>5
  <2>6. CASE Further(got, g[n]) # g[n]
    <3>1. IsFiniteSet(g[n + 1]) /\ IsFiniteSet(g[n])
      BY <1>1, <2>4, FS_Subset
    <3>2. /\ Cardinality(g[n]) <= Cardinality(g[n + 1])
          /\ Cardinality(g[n + 1]) # Cardinality(g[n])
      BY <2>3, <2>4, <2>6, <3>1, FS_Subset
    <3>3. Cardinality(g[n]) \in Nat /\ Cardinality(g[n + 1]) \in Nat
      BY <3>1, FS_CardinalityType
    <3>4. Cardinality(g[n + 1]) > n + 1
      BY <2>1, <2>2, <2>6, <3>2, <3>3
    <3> QED
      BY <2>2, <2>4, <3>4
  <2> QED
    BY <2>5, <2>6
<1>5. N \in S
  <2> HIDE DEF S
  <2>1. S \in SUBSET Nat
    BY DEF S
  <2> QED
    BY <1>1, <1>3, <1>4, <2>1, AllNumbers
<1>6. Grown(N)
  <2> HIDE DEF Grown, N
  <2> QED
    BY <1>1, <1>5
<1>7. Cardinality(g[N]) <= N
  BY <1>1, <1>6, FS_Subset
<1>8. Cardinality(g[N]) \in Nat
  BY <1>1, <1>6, FS_Subset, FS_CardinalityType
<1>9. Further(got, g[N]) = g[N]
  BY <1>1, <1>6, <1>7, <1>8
<1> QED
  BY <1>6, <1>9

\* _validate_discovered_tree lets nothing through but the whole tree, though it only
\* knows the devices that those it heard of declare.
THEOREM WholeIsAll ==
    ASSUME NEW got \in SUBSET Devices, Whole(got)
    PROVE  got = Devices
<1> DEFINE N == Cardinality(Devices)
           reach[n \in 0 .. Cardinality(Devices)] ==
             IF n = 0 THEN {Root}
             ELSE LET r == reach[n - 1] IN r \cup ChildrenOf(r \cap got)
<1>1. DeclaredIn(got) = reach[N] \ {Root}
  BY DEF DeclaredIn
<1>2. reach = [n \in 0 .. N |-> IF n = 0 THEN {Root} ELSE Further(got, reach[n - 1])]
  <2>1. N \in Nat
    BY TreeAssumption, FS_AddElement, FS_CardinalityType DEF Devices
  <2>2. \E g : g = [n \in 0 .. N |-> IF n = 0 THEN {Root} ELSE Further(got, g[n - 1])]
    <3> HIDE DEF N
    <3> QED
      BY <2>1, WalkExists
  <2> QED
    BY <2>2 DEF Further
<1> HIDE DEF reach
<1>3. Root \in reach[N] /\ Further(got, reach[N]) = reach[N]
  BY <1>2, WalkCloses
<1>4. reach[N] \subseteq got
  BY <1>1, <1>3 DEF Whole
<1>5. ChildrenOf(reach[N]) \subseteq reach[N]
  <2>1. reach[N] \cap got = reach[N]
    BY <1>4
  <2> QED
    BY <1>3, <2>1 DEF Further
<1>6. Tree \ reach[N] = {}
  <2> SUFFICES ASSUME Tree \ reach[N] # {}
               PROVE  FALSE
    OBVIOUS
  <2>1. PICK d \in Tree \ reach[N] : Parent[d] \notin Tree \ reach[N]
    BY TreeAssumption
  <2>2. Parent[d] \in reach[N]
    BY <1>3, <2>1, SourceAssumption
  <2> QED
    BY <1>5, <2>1, <2>2 DEF ChildrenOf
<1> QED
  BY <1>3, <1>4, <1>6 DEF Devices

\* A scrape that goes on, but not to its end, leaves what the others returned.
LEMMA StillWhole ==
    ASSUME HonestScrapes, ScrapeIsWhole, NEW s \in Slots, NEW r,
           scrape' = [scrape EXCEPT ![s] = r],
           r.phase = "done" => r.got = Devices
    PROVE  ScrapeIsWhole'
  BY DEF ScrapeIsWhole, HonestScrapes

\* Every step but the tree's arrival sends its scrape elsewhere than to its end.
LEMMA WholeStep == HonestScrapes /\ ScrapeIsWhole /\ [Next]_vars => ScrapeIsWhole'
<1> SUFFICES ASSUME HonestScrapes, ScrapeIsWhole, [Next]_vars
             PROVE  ScrapeIsWhole'
  OBVIOUS
<1>1. ASSUME NEW s \in Slots, Advance(s)
      PROVE  ScrapeIsWhole'
  <2>1. ASSUME Fails(s) PROVE ScrapeIsWhole'
    BY <2>1, StillWhole DEF Fails, Idle
  <2>2. ASSUME NEW phase \in {"connect", "register", "tree"}, Step(s, phase)
        PROVE  ScrapeIsWhole'
    <3>1. scrape' = [scrape EXCEPT ![s] = [scrape[s] EXCEPT !.phase = phase]]
      BY <2>2 DEF Step, HonestScrapes
    <3>2. [scrape[s] EXCEPT !.phase = phase].phase = phase
      BY DEF HonestScrapes, Scrape
    <3> QED
      BY <3>1, <3>2, StillWhole
  <2>3. CASE UseSupplied(s)
    <3>1. CASE Fails(s)
      BY <3>1, <2>1
    <3>2. CASE ~Fails(s)
      <4> DEFINE r == [scrape[s] EXCEPT !.phase = "connect", !.using = scrape[s].supplied]
      <4>1. scrape' = [scrape EXCEPT ![s] = r]
        BY <2>3, <3>2 DEF UseSupplied, HonestScrapes
      <4>2. r.phase = "connect"
        BY DEF HonestScrapes, Scrape
      <4> QED
        BY <4>1, <4>2, StillWhole
    <3> QED
      BY <3>1, <3>2
  <2>4. CASE UseKept(s)
    <3> DEFINE k == store[scrape[s].host]
               ph == IF scrape[s].passphrase # None THEN scrape[s].passphrase ELSE k.passphrase
               next == IF k.broker = None THEN "register" ELSE "connect"
               r == [scrape[s] EXCEPT !.passphrase = ph, !.using = k.broker, !.kept = k.broker,
                                      !.phase = next]
    <3>1. scrape' = [scrape EXCEPT ![s].passphrase = ph, ![s].using = k.broker,
                                   ![s].kept = k.broker, ![s].phase = next]
      BY <2>4 DEF UseKept
    <3>2. scrape' = [scrape EXCEPT ![s] = r]
      <4> HIDE DEF ph, next
      <4> QED
        BY <3>1 DEF HonestScrapes
    <3>3. r.phase = next /\ next # "done"
      BY DEF HonestScrapes, Scrape
    <3> HIDE DEF r, next
    <3> QED
      BY <3>2, <3>3, StillWhole
  <2>5. CASE Register(s)
    <3>1. PICK c : scrape' = [scrape EXCEPT ![s].phase = "keep", ![s].using = c, ![s].kept = None]
      BY <2>5 DEF Register
    <3> DEFINE r == [scrape[s] EXCEPT !.phase = "keep", !.using = c, !.kept = None]
    <3>2. scrape' = [scrape EXCEPT ![s] = r]
      BY <3>1 DEF HonestScrapes
    <3>3. r.phase = "keep"
      BY DEF HonestScrapes, Scrape
    <3> QED
      BY <3>2, <3>3, StillWhole
  <2>6. CASE TreeTaken(s)
    <3>1. PICK got \in SUBSET Devices : Validated(s, got)
      BY <2>6 DEF TreeTaken
    <3>2. CASE Valid(got)
      <4> DEFINE r == [scrape[s] EXCEPT !.phase = "done", !.got = got]
      <4>1. scrape' = [scrape EXCEPT ![s] = r]
        BY <3>1, <3>2 DEF Validated, HonestScrapes
      <4>2. got = Devices
        BY <3>2, WholeIsAll DEF Valid
      <4>3. r.got = got
        BY DEF HonestScrapes, Scrape
      <4> QED
        BY <4>1, <4>2, <4>3, StillWhole
    <3>3. CASE ~Valid(got)
      BY <3>1, <3>3, StillWhole DEF Validated, Idle
    <3> QED
      BY <3>2, <3>3
  <2> QED
    BY <1>1, <2>1, <2>2, <2>3, <2>4, <2>5, <2>6
       DEF Advance, Connected, Refused, KeepRegistered, Finish, GivesUp
<1>2. ASSUME NEW s \in Slots, NEW p, NEW ph, NEW c, Start(s, p, ph, c)
      PROVE  ScrapeIsWhole'
  BY <1>2, StillWhole DEF Start, Idle
<1>3. CASE UNCHANGED scrape
  BY <1>3 DEF ScrapeIsWhole
<1>4. CASE scrape' = [s \in Slots |-> Idle]
  BY <1>4 DEF ScrapeIsWhole, Idle
<1> QED
  BY <1>1, <1>2, <1>3, <1>4
     DEF Next, Migrate, MigrateCut, LoadConfig, DropFile, Revoke, Damage, Repair, Crash, vars

\* What a scrape returns is the panel's whole tree, in every behaviour.
THEOREM ScrapesAreWhole == Spec => []ScrapeIsWhole
<1>1. Init => ScrapeIsWhole
  BY DEF Init, ScrapeIsWhole, Idle
<1>2. IInv => HonestScrapes
  BY DEF IInv
<1> QED
  BY <1>1, <1>2, WholeStep, IInvAlways, PTL DEF Spec
====
